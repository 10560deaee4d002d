----------------------------- MODULE StepProofs -----------------------------
(***************************************************************************)
(* Theorems about the evaluator of Step, for every program, every library  *)
(* of builtins and effects, and every budget.                              *)
(***************************************************************************)
EXTENDS StepRef, FiniteSetTheorems, SequenceTheorems, WellFoundedInduction, TLAPS

-----------------------------------------------------------------------------
(* Statuses *)

(* The state step_init makes is a running one without an :effect. *)
LEMMA TypeInit == Init => TypeOK
  BY StepAssumption DEF Init, TypeOK, Statuses

(* step_eval leaves a state that is running, or suspended with its         *)
(* :effect, or the error it returns.                                       *)
LEMMA TypeEval == TypeOK /\ Eval => TypeOK'
<1> SUFFICES ASSUME TypeOK, Eval PROVE TypeOK'
  OBVIOUS
<1>1a. StepCall
  BY DEF Eval, EvalAtom, EvalSymbol, EvalEmptyList, EvalQuote, EvalIf, EvalDo, EvalLet,
     EvalFn, EvalLoop, EvalRecur, EvalCall
<1>0. steps' \in 0 .. MaxSteps
  BY <1>1a, StepAssumption DEF StepCall, TypeOK
<1> USE DEF TypeOK, Statuses, StepCall, Run, Deliver, Fail
<1>1. CASE EvalAtom
  BY <1>0, <1>1 DEF EvalAtom
<1>2. CASE EvalSymbol
  BY <1>0, <1>2 DEF EvalSymbol
<1>3. CASE EvalEmptyList
  BY <1>0, <1>3 DEF EvalEmptyList
<1>4. CASE EvalQuote
  BY <1>0, <1>4 DEF EvalQuote
<1>5. CASE EvalIf
  BY <1>0, <1>5 DEF EvalIf
<1>6. CASE EvalDo
  BY <1>0, <1>6 DEF EvalDo
<1>7. CASE EvalLet
  BY <1>0, <1>7 DEF EvalLet
<1>8. CASE EvalFn
  BY <1>0, <1>8 DEF EvalFn
<1>9. CASE EvalLoop
  BY <1>0, <1>9 DEF EvalLoop
<1>10. CASE EvalRecur
  BY <1>0, <1>10 DEF EvalRecur, HandleRecur, Restart
<1>11. CASE EvalCall
  BY <1>0, <1>11 DEF EvalCall
<1> QED
  BY <1>1, <1>2, <1>3, <1>4, <1>5, <1>6, <1>7, <1>8, <1>9, <1>10, <1>11 DEF Eval

(* What apply_fn ends in: a suspended state has its :effect, an error its  *)
(* kind, and a value is delivered by a running state.                      *)
LEMMA TypeApply ==
    ASSUME TypeOK, Delivering, NEW f, NEW args, NEW s, Apply(f, args, s)
    PROVE  TypeOK'
<1> USE DEF TypeOK, Statuses, Delivering, Run, Deliver, Fail
<1>1. CASE ApplyBuiltin(f, args, s)
  BY <1>1 DEF ApplyBuiltin
<1>2. CASE f.type = "effect" /\ Suspend(f.name, args, s)
  BY <1>2 DEF Suspend
<1>3. CASE ApplyClosure(f, args, s)
  BY <1>3 DEF ApplyClosure
<1>4. CASE ApplyForged(f)
  BY <1>4 DEF ApplyForged, Abort
<1>5. CASE ~Callable(f) /\ Fail("not callable")
  BY <1>5
<1> QED
  BY <1>1, <1>2, <1>3, <1>4, <1>5 DEF Apply

(* deliver_value finishes with an empty stack only, and leaves a state     *)
(* like those of step_eval otherwise.                                      *)
LEMMA TypeDeliver == TypeOK /\ DeliverValue => TypeOK'
<1> SUFFICES ASSUME TypeOK, DeliverValue PROVE TypeOK'
  OBVIOUS
<1> USE DEF TypeOK, Statuses, Delivering, DeliverTo, Run, Deliver, Fail
<1>1. CASE DeliverDone
  BY <1>1 DEF DeliverDone
<1>2. CASE DeliverCall
  <2>1. CASE Apply(CallFunc, CallArgs, Below)
    BY <1>2, <2>1, TypeApply DEF DeliverCall
  <2>2. CASE ~Apply(CallFunc, CallArgs, Below)
    BY <1>2, <2>2 DEF DeliverCall
  <2> QED
    BY <2>1, <2>2
<1>3. CASE DeliverIf
  BY <1>3 DEF DeliverIf
<1>4. CASE DeliverDo
  BY <1>4 DEF DeliverDo
<1>5. CASE DeliverLet
  BY <1>5 DEF DeliverLet
<1>6. CASE DeliverLoop
  BY <1>6 DEF DeliverLoop
<1>7. CASE DeliverTarget
  BY <1>7 DEF DeliverTarget
<1>8. CASE DeliverRecur
  BY <1>8 DEF DeliverRecur, HandleRecur, Restart
<1> QED
  BY <1>1, <1>2, <1>3, <1>4, <1>5, <1>6, <1>7, <1>8 DEF DeliverValue

(* The status, the effect and the error of a state agree after any step.   *)
LEMMA TypeNext == TypeOK /\ [Next]_vars => TypeOK'
<1> SUFFICES ASSUME TypeOK, [Next]_vars PROVE TypeOK'
  OBVIOUS
<1>1. CASE Eval
  BY <1>1, TypeEval
<1>2. CASE DeliverValue
  BY <1>2, TypeDeliver
<1>3. CASE Resume
  BY <1>3 DEF Resume, TypeOK, Statuses
<1>4. CASE StepSuspended
  BY <1>4 DEF StepSuspended, TypeOK, Statuses
<1>5. CASE UNCHANGED vars
  BY <1>5 DEF vars, state, TypeOK
<1> QED
  BY <1>1, <1>2, <1>3, <1>4, <1>5 DEF Next, Stop

(* Every state step() hands out has a status of step.md, an :effect        *)
(* exactly when it is suspended, and nothing left to do when it is done    *)
(* (step.c:71-82, 409-412).                                                *)
THEOREM StatusCorrect == Spec => []TypeOK
<1> QED
  BY TypeInit, TypeNext, PTL DEF Spec

-----------------------------------------------------------------------------
(* Values *)

(* A program makes new values as it runs: closures, and the loops and      *)
(* quoted arguments of handle_recur.  They are never all there is in Val,  *)
(* so the invariant speaks of some set V that is closed under taking a     *)
(* value apart and that everything in the state is made of.                *)
Closed(V) ==
    /\ Val \subseteq V
    /\ \A v \in V :
        /\ v.type = "list" => v.items \in Seq(V)
        /\ v.type = "closure" => v.params \in Seq(V) /\ v.body \in V /\ v.env \in EnvOver(V)
        /\ v.type = "effect" => v.name \in Effect
        /\ v.type = "symbol" => v.name \in Name

ReadyFrame(V) == {f \in FrameOver(V) : FrameReady(f)}
Stack(V) == Seq(ReadyFrame(V))
Requests(V) == Seq([name : Effect, args : Seq(V)])

StateOver(V) ==
    /\ expr \in V
    /\ env \in EnvOver(V)
    /\ stack \in Stack(V)
    /\ effect \in Requests(V)

IInv == TypeOK /\ \E V : Closed(V) /\ StateOver(V)

(* What the programs, the library and the answers are made of. *)
LEMMA ClosedVal == Closed(Val)
  BY StepAssumption, Zenon DEF Closed, Atoms

(* More values, more environments. *)
LEMMA EnvGrows ==
    ASSUME NEW V, NEW W, V \subseteq W
    PROVE  EnvOver(V) \subseteq EnvOver(W)
<1>1. Scope(V) \subseteq Scope(W)
  BY DEF Scope
<1>2. Seq(Scope(V)) \subseteq Seq(Scope(W))
  BY <1>1
<1> QED
  BY <1>2 DEF EnvOver

(* More values, more frames and requests. *)
LEMMA FrameGrows ==
    ASSUME NEW V, NEW W, V \subseteq W
    PROVE  Stack(V) \subseteq Stack(W) /\ Requests(V) \subseteq Requests(W)
<1>1. EnvOver(V) \subseteq EnvOver(W) /\ Seq(V) \subseteq Seq(W)
  BY EnvGrows
<1>2. FrameOver(V) \subseteq FrameOver(W)
  BY <1>1 DEF FrameOver
<1>3. ReadyFrame(V) \subseteq ReadyFrame(W)
  BY <1>2 DEF ReadyFrame
<1>4. [name : Effect, args : Seq(V)] \subseteq [name : Effect, args : Seq(W)]
  BY <1>1
<1>5. Seq(ReadyFrame(V)) \subseteq Seq(ReadyFrame(W))
  BY <1>3
<1>6. Seq([name : Effect, args : Seq(V)]) \subseteq Seq([name : Effect, args : Seq(W)])
  <2> DEFINE R == [name : Effect, args : Seq(V)]
             S == [name : Effect, args : Seq(W)]
  <2>1. R \subseteq S
    BY <1>4
  <2> HIDE DEF R, S
  <2>2. Seq(R) \subseteq Seq(S)
    BY <2>1
  <2> QED
    BY <2>2 DEF R, S
<1> QED
  BY <1>5, <1>6 DEF Stack, Requests

WithClosure(V, c) == V \cup {c}

(* A set of values stays closed when a closure over them is added. *)
LEMMA ClosureCloses ==
    ASSUME NEW V, Closed(V),
           NEW params \in Seq(V), NEW body \in V, NEW r \in EnvOver(V), NEW c,
           c = [type |-> "closure", params |-> params, body |-> body, env |-> r]
    PROVE  Closed(WithClosure(V, c))
<1> DEFINE W == WithClosure(V, c)
<1>1. V \subseteq W /\ Seq(V) \subseteq Seq(W) /\ EnvOver(V) \subseteq EnvOver(W)
  BY EnvGrows DEF WithClosure
<1>2. c.type = "closure" /\ c.params \in Seq(W) /\ c.body \in W /\ c.env \in EnvOver(W)
  BY <1>1
<1>3. ASSUME NEW v \in V
      PROVE  /\ v.type = "list" => v.items \in Seq(W)
             /\ v.type = "closure" =>
                    v.params \in Seq(W) /\ v.body \in W /\ v.env \in EnvOver(W)
             /\ v.type = "effect" => v.name \in Effect
             /\ v.type = "symbol" => v.name \in Name
  BY <1>1, <1>3 DEF Closed
<1>4. Val \subseteq W
  BY <1>1 DEF Closed
<1> QED
  BY <1>2, <1>3, <1>4 DEF Closed, WithClosure

(* A value that Lists adds is Lst of a sequence. *)
LEMMA WithListsAre ==
    ASSUME NEW V
    PROVE  /\ \A s \in Seq(V) : Lst(s) \in WithLists(V)
           /\ \A v \in WithLists(V) : v \in V \/ \E s \in Seq(V) : v = Lst(s)
<1>1. ASSUME NEW s \in Seq(V) PROVE Lst(s) \in WithLists(V)
  BY DEF WithLists, Lists, Lst
<1>2. ASSUME NEW v \in Lists(V) PROVE \E s \in Seq(V) : v = Lst(s)
  <2>1. v.items \in Seq(V) /\ v = Lst(v.items)
    BY <1>2 DEF Lists, Lst
  <2> QED
    BY <2>1
<1> QED
  BY <1>1, <1>2 DEF WithLists

(* A set of values stays closed when all lists of them are added. *)
LEMMA ListsClose ==
    ASSUME NEW V, Closed(V)
    PROVE  Closed(WithLists(V)) /\ V \subseteq WithLists(V)
<1> DEFINE W == WithLists(V)
<1>1. V \subseteq W /\ Seq(V) \subseteq Seq(W) /\ EnvOver(V) \subseteq EnvOver(W)
  BY EnvGrows DEF WithLists
<1>2. ASSUME NEW s \in Seq(V)
      PROVE  Lst(s).type = "list" /\ Lst(s).items \in Seq(W)
  BY <1>1 DEF Lst
<1>3. ASSUME NEW v \in V
      PROVE  /\ v.type = "list" => v.items \in Seq(W)
             /\ v.type = "closure" =>
                    v.params \in Seq(W) /\ v.body \in W /\ v.env \in EnvOver(W)
             /\ v.type = "effect" => v.name \in Effect
             /\ v.type = "symbol" => v.name \in Name
  BY <1>1, <1>3 DEF Closed
<1>4. Val \subseteq W
  BY <1>1 DEF Closed
<1>5. ASSUME NEW v \in W
      PROVE  /\ v.type = "list" => v.items \in Seq(W)
             /\ v.type = "closure" =>
                    v.params \in Seq(W) /\ v.body \in W /\ v.env \in EnvOver(W)
             /\ v.type = "effect" => v.name \in Effect
             /\ v.type = "symbol" => v.name \in Name
  <2>1. CASE v \in V
    BY <2>1, <1>3
  <2>2. CASE \E s \in Seq(V) : v = Lst(s)
    BY <2>2, <1>2
  <2> QED
    BY <2>1, <2>2, WithListsAre
<1> QED
  BY <1>1, <1>4, <1>5 DEF Closed

-----------------------------------------------------------------------------
(* Scopes *)

(* A new scope on an env gives an env. *)
LEMMA PushedEnv ==
    ASSUME NEW V, NEW scope \in Scope(V), NEW r \in EnvOver(V)
    PROVE  EnvPush(scope, r) \in EnvOver(V)
<1>1. r \in Seq(Scope(V)) /\ Len(r) > 0 /\ r[Len(r)] = Global
  BY DEF EnvOver
<1> DEFINE q == <<scope>> \o r
<1>2. q \in Seq(Scope(V)) /\ Len(q) = Len(r) + 1
  BY <1>1
<1>3. q[Len(q)] = Global
  BY <1>1, <1>2
<1> QED
  <2>1. q = EnvPush(scope, r)
    BY DEF EnvPush
  <2>2. q \in EnvOver(V)
    <3> HIDE DEF q
    <3> QED
      BY <1>1, <1>2, <1>3 DEF EnvOver
  <2> QED
    BY <2>1, <2>2

(* What let, loop and recur bind is a scope. *)
LEMMA BindScope ==
    ASSUME NEW V, NEW name, NEW v \in V
    PROVE  Bind(name, v) \in Scope(V)
  BY DEF Bind, Scope

(* What a call binds is a scope: a parameter without an argument is none,  *)
(* since as many arguments were given.                                     *)
LEMMA BindAllScope ==
    ASSUME NEW V, NEW params \in Seq(V), NEW args \in Seq(V), Len(args) = Len(params)
    PROVE  BindAll(params, args) \in Scope(V)
<1> SUFFICES ASSUME NEW y \in Name, \E i \in DOMAIN params : LastNamed(params, y, i)
             PROVE  args[CHOOSE i \in DOMAIN params : LastNamed(params, y, i)] \in V
  BY DEF BindAll, Scope
<1> DEFINE k == CHOOSE i \in DOMAIN params : LastNamed(params, y, i)
<1>1. k \in DOMAIN params
  OBVIOUS
<1>2. k \in 1 .. Len(args)
  BY <1>1
<1> QED
  BY <1>2

(* What a lookup finds is a value. *)
LEMMA FoundValue ==
    ASSUME NEW V, env \in EnvOver(V), NEW i \in DOMAIN env, NEW y \in Name,
           env[i][y] # NULL
    PROVE  env[i][y] \in V
<1>1. env \in Seq(Scope(V))
  BY DEF EnvOver
<1>2. env[i] \in Scope(V)
  BY <1>1
<1> QED
  BY <1>2 DEF Scope

-----------------------------------------------------------------------------
(* Frames *)

(* The frame on top and the stack below it. *)
LEMMA TopBelow ==
    ASSUME NEW V, stack \in Stack(V), stack # <<>>
    PROVE  /\ Top \in FrameOver(V) /\ FrameReady(Top)
           /\ Below \in Stack(V) /\ Len(Below) < Len(stack)
<1>1. Len(stack) \in Nat /\ Len(stack) > 0
  BY DEF Stack
<1>2. Top \in ReadyFrame(V)
  BY <1>1 DEF Top, Stack
<1>3. Below \in Seq(ReadyFrame(V)) /\ Len(Below) = Len(stack) - 1
  <2> DEFINE S == ReadyFrame(V)
             n == Len(stack) - 1
  <2>1. stack \in Seq(S) /\ n \in 0 .. Len(stack)
    BY <1>1 DEF Stack
  <2>2. \A i \in 1 .. n : stack[i] \in S
    BY <2>1
  <2>3. SubSeq(stack, 1, n) = [i \in 1 .. n |-> stack[i]]
    BY <2>1
  <2>4. SubSeq(stack, 1, n) \in Seq(S) /\ Len(SubSeq(stack, 1, n)) = n
    <3> HIDE DEF S, n
    <3> QED
      BY <1>1, <2>1, <2>2, <2>3
  <2> QED
    BY <2>4 DEF Below
<1> QED
  BY <1>1, <1>2, <1>3 DEF ReadyFrame, Stack

(* A frame on a stack gives a stack. *)
LEMMA PushedStack ==
    ASSUME NEW V, NEW s \in Stack(V), NEW frame \in FrameOver(V), FrameReady(frame)
    PROVE  Push(s, frame) \in Stack(V)
  BY DEF Push, Stack, ReadyFrame

(* The fields of a frame, by its op (make_frame2 to make_frame5). *)
LEMMA FrameFields ==
    ASSUME NEW V, NEW fr \in FrameOver(V)
    PROVE  /\ fr.op = "call" =>
                fr.func \in V \cup {NULL} /\ fr.args \in Seq(V) /\ fr.rest \in Seq(V)
           /\ fr.op = "if-branch" => fr.then \in V /\ fr.else \in V
           /\ fr.op = "do-rest" => fr.rest \in Seq(V)
           /\ fr.op = "let-binds" =>
                fr.rest \in Seq(V) /\ fr.body \in V /\ fr.env \in EnvOver(V)
           /\ fr.op = "loop-binds" =>
                /\ fr.rest \in Seq(V) /\ fr.body \in V /\ fr.env \in EnvOver(V)
                /\ fr.orig \in Seq(V)
           /\ fr.op = "loop-target" =>
                fr.rest \in Seq(V) /\ fr.body \in V /\ fr.env \in EnvOver(V)
           /\ fr.op = "recur-args" => fr.args \in Seq(V) /\ fr.rest \in Seq(V)
<1>1. CASE fr \in [op : {"call"}, func : V \cup {NULL}, args : Seq(V), rest : Seq(V)]
  BY <1>1
<1>2. CASE fr \in [op : {"if-branch"}, then : V, else : V]
  BY <1>2
<1>3. CASE fr \in [op : {"do-rest"}, rest : Seq(V)]
  BY <1>3
<1>4. CASE fr \in [op : {"let-binds"}, rest : Seq(V), body : V, env : EnvOver(V)]
  BY <1>4
<1>5. CASE fr \in [op : {"loop-binds"}, rest : Seq(V), body : V, env : EnvOver(V),
                   orig : Seq(V)]
  BY <1>5
<1>6. CASE fr \in [op : {"loop-target"}, rest : Seq(V), body : V, env : EnvOver(V)]
  BY <1>6
<1>7. CASE fr \in [op : {"recur-args"}, args : Seq(V), rest : Seq(V)]
  BY <1>7
<1> QED
  BY <1>1, <1>2, <1>3, <1>4, <1>5, <1>6, <1>7 DEF FrameOver

(* What an activation ends in keeps the state over V. *)
LEMMA EndsOver ==
    ASSUME NEW V, effect \in Requests(V), NEW e \in V, NEW r \in EnvOver(V), NEW s \in Stack(V),
           Run(e, r, s) \/ Deliver(e, r, s)
    PROVE  StateOver(V)'
  BY DEF Run, Deliver, StateOver

(* An error leaves the state as it was. *)
LEMMA FailOver ==
    ASSUME NEW V, StateOver(V), NEW kind, Fail(kind)
    PROVE  StateOver(V)'
  BY DEF Fail, StateOver

-----------------------------------------------------------------------------
(* step_eval *)

(* The items of a list are values again. *)
LEMMA FormItems ==
    ASSUME NEW V, Closed(V), StateOver(V), IsForm
    PROVE  /\ expr.items \in Seq(V) /\ Size \in Nat /\ Size > 0
           /\ \A i \in 1 .. Size : Item(i) \in V
  BY DEF Closed, StateOver, IsForm, Item, Size

(* The bindings of a let or a loop are a list of pairs. *)
LEMMA BinderItems ==
    ASSUME NEW V, Closed(V), StateOver(V), IsForm, Binder
    PROVE  /\ Bindings \in Seq(V) /\ Body \in V
           /\ Bindings # <<>> =>
                /\ Len(Bindings) >= 2 /\ Len(Bindings) % 2 = 0
                /\ Bindings[1] \in V /\ Bindings[2] \in V
<1>1. Item(2) \in V /\ Item(3) \in V /\ Item(2).type = "list"
  BY FormItems DEF Binder
<1>2. Bindings \in Seq(V)
  BY <1>1 DEF Closed, Bindings
<1>3. ASSUME Bindings # <<>>
      PROVE  Len(Bindings) >= 2 /\ Len(Bindings) % 2 = 0
  <2>1. Len(Bindings) \in Nat /\ Len(Bindings) # 0
    BY <1>2, <1>3
  <2>2. Len(Bindings) % 2 = 0
    BY DEF Binder, Bindings
  <2> QED
    BY <2>1, <2>2
<1> QED
  BY <1>1, <1>2, <1>3 DEF Body

(* The part of a sequence after its first item, or its first few. *)
LEMMA RestOfSeq ==
    ASSUME NEW S, NEW s \in Seq(S), NEW k \in Nat, k > 0, k <= Len(s) + 1
    PROVE  SubSeq(s, k, Len(s)) \in Seq(S) /\ Len(SubSeq(s, k, Len(s))) = Len(s) - k + 1
<1> DEFINE n == Len(s)
           t == SubSeq(s, k, n)
<1>1. n \in Nat /\ \A i \in 1 .. n : s[i] \in S
  OBVIOUS
<1>2. t = [i \in 1 .. n - k + 1 |-> s[i + k - 1]]
  BY <1>1
<1>3. \A i \in 1 .. n - k + 1 : s[i + k - 1] \in S
  BY <1>1
<1>4. n - k + 1 \in Nat
  BY <1>1
<1> HIDE DEF n, t
<1>5. t \in Seq(S) /\ Len(t) = n - k + 1
  BY <1>2, <1>3, <1>4
<1> QED
  BY <1>5 DEF n, t

(* Atoms, symbols and the empty list deliver a value; quote delivers what  *)
(* it was given.                                                           *)
LEMMA SimpleOver ==
    ASSUME NEW V, Closed(V), StateOver(V),
           EvalAtom \/ EvalSymbol \/ EvalEmptyList \/ EvalQuote
    PROVE  StateOver(V)'
<1>0. expr \in V /\ env \in EnvOver(V) /\ stack \in Stack(V) /\ effect \in Requests(V)
  BY DEF StateOver
<1>1. CASE EvalAtom \/ EvalEmptyList
  BY <1>0, <1>1, EndsOver DEF EvalAtom, EvalEmptyList
<1>2. CASE EvalSymbol
  <2>1. CASE Fail("undefined symbol")
    BY <2>1, FailOver
  <2>2. CASE \E i \in DOMAIN env : FoundAt(i, expr.name) /\ Deliver(env[i][expr.name], env, stack)
    <3>1. PICK i \in DOMAIN env : FoundAt(i, expr.name) /\ Deliver(env[i][expr.name], env, stack)
      BY <2>2
    <3>2. env[i][expr.name] \in V
      <4>1. expr.name \in Name
        BY <1>0, <1>2 DEF EvalSymbol, Closed
      <4>2. env[i][expr.name] # NULL
        BY <3>1 DEF FoundAt
      <4> QED
        BY <1>0, <4>1, <4>2, FoundValue
    <3> QED
      BY <1>0, <3>1, <3>2, EndsOver
  <2> QED
    BY <1>2, <2>1, <2>2 DEF EvalSymbol
<1>3. CASE EvalQuote
  <2>1. CASE Fail("quote")
    BY <2>1, FailOver
  <2>2. CASE Size = 2 /\ Deliver(Item(2), env, stack)
    <3>1. Item(2) \in V
      BY <1>3, <2>2, FormItems DEF EvalQuote, Form
    <3> QED
      BY <1>0, <2>2, <3>1, EndsOver
  <2> QED
    BY <1>3, <2>1, <2>2 DEF EvalQuote
<1> QED
  BY <1>1, <1>2, <1>3

(* if and do push what is left of the form. *)
LEMMA BranchOver ==
    ASSUME NEW V, Closed(V), StateOver(V), EvalIf \/ EvalDo
    PROVE  StateOver(V)'
<1>0. env \in EnvOver(V) /\ stack \in Stack(V) /\ effect \in Requests(V) /\ IsForm
  BY DEF StateOver, EvalIf, EvalDo, Form
<1>1. /\ expr.items \in Seq(V) /\ Size \in Nat /\ Size = Len(expr.items)
      /\ \A i \in 1 .. Size : Item(i) \in V
  BY <1>0, FormItems DEF Size
<1>2. CASE Fail("if") \/ Fail("do")
  BY <1>2, FailOver
<1>3. CASE Size = 4 /\ Run(Item(2), env, Push(stack, IfFrame(Item(3), Item(4))))
  <2>1. Item(2) \in V /\ Item(3) \in V /\ Item(4) \in V
    BY <1>1, <1>3
  <2>2. IfFrame(Item(3), Item(4)) \in FrameOver(V) /\ FrameReady(IfFrame(Item(3), Item(4)))
    BY <2>1 DEF IfFrame, FrameOver, FrameReady
  <2>3. Push(stack, IfFrame(Item(3), Item(4))) \in Stack(V)
    BY <1>0, <2>2, PushedStack
  <2> QED
    BY <1>0, <1>3, <2>1, <2>3, EndsOver
<1>4. CASE Size = 2 /\ Run(Item(2), env, stack)
  BY <1>0, <1>1, <1>4, EndsOver
<1>5. CASE Size > 2 /\ Run(Item(2), env, Push(stack, DoFrame(SubSeq(expr.items, 3, Size))))
  <2> DEFINE rest == SubSeq(expr.items, 3, Size)
  <2>1. rest \in Seq(V) /\ Len(rest) = Size - 2
    BY <1>1, <1>5, RestOfSeq
  <2>2. rest # <<>> /\ Item(2) \in V
    <3>1. Len(rest) > 0 /\ Item(2) \in V
      BY <1>1, <1>5, <2>1
    <3> HIDE DEF rest
    <3> QED
      BY <3>1
  <2>3. DoFrame(rest) \in FrameOver(V) /\ FrameReady(DoFrame(rest))
    BY <2>1, <2>2 DEF DoFrame, FrameOver, FrameReady
  <2>4. Push(stack, DoFrame(rest)) \in Stack(V)
    BY <1>0, <2>3, PushedStack
  <2> QED
    BY <1>0, <1>5, <2>2, <2>4, EndsOver
<1> QED
  BY <1>2, <1>3, <1>4, <1>5 DEF EvalIf, EvalDo

(* let and loop push their bindings, which are pairs. *)
LEMMA BindingOver ==
    ASSUME NEW V, Closed(V), StateOver(V), EvalLet \/ EvalLoop
    PROVE  StateOver(V)'
<1>0. env \in EnvOver(V) /\ stack \in Stack(V) /\ effect \in Requests(V) /\ IsForm
  BY DEF StateOver, EvalLet, EvalLoop, Form
<1>1. CASE Fail("let") \/ Fail("let name") \/ Fail("loop")
  BY <1>1, FailOver
<1>2. CASE Binder /\ Run(Body, env, stack)
  BY <1>0, <1>2, BinderItems, EndsOver
<1>3. CASE /\ Binder /\ Bindings # <<>>
           /\ \/ Run(Bindings[2], env, Push(stack, LetFrame(Bindings, Body, env)))
              \/ Run(Bindings[2], env, Push(stack, LoopFrame(Bindings, Body, env, Bindings)))
  <2>1. /\ Bindings \in Seq(V) /\ Body \in V /\ Bindings[2] \in V
        /\ Len(Bindings) >= 2 /\ Len(Bindings) % 2 = 0
    BY <1>0, <1>3, BinderItems
  <2>2. /\ LetFrame(Bindings, Body, env) \in FrameOver(V)
        /\ FrameReady(LetFrame(Bindings, Body, env))
    BY <1>0, <2>1 DEF LetFrame, FrameOver, FrameReady
  <2>3. /\ LoopFrame(Bindings, Body, env, Bindings) \in FrameOver(V)
        /\ FrameReady(LoopFrame(Bindings, Body, env, Bindings))
    BY <1>0, <2>1 DEF LoopFrame, FrameOver, FrameReady
  <2>4. /\ Push(stack, LetFrame(Bindings, Body, env)) \in Stack(V)
        /\ Push(stack, LoopFrame(Bindings, Body, env, Bindings)) \in Stack(V)
    BY <1>0, <2>2, <2>3, PushedStack
  <2> QED
    BY <1>0, <1>3, <2>1, <2>4, EndsOver
<1> QED
  BY <1>1, <1>2, <1>3 DEF EvalLet, EvalLoop

(* A call pushes its arguments. *)
LEMMA CallOver ==
    ASSUME NEW V, Closed(V), StateOver(V), EvalCall
    PROVE  StateOver(V)'
<1>0. env \in EnvOver(V) /\ stack \in Stack(V) /\ effect \in Requests(V) /\ IsForm
  BY DEF StateOver, EvalCall
<1> DEFINE frame == CallFrame(NULL, <<>>, Tail(expr.items))
<1>1. expr.items \in Seq(V) /\ expr.items # <<>> /\ Item(1) \in V
  BY <1>0, FormItems DEF IsForm
<1>2. Tail(expr.items) \in Seq(V) /\ <<>> \in Seq(V)
  BY <1>1
<1>3. frame \in FrameOver(V) /\ FrameReady(frame)
  BY <1>2 DEF CallFrame, FrameOver, FrameReady
<1>4. Push(stack, frame) \in Stack(V)
  BY <1>0, <1>3, PushedStack
<1>5. Run(Item(1), env, Push(stack, frame))
  BY DEF EvalCall
<1> QED
  BY <1>0, <1>1, <1>4, <1>5, EndsOver

(* The closure that the form at hand makes. *)
MadeHere(c) ==
    /\ StepCall /\ Form("fn") /\ WellFormedFn
    /\ c = [type |-> "closure", params |-> Item(2).items, body |-> Item(3), env |-> env]

(* Of closures, W has those of V and the one made here; the rest of W is   *)
(* of V or made in one step.                                               *)
OldOrMade(V, W) ==
    /\ \A w \in W : w.type = "closure" => w \in V \/ MadeHere(w)
    /\ W \subseteq V \cup Made(Val, V)

(* fn makes a closure over the env of the state. *)
LEMMA FnOver ==
    ASSUME NEW V, Closed(V), StateOver(V), EvalFn
    PROVE  \E W : Closed(W) /\ StateOver(W)' /\ OldOrMade(V, W)
<1>0. env \in EnvOver(V) /\ stack \in Stack(V) /\ effect \in Requests(V) /\ IsForm
  BY DEF StateOver, EvalFn, Form
<1>1. CASE Fail("fn")
  BY <1>1, FailOver DEF OldOrMade
<1>2. CASE WellFormedFn /\ Deliver([type |-> "closure", params |-> Item(2).items,
                                    body |-> Item(3), env |-> env], env, stack)
  <2> DEFINE c == [type |-> "closure", params |-> Item(2).items,
                   body |-> Item(3), env |-> env]
             W == WithClosure(V, c)
  <2>1. Item(2) \in V /\ Item(2).type = "list" /\ Item(3) \in V
    BY <1>0, <1>2, FormItems DEF WellFormedFn
  <2>2. Item(2).items \in Seq(V)
    BY <2>1 DEF Closed
  <2>3. PICK d : d = c
    OBVIOUS
  <2>4. Closed(WithClosure(V, d))
    BY <1>0, <2>1, <2>2, <2>3, ClosureCloses
  <2>5. V \subseteq WithClosure(V, d) /\ d \in WithClosure(V, d)
    BY DEF WithClosure
  <2>6. /\ env \in EnvOver(WithClosure(V, d)) /\ stack \in Stack(WithClosure(V, d))
        /\ effect \in Requests(WithClosure(V, d))
    BY <1>0, <2>5, EnvGrows, FrameGrows
  <2>7. Deliver(d, env, stack)
    BY <1>2, <2>3
  <2>8. OldOrMade(V, WithClosure(V, d))
    <3>1. d \in Made(Val, V)
      BY <2>1, <2>2, <2>3, <1>0 DEF Made, Closures, EnvOver, Env
    <3> QED
      BY <1>2, <2>3, <3>1 DEF OldOrMade, MadeHere, WithClosure, EvalFn
  <2> QED
    BY <2>4, <2>5, <2>6, <2>7, <2>8, EndsOver
<1> QED
  BY <1>1, <1>2 DEF EvalFn

-----------------------------------------------------------------------------
(* handle_recur and apply_fn *)

(* The value of the pair at an even place of a list of pairs. *)
LEMMA HalfOfEven ==
    ASSUME NEW n \in Nat, NEW i \in 1 .. n, i % 2 # 1
    PROVE  i \div 2 \in 1 .. n \div 2
<1>1. i % 2 = 0 /\ i = 2 * (i \div 2)
  OBVIOUS
<1>2. i \div 2 \in Nat /\ n \div 2 \in Nat /\ n < 2 * (n \div 2) + 2
  OBVIOUS
<1> QED
  BY <1>1, <1>2

(* The loop that recur builds is made of the loop's values and the         *)
(* arguments, in three layers of new lists.                                *)
LEMMA NewLoopValue ==
    ASSUME NEW V, Closed(V), NEW target \in FrameOver(V), target.op = "loop-target",
           NEW args \in Seq(V), Len(args) = Len(target.rest) \div 2
    PROVE  NewLoop(target, args) \in WithLists(WithLists(WithLists(V)))
<1> DEFINE W1 == WithLists(V)
           W2 == WithLists(W1)
           binds == Rebind(target.rest, args)
           n == Len(target.rest)
<1>1. target.rest \in Seq(V) /\ target.body \in V
  BY FrameFields
<1>2. Sym("quote") \in V /\ Sym("loop") \in V
  BY StepAssumption DEF Closed
<1>3. Closed(W1) /\ Closed(W2) /\ V \subseteq W1 /\ W1 \subseteq W2
  BY ListsClose
<1>4. ASSUME NEW i \in 1 .. n
      PROVE  binds[i] \in W1
  <2>1. CASE i % 2 = 1
    <3>1. binds[i] = target.rest[i]
      BY <2>1 DEF Rebind
    <3> QED
      BY <1>1, <1>3, <3>1
  <2>2. CASE i % 2 # 1
    <3>1. binds[i] = Lst(<<Sym("quote"), args[i \div 2]>>)
      BY <2>2 DEF Rebind
    <3>2. i \div 2 \in 1 .. Len(args)
      <4>1. n \in Nat /\ Len(args) = n \div 2
        BY <1>1
      <4> HIDE DEF n
      <4>2. i \div 2 \in 1 .. n \div 2
        BY <2>2, <4>1, HalfOfEven
      <4> QED
        BY <4>1, <4>2
    <3>3. <<Sym("quote"), args[i \div 2]>> \in Seq(V)
      <4>1. PICK j \in 1 .. Len(args) : j = i \div 2
        BY <3>2
      <4>2. args[j] \in V
        BY ElementOfSeq
      <4>3. PICK q \in V : q = Sym("quote")
        BY <1>2
      <4>4. <<q, args[j]>> \in Seq(V)
        BY <4>2
      <4> QED
        BY <4>1, <4>3, <4>4
    <3> QED
      BY <3>1, <3>3, WithListsAre
  <2> QED
    BY <2>1, <2>2
<1>5. binds \in Seq(W1)
  <2>1. n \in Nat /\ DOMAIN binds = 1 .. n
    BY <1>1 DEF Rebind
  <2>2. binds = [i \in 1 .. n |-> binds[i]]
    BY DEF Rebind
  <2> HIDE DEF n, binds, W1
  <2> QED
    BY <1>4, <2>1, <2>2
<1>6. Lst(binds) \in W2
  BY <1>5, WithListsAre
<1>7. <<Sym("loop"), Lst(binds), target.body>> \in Seq(W2)
  <2>1. Sym("loop") \in W2 /\ target.body \in W2
    BY <1>1, <1>2, <1>3
  <2> HIDE DEF W2, binds
  <2> QED
    BY <1>6, <2>1
<1>8. Lst(<<Sym("loop"), Lst(binds), target.body>>) \in WithLists(W2)
  <2> HIDE DEF W2, binds
  <2> QED
    BY <1>7, WithListsAre
<1> QED
  BY <1>8 DEF NewLoop

(* Lists of lists of lists are made in one step. *)
LEMMA ListsMade ==
    ASSUME NEW V
    PROVE  WithLists(WithLists(WithLists(V))) \subseteq V \cup Lists(WithLists(WithLists(V)))
<1>1. ASSUME NEW A, NEW B, A \subseteq B PROVE Lists(A) \subseteq Lists(B)
  BY <1>1 DEF Lists
<1>2. \A A : A \subseteq WithLists(A)
  BY DEF WithLists
<1>3. Lists(V) \subseteq Lists(WithLists(WithLists(V)))
  BY <1>1, <1>2
<1>4. Lists(WithLists(V)) \subseteq Lists(WithLists(WithLists(V)))
  BY <1>1, <1>2
<1> QED
  BY <1>3, <1>4 DEF WithLists

(* recur starts its loop again in the env of the loop, or is an error. *)
LEMMA RecurOver ==
    ASSUME NEW V, Closed(V), StateOver(V), NEW args \in Seq(V), NEW s \in Stack(V),
           HandleRecur(args, s)
    PROVE  \E W : Closed(W) /\ StateOver(W)' /\ OldOrMade(V, W)
<1> DEFINE target == s[Len(s)]
           rest == SubSeq(s, 1, Len(s) - 1)
<1>1. CASE \E kind : Fail(kind)
  BY <1>1, FailOver DEF OldOrMade
<1>2. CASE /\ s # <<>> /\ target.op = "loop-target"
           /\ Len(args) = Len(target.rest) \div 2
           /\ Restart(target, args, rest)
  <2> DEFINE W3 == WithLists(WithLists(WithLists(V)))
  <2>1. target \in FrameOver(V) /\ rest \in Stack(V)
    <3> DEFINE S == ReadyFrame(V)
    <3>1. s \in Seq(S) /\ s # <<>>
      BY <1>2 DEF Stack
    <3>2. target \in S /\ rest \in Seq(S)
      <4> HIDE DEF S
      <4>1. Len(s) \in Nat /\ Len(s) > 0
        BY <3>1
      <4>2. \A i \in 1 .. Len(s) - 1 : s[i] \in S
        BY <3>1
      <4>3. rest = [i \in 1 .. Len(s) - 1 |-> s[i]]
        BY <3>1, <4>1
      <4> QED
        BY <3>1, <4>1, <4>2, <4>3
    <3> QED
      BY <3>2 DEF ReadyFrame, Stack
  <2>2. target.env \in EnvOver(V)
    BY <1>2, <2>1, FrameFields
  <2>3. NewLoop(target, args) \in W3
    <3> HIDE DEF target
    <3> QED
      BY <1>2, <2>1, NewLoopValue
  <2>4. Closed(W3) /\ V \subseteq W3
    <3>1. Closed(WithLists(V)) /\ V \subseteq WithLists(V)
      BY ListsClose
    <3>2. Closed(WithLists(WithLists(V))) /\ WithLists(V) \subseteq WithLists(WithLists(V))
      BY <3>1, ListsClose
    <3>3. Closed(W3) /\ WithLists(WithLists(V)) \subseteq W3
      BY <3>2, ListsClose
    <3> QED
      BY <3>1, <3>2, <3>3
  <2>6. OldOrMade(V, W3)
    <3>1. ASSUME NEW U, NEW w \in WithLists(U), w.type = "closure" PROVE w \in U
      BY <3>1, WithListsAre DEF Lst
    <3>2. \A w \in W3 : w.type = "closure" => w \in V
      BY <3>1, Zenon
    <3>3. W3 \subseteq V \cup Made(Val, V)
      BY ListsMade DEF Made
    <3> QED
      BY <3>2, <3>3 DEF OldOrMade
  <2> HIDE DEF W3, target, rest
  <2>5. target.env \in EnvOver(W3) /\ rest \in Stack(W3) /\ effect \in Requests(W3)
    BY <2>1, <2>2, <2>4, EnvGrows, FrameGrows DEF StateOver
  <2> QED
    BY <1>2, <2>3, <2>4, <2>5, <2>6, EndsOver DEF Restart
<1> QED
  BY <1>1, <1>2 DEF HandleRecur

(* A call: a builtin's result is a value, a suspension asks for an effect  *)
(* of the program, a closure's body runs in the closure's env.             *)
LEMMA ApplyOver ==
    ASSUME NEW V, Closed(V), StateOver(V),
           NEW f \in V, NEW args \in Seq(V), NEW s \in Stack(V), Apply(f, args, s)
    PROVE  StateOver(V)'
<1>0. env \in EnvOver(V) /\ effect \in Requests(V)
  BY DEF StateOver
<1>1. CASE \E kind : Fail(kind)
  BY <1>1, FailOver
<1>2. CASE ApplyBuiltin(f, args, s) /\ BuiltinFn(f.name, args) \in Val
  <2>1. BuiltinFn(f.name, args) \in V
    BY <1>2 DEF Closed
  <2>2. CASE Deliver(BuiltinFn(f.name, args), env, s)
    BY <1>0, <2>1, <2>2, EndsOver
  <2> QED
    BY <1>2, <2>2 DEF ApplyBuiltin
<1>3. CASE f.type = "effect" /\ Suspend(f.name, args, s)
  <2>1. f.name \in Effect
    BY <1>3 DEF Closed
  <2>2. Nil \in V
    BY StepAssumption DEF Closed
  <2>3. <<[name |-> f.name, args |-> args]>> \in Requests(V)
    BY <2>1 DEF Requests
  <2> QED
    BY <1>0, <1>3, <2>2, <2>3 DEF Suspend, StateOver
<1>4. CASE ApplyClosure(f, args, s) /\ Len(args) = Len(f.params)
  <2>1. f.params \in Seq(V) /\ f.body \in V /\ f.env \in EnvOver(V)
    BY <1>4 DEF ApplyClosure, Closed
  <2>2. CalledEnv(f, args) \in EnvOver(V)
    BY <1>4, <2>1, BindAllScope, PushedEnv DEF CalledEnv
  <2> QED
    BY <1>0, <1>4, <2>1, <2>2, EndsOver DEF ApplyClosure
<1>5. CASE ApplyForged(f)
  BY <1>5 DEF ApplyForged, Abort, StateOver
<1> QED
  BY <1>1, <1>2, <1>3, <1>4, <1>5 DEF Apply, ApplyBuiltin, ApplyClosure

-----------------------------------------------------------------------------
(* deliver_value *)

(* What a delivery starts from. *)
LEMMA Delivery ==
    ASSUME NEW V, StateOver(V), NEW op, DeliverTo(op)
    PROVE  /\ expr \in V /\ env \in EnvOver(V) /\ effect \in Requests(V)
           /\ Top \in FrameOver(V) /\ FrameReady(Top) /\ Top.op = op
           /\ Below \in Stack(V)
  BY TopBelow DEF StateOver, DeliverTo

(* The function and the arguments of a call, one by one. *)
LEMMA DeliverCallOver ==
    ASSUME NEW V, Closed(V), StateOver(V), DeliverCall
    PROVE  StateOver(V)'
<1>0. /\ expr \in V /\ env \in EnvOver(V) /\ effect \in Requests(V)
      /\ Top \in FrameOver(V) /\ Top.op = "call" /\ Below \in Stack(V)
  BY Delivery DEF DeliverCall
<1>1. Top.func \in V \cup {NULL} /\ Top.args \in Seq(V) /\ Top.rest \in Seq(V)
  BY <1>0, FrameFields
<1>2. CallFunc \in V
  BY <1>0, <1>1 DEF CallFunc
<1>3. CallArgs \in Seq(V)
  BY <1>0, <1>1 DEF CallArgs
<1>4. CASE Apply(CallFunc, CallArgs, Below)
  BY <1>0, <1>2, <1>3, <1>4, ApplyOver
<1>5. CASE /\ Top.rest # <<>>
           /\ Run(Top.rest[1], env, Push(Below, CallFrame(CallFunc, CallArgs, Tail(Top.rest))))
  <2>1. Top.rest[1] \in V /\ Tail(Top.rest) \in Seq(V)
    BY <1>1, <1>5
  <2> DEFINE frame == CallFrame(CallFunc, CallArgs, Tail(Top.rest))
  <2>2. frame \in FrameOver(V) /\ FrameReady(frame)
    BY <1>2, <1>3, <2>1 DEF CallFrame, FrameOver, FrameReady
  <2>3. Push(Below, frame) \in Stack(V)
    BY <1>0, <2>2, PushedStack
  <2> QED
    BY <1>0, <1>5, <2>1, <2>3, EndsOver
<1> QED
  BY <1>4, <1>5 DEF DeliverCall

(* if goes to a branch, a loop-target passes the value on, and do goes to  *)
(* the next expression, which is there.                                    *)
LEMMA DeliverPlainOver ==
    ASSUME NEW V, Closed(V), StateOver(V), DeliverIf \/ DeliverTarget \/ DeliverDo
    PROVE  StateOver(V)'
<1>0. /\ expr \in V /\ env \in EnvOver(V) /\ effect \in Requests(V)
      /\ Top \in FrameOver(V) /\ FrameReady(Top) /\ Below \in Stack(V)
  BY Delivery DEF DeliverIf, DeliverTarget, DeliverDo
<1>1. CASE DeliverIf
  <2>1. Top.then \in V /\ Top.else \in V
    BY <1>0, <1>1, FrameFields DEF DeliverIf, DeliverTo
  <2> QED
    BY <1>0, <1>1, <2>1, EndsOver DEF DeliverIf
<1>2. CASE DeliverTarget
  BY <1>0, <1>2, EndsOver DEF DeliverTarget
<1>3. CASE DeliverDo
  <2>1. Top.rest \in Seq(V) /\ Top.rest # <<>>
    BY <1>0, <1>3, FrameFields DEF DeliverDo, DeliverTo, FrameReady
  <2>2. Top.rest[1] \in V /\ Tail(Top.rest) \in Seq(V)
    BY <2>1
  <2>3. CASE Run(Top.rest[1], env, Below)
    BY <1>0, <2>2, <2>3, EndsOver
  <2>4. CASE ~LastDo /\ Run(Top.rest[1], env, Push(Below, DoFrame(Tail(Top.rest))))
    <3> DEFINE t == Tail(Top.rest)
    <3>1. Len(t) > 0
      <4>1. PICK n \in Nat : n = Len(Top.rest)
        BY <2>1
      <4>2. n # 0 /\ n # 1
        BY <2>1, <2>4, <4>1 DEF LastDo
      <4>3. Len(t) = n - 1
        BY <2>1, <4>1
      <4> QED
        BY <4>2, <4>3
    <3>2. t # <<>>
      <4> HIDE DEF t
      <4> QED
        BY <3>1
    <3>3. DoFrame(t) \in FrameOver(V) /\ FrameReady(DoFrame(t))
      BY <2>2, <3>2 DEF DoFrame, FrameOver, FrameReady
    <3>4. Push(Below, DoFrame(t)) \in Stack(V)
      BY <1>0, <3>3, PushedStack
    <3> QED
      BY <1>0, <2>2, <2>4, <3>4, EndsOver
  <2> QED
    BY <1>3, <2>3, <2>4 DEF DeliverDo
<1> QED
  BY <1>1, <1>2, <1>3

(* What is left of a list of pairs without its first pair. *)
LEMMA PairsLeft ==
    ASSUME NEW V, NEW rest \in Seq(V), Len(rest) > 2, Len(rest) % 2 = 0
    PROVE  /\ SubSeq(rest, 3, Len(rest)) \in Seq(V)
           /\ Len(SubSeq(rest, 3, Len(rest))) >= 2
           /\ Len(SubSeq(rest, 3, Len(rest))) % 2 = 0
           /\ rest[4] \in V
<1> DEFINE t == SubSeq(rest, 3, Len(rest))
<1>1. Len(rest) \in Nat /\ Len(rest) >= 4
  OBVIOUS
<1>2. t \in Seq(V) /\ Len(t) = Len(rest) - 2
  BY <1>1, RestOfSeq
<1>3. rest[4] \in V
  BY <1>1
<1> HIDE DEF t
<1>4. Len(t) >= 2 /\ Len(t) % 2 = 0
  BY <1>1, <1>2
<1> QED
  BY <1>2, <1>3, <1>4 DEF t

(* let and loop bind the value in their own env and go to the next         *)
(* binding, of which both the name and the value are there.                *)
LEMMA DeliverBindsOver ==
    ASSUME NEW V, Closed(V), StateOver(V), DeliverLet \/ DeliverLoop
    PROVE  StateOver(V)'
<1>0. /\ expr \in V /\ env \in EnvOver(V) /\ effect \in Requests(V)
      /\ Top \in FrameOver(V) /\ FrameReady(Top) /\ Below \in Stack(V)
  BY Delivery DEF DeliverLet, DeliverLoop
<1>1. Top.op \in {"let-binds", "loop-binds"}
  BY DEF DeliverLet, DeliverLoop, DeliverTo
<1>2. /\ Top.rest \in Seq(V) /\ Top.body \in V /\ Top.env \in EnvOver(V)
      /\ Len(Top.rest) >= 2 /\ Len(Top.rest) % 2 = 0
  BY <1>0, <1>1, FrameFields DEF FrameReady
<1>3. Extended \in EnvOver(V)
  BY <1>0, <1>2, BindScope, PushedEnv DEF Extended
<1>4. Len(Top.rest) > 2 =>
        /\ RestBinds \in Seq(V) /\ Len(RestBinds) >= 2 /\ Len(RestBinds) % 2 = 0
        /\ Top.rest[4] \in V
  BY <1>2, PairsLeft DEF RestBinds
<1>5. CASE DeliverLet
  <2>1. CASE Run(Top.body, Extended, Below)
    BY <1>0, <1>2, <1>3, <2>1, EndsOver
  <2>2. CASE /\ Len(Top.rest) > 2
             /\ Run(Top.rest[4], Extended, Push(Below, LetFrame(RestBinds, Top.body, Extended)))
    <3> DEFINE frame == LetFrame(RestBinds, Top.body, Extended)
    <3>1. frame \in FrameOver(V) /\ FrameReady(frame)
      BY <1>2, <1>3, <1>4, <2>2 DEF LetFrame, FrameOver, FrameReady
    <3>2. Push(Below, frame) \in Stack(V)
      BY <1>0, <3>1, PushedStack
    <3> QED
      BY <1>0, <1>3, <1>4, <2>2, <3>2, EndsOver
  <2> QED
    BY <1>5, <2>1, <2>2 DEF DeliverLet
<1>6. CASE DeliverLoop
  <2>1. Top.orig \in Seq(V) /\ Len(Top.orig) >= 2 /\ Len(Top.orig) % 2 = 0
    BY <1>0, <1>6, FrameFields DEF DeliverLoop, DeliverTo, FrameReady
  <2>2. CASE Run(Top.body, Extended, Push(Below, TargetFrame(Top.orig, Top.body, Top.env)))
    <3> DEFINE frame == TargetFrame(Top.orig, Top.body, Top.env)
    <3>1. frame \in FrameOver(V) /\ FrameReady(frame)
      BY <1>2, <2>1 DEF TargetFrame, FrameOver, FrameReady
    <3>2. Push(Below, frame) \in Stack(V)
      BY <1>0, <3>1, PushedStack
    <3> QED
      BY <1>0, <1>2, <1>3, <2>2, <3>2, EndsOver
  <2>3. CASE /\ Len(Top.rest) > 2
             /\ Run(Top.rest[4], Extended,
                    Push(Below, LoopFrame(RestBinds, Top.body, Extended, Top.orig)))
    <3> DEFINE frame == LoopFrame(RestBinds, Top.body, Extended, Top.orig)
    <3>1. frame \in FrameOver(V) /\ FrameReady(frame)
      BY <1>2, <1>3, <1>4, <2>1, <2>3 DEF LoopFrame, FrameOver, FrameReady
    <3>2. Push(Below, frame) \in Stack(V)
      BY <1>0, <3>1, PushedStack
    <3> QED
      BY <1>0, <1>3, <1>4, <2>3, <3>2, EndsOver
  <2> QED
    BY <1>6, <2>2, <2>3 DEF DeliverLoop
<1> QED
  BY <1>5, <1>6

(* The arguments of recur, one by one. *)
LEMMA DeliverRecurOver ==
    ASSUME NEW V, Closed(V), StateOver(V), DeliverRecur
    PROVE  \E W : Closed(W) /\ StateOver(W)' /\ OldOrMade(V, W)
<1>0. /\ expr \in V /\ env \in EnvOver(V) /\ effect \in Requests(V)
      /\ Top \in FrameOver(V) /\ Top.op = "recur-args" /\ Below \in Stack(V)
  BY Delivery DEF DeliverRecur
<1>1. Append(Top.args, expr) \in Seq(V) /\ Top.rest \in Seq(V)
  BY <1>0, FrameFields
<1>2. CASE HandleRecur(Append(Top.args, expr), Below)
  BY <1>0, <1>1, <1>2, RecurOver
<1>3. CASE /\ Top.rest # <<>>
           /\ Run(Top.rest[1], env,
                  Push(Below, RecurFrame(Append(Top.args, expr), Tail(Top.rest))))
  <2> DEFINE frame == RecurFrame(Append(Top.args, expr), Tail(Top.rest))
  <2>1. Top.rest[1] \in V /\ Tail(Top.rest) \in Seq(V)
    BY <1>1, <1>3
  <2>2. frame \in FrameOver(V) /\ FrameReady(frame)
    BY <1>1, <2>1 DEF RecurFrame, FrameOver, FrameReady
  <2>3. Push(Below, frame) \in Stack(V)
    BY <1>0, <2>2, PushedStack
  <2>4. StateOver(V)'
    BY <1>0, <1>3, <2>1, <2>3, EndsOver
  <2> QED
    BY <2>4 DEF OldOrMade
<1> QED
  BY <1>2, <1>3 DEF DeliverRecur

-----------------------------------------------------------------------------
(* What every state is made of *)

(* The initial state is made of the program and the library. *)
LEMMA InitOver == Init => StateOver(Val)
<1> SUFFICES ASSUME Init PROVE StateOver(Val)
  OBVIOUS
<1>1. expr \in Val /\ stack \in Stack(Val) /\ effect \in Requests(Val)
  BY StepAssumption DEF Init, Stack, Requests
<1>2. env \in EnvOver(Val)
  <2>1. Global \in Scope(Val) /\ env = <<Global>>
    BY StepAssumption DEF Init
  <2>2. <<Global>> \in Seq(Scope(Val))
    BY <2>1
  <2> QED
    BY <2>1, <2>2 DEF EnvOver
<1> QED
  BY <1>1, <1>2 DEF StateOver

(* The invariant holds at first. *)
LEMMA IInvInit == Init => IInv
  BY TypeInit, InitOver, ClosedVal DEF IInv

(* A suspended state asks for an effect there is. *)
LEMMA RequestedEffect ==
    ASSUME NEW V, TypeOK, StateOver(V), status = "suspended"
    PROVE  effect[1].name \in Effect
<1> DEFINE R == [name : Effect, args : Seq(V)]
<1>1. effect \in Seq(R) /\ effect # <<>>
  BY DEF StateOver, TypeOK, Requests
<1>2. effect[1] \in R
  <2> HIDE DEF R
  <2> QED
    BY <1>1
<1> QED
  BY <1>2

(* Every step makes the state of values taken from a closed set, of which  *)
(* at most one is a new closure, and new ones only where one is made.      *)
LEMMA ValuesNext ==
    ASSUME TypeOK, NEW V, Closed(V), StateOver(V), [Next]_vars
    PROVE  \E W : /\ Closed(W) /\ StateOver(W)' /\ OldOrMade(V, W)
                  /\ W = V \/ EvalFn \/ EvalRecur \/ DeliverRecur
<1>0. OldOrMade(V, V)
  BY DEF OldOrMade
<1>1. CASE EvalFn
  BY <1>1, FnOver
<1>2. CASE EvalRecur
  <2>0. /\ env \in EnvOver(V) /\ stack \in Stack(V) /\ effect \in Requests(V)
        /\ IsForm
    BY <1>2 DEF StateOver, EvalRecur, Form
  <2>1. CASE HandleRecur(<<>>, stack)
    <3>1. <<>> \in Seq(V)
      OBVIOUS
    <3>2. PICK s : s = stack
      OBVIOUS
    <3>3. s \in Stack(V) /\ HandleRecur(<<>>, s)
      BY <2>0, <2>1, <3>2
    <3>4. \E W : Closed(W) /\ StateOver(W)' /\ OldOrMade(V, W)
      BY <3>1, <3>3, RecurOver
    <3> QED
      BY <1>2, <3>4
  <2>2. CASE /\ Size > 1
             /\ Run(Item(2), env,
                    Push(stack, RecurFrame(<<>>, SubSeq(expr.items, 3, Size))))
    <3> DEFINE rest == SubSeq(expr.items, 3, Size)
    <3>1. /\ expr.items \in Seq(V) /\ Size \in Nat /\ Size = Len(expr.items)
          /\ Item(2) \in V
      BY <2>0, <2>2, FormItems DEF Size
    <3>2. rest \in Seq(V) /\ <<>> \in Seq(V)
      BY <2>2, <3>1, RestOfSeq
    <3>3. RecurFrame(<<>>, rest) \in FrameOver(V) /\ FrameReady(RecurFrame(<<>>, rest))
      BY <3>2 DEF RecurFrame, FrameOver, FrameReady
    <3>4. Push(stack, RecurFrame(<<>>, rest)) \in Stack(V)
      BY <2>0, <3>3, PushedStack
    <3>5. StateOver(V)'
      BY <2>0, <2>2, <3>1, <3>4, EndsOver
    <3> QED
      BY <1>0, <3>5
  <2> QED
    BY <1>2, <2>1, <2>2 DEF EvalRecur
<1>3. CASE Eval /\ ~EvalFn /\ ~EvalRecur
  <2>1. StateOver(V)'
    BY <1>3, SimpleOver, BranchOver, BindingOver, CallOver DEF Eval
  <2> QED
    BY <1>0, <2>1
<1>4. CASE DeliverRecur
  BY <1>4, DeliverRecurOver
<1>5. CASE DeliverValue /\ ~DeliverRecur
  <2>1. CASE DeliverDone
    BY <1>0, <2>1 DEF DeliverDone, StateOver
  <2>2. CASE DeliverCall \/ DeliverIf \/ DeliverDo \/ DeliverLet \/ DeliverLoop \/ DeliverTarget
    <3>1. StateOver(V)'
      BY <2>2, DeliverCallOver, DeliverPlainOver, DeliverBindsOver
    <3> QED
      BY <1>0, <3>1
  <2> QED
    BY <1>5, <2>1, <2>2 DEF DeliverValue
<1>6. CASE Resume
  <2>2. effect[1].name \in Effect
    BY <1>6, RequestedEffect DEF Resume
  <2>3. answers[effect[1].name] \in V
    BY <2>2, StepAssumption DEF TypeOK, Closed
  <2>4. <<>> \in Requests(V)
    BY DEF Requests
  <2> QED
    BY <1>0, <1>6, <2>3, <2>4 DEF Resume, StateOver
<1>7. CASE StepSuspended
  <2>1. <<>> \in Requests(V)
    BY DEF Requests
  <2> QED
    BY <1>0, <1>7, <2>1 DEF StepSuspended, StateOver
<1>8. CASE UNCHANGED vars
  BY <1>0, <1>8 DEF vars, state, StateOver
<1> QED
  BY <1>1, <1>2, <1>3, <1>4, <1>5, <1>6, <1>7, <1>8 DEF Next, Stop

(* Every step keeps the state made of values taken from a closed set. *)
LEMMA IInvNext == IInv /\ [Next]_vars => IInv'
<1> SUFFICES ASSUME IInv, [Next]_vars PROVE IInv'
  OBVIOUS
<1>1. TypeOK'
  BY TypeNext DEF IInv
<1>2. PICK V : Closed(V) /\ StateOver(V)
  BY DEF IInv
<1>3. \E W : Closed(W) /\ StateOver(W)'
  BY <1>2, ValuesNext DEF IInv
<1> QED
  BY <1>1, <1>3 DEF IInv

(* The inductive invariant holds in every reachable state. *)
LEMMA Invariance == Spec => []IInv
<1> QED
  BY IInvInit, IInvNext, PTL DEF Spec

(* Whatever the program, deliver_value never takes an item of a list that  *)
(* is not there: no frame of do, let, loop or a loop-target is ever pushed *)
(* with too few expressions, names or values left.                         *)
THEOREM NoItemIsMissing == Spec => []FramesReady
<1>1. IInv => FramesReady
  <2> SUFFICES ASSUME IInv, NEW i \in DOMAIN stack PROVE FrameReady(stack[i])
    BY DEF FramesReady
  <2>1. PICK V : StateOver(V)
    BY DEF IInv
  <2>2. stack[i] \in ReadyFrame(V)
    BY <2>1 DEF StateOver, Stack
  <2> QED
    BY <2>2 DEF ReadyFrame
<1> QED
  BY <1>1, Invariance, PTL

(* Whatever the program does with closures, loops, jumps and scopes that   *)
(* outlive their forms, the library stays reachable from the env, from     *)
(* every env a frame keeps, and from every closure that can be called next *)
(* or is bound in the env.                                                 *)
THEOREM LibraryStaysInScope == Spec => []GlobalStays
<1>1. IInv => GlobalStays
  <2> SUFFICES ASSUME IInv PROVE GlobalStays
    OBVIOUS
  <2>1. PICK V : Closed(V) /\ StateOver(V)
    BY DEF IInv
  <2>2. \A r \in EnvOver(V) : EndsInGlobal(r)
    BY DEF EnvOver, EndsInGlobal
  <2>3. \A v \in V : v.type = "closure" => EndsInGlobal(v.env)
    BY <2>1, <2>2 DEF Closed
  <2>4. EndsInGlobal(env) /\ (expr.type = "closure" => EndsInGlobal(expr.env))
    BY <2>1, <2>2, <2>3 DEF StateOver
  <2>5. ASSUME NEW i \in DOMAIN stack,
               stack[i].op \in {"let-binds", "loop-binds", "loop-target"}
        PROVE  EndsInGlobal(stack[i].env)
    <3>1. stack[i] \in FrameOver(V)
      BY <2>1 DEF StateOver, Stack, ReadyFrame
    <3>2. stack[i].env \in EnvOver(V)
      BY <2>5, <3>1, FrameFields
    <3> QED
      BY <2>2, <3>2
  <2>6. ASSUME NEW i \in DOMAIN env, NEW y \in Name,
               env[i][y] # NULL, env[i][y].type = "closure"
        PROVE  EndsInGlobal(env[i][y].env)
    <3>1. env[i][y] \in V
      BY <2>1, <2>6, FoundValue DEF StateOver
    <3> QED
      BY <2>3, <2>6, <3>1
  <2> QED
    BY <2>4, <2>5, <2>6 DEF GlobalStays
<1> QED
  BY <1>1, Invariance, PTL

(* Inside one step(), every call that deliver_value makes of itself has a  *)
(* shorter stack: the recursion of step.c is never deeper than the stack.  *)
THEOREM DeliveryTerminates == Spec => DeliverPops
<1>1. IInv /\ [Next]_vars =>
        [ctl = "deliver" /\ ctl' = "deliver" => Len(stack') < Len(stack)]_vars
  <2> SUFFICES ASSUME IInv, Next, ctl = "deliver", ctl' = "deliver", ~UNCHANGED vars
               PROVE  Len(stack') < Len(stack)
    BY DEF vars
  <2>1. PICK V : Closed(V) /\ StateOver(V)
    BY DEF IInv
  <2>2. status = "running" /\ stack \in Stack(V)
    BY <2>1 DEF IInv, TypeOK, StateOver
  <2>3. DeliverValue
    BY <2>2 DEF Next, Eval, EvalAtom, EvalSymbol, EvalEmptyList, EvalQuote, EvalIf, EvalDo,
       EvalLet, EvalFn, EvalLoop, EvalRecur, EvalCall, StepCall, Resume, StepSuspended, Stop
  <2>4. stack # <<>> /\ stack' = Below
    <3>1. CASE DeliverTarget
      BY <3>1 DEF DeliverTarget, DeliverTo, Deliver
    <3>2. CASE DeliverCall
      <4>1. Apply(CallFunc, CallArgs, Below)
        BY <3>2 DEF DeliverCall, Run
      <4>2. ApplyBuiltin(CallFunc, CallArgs, Below)
        BY <4>1 DEF Apply, Suspend, ApplyClosure, ApplyForged, Abort, Run, Fail
      <4> QED
        BY <3>2, <4>2 DEF ApplyBuiltin, Deliver, Fail, DeliverCall, DeliverTo
    <3> QED
      BY <2>3, <3>1, <3>2 DEF DeliverValue, DeliverDone, DeliverIf, DeliverDo, DeliverLet,
         DeliverLoop, DeliverRecur, HandleRecur, Restart, Run, Fail
  <2> QED
    BY <2>2, <2>4, TopBelow
<1> QED
  BY <1>1, Invariance, PTL DEF Spec, DeliverPops

-----------------------------------------------------------------------------
(* Where the forms of a program stand *)

(* The items of a list are values that are not as deep. *)
LEMMA ItemsShallower ==
    ASSUME NEW e \in Val, e.type = "list"
    PROVE  /\ e.items \in Seq(Val) /\ Depth(e) \in Nat
           /\ \A i \in DOMAIN e.items :
                /\ e.items[i] \in Val
                /\ Depth(e.items[i]) \in Nat /\ Depth(e.items[i]) < Depth(e)
<1>1. e.items \in Seq(Val)
  BY StepAssumption, Zenon
<1>2. \A i \in DOMAIN e.items : e.items[i] \in Val
  BY <1>1
<1> QED
  BY <1>1, <1>2, DepthAssumption

(* The pairs of a list: a name at an odd place, its value at the next one. *)
LEMMA PairPlaces ==
    ASSUME NEW n \in Nat
    PROVE  /\ \A j \in 1 .. n \div 2 : 2 * j \in 1 .. n /\ 2 * j - 1 \in 1 .. n
           /\ n % 2 = 0 =>
                \A i \in 1 .. n :
                    /\ i % 2 = 0 => i \div 2 \in 1 .. n \div 2 /\ i = 2 * (i \div 2)
                    /\ i % 2 = 1 =>
                        (i + 1) \div 2 \in 1 .. n \div 2 /\ i = 2 * ((i + 1) \div 2) - 1
  OBVIOUS

(* A form is of one kind. *)
LEMMA OneForm ==
    ASSUME NEW e, NEW x, NEW y, HasForm(e, x), HasForm(e, y)
    PROVE  x = y
  BY DEF HasForm, Sym

(* The evaluated items of a well-formed form are there. *)
LEMMA EvaluatedThere ==
    ASSUME NEW e \in Val, IsList(e), WellFormed(e), NEW i \in Evaluated(e)
    PROVE  i \in DOMAIN e.items
<1> DEFINE n == Len(e.items)
<1>1. n \in Nat /\ n > 0 /\ DOMAIN e.items = 1 .. n
  BY ItemsShallower DEF IsList
<1> HIDE DEF n
<1>2. CASE HasForm(e, "quote")
  BY <1>2, OneForm DEF Evaluated
<1>3. CASE HasForm(e, "if") \/ HasForm(e, "do")
  BY <1>1, <1>3, OneForm DEF Evaluated, n
<1>4. CASE HasForm(e, "let") \/ HasForm(e, "loop") \/ HasForm(e, "fn")
  <2>1. n = 3 /\ i = 3
    BY <1>4, OneForm DEF Evaluated, WellFormed, n
  <2> QED
    BY <2>1, <1>1
<1>5. CASE ~ (HasForm(e, "quote") \/ HasForm(e, "if") \/ HasForm(e, "do")
              \/ HasForm(e, "let") \/ HasForm(e, "loop") \/ HasForm(e, "fn"))
  BY <1>1, <1>5 DEF Evaluated, n
<1> QED
  BY <1>2, <1>3, <1>4, <1>5

(* The parts of a form are not as deep as the form. *)
LEMMA PartsShallower ==
    ASSUME NEW o, o.form \in Val, NEW x \in Parts(o)
    PROVE  /\ x.form \in Val /\ IsList(o.form)
           /\ Depth(x.form) \in Nat /\ Depth(o.form) \in Nat
           /\ Depth(x.form) < Depth(o.form)
<1> DEFINE e == o.form
<1>1. IsList(e) /\ WellFormed(e)
  BY DEF Parts
<1>2. /\ Depth(e) \in Nat
      /\ \A i \in DOMAIN e.items :
            /\ e.items[i] \in Val
            /\ Depth(e.items[i]) \in Nat /\ Depth(e.items[i]) < Depth(e)
  BY <1>1, ItemsShallower DEF IsList
<1>3. CASE \E i \in Evaluated(e) : x = At(e.items[i], ItemPlace(e, i, o.place))
  <2>1. PICK i \in Evaluated(e) : x = At(e.items[i], ItemPlace(e, i, o.place))
    BY <1>3
  <2>2. i \in DOMAIN e.items
    BY <1>1, EvaluatedThere
  <2>3. x.form = e.items[i]
    BY <2>1 DEF At
  <2> QED
    BY <1>1, <1>2, <2>2, <2>3
<1>4. CASE \E j \in 1 .. BindingCount(e) : x = At(e.items[2].items[2 * j], BoundValue)
  <2>1. PICK j \in 1 .. BindingCount(e) : x = At(e.items[2].items[2 * j], BoundValue)
    BY <1>4
  <2> DEFINE b == e.items[2]
  <2>2. IsBinder(e) /\ BindingCount(e) = Len(b.items) \div 2
    <3>1. ~ IsBinder(e) => BindingCount(e) = 0
      BY Zenon DEF BindingCount
    <3>2. IsBinder(e) => BindingCount(e) = Len(b.items) \div 2
      BY Zenon DEF BindingCount
    <3>3. BindingCount(e) # 0
      <4>1. j \in 1 .. BindingCount(e)
        BY <2>1
      <4> HIDE DEF e
      <4> QED
        BY <4>1
    <3> QED
      BY <3>1, <3>2, <3>3, Zenon
  <2>3. Len(e.items) = 3 /\ b.type = "list"
    BY <2>2, OneForm DEF IsBinder, WellFormed
  <2>4. 2 \in DOMAIN e.items
    <3>1. e.items \in Seq(Val)
      BY <1>1, ItemsShallower DEF IsList
    <3> QED
      BY <2>3, <3>1
  <2>5. b \in Val /\ Depth(b) \in Nat /\ Depth(b) < Depth(e)
    BY <1>2, <2>4
  <2> HIDE DEF b
  <2>6. /\ b.items \in Seq(Val)
        /\ \A i \in DOMAIN b.items :
            b.items[i] \in Val /\ Depth(b.items[i]) \in Nat /\ Depth(b.items[i]) < Depth(b)
    BY <2>3, <2>5, ItemsShallower
  <2>7. Len(b.items) \in Nat /\ DOMAIN b.items = 1 .. Len(b.items)
    BY <2>6
  <2>8. 2 * j \in DOMAIN b.items
    BY <2>1, <2>2, <2>7, PairPlaces
  <2>9. x.form = b.items[2 * j]
    BY <2>1 DEF At, b
  <2> QED
    BY <1>1, <1>2, <2>5, <2>6, <2>8, <2>9
<1> QED
  BY <1>1, <1>3, <1>4 DEF Parts

(* Of natural numbers there is a least one. *)
LEMMA LeastOfNaturals ==
    ASSUME NEW S \in SUBSET Nat, S # {}
    PROVE  \E n \in S : \A k \in S : n <= k
<1> DEFINE R == {ss \in Nat \X Nat : ss[1] < ss[2]}
<1>1. IsWellFoundedOn(R, Nat)
  BY NatLessThanWellFounded DEF OpToRel
<1>2. PICK n \in S : \A k \in S : <<k, n>> \notin R
  <2> HIDE DEF R
  <2> QED
    BY <1>1, WFMin
<1>3. ASSUME NEW k \in S PROVE n <= k
  <2>1. k \in Nat /\ n \in Nat /\ <<k, n>> \notin R
    BY <1>2
  <2>2. ~ (k < n)
    BY <2>1
  <2> QED
    BY <2>1, <2>2
<1> QED
  BY <1>3

(* The occurrences found in k steps into the text. *)
Level(p, f, k) == IF k = 0 THEN {At(p, FnBody)} ELSE WithParts(f[k - 1])
IsLevels(p, f) == f = [k \in 0 .. Depth(p) |-> Level(p, f, k)]

(* Occurrences is the last of these levels. *)
LEMMA LevelsExist ==
    ASSUME NEW p, Depth(p) \in Nat
    PROVE  \E f : IsLevels(p, f) /\ Occurrences(p) = f[Depth(p)]
<1> DEFINE D == Depth(p)
           Solves(f, d) == \A n \in 0 .. D : n < d => f[n] = Level(p, f, n)
           Unsolved == {d \in Nat : ~ \E f : Solves(f, d)}
<1>1. ASSUME NEW f, NEW g, NEW n \in 0 .. D, n # 0 => f[n - 1] = g[n - 1]
      PROVE  Level(p, f, n) = Level(p, g, n)
  BY <1>1 DEF Level
<1>2. \E f : Solves(f, 0)
  <2>1. \A n \in 0 .. D : ~ (n < 0)
    OBVIOUS
  <2> QED
    BY <2>1
<1>3. ASSUME NEW d \in Nat, NEW f, Solves(f, d) PROVE \E g : Solves(g, d + 1)
  <2> DEFINE g == [n \in 0 .. D |-> Level(p, f, n)]
  <2>1. \A n \in 0 .. D : g[n] = Level(p, f, n)
    OBVIOUS
  <2>2. \A n \in 0 .. D : n < d => f[n] = Level(p, f, n)
    BY <1>3
  <2> HIDE DEF g
  <2>3. ASSUME NEW n \in 0 .. D, n < d + 1 PROVE g[n] = Level(p, g, n)
    <3>1. n # 0 => n - 1 \in 0 .. D /\ n - 1 < d
      BY <2>3
    <3>2. n # 0 => f[n - 1] = g[n - 1]
      BY <2>1, <2>2, <3>1
    <3> QED
      BY <1>1, <2>1, <3>2
  <2> QED
    BY <2>3
<1>4. Unsolved = {}
  <2> SUFFICES ASSUME Unsolved # {} PROVE FALSE
    OBVIOUS
  <2>1. Unsolved \in SUBSET Nat
    OBVIOUS
  <2> HIDE DEF Solves, Unsolved
  <2>2. PICK d \in Unsolved : \A m \in Unsolved : d <= m
    BY <2>1, LeastOfNaturals
  <2>3. d \in Nat /\ ~ \E f : Solves(f, d)
    BY <2>2 DEF Unsolved
  <2>4. d # 0
    BY <1>2, <2>3
  <2>5. d - 1 \in Nat /\ d - 1 + 1 = d /\ d - 1 \notin Unsolved
    BY <2>2, <2>3, <2>4
  <2>6. PICK f : Solves(f, d - 1)
    BY <2>5 DEF Unsolved
  <2> QED
    BY <1>3, <2>3, <2>5, <2>6
<1>5. PICK f : Solves(f, D + 1)
  <2> HIDE DEF Solves, Unsolved
  <2>1. D + 1 \in Nat /\ D + 1 \notin Unsolved
    BY <1>4
  <2> QED
    BY <2>1 DEF Unsolved
<1> DEFINE g == [n \in 0 .. D |-> f[n]]
<1>6. \A n \in 0 .. D : f[n] = Level(p, f, n)
  BY <1>5
<1>7. IsLevels(p, g)
  <2>1. \A n \in 0 .. D : g[n] = f[n]
    OBVIOUS
  <2>2. g = [n \in 0 .. D |-> g[n]]
    OBVIOUS
  <2> HIDE DEF g
  <2>3. ASSUME NEW n \in 0 .. D PROVE g[n] = Level(p, g, n)
    <3>1. n # 0 => n - 1 \in 0 .. D
      OBVIOUS
    <3>2. n # 0 => f[n - 1] = g[n - 1]
      BY <2>1, <3>1
    <3> QED
      BY <1>1, <1>6, <2>1, <3>2
  <2> QED
    BY <2>2, <2>3 DEF IsLevels
<1> DEFINE h == CHOOSE u : IsLevels(p, u)
<1>8. IsLevels(p, h)
  BY <1>7
<1>9. Occurrences(p) = h[D]
  BY DEF Occurrences, IsLevels, Level
<1> QED
  BY <1>8, <1>9

(* A form of the text p whose parts are all found, or no deeper than n. *)
FoundIn(S, p, o, n) ==
    /\ o.form \in Val /\ Depth(o.form) \in Nat /\ Depth(o.form) <= Depth(p)
    /\ Parts(o) \subseteq S \/ Depth(o.form) <= n

(* The forms of the text are values, and their parts are in the text too.  *)
LEMMA OccurrencesAre ==
    ASSUME NEW p \in Val
    PROVE  /\ At(p, FnBody) \in Occurrences(p)
           /\ \A o \in Occurrences(p) :
                /\ o.form \in Val
                /\ Depth(o.form) \in Nat /\ Depth(o.form) <= Depth(p)
                /\ Parts(o) \subseteq Occurrences(p)
<1>1. Depth(p) \in Nat
  BY DepthAssumption
<1>2. PICK f : IsLevels(p, f) /\ Occurrences(p) = f[Depth(p)]
  BY <1>1, LevelsExist
<1> DEFINE root == At(p, FnBody)
           Good(k) == root \in f[k] /\ \A o \in f[k] : FoundIn(f[k], p, o, Depth(p) - k)
           Bad == {k \in Nat : k <= Depth(p) /\ ~ Good(k)}
<1>3. f[0] = {root}
  BY <1>1, <1>2 DEF IsLevels, Level
<1>4. ASSUME NEW k \in Nat, k < Depth(p) PROVE f[k + 1] = WithParts(f[k])
  <2>1. k + 1 \in 0 .. Depth(p) /\ k + 1 # 0 /\ k + 1 - 1 = k
    BY <1>1, <1>4
  <2>2. f[k + 1] = Level(p, f, k + 1)
    BY <1>2, <2>1 DEF IsLevels
  <2> QED
    BY <2>1, <2>2 DEF Level
<1>5. Good(0)
  BY <1>1, <1>3 DEF FoundIn, At
<1>6. ASSUME NEW k \in Nat, k < Depth(p), Good(k) PROVE Good(k + 1)
  <2> DEFINE S == f[k]
             T == f[k + 1]
  <2>1. T = S \cup UNION {Parts(o) : o \in S}
    BY <1>4, <1>6 DEF WithParts
  <2>2. \A o \in S : FoundIn(S, p, o, Depth(p) - k)
    BY <1>6
  <2>3. root \in T
    BY <1>6, <2>1
  <2> HIDE DEF S, T
  <2>4. ASSUME NEW o \in S PROVE FoundIn(T, p, o, Depth(p) - (k + 1))
    <3>1. Parts(o) \subseteq T
      BY <2>1
    <3> QED
      BY <2>2, <3>1 DEF FoundIn
  <2>5. ASSUME NEW q \in S, NEW o \in Parts(q) PROVE FoundIn(T, p, o, Depth(p) - (k + 1))
    <3>1. CASE o \in S
      BY <2>4, <3>1
    <3>2. CASE o \notin S
      <4>1. /\ q.form \in Val /\ Depth(q.form) \in Nat
            /\ Depth(q.form) <= Depth(p) /\ Depth(q.form) <= Depth(p) - k
        BY <2>2, <3>2 DEF FoundIn
      <4>2. o.form \in Val /\ Depth(o.form) \in Nat /\ Depth(o.form) < Depth(q.form)
        BY <4>1, PartsShallower
      <4>3. Depth(o.form) <= Depth(p) /\ Depth(o.form) <= Depth(p) - (k + 1)
        BY <1>1, <4>1, <4>2
      <4> QED
        BY <4>2, <4>3 DEF FoundIn
    <3> QED
      BY <3>1, <3>2
  <2>6. \A o \in T : FoundIn(T, p, o, Depth(p) - (k + 1))
    BY <2>1, <2>4, <2>5
  <2> QED
    BY <2>3, <2>6 DEF T
<1>7. Bad = {}
  <2> SUFFICES ASSUME Bad # {} PROVE FALSE
    OBVIOUS
  <2>1. Bad \in SUBSET Nat
    OBVIOUS
  <2> HIDE DEF Good, Bad
  <2>2. PICK k \in Bad : \A m \in Bad : k <= m
    BY <2>1, LeastOfNaturals
  <2>3. k \in Nat /\ k <= Depth(p) /\ ~ Good(k)
    BY <2>2 DEF Bad
  <2>4. k # 0
    BY <1>5, <2>3
  <2>5. k - 1 \in Nat /\ k - 1 < Depth(p) /\ k - 1 + 1 = k /\ k - 1 \notin Bad
    BY <1>1, <2>2, <2>3, <2>4
  <2>6. Good(k - 1)
    BY <1>1, <2>5 DEF Bad
  <2>7. Good(k)
    BY <1>6, <2>5, <2>6
  <2> QED
    BY <2>3, <2>7
<1>8. Good(Depth(p))
  <2> HIDE DEF Good
  <2> QED
    BY <1>1, <1>7
<1>9. ASSUME NEW o \in Occurrences(p)
      PROVE  /\ o.form \in Val
             /\ Depth(o.form) \in Nat /\ Depth(o.form) <= Depth(p)
             /\ Parts(o) \subseteq Occurrences(p)
  <2>1. FoundIn(Occurrences(p), p, o, Depth(p) - Depth(p))
    BY <1>2, <1>8, <1>9
  <2>2. CASE Parts(o) \subseteq Occurrences(p)
    BY <2>1, <2>2 DEF FoundIn
  <2>3. CASE Depth(o.form) <= Depth(p) - Depth(p)
    <3>1. o.form \in Val /\ Depth(o.form) \in Nat /\ Depth(o.form) <= Depth(p)
      BY <2>1 DEF FoundIn
    <3>2. ~ \E x : x \in Parts(o)
      BY <1>1, <2>3, <3>1, PartsShallower
    <3> QED
      BY <3>1, <3>2
  <2> QED
    BY <2>1, <2>2, <2>3 DEF FoundIn
<1> QED
  BY <1>2, <1>8, <1>9

-----------------------------------------------------------------------------
(* Where the forms of a state stand in the text of its program p *)

(* e can be evaluated on k frames, of which the top one is a b. *)
Fits(p, e, k, b) ==
    \E o \in Occurrences(p) :
        /\ o.form = e
        /\ NoEmptyLoop(p) /\ o.place.recur => b = "loop-target"
        /\ TailCalls(p) => k + Depth(e) <= Depth(p) /\ (o.place.tail => k = 0)
Text(p, e, k, b) ==
    /\ TailCalls(p) => k <= Depth(p)
    /\ IsList(e) /\ ~ HasForm(e, "quote") => Fits(p, e, k, b)

Names(p, s) ==
    \A i \in DOMAIN s : i % 2 = 1 => \A y \in Name : s[i] = Sym(y) => y \in NamesBound(p)
Pairs(p, s, k) ==
    /\ Names(p, s)
    /\ \A i \in DOMAIN s : i % 2 = 0 => Text(p, s[i], k, "none")

(* The loop that recur builds is in no text, but its names and body are.   *)
Restarts(p, e, k) ==
    /\ HasForm(e, "loop") /\ Len(e.items) = 3 /\ e.items[2].items # <<>>
    /\ Pairs(p, e.items[2].items, k + 1)
    /\ Text(p, e.items[3], k + 1, "loop-target")

(* Only names of the program hide those of the library. *)
EnvNames(p, r) ==
    \A i \in 1 .. Len(r) - 1 : \A y \in Name : r[i][y] # NULL => y \in NamesBound(p)
ClosureFits(p, c) ==
    /\ At(c.body, FnBody) \in Occurrences(p)
    /\ \A i \in DOMAIN c.params : \A y \in Name : c.params[i] = Sym(y) => y \in NamesBound(p)
    /\ EnvNames(p, c.env)
ClosuresFit(p, V) == \A c \in V : c.type = "closure" => ClosureFits(p, c)

(* Frame f on k frames, of which the top one is a b. *)
FrameFits(p, f, k, b) ==
    /\ f.op = "call" => \A j \in DOMAIN f.rest : Text(p, f.rest[j], k + 1, "none")
    /\ f.op = "if-branch" => Text(p, f.then, k, b) /\ Text(p, f.else, k, b)
    /\ f.op = "do-rest" =>
        \A j \in DOMAIN f.rest : IF j = Len(f.rest) THEN Text(p, f.rest[j], k, b)
                                                    ELSE Text(p, f.rest[j], k + 1, "none")
    /\ f.op = "let-binds" => Pairs(p, f.rest, k + 1) /\ Text(p, f.body, k, b) /\ EnvNames(p, f.env)
    /\ f.op = "loop-binds" =>
        /\ Pairs(p, f.rest, k + 1) /\ Names(p, f.orig)
        /\ Text(p, f.body, k + 1, "loop-target") /\ EnvNames(p, f.env)
    /\ f.op = "loop-target" =>
        Names(p, f.rest) /\ Text(p, f.body, k + 1, "loop-target") /\ EnvNames(p, f.env)
    /\ f.op = "recur-args" =>
        /\ RecursPlaced(p) /\ NoEmptyLoop(p) => b = "loop-target"
        /\ \A j \in DOMAIN f.rest : Text(p, f.rest[j], k + 1, "none")

(* Which frame is at place k: none below the first one. *)
OpAt(s, k) == IF k = 0 THEN "none" ELSE s[k].op
StackFits(p, s) ==
    /\ TailCalls(p) => Len(s) <= Depth(p)
    /\ \A i \in DOMAIN s : FrameFits(p, s[i], i - 1, OpAt(s, i - 1))

(* A call above the first frame is of a function of the library. *)
HeadFits(p, f, k) ==
    TailCalls(p) /\ f.op = "call" => k = 0 \/ (f.func # NULL /\ f.func.type # "closure")
HeadsFit(p, s) == \A i \in DOMAIN s : HeadFits(p, s[i], i - 1)

(* The function of the call on top is not known yet. *)
HeadOpen(p, s) ==
    /\ s # <<>> /\ s[Len(s)].op = "call" /\ s[Len(s)].func = NULL
    /\ HeadsFit(p, SubSeq(s, 1, Len(s) - 1))
HeadKnown(p) == IF ctl = "deliver" THEN expr \in Val ELSE OfLibrary(p, expr)

NoRecurError(p) ==
    error \in {"recur outside loop", "recur not in tail position"} =>
        ~ (RecursPlaced(p) /\ NoEmptyLoop(p))

StateFits(p) ==
    /\ EnvNames(p, env)
    /\ TailCalls(p) => Len(stack) <= Depth(p)
    /\ status \in {"running", "suspended"} =>
        /\ StackFits(p, stack)
        /\ HeadsFit(p, stack) \/ (status = "running" /\ HeadKnown(p) /\ HeadOpen(p, stack))
    /\ status = "running" /\ ctl = "step" =>
        \/ Text(p, expr, Len(stack), OpAt(stack, Len(stack)))
        \/ Restarts(p, expr, Len(stack))
    /\ NoRecurError(p)

(* What needs no frame below needs no particular one. *)
LEMMA TextAnywhere ==
    ASSUME NEW p, NEW e, NEW k, NEW b, Text(p, e, k, "none")
    PROVE  Text(p, e, k, b)
  BY DEF Text, Fits

(* Where the parts of a form can be evaluated. *)
LEMMA PartText ==
    ASSUME NEW p \in Val, NEW o \in Occurrences(p), NEW k \in Nat,
           TailCalls(p) => k + Depth(o.form) <= Depth(p), NEW x \in Parts(o)
    PROVE  /\ TailCalls(p) => k + 1 <= Depth(p)
           /\ x.place \in {Inside, BoundValue} => \A b : Text(p, x.form, k + 1, b)
           /\ x.place = LoopBody(o.place) =>
                /\ Text(p, x.form, k + 1, "loop-target")
                /\ ~ NoEmptyLoop(p) => \A b : Text(p, x.form, k, b)
           /\ \A b : /\ x.place = o.place
                     /\ NoEmptyLoop(p) /\ o.place.recur => b = "loop-target"
                     /\ TailCalls(p) => (o.place.tail => k = 0)
                     => Text(p, x.form, k, b)
<1>1. o.form \in Val /\ Depth(p) \in Nat /\ x \in Occurrences(p)
  BY OccurrencesAre, DepthAssumption
<1>2. Depth(x.form) \in Nat /\ Depth(o.form) \in Nat /\ Depth(x.form) < Depth(o.form)
  BY <1>1, PartsShallower
<1>3. TailCalls(p) =>
        /\ k + 1 <= Depth(p) /\ k <= Depth(p)
        /\ k + Depth(x.form) <= Depth(p) /\ k + 1 + Depth(x.form) <= Depth(p)
  BY <1>1, <1>2
<1>4. /\ ~ Inside.recur /\ ~ Inside.tail /\ ~ BoundValue.recur /\ ~ BoundValue.tail
      /\ ~ LoopBody(o.place).tail
  BY DEF Inside, BoundValue, LoopBody, Place
<1>5. ASSUME x.place \in {Inside, BoundValue}, NEW b PROVE Text(p, x.form, k + 1, b)
  BY <1>1, <1>3, <1>4, <1>5 DEF Text, Fits
<1>6. ASSUME x.place = LoopBody(o.place)
      PROVE  /\ Text(p, x.form, k + 1, "loop-target")
             /\ ~ NoEmptyLoop(p) => \A b : Text(p, x.form, k, b)
  BY <1>1, <1>3, <1>4, <1>6 DEF Text, Fits
<1>7. ASSUME NEW b, x.place = o.place,
             NoEmptyLoop(p) /\ o.place.recur => b = "loop-target",
             TailCalls(p) => (o.place.tail => k = 0)
      PROVE  Text(p, x.form, k, b)
  BY <1>1, <1>3, <1>7 DEF Text, Fits
<1> QED
  BY <1>3, <1>5, <1>6, <1>7

(* Where the items of a form stand. *)
LEMMA ItemAt ==
    ASSUME NEW o, IsList(o.form), WellFormed(o.form), NEW i \in Evaluated(o.form)
    PROVE  At(o.form.items[i], ItemPlace(o.form, i, o.place)) \in Parts(o)
  BY DEF Parts

(* The two fields of an occurrence. *)
LEMMA AtFields ==
    ASSUME NEW e, NEW q PROVE At(e, q).form = e /\ At(e, q).place = q
  BY DEF At

(* if leaves its place to a branch. *)
LEMMA IfText ==
    ASSUME NEW p \in Val, NEW e, NEW k \in Nat, NEW b, Fits(p, e, k, b),
           HasForm(e, "if"), Len(e.items) = 4
    PROVE  /\ TailCalls(p) => k + 1 <= Depth(p)
           /\ \A c : Text(p, e.items[2], k + 1, c)
           /\ Text(p, e.items[3], k, b) /\ Text(p, e.items[4], k, b)
<1>1. PICK o \in Occurrences(p) :
        /\ o.form = e
        /\ NoEmptyLoop(p) /\ o.place.recur => b = "loop-target"
        /\ TailCalls(p) => k + Depth(e) <= Depth(p) /\ (o.place.tail => k = 0)
  BY DEF Fits
<1>2. IsList(e) /\ WellFormed(e)
  BY OneForm DEF HasForm, WellFormed
<1>3. Evaluated(e) = 2 .. 4
  BY OneForm DEF Evaluated
<1>4. 2 \in Evaluated(e) /\ 3 \in Evaluated(e) /\ 4 \in Evaluated(e)
  BY <1>3
<1>5. /\ ItemPlace(e, 2, o.place) = Inside
      /\ ItemPlace(e, 3, o.place) = o.place /\ ItemPlace(e, 4, o.place) = o.place
  BY OneForm DEF ItemPlace
<1>6. /\ At(e.items[2], Inside) \in Parts(o)
      /\ At(e.items[3], o.place) \in Parts(o) /\ At(e.items[4], o.place) \in Parts(o)
  BY <1>1, <1>2, <1>4, <1>5, ItemAt, Zenon
<1>7. (TailCalls(p) => k + 1 <= Depth(p)) /\ \A c : Text(p, e.items[2], k + 1, c)
  BY <1>1, <1>6, PartText, AtFields
<1>8. Text(p, e.items[3], k, b)
  BY <1>1, <1>6, PartText, AtFields
<1>9. Text(p, e.items[4], k, b)
  BY <1>1, <1>6, PartText, AtFields
<1> QED
  BY <1>7, <1>8, <1>9

(* do leaves its place to its last expression. *)
LEMMA DoText ==
    ASSUME NEW p \in Val, NEW e, NEW k \in Nat, NEW b, Fits(p, e, k, b),
           HasForm(e, "do"), Len(e.items) \in Nat, Len(e.items) >= 2
    PROVE  /\ TailCalls(p) => k + 1 <= Depth(p)
           /\ Text(p, e.items[Len(e.items)], k, b)
           /\ \A i \in 2 .. Len(e.items) :
                i # Len(e.items) => \A c : Text(p, e.items[i], k + 1, c)
<1>1. PICK o \in Occurrences(p) :
        /\ o.form = e
        /\ NoEmptyLoop(p) /\ o.place.recur => b = "loop-target"
        /\ TailCalls(p) => k + Depth(e) <= Depth(p) /\ (o.place.tail => k = 0)
  BY DEF Fits
<1>2. IsList(e) /\ WellFormed(e)
  BY OneForm DEF HasForm, WellFormed
<1>3. Evaluated(e) = 2 .. Len(e.items)
  BY OneForm DEF Evaluated
<1>4. \A i \in 2 .. Len(e.items) :
        ItemPlace(e, i, o.place) = IF i = Len(e.items) THEN o.place ELSE Inside
  BY OneForm DEF ItemPlace
<1>5. ASSUME NEW i \in 2 .. Len(e.items), i # Len(e.items)
      PROVE  (TailCalls(p) => k + 1 <= Depth(p)) /\ \A c : Text(p, e.items[i], k + 1, c)
  <2>1. At(e.items[i], Inside) \in Parts(o)
    BY <1>1, <1>2, <1>3, <1>4, <1>5, ItemAt, Zenon
  <2> QED
    BY <1>1, <2>1, PartText, AtFields
<1>6. Len(e.items) \in 2 .. Len(e.items)
  OBVIOUS
<1>7. At(e.items[Len(e.items)], o.place) \in Parts(o)
  BY <1>1, <1>2, <1>3, <1>4, <1>6, ItemAt, Zenon
<1>8. (TailCalls(p) => k + 1 <= Depth(p)) /\ Text(p, e.items[Len(e.items)], k, b)
  BY <1>1, <1>7, PartText, AtFields
<1> QED
  BY <1>5, <1>8

(* Every item of a call, and of a recur, is evaluated inside. *)
LEMMA CallText ==
    ASSUME NEW p \in Val, NEW e, NEW k \in Nat, NEW b, Fits(p, e, k, b), IsList(e),
           \A x \in SpecialForms \ {"recur"} : ~ HasForm(e, x)
    PROVE  /\ \A i \in 1 .. Len(e.items) :
                /\ TailCalls(p) => k + 1 <= Depth(p)
                /\ \A c : Text(p, e.items[i], k + 1, c)
<1>1. PICK o \in Occurrences(p) :
        /\ o.form = e
        /\ TailCalls(p) => k + Depth(e) <= Depth(p)
  BY DEF Fits
<1>2. /\ ~ HasForm(e, "quote") /\ ~ HasForm(e, "if") /\ ~ HasForm(e, "do")
      /\ ~ HasForm(e, "let") /\ ~ HasForm(e, "loop") /\ ~ HasForm(e, "fn")
  BY DEF SpecialForms
<1>3. WellFormed(e) /\ Evaluated(e) = 1 .. Len(e.items)
  BY <1>2 DEF WellFormed, Evaluated
<1>4. \A i : ItemPlace(e, i, o.place) = Inside
  BY <1>2 DEF ItemPlace
<1>5. ASSUME NEW i \in 1 .. Len(e.items)
      PROVE  (TailCalls(p) => k + 1 <= Depth(p)) /\ \A c : Text(p, e.items[i], k + 1, c)
  <2>1. At(e.items[i], Inside) \in Parts(o)
    BY <1>1, <1>3, <1>4, <1>5, ItemAt, Zenon
  <2> QED
    BY <1>1, <2>1, PartText, AtFields
<1> QED
  BY <1>5

(* A function's body is in the text, and its parameters are names of it. *)
LEMMA FnText ==
    ASSUME NEW p \in Val, NEW e, NEW k, NEW b, Fits(p, e, k, b),
           HasForm(e, "fn"), WellFormed(e)
    PROVE  /\ At(e.items[3], FnBody) \in Occurrences(p)
           /\ \A i \in DOMAIN e.items[2].items : \A y \in Name :
                e.items[2].items[i] = Sym(y) => y \in NamesBound(p)
<1>1. PICK o \in Occurrences(p) : o.form = e
  BY DEF Fits
<1>2. IsList(e)
  BY DEF HasForm
<1>3. 3 \in Evaluated(e) /\ ItemPlace(e, 3, o.place) = FnBody
  BY OneForm DEF Evaluated, ItemPlace
<1>4. At(e.items[3], FnBody) \in Parts(o)
  BY <1>1, <1>2, <1>3, ItemAt, Zenon
<1>5. At(e.items[3], FnBody) \in Occurrences(p)
  BY <1>4, OccurrencesAre
<1>6. \A i \in DOMAIN e.items[2].items : \A y \in Name :
        e.items[2].items[i] = Sym(y) => Binds(e, y)
  BY DEF Binds
<1> QED
  BY <1>1, <1>5, <1>6, Zenon DEF NamesBound

(* The names and values that let and loop bind. *)
LEMMA BinderPairs ==
    ASSUME NEW p \in Val, NEW e, NEW k \in Nat, NEW b, Fits(p, e, k, b), IsBinder(e),
           Len(e.items[2].items) \in Nat,
           DOMAIN e.items[2].items = 1 .. Len(e.items[2].items)
    PROVE  Pairs(p, e.items[2].items, k + 1)
<1> DEFINE s == e.items[2].items
<1>1. PICK o \in Occurrences(p) :
        o.form = e /\ (TailCalls(p) => k + Depth(e) <= Depth(p))
  BY DEF Fits
<1>2. IsList(e) /\ WellFormed(e) /\ Len(s) % 2 = 0 /\ BindingCount(e) = Len(s) \div 2
  <2>1. IsList(e) /\ WellFormed(e) /\ BindingCount(e) = Len(s) \div 2
    BY DEF IsBinder, HasForm, BindingCount
  <2>2. Len(s) % 2 = 0
    BY OneForm DEF IsBinder, WellFormed
  <2> QED
    BY <2>1, <2>2
<1>3. ASSUME NEW i \in DOMAIN s, i % 2 = 1, NEW y \in Name, s[i] = Sym(y)
      PROVE  y \in NamesBound(p)
  <2> DEFINE j == (i + 1) \div 2
  <2>1. j \in 1 .. Len(s) \div 2 /\ i = 2 * j - 1
    BY <1>2, <1>3, PairPlaces
  <2> HIDE DEF j
  <2>2. j \in 1 .. BindingCount(e) /\ e.items[2].items[2 * j - 1] = Sym(y)
    BY <1>2, <1>3, <2>1
  <2>3. Binds(e, y)
    BY <2>2, Zenon DEF Binds
  <2> QED
    BY <1>1, <2>3, Zenon DEF NamesBound
<1>4. ASSUME NEW i \in DOMAIN s, i % 2 = 0 PROVE Text(p, s[i], k + 1, "none")
  <2> DEFINE j == i \div 2
  <2>1. j \in 1 .. Len(s) \div 2 /\ i = 2 * j
    BY <1>2, <1>4, PairPlaces
  <2> HIDE DEF j
  <2>2. j \in 1 .. BindingCount(e) /\ s[i] = e.items[2].items[2 * j]
    BY <1>2, <2>1
  <2>3. At(s[i], BoundValue) \in Parts(o)
    BY <1>1, <1>2, <2>2 DEF Parts
  <2> HIDE DEF s
  <2>4. TailCalls(p) => k + Depth(o.form) <= Depth(p)
    BY <1>1
  <2>5. At(s[i], BoundValue).place \in {Inside, BoundValue} /\ At(s[i], BoundValue).form = s[i]
    BY AtFields
  <2>6. Text(p, At(s[i], BoundValue).form, k + 1, "none")
    BY <2>3, <2>4, <2>5, PartText
  <2> QED
    BY <2>5, <2>6
<1> QED
  BY <1>3, <1>4 DEF Pairs, Names

(* let leaves its place to its body. *)
LEMMA LetText ==
    ASSUME NEW p \in Val, NEW e, NEW k \in Nat, NEW b, Fits(p, e, k, b),
           HasForm(e, "let"), WellFormed(e)
    PROVE  (TailCalls(p) => k + 1 <= Depth(p)) /\ Text(p, e.items[3], k, b)
<1>1. PICK o \in Occurrences(p) :
        /\ o.form = e
        /\ NoEmptyLoop(p) /\ o.place.recur => b = "loop-target"
        /\ TailCalls(p) => k + Depth(e) <= Depth(p) /\ (o.place.tail => k = 0)
  BY DEF Fits
<1>2. IsList(e)
  BY DEF HasForm
<1>3. 3 \in Evaluated(e) /\ ItemPlace(e, 3, o.place) = o.place
  BY OneForm DEF Evaluated, ItemPlace
<1>4. At(e.items[3], o.place) \in Parts(o)
  BY <1>1, <1>2, <1>3, ItemAt, Zenon
<1> QED
  BY <1>1, <1>4, PartText, AtFields

(* The body of a loop is evaluated on its loop-target; a loop that binds   *)
(* nothing has none.                                                       *)
LEMMA LoopText ==
    ASSUME NEW p \in Val, NEW e, NEW k \in Nat, NEW b, Fits(p, e, k, b),
           HasForm(e, "loop"), WellFormed(e)
    PROVE  /\ TailCalls(p) => k + 1 <= Depth(p)
           /\ Text(p, e.items[3], k + 1, "loop-target")
           /\ BindingCount(e) = 0 => Text(p, e.items[3], k, b)
<1>1. PICK o \in Occurrences(p) :
        o.form = e /\ (TailCalls(p) => k + Depth(e) <= Depth(p))
  BY DEF Fits
<1>2. IsList(e)
  BY DEF HasForm
<1>3. 3 \in Evaluated(e) /\ ItemPlace(e, 3, o.place) = LoopBody(o.place)
  BY OneForm DEF Evaluated, ItemPlace
<1>4. At(e.items[3], LoopBody(o.place)) \in Parts(o)
  BY <1>1, <1>2, <1>3, ItemAt, Zenon
<1>5. /\ TailCalls(p) => k + 1 <= Depth(p)
      /\ Text(p, e.items[3], k + 1, "loop-target")
      /\ ~ NoEmptyLoop(p) => Text(p, e.items[3], k, b)
  BY <1>1, <1>4, PartText, AtFields
<1>6. BindingCount(e) = 0 => ~ NoEmptyLoop(p)
  BY <1>1 DEF NoEmptyLoop
<1> QED
  BY <1>5, <1>6

(* A scope of names of the program on an env. *)
LEMMA PushedNames ==
    ASSUME NEW p, NEW V, NEW r \in EnvOver(V), EnvNames(p, r), NEW scope \in Scope(V),
           \A y \in Name : scope[y] # NULL => y \in NamesBound(p)
    PROVE  EnvNames(p, EnvPush(scope, r))
<1> DEFINE q == EnvPush(scope, r)
<1>1. r \in Seq(Scope(V)) /\ Len(r) \in Nat
  BY DEF EnvOver
<1>2. /\ Len(q) = Len(r) + 1 /\ q[1] = scope
      /\ \A i \in 2 .. Len(q) : q[i] = r[i - 1]
  BY <1>1 DEF EnvPush
<1> HIDE DEF q
<1>3. ASSUME NEW i \in 1 .. Len(q) - 1, NEW y \in Name, q[i][y] # NULL
      PROVE  y \in NamesBound(p)
  <2>1. CASE i = 1
    BY <1>2, <1>3, <2>1
  <2>2. CASE i # 1
    <3>1. i - 1 \in 1 .. Len(r) - 1 /\ i \in 2 .. Len(q)
      BY <1>1, <1>2, <2>2
    <3>2. r[i - 1][y] # NULL
      BY <1>2, <1>3, <3>1
    <3> QED
      BY <3>1, <3>2 DEF EnvNames
  <2> QED
    BY <2>1, <2>2
<1> QED
  BY <1>3 DEF EnvNames, q

(* What let and loop bind is a name of the program. *)
LEMMA BoundNames ==
    ASSUME NEW p, NEW V, NEW r \in EnvOver(V), EnvNames(p, r), NEW v \in V,
           NEW s, Names(p, s), 1 \in DOMAIN s
    PROVE  EnvNames(p, EnvPush(Bind(s[1], v), r))
<1>1. \A y \in Name : Bind(s[1], v)[y] # NULL => y \in NamesBound(p)
  BY DEF Bind, Names
<1> QED
  BY <1>1, BindScope, PushedNames

(* What a call binds are parameters of a function of the program. *)
LEMMA CalledNames ==
    ASSUME NEW p, NEW V, NEW f, f.params \in Seq(V), f.env \in EnvOver(V), ClosureFits(p, f),
           NEW args \in Seq(V), Len(args) = Len(f.params)
    PROVE  EnvNames(p, CalledEnv(f, args))
<1> DEFINE scope == BindAll(f.params, args)
<1>1. scope \in Scope(V)
  BY BindAllScope
<1>2. ASSUME NEW y \in Name, scope[y] # NULL PROVE y \in NamesBound(p)
  <2>1. \E i \in DOMAIN f.params : LastNamed(f.params, y, i)
    BY <1>2 DEF BindAll
  <2>2. \E i \in DOMAIN f.params : f.params[i] = Sym(y)
    BY <2>1 DEF LastNamed
  <2> QED
    BY <2>2 DEF ClosureFits
<1>3. EnvNames(p, f.env)
  BY DEF ClosureFits
<1> HIDE DEF scope
<1>4. EnvNames(p, EnvPush(scope, f.env))
  BY <1>1, <1>2, <1>3, PushedNames
<1> QED
  BY <1>4 DEF CalledEnv, scope

(* A frame more. *)
LEMMA PushFits ==
    ASSUME NEW p, NEW X, NEW s \in Seq(X), NEW f, StackFits(p, s),
           TailCalls(p) => Len(s) + 1 <= Depth(p),
           FrameFits(p, f, Len(s), OpAt(s, Len(s)))
    PROVE  /\ StackFits(p, Push(s, f))
           /\ Len(Push(s, f)) = Len(s) + 1 /\ OpAt(Push(s, f), Len(s) + 1) = f.op
<1> DEFINE t == Push(s, f)
           n == Len(s)
<1>1. n \in Nat /\ DOMAIN s = 1 .. n
  OBVIOUS
<1>2. /\ Len(t) = n + 1 /\ DOMAIN t = 1 .. n + 1
      /\ t[n + 1] = f /\ \A i \in 1 .. n : t[i] = s[i]
  BY DEF Push
<1> HIDE DEF t
<1>3. \A i \in 1 .. n + 1 : OpAt(t, i - 1) = OpAt(s, i - 1)
  BY <1>1, <1>2 DEF OpAt
<1>4. ASSUME NEW i \in 1 .. n + 1 PROVE FrameFits(p, t[i], i - 1, OpAt(t, i - 1))
  <2>1. CASE i = n + 1
    <3>1. t[i] = f /\ i - 1 = n /\ OpAt(t, i - 1) = OpAt(s, i - 1)
      BY <1>1, <1>2, <1>3, <2>1
    <3> QED
      BY <2>1, <3>1
  <2>2. CASE i # n + 1
    <3>1. i \in 1 .. n
      BY <1>1, <2>2
    <3>2. t[i] = s[i] /\ OpAt(t, i - 1) = OpAt(s, i - 1)
      BY <1>2, <1>3, <3>1
    <3> QED
      BY <1>1, <3>1, <3>2 DEF StackFits
  <2> QED
    BY <2>1, <2>2
<1>5. OpAt(t, n + 1) = f.op
  BY <1>1, <1>2 DEF OpAt
<1>6. StackFits(p, t)
  BY <1>2, <1>4 DEF StackFits
<1> QED
  BY <1>2, <1>5, <1>6 DEF t

(* A call more. *)
LEMMA PushHeads ==
    ASSUME NEW p, NEW X, NEW s \in Seq(X), NEW f, HeadsFit(p, s)
    PROVE  /\ HeadFits(p, f, Len(s)) => HeadsFit(p, Push(s, f))
           /\ f.op = "call" /\ f.func = NULL => HeadOpen(p, Push(s, f))
<1> DEFINE t == Push(s, f)
           n == Len(s)
<1>1. n \in Nat /\ DOMAIN s = 1 .. n
  OBVIOUS
<1>2. /\ Len(t) = n + 1 /\ DOMAIN t = 1 .. n + 1 /\ t # <<>>
      /\ t[n + 1] = f /\ \A i \in 1 .. n : t[i] = s[i]
  BY DEF Push
<1>3. SubSeq(t, 1, n) = s
  BY <1>1, SubSeqProperties DEF Push
<1> HIDE DEF t
<1>4. HeadFits(p, f, n) => HeadsFit(p, t)
  BY <1>1, <1>2 DEF HeadsFit
<1>5. f.op = "call" /\ f.func = NULL => HeadOpen(p, t)
  <2>1. Len(t) - 1 = n
    BY <1>1, <1>2
  <2>2. t[Len(t)] = f /\ HeadsFit(p, SubSeq(t, 1, Len(t) - 1))
    BY <1>2, <1>3, <2>1
  <2> QED
    BY <1>2, <2>2, Zenon DEF HeadOpen
<1> QED
  BY <1>4, <1>5 DEF t

(* A frame less. *)
LEMMA PopFits ==
    ASSUME NEW p \in Val, NEW X, NEW s \in Seq(X), s # <<>>, StackFits(p, s)
    PROVE  LET t == SubSeq(s, 1, Len(s) - 1)
           IN  /\ t \in Seq(X) /\ Len(t) \in Nat /\ Len(s) = Len(t) + 1
               /\ StackFits(p, t)
               /\ FrameFits(p, s[Len(s)], Len(t), OpAt(t, Len(t)))
               /\ TailCalls(p) => Len(s) <= Depth(p) /\ Len(t) <= Depth(p)
               /\ HeadsFit(p, s) => HeadsFit(p, t) /\ HeadFits(p, s[Len(s)], Len(t))
               /\ HeadOpen(p, s) => HeadsFit(p, t)
<1> DEFINE t == SubSeq(s, 1, Len(s) - 1)
           n == Len(s)
<1>1. n \in Nat /\ n > 0 /\ DOMAIN s = 1 .. n
  OBVIOUS
<1>2. t \in Seq(X) /\ Len(t) = n - 1 /\ DOMAIN t = 1 .. n - 1 /\ \A i \in 1 .. n - 1 : t[i] = s[i]
  <2>1. \A i \in 1 .. n - 1 : s[i] \in X
    BY <1>1
  <2>2. t = [i \in 1 .. n - 1 |-> s[i]]
    BY <1>1
  <2> QED
    BY <1>1, <2>1, <2>2
<1> HIDE DEF t
<1>3. \A i \in 1 .. n : OpAt(t, i - 1) = OpAt(s, i - 1)
  BY <1>1, <1>2 DEF OpAt
<1>4. \A i \in 1 .. n : FrameFits(p, s[i], i - 1, OpAt(t, i - 1))
  BY <1>1, <1>3 DEF StackFits
<1>5. FrameFits(p, s[n], Len(t), OpAt(t, Len(t)))
  BY <1>1, <1>2, <1>4
<1>6. \A i \in 1 .. n - 1 : FrameFits(p, t[i], i - 1, OpAt(t, i - 1))
  BY <1>1, <1>2, <1>4
<1>7. TailCalls(p) => n <= Depth(p) /\ Len(t) <= Depth(p)
  <2>1. TailCalls(p) => n <= Depth(p)
    BY DEF StackFits
  <2>2. TailCalls(p) => n - 1 <= Depth(p)
    <3>1. Depth(p) \in Nat
      BY DepthAssumption
    <3> QED
      BY <1>1, <2>1, <3>1
  <2> QED
    BY <1>2, <2>1, <2>2
<1>8. StackFits(p, t)
  BY <1>2, <1>6, <1>7 DEF StackFits
<1>9. HeadsFit(p, s) => HeadsFit(p, t) /\ HeadFits(p, s[n], Len(t))
  BY <1>1, <1>2 DEF HeadsFit
<1>10. HeadOpen(p, s) => HeadsFit(p, t)
  BY DEF HeadOpen, t
<1> QED
  BY <1>1, <1>2, <1>5, <1>7, <1>8, <1>9, <1>10 DEF t

(* Frames that go on with forms of the text; if: a branch takes the place  *)
(* of the frame.                                                           *)
LEMMA IfFrameFits ==
    ASSUME NEW p, NEW k, NEW b, NEW then, NEW else,
           Text(p, then, k, b), Text(p, else, k, b)
    PROVE  FrameFits(p, IfFrame(then, else), k, b) /\ HeadFits(p, IfFrame(then, else), k)
  BY Zenon DEF FrameFits, HeadFits, IfFrame

(* call: the arguments are evaluated on the frame. *)
LEMMA CallFrameFits ==
    ASSUME NEW p, NEW k, NEW b, NEW func, NEW args, NEW rest,
           \A j \in DOMAIN rest : Text(p, rest[j], k + 1, "none")
    PROVE  FrameFits(p, CallFrame(func, args, rest), k, b)
  BY Zenon DEF FrameFits, CallFrame

(* do: the last expression takes the place of the frame. *)
LEMMA DoFrameFits ==
    ASSUME NEW p, NEW k, NEW b, NEW rest,
           \A j \in DOMAIN rest :
                /\ j = Len(rest) => Text(p, rest[j], k, b)
                /\ j # Len(rest) => Text(p, rest[j], k + 1, "none")
    PROVE  FrameFits(p, DoFrame(rest), k, b) /\ HeadFits(p, DoFrame(rest), k)
  BY Zenon DEF FrameFits, HeadFits, DoFrame

(* let: the body takes the place of the frame. *)
LEMMA LetFrameFits ==
    ASSUME NEW p, NEW k, NEW b, NEW rest, NEW body, NEW r,
           Pairs(p, rest, k + 1), Text(p, body, k, b), EnvNames(p, r)
    PROVE  FrameFits(p, LetFrame(rest, body, r), k, b) /\ HeadFits(p, LetFrame(rest, body, r), k)
  BY Zenon DEF FrameFits, HeadFits, LetFrame

(* loop: the body is to be evaluated on the loop-target. *)
LEMMA LoopFrameFits ==
    ASSUME NEW p, NEW k, NEW b, NEW rest, NEW body, NEW r, NEW orig,
           Pairs(p, rest, k + 1), Names(p, orig), Text(p, body, k + 1, "loop-target"), EnvNames(p, r)
    PROVE  /\ FrameFits(p, LoopFrame(rest, body, r, orig), k, b)
           /\ HeadFits(p, LoopFrame(rest, body, r, orig), k)
  BY Zenon DEF FrameFits, HeadFits, LoopFrame

(* The loop-target keeps names and body for recur. *)
LEMMA TargetFrameFits ==
    ASSUME NEW p, NEW k, NEW b, NEW rest, NEW body, NEW r,
           Names(p, rest), Text(p, body, k + 1, "loop-target"), EnvNames(p, r)
    PROVE  /\ FrameFits(p, TargetFrame(rest, body, r), k, b)
           /\ HeadFits(p, TargetFrame(rest, body, r), k)
  BY Zenon DEF FrameFits, HeadFits, TargetFrame

(* recur: what it jumps to is below, the arguments on the frame. *)
LEMMA RecurFrameFits ==
    ASSUME NEW p, NEW k, NEW b, NEW args, NEW rest,
           RecursPlaced(p) /\ NoEmptyLoop(p) => b = "loop-target",
           \A j \in DOMAIN rest : Text(p, rest[j], k + 1, "none")
    PROVE  /\ FrameFits(p, RecurFrame(args, rest), k, b)
           /\ HeadFits(p, RecurFrame(args, rest), k)
  BY Zenon DEF FrameFits, HeadFits, RecurFrame

-----------------------------------------------------------------------------
(* How an activation ends *)

(* With a form of the text to evaluate. *)
LEMMA RunFits ==
    ASSUME NEW p, TypeOK, status = "running", NEW e, NEW r, NEW s, Run(e, r, s),
           EnvNames(p, r), StackFits(p, s),
           HeadsFit(p, s) \/ (OfLibrary(p, e) /\ HeadOpen(p, s)),
           Text(p, e, Len(s), OpAt(s, Len(s))) \/ Restarts(p, e, Len(s))
    PROVE  StateFits(p)'
<1>1. /\ expr' = e /\ env' = r /\ stack' = s /\ ctl' = "step"
      /\ status' = "running" /\ error' = "none"
  BY DEF Run, TypeOK
<1>2. TailCalls(p) => Len(s) <= Depth(p)
  BY DEF StackFits
<1>3. NoRecurError(p)'
  BY <1>1 DEF NoRecurError
<1> QED
  BY <1>1, <1>2, <1>3 DEF StateFits, HeadKnown

(* With a form of the text to evaluate on a frame more. *)
LEMMA PushedRunFits ==
    ASSUME NEW p, TypeOK, status = "running", NEW e, NEW r, NEW X, NEW s \in Seq(X), NEW f,
           Run(e, r, Push(s, f)), EnvNames(p, r), StackFits(p, s), HeadsFit(p, s),
           FrameFits(p, f, Len(s), OpAt(s, Len(s))),
           \/ HeadFits(p, f, Len(s))
           \/ OfLibrary(p, e) /\ f.op = "call" /\ f.func = NULL,
           TailCalls(p) => Len(s) + 1 <= Depth(p),
           Text(p, e, Len(s) + 1, f.op)
    PROVE  StateFits(p)'
<1>1. /\ StackFits(p, Push(s, f)) /\ Len(Push(s, f)) = Len(s) + 1
      /\ OpAt(Push(s, f), Len(s) + 1) = f.op
  BY PushFits
<1>2. HeadsFit(p, Push(s, f)) \/ (OfLibrary(p, e) /\ HeadOpen(p, Push(s, f)))
  BY PushHeads
<1>3. Text(p, e, Len(Push(s, f)), OpAt(Push(s, f), Len(Push(s, f))))
  BY <1>1
<1> QED
  BY <1>1, <1>2, <1>3, RunFits

(* With a value for the frame on top. *)
LEMMA DeliverFits ==
    ASSUME NEW p, TypeOK, status = "running", NEW v, NEW r, NEW s, Deliver(v, r, s),
           EnvNames(p, r), StackFits(p, s), HeadsFit(p, s) \/ (v \in Val /\ HeadOpen(p, s))
    PROVE  StateFits(p)'
<1>1. /\ expr' = v /\ env' = r /\ stack' = s /\ ctl' = "deliver"
      /\ status' = "running" /\ error' = "none"
  BY DEF Deliver, TypeOK
<1>2. TailCalls(p) => Len(s) <= Depth(p)
  BY DEF StackFits
<1>3. NoRecurError(p)'
  BY <1>1 DEF NoRecurError
<1> QED
  BY <1>1, <1>2, <1>3 DEF StateFits, HeadKnown

(* With an error. *)
LEMMA FailFits ==
    ASSUME NEW p, StateFits(p), NEW kind, Fail(kind),
           kind \in {"recur outside loop", "recur not in tail position"} =>
                ~ (RecursPlaced(p) /\ NoEmptyLoop(p))
    PROVE  StateFits(p)'
<1>1. env' = env /\ stack' = stack /\ status' = "error" /\ error' = kind
  BY DEF Fail
<1> QED
  BY <1>1 DEF StateFits, NoRecurError

(* With an assertion that ends the process. *)
LEMMA AbortFits ==
    ASSUME NEW p, StateFits(p), Abort
    PROVE  StateFits(p)'
<1>1. env' = env /\ stack' = stack /\ status' = "aborted" /\ error' = error
  BY DEF Abort
<1> QED
  BY <1>1 DEF StateFits, NoRecurError

(* With a request for an effect. *)
LEMMA SuspendFits ==
    ASSUME NEW p, TypeOK, status = "running", StateFits(p),
           NEW name, NEW args, NEW s, Suspend(name, args, s),
           StackFits(p, s), HeadsFit(p, s)
    PROVE  StateFits(p)'
<1>1. env' = env /\ stack' = s /\ status' = "suspended" /\ error' = "none"
  BY DEF Suspend, TypeOK
<1>2. TailCalls(p) => Len(s) <= Depth(p)
  BY DEF StackFits
<1>3. NoRecurError(p)'
  BY <1>1 DEF NoRecurError
<1> QED
  BY <1>1, <1>2, <1>3 DEF StateFits

(* recur starts the loop of its loop-target again, on the frames below. *)
LEMMA RecurFits ==
    ASSUME NEW p \in Val, NEW V, TypeOK, status = "running", StateFits(p),
           NEW args, NEW s \in Stack(V), HandleRecur(args, s),
           StackFits(p, s), HeadsFit(p, s),
           RecursPlaced(p) /\ NoEmptyLoop(p) => OpAt(s, Len(s)) = "loop-target"
    PROVE  StateFits(p)'
<1> DEFINE target == s[Len(s)]
           t == SubSeq(s, 1, Len(s) - 1)
<1>1. s \in Seq(ReadyFrame(V))
  BY DEF Stack
<1>2. CASE s = <<>> /\ Fail("recur outside loop")
  <2>1. OpAt(s, Len(s)) = "none"
    BY <1>2 DEF OpAt
  <2> QED
    BY <1>2, <2>1, FailFits
<1>3. CASE s # <<>> /\ target.op # "loop-target" /\ Fail("recur not in tail position")
  <2>1. OpAt(s, Len(s)) = target.op
    <3>1. Len(s) # 0
      <4>1. s # <<>>
        BY <1>3, Zenon
      <4> QED
        BY <1>1, <4>1
    <3> QED
      BY <3>1 DEF OpAt
  <2> QED
    BY <1>3, <2>1, FailFits
<1>4. CASE Fail("recur arity")
  BY <1>4, FailFits
<1>5. CASE s # <<>> /\ target.op = "loop-target" /\ Restart(target, args, t)
  <2>1. /\ StackFits(p, t) /\ HeadsFit(p, t) /\ Len(s) = Len(t) + 1
        /\ FrameFits(p, target, Len(t), OpAt(t, Len(t)))
        /\ TailCalls(p) => Len(s) <= Depth(p)
    BY <1>1, <1>5, PopFits
  <2>2. target \in FrameOver(V) /\ FrameReady(target)
    <3>1. target \in ReadyFrame(V)
      BY <1>1, <1>5
    <3> QED
      BY <3>1 DEF ReadyFrame
  <2> HIDE DEF target, t
  <2>3. target.rest \in Seq(V) /\ Len(target.rest) >= 2
    BY <1>5, <2>2, FrameFields DEF FrameReady
  <2>4. /\ Names(p, target.rest) /\ EnvNames(p, target.env)
        /\ Text(p, target.body, Len(t) + 1, "loop-target")
    BY <1>5, <2>1 DEF FrameFits
  <2> DEFINE q == Rebind(target.rest, args)
             e == NewLoop(target, args)
  <2>5. Len(q) = Len(target.rest) /\ DOMAIN q = 1 .. Len(target.rest)
    BY <2>3 DEF Rebind
  <2>6. \A i \in DOMAIN q :
            q[i] = IF i % 2 = 1 THEN target.rest[i]
                   ELSE Lst(<<Sym("quote"), args[i \div 2]>>)
    BY <2>3 DEF Rebind
  <2>7. q # <<>> /\ DOMAIN target.rest = 1 .. Len(target.rest)
    BY <2>3, <2>5
  <2>8. e = Lst(<<Sym("loop"), Lst(q), target.body>>)
    BY DEF NewLoop
  <2> HIDE DEF q, e
  <2>9. HasForm(e, "loop") /\ Len(e.items) = 3 /\ e.items[2].items = q /\ e.items[3] = target.body
    BY <2>8 DEF Lst, HasForm, IsList
  <2>10. Names(p, q)
    BY <2>4, <2>5, <2>6, <2>7 DEF Names
  <2>11. ASSUME NEW i \in DOMAIN q, i % 2 = 0 PROVE Text(p, q[i], Len(t) + 1, "none")
    <3>1. q[i] = Lst(<<Sym("quote"), args[i \div 2]>>)
      BY <2>6, <2>11
    <3>2. HasForm(q[i], "quote")
      BY <3>1 DEF Lst, HasForm, IsList
    <3> QED
      BY <2>1, <3>2 DEF Text
  <2>12. Restarts(p, e, Len(t))
    BY <2>1, <2>4, <2>7, <2>9, <2>10, <2>11 DEF Restarts, Pairs
  <2>13. Run(e, target.env, t)
    BY <1>5 DEF Restart, e
  <2> QED
    BY <2>1, <2>4, <2>12, <2>13, RunFits
<1> QED
  BY <1>2, <1>3, <1>4, <1>5 DEF HandleRecur

-----------------------------------------------------------------------------
(* step_eval *)

(* What step_eval starts from. *)
LEMMA EvalStart ==
    ASSUME NEW p, NEW V, StateOver(V), TypeOK, StateFits(p), StepCall
    PROVE  /\ EnvNames(p, env) /\ env \in EnvOver(V)
           /\ StackFits(p, stack) /\ stack \in Seq(ReadyFrame(V)) /\ Len(stack) \in Nat
           /\ \/ Text(p, expr, Len(stack), OpAt(stack, Len(stack)))
              \/ Restarts(p, expr, Len(stack))
           /\ HeadsFit(p, stack) \/ (OfLibrary(p, expr) /\ HeadOpen(p, stack))
           /\ expr.type # "symbol" => HeadsFit(p, stack)
<1>1. status = "running" /\ ctl = "step"
  BY DEF StepCall
<1>2. stack \in Seq(ReadyFrame(V)) /\ env \in EnvOver(V)
  BY DEF StateOver, Stack
<1>3. Len(stack) \in Nat
  BY <1>2
<1> QED
  BY <1>1, <1>2, <1>3 DEF StateFits, HeadKnown, OfLibrary

(* A form other than a loop stands in the text. *)
LEMMA EvalForm ==
    ASSUME NEW p, NEW V, StateOver(V), TypeOK, StateFits(p), StepCall, IsForm,
           ~ HasForm(expr, "quote")
    PROVE  /\ IsList(expr) /\ HeadsFit(p, stack)
           /\ ~ HasForm(expr, "loop") => Fits(p, expr, Len(stack), OpAt(stack, Len(stack)))
<1>1. IsList(expr) /\ expr.type # "symbol"
  BY DEF IsForm, IsList
<1> QED
  BY <1>1, EvalStart DEF Text, Restarts

(* Atoms, quoted values and empty lists are no heads of open calls. *)
LEMMA EvalValueFits ==
    ASSUME NEW p, NEW V, StateOver(V), TypeOK, StateFits(p),
           EvalAtom \/ EvalEmptyList \/ EvalQuote
    PROVE  StateFits(p)'
<1>1. StepCall /\ status = "running" /\ expr.type # "symbol"
  BY DEF EvalAtom, EvalEmptyList, EvalQuote, StepCall, Atoms, Form, IsForm
<1>2. EnvNames(p, env) /\ StackFits(p, stack) /\ HeadsFit(p, stack)
  BY <1>1, EvalStart
<1>3. CASE \E v : Deliver(v, env, stack)
  BY <1>1, <1>2, <1>3, DeliverFits
<1>4. CASE Fail("quote")
  BY <1>4, FailFits
<1> QED
  BY <1>3, <1>4 DEF EvalAtom, EvalEmptyList, EvalQuote

(* A name of the library is found in the library's scope. *)
LEMMA EvalSymbolFits ==
    ASSUME NEW p, NEW V, Closed(V), StateOver(V), TypeOK, StateFits(p), EvalSymbol
    PROVE  StateFits(p)'
<1>1. StepCall /\ status = "running" /\ expr.type = "symbol"
  BY DEF EvalSymbol, StepCall
<1>2. /\ EnvNames(p, env) /\ env \in EnvOver(V) /\ StackFits(p, stack)
      /\ HeadsFit(p, stack) \/ (OfLibrary(p, expr) /\ HeadOpen(p, stack))
  BY <1>1, EvalStart
<1>3. expr.name \in Name
  BY <1>1 DEF StateOver, Closed
<1>4. CASE Fail("undefined symbol")
  BY <1>4, FailFits
<1>5. ASSUME NEW i \in DOMAIN env, FoundAt(i, expr.name), Deliver(env[i][expr.name], env, stack)
      PROVE  StateFits(p)'
  <2>1. OfLibrary(p, expr) => env[i][expr.name] \in Val
    <3> SUFFICES ASSUME OfLibrary(p, expr) PROVE env[i][expr.name] \in Val
      OBVIOUS
    <3>1. /\ env \in Seq(Scope(V)) /\ Len(env) \in Nat /\ Len(env) > 0 /\ env[Len(env)] = Global
          /\ DOMAIN env = 1 .. Len(env)
      BY <1>2 DEF EnvOver
    <3>2. env[i][expr.name] # NULL /\ expr.name \notin NamesBound(p)
      BY <1>5 DEF FoundAt, OfLibrary
    <3>3. i \notin 1 .. Len(env) - 1
      BY <1>2, <1>3, <3>2 DEF EnvNames
    <3>4. i = Len(env)
      BY <3>1, <3>3
    <3>5. Global \in Scope(Val)
      BY StepAssumption
    <3> QED
      BY <1>3, <3>1, <3>2, <3>4, <3>5 DEF Scope
  <2> QED
    BY <1>1, <1>2, <1>5, <2>1, DeliverFits
<1> QED
  BY <1>4, <1>5 DEF EvalSymbol

(* if evaluates its condition on a frame that goes on where it stood. *)
LEMMA EvalIfFits ==
    ASSUME NEW p \in Val, NEW V, StateOver(V), TypeOK, StateFits(p), EvalIf
    PROVE  StateFits(p)'
<1> DEFINE k == Len(stack)
           b == OpAt(stack, Len(stack))
<1>1. StepCall /\ status = "running" /\ IsForm /\ HasForm(expr, "if") /\ ~ HasForm(expr, "quote")
  BY DEF EvalIf, StepCall, Form, IsForm, IsList, HasForm, Item, Sym
<1>2. /\ EnvNames(p, env) /\ StackFits(p, stack) /\ stack \in Seq(ReadyFrame(V)) /\ k \in Nat
  BY <1>1, EvalStart
<1>3. HeadsFit(p, stack) /\ Fits(p, expr, k, b)
  BY <1>1, EvalForm, OneForm
<1>4. CASE Fail("if")
  BY <1>4, FailFits
<1>5. CASE Size = 4 /\ Run(Item(2), env, Push(stack, IfFrame(Item(3), Item(4))))
  <2> DEFINE f == IfFrame(Item(3), Item(4))
  <2>1. /\ TailCalls(p) => k + 1 <= Depth(p)
        /\ \A c : Text(p, Item(2), k + 1, c)
        /\ Text(p, Item(3), k, b) /\ Text(p, Item(4), k, b)
    BY <1>1, <1>2, <1>3, <1>5, IfText DEF Item, Size
  <2>2. FrameFits(p, f, k, b) /\ HeadFits(p, f, k)
    BY <2>1, IfFrameFits
  <2> HIDE DEF f
  <2> QED
    BY <1>1, <1>2, <1>3, <1>5, <2>1, <2>2, PushedRunFits DEF f
<1> QED
  BY <1>4, <1>5 DEF EvalIf

(* do evaluates its expressions on a frame but for the last one, which     *)
(* takes the place of the do.                                              *)
LEMMA EvalDoFits ==
    ASSUME NEW p \in Val, NEW V, Closed(V), StateOver(V), TypeOK, StateFits(p), EvalDo
    PROVE  StateFits(p)'
<1> DEFINE k == Len(stack)
           b == OpAt(stack, Len(stack))
<1>1. StepCall /\ status = "running" /\ IsForm /\ HasForm(expr, "do") /\ ~ HasForm(expr, "quote")
  BY DEF EvalDo, StepCall, Form, IsForm, IsList, HasForm, Item, Sym
<1>2. /\ EnvNames(p, env) /\ StackFits(p, stack) /\ stack \in Seq(ReadyFrame(V)) /\ k \in Nat
  BY <1>1, EvalStart
<1>3. HeadsFit(p, stack) /\ Fits(p, expr, k, b)
  BY <1>1, EvalForm, OneForm
<1>4. CASE Fail("do")
  BY <1>4, FailFits
<1>5. expr.items \in Seq(V) /\ Size \in Nat /\ Size = Len(expr.items)
  BY <1>1, FormItems DEF Size
<1>6. Size >= 2 =>
        /\ TailCalls(p) => k + 1 <= Depth(p)
        /\ Text(p, expr.items[Size], k, b)
        /\ \A i \in 2 .. Size : i # Size => \A c : Text(p, expr.items[i], k + 1, c)
  BY <1>1, <1>2, <1>3, <1>5, DoText
<1>7. CASE Size = 2 /\ Run(Item(2), env, stack)
  <2>1. Text(p, Item(2), k, b)
    BY <1>6, <1>7 DEF Item
  <2> QED
    BY <1>1, <1>2, <1>3, <1>7, <2>1, RunFits
<1>8. CASE Size > 2 /\ Run(Item(2), env, Push(stack, DoFrame(SubSeq(expr.items, 3, Size))))
  <2> DEFINE rest == SubSeq(expr.items, 3, Size)
             f == DoFrame(rest)
  <2>1. /\ Len(rest) = Size - 2 /\ DOMAIN rest = 1 .. Size - 2
        /\ \A j \in 1 .. Size - 2 : rest[j] = expr.items[j + 2]
    BY <1>5, <1>8
  <2> HIDE DEF rest
  <2>2. ASSUME NEW j \in DOMAIN rest
        PROVE  /\ j = Len(rest) => Text(p, rest[j], k, b)
               /\ j # Len(rest) => Text(p, rest[j], k + 1, "none")
    <3>1. rest[j] = expr.items[j + 2] /\ j + 2 \in 2 .. Size /\ Size >= 2
      BY <1>5, <1>8, <2>1
    <3>2. j = Len(rest) <=> j + 2 = Size
      BY <1>5, <2>1
    <3> QED
      BY <1>6, <3>1, <3>2
  <2>3. FrameFits(p, f, k, b) /\ HeadFits(p, f, k)
    BY <2>2, DoFrameFits
  <2>4. (TailCalls(p) => k + 1 <= Depth(p)) /\ Text(p, Item(2), k + 1, f.op)
    <3>1. Size \in Nat /\ Size > 2
      BY ONLY <1>5, <1>8, Zenon
    <3> HIDE DEF f
    <3>2. 2 \in 2 .. Size /\ 2 # Size
      BY ONLY <3>1
    <3>3. Text(p, expr.items[2], k + 1, f.op)
      BY ONLY <1>6, <3>2
    <3> QED
      BY ONLY <1>6, <3>1, <3>3 DEF Item
  <2>5. Run(Item(2), env, Push(stack, f))
    BY <1>8 DEF rest
  <2> HIDE DEF f
  <2> QED
    BY <1>1, <1>2, <1>3, <2>3, <2>4, <2>5, PushedRunFits
<1> QED
  BY <1>4, <1>7, <1>8 DEF EvalDo

(* A function or the value of an expression is evaluated on a call; above  *)
(* the first frame, it is a name of the library.                           *)
LEMMA EvalCallFits ==
    ASSUME NEW p \in Val, NEW V, Closed(V), StateOver(V), TypeOK, StateFits(p), EvalCall
    PROVE  StateFits(p)'
<1> DEFINE k == Len(stack)
           b == OpAt(stack, Len(stack))
           rest == Tail(expr.items)
           f == CallFrame(NULL, <<>>, rest)
<1>1. /\ StepCall /\ status = "running" /\ IsForm /\ IsList(expr)
      /\ \A x \in SpecialForms : ~ HasForm(expr, x)
      /\ Run(Item(1), env, Push(stack, f))
  BY DEF EvalCall, StepCall, IsForm, IsList, HasForm, Item
<1>0. ~ HasForm(expr, "quote") /\ ~ HasForm(expr, "loop")
  BY <1>1 DEF SpecialForms
<1>2. /\ EnvNames(p, env) /\ StackFits(p, stack) /\ stack \in Seq(ReadyFrame(V)) /\ k \in Nat
  BY <1>1, EvalStart
<1>3. HeadsFit(p, stack) /\ Fits(p, expr, k, b)
  BY <1>0, <1>1, EvalForm
<1>5. /\ expr.items \in Seq(V) /\ Size \in Nat /\ Size = Len(expr.items) /\ Size > 0
  BY <1>1, FormItems DEF Size
<1>6. \A i \in 1 .. Size :
        /\ TailCalls(p) => k + 1 <= Depth(p)
        /\ \A c : Text(p, expr.items[i], k + 1, c)
  BY <1>1, <1>2, <1>3, <1>5, CallText
<1>7. (TailCalls(p) => k + 1 <= Depth(p)) /\ \A c : Text(p, Item(1), k + 1, c)
  BY <1>5, <1>6 DEF Item
<1>8. FrameFits(p, f, k, b)
  <2>1. DOMAIN rest = 1 .. Size - 1 /\ \A j \in 1 .. Size - 1 : rest[j] = expr.items[j + 1]
    BY <1>5
  <2> HIDE DEF rest
  <2>2. ASSUME NEW j \in DOMAIN rest PROVE Text(p, rest[j], k + 1, "none")
    <3>1. rest[j] = expr.items[j + 1] /\ j + 1 \in 1 .. Size
      BY <1>5, <2>1
    <3> QED
      BY <1>6, <3>1
  <2> QED
    BY <2>2, CallFrameFits
<1>9. f.op = "call" /\ f.func = NULL
  BY DEF CallFrame
<1>10. HeadFits(p, f, k) \/ OfLibrary(p, Item(1))
  <2> SUFFICES ASSUME ~ OfLibrary(p, Item(1)), TailCalls(p) PROVE k = 0
    BY DEF HeadFits
  <2>1. PICK o \in Occurrences(p) : o.form = expr /\ (o.place.tail => k = 0)
    BY <1>3 DEF Fits
  <2>2. ClosureCall(p, o.form)
    BY <1>1, <2>1 DEF ClosureCall, Item
  <2> QED
    BY <2>1, <2>2 DEF TailCalls
<1> HIDE DEF f
<1> QED
  BY <1>1, <1>2, <1>3, <1>7, <1>8, <1>9, <1>10, PushedRunFits

(* A recur that stands where it should has a loop-target below. *)
LEMMA EvalRecurFits ==
    ASSUME NEW p \in Val, NEW V, Closed(V), StateOver(V), TypeOK, StateFits(p), EvalRecur
    PROVE  StateFits(p)'
<1> DEFINE k == Len(stack)
           b == OpAt(stack, Len(stack))
<1>1. StepCall /\ status = "running" /\ IsForm /\ HasForm(expr, "recur") /\ IsList(expr)
  BY DEF EvalRecur, StepCall, Form, IsForm, IsList, HasForm, Item, Sym
<1>0. \A x \in SpecialForms \ {"recur"} : ~ HasForm(expr, x)
  BY <1>1, OneForm
<1>2. /\ EnvNames(p, env) /\ StackFits(p, stack) /\ stack \in Seq(ReadyFrame(V)) /\ k \in Nat
  BY <1>1, EvalStart
<1>3. HeadsFit(p, stack) /\ Fits(p, expr, k, b)
  BY <1>1, EvalForm, OneForm
<1>4. RecursPlaced(p) /\ NoEmptyLoop(p) => b = "loop-target"
  BY <1>1, <1>3 DEF Fits, RecursPlaced
<1>5. /\ expr.items \in Seq(V) /\ Size \in Nat /\ Size = Len(expr.items) /\ Size > 0
  BY <1>1, FormItems DEF Size
<1>6. CASE HandleRecur(<<>>, stack)
  <2>1. stack \in Stack(V)
    BY DEF StateOver
  <2> QED
    BY <1>1, <1>2, <1>3, <1>4, <1>6, <2>1, RecurFits
<1>7. CASE Size > 1 /\ Run(Item(2), env, Push(stack, RecurFrame(<<>>, SubSeq(expr.items, 3, Size))))
  <2> DEFINE rest == SubSeq(expr.items, 3, Size)
             f == RecurFrame(<<>>, rest)
  <2>1. /\ DOMAIN rest = 1 .. Size - 2
        /\ \A j \in 1 .. Size - 2 : rest[j] = expr.items[j + 2]
    BY <1>5, <1>7
  <2>2. \A i \in 1 .. Size :
            /\ TailCalls(p) => k + 1 <= Depth(p)
            /\ \A c : Text(p, expr.items[i], k + 1, c)
    BY <1>0, <1>1, <1>2, <1>3, <1>5, CallText
  <2> HIDE DEF rest
  <2>3. ASSUME NEW j \in DOMAIN rest PROVE Text(p, rest[j], k + 1, "none")
    <3>1. rest[j] = expr.items[j + 2] /\ j + 2 \in 1 .. Size
      BY <1>5, <2>1
    <3> QED
      BY <2>2, <3>1
  <2>4. FrameFits(p, f, k, b) /\ HeadFits(p, f, k)
    BY <1>4, <2>3, RecurFrameFits
  <2>5. (TailCalls(p) => k + 1 <= Depth(p)) /\ Text(p, Item(2), k + 1, f.op)
    <3>1. 2 \in 1 .. Size
      BY <1>5, <1>7
    <3> HIDE DEF f
    <3> QED
      BY <2>2, <3>1, Zenon DEF Item
  <2>6. Run(Item(2), env, Push(stack, f))
    BY <1>7 DEF rest
  <2> HIDE DEF f
  <2> QED
    BY <1>1, <1>2, <1>3, <2>4, <2>5, <2>6, PushedRunFits
<1> QED
  BY <1>6, <1>7 DEF EvalRecur

(* The list of bindings of a let or a loop. *)
LEMMA BinderForm ==
    ASSUME NEW V, Closed(V), StateOver(V), IsForm, Binder,
           HasForm(expr, "let") \/ HasForm(expr, "loop")
    PROVE  /\ IsBinder(expr) /\ WellFormed(expr)
           /\ Bindings = expr.items[2].items /\ Body = expr.items[3]
           /\ Bindings \in Seq(V) /\ Len(Bindings) \in Nat
           /\ DOMAIN Bindings = 1 .. Len(Bindings)
           /\ Bindings = <<>> => BindingCount(expr) = 0
           /\ Bindings # <<>> => 1 \in DOMAIN Bindings /\ 2 \in DOMAIN Bindings
<1>1. Bindings \in Seq(V) /\ (Bindings # <<>> => Len(Bindings) >= 2)
  BY BinderItems
<1>2. Len(Bindings) \in Nat /\ DOMAIN Bindings = 1 .. Len(Bindings)
  BY <1>1
<1>3. Bindings = expr.items[2].items /\ Body = expr.items[3]
  BY DEF Bindings, Body, Item
<1>4. WellFormed(expr)
  BY OneForm DEF Binder, Item, Size, WellFormed
<1>5. IsBinder(expr)
  BY <1>4 DEF IsBinder
<1>6. Bindings = <<>> => BindingCount(expr) = 0
  BY <1>3, <1>5 DEF BindingCount
<1>7. Bindings # <<>> => 1 \in DOMAIN Bindings /\ 2 \in DOMAIN Bindings
  BY <1>1, <1>2
<1> QED
  BY <1>1, <1>2, <1>3, <1>4, <1>5, <1>6, <1>7

(* let evaluates its values on a frame, and its body where it stood. *)
LEMMA EvalLetFits ==
    ASSUME NEW p \in Val, NEW V, Closed(V), StateOver(V), TypeOK, StateFits(p), EvalLet
    PROVE  StateFits(p)'
<1> DEFINE k == Len(stack)
           b == OpAt(stack, Len(stack))
           f == LetFrame(Bindings, Body, env)
<1>1. StepCall /\ status = "running" /\ IsForm /\ HasForm(expr, "let") /\ ~ HasForm(expr, "quote")
  <2>1. StepCall /\ status = "running" /\ IsForm /\ HasForm(expr, "let")
    BY DEF EvalLet, StepCall, Form, IsForm, IsList, HasForm, Item
  <2> QED
    BY <2>1, OneForm
<1>2. /\ EnvNames(p, env) /\ StackFits(p, stack) /\ stack \in Seq(ReadyFrame(V)) /\ k \in Nat
  BY <1>1, EvalStart
<1>3. HeadsFit(p, stack) /\ Fits(p, expr, k, b)
  BY <1>1, EvalForm, OneForm
<1>4. CASE Fail("let") \/ Fail("let name")
  BY <1>4, FailFits
<1>5. CASE /\ Binder
           /\ \/ Run(Body, env, stack)
              \/ Bindings # <<>> /\ Run(Bindings[2], env, Push(stack, f))
  <2>1. /\ IsBinder(expr) /\ WellFormed(expr)
        /\ Bindings = expr.items[2].items /\ Body = expr.items[3]
        /\ Len(Bindings) \in Nat /\ DOMAIN Bindings = 1 .. Len(Bindings)
        /\ Bindings # <<>> => 2 \in DOMAIN Bindings
    BY <1>1, <1>5, BinderForm
  <2>2. (TailCalls(p) => k + 1 <= Depth(p)) /\ Text(p, Body, k, b)
    BY <1>1, <1>2, <1>3, <2>1, LetText
  <2>3. Pairs(p, Bindings, k + 1)
    BY <1>2, <1>3, <2>1, BinderPairs
  <2>4. CASE Run(Body, env, stack)
    BY <1>1, <1>2, <1>3, <2>2, <2>4, RunFits
  <2>5. CASE Bindings # <<>> /\ Run(Bindings[2], env, Push(stack, f))
    <3>1. FrameFits(p, f, k, b) /\ HeadFits(p, f, k)
      BY <1>2, <2>2, <2>3, LetFrameFits
    <3>2. Text(p, Bindings[2], k + 1, "none")
      BY <2>1, <2>3, <2>5 DEF Pairs
    <3>3. Text(p, Bindings[2], k + 1, f.op)
      BY <3>2, TextAnywhere
    <3> HIDE DEF f
    <3> QED
      BY <1>1, <1>2, <1>3, <2>2, <2>5, <3>1, <3>3, PushedRunFits
  <2> QED
    BY <1>5, <2>4, <2>5
<1> QED
  BY <1>4, <1>5, Zenon DEF EvalLet

(* loop evaluates its values on a frame; one that binds nothing evaluates  *)
(* its body without a loop-target.                                         *)
LEMMA EvalLoopFits ==
    ASSUME NEW p \in Val, NEW V, Closed(V), StateOver(V), TypeOK, StateFits(p), EvalLoop
    PROVE  StateFits(p)'
<1> DEFINE k == Len(stack)
           b == OpAt(stack, Len(stack))
           f == LoopFrame(Bindings, Body, env, Bindings)
<1>1. StepCall /\ status = "running" /\ IsForm /\ HasForm(expr, "loop") /\ ~ HasForm(expr, "quote")
  BY DEF EvalLoop, StepCall, Form, IsForm, IsList, HasForm, Item, Sym
<1>2. /\ EnvNames(p, env) /\ StackFits(p, stack) /\ stack \in Seq(ReadyFrame(V)) /\ k \in Nat
      /\ Text(p, expr, k, b) \/ Restarts(p, expr, k)
  BY <1>1, EvalStart
<1>3. HeadsFit(p, stack) /\ (Fits(p, expr, k, b) \/ Restarts(p, expr, k))
  BY <1>1, <1>2, EvalForm DEF Text
<1>4. CASE Fail("loop")
  BY <1>4, FailFits
<1>5. CASE /\ Binder
           /\ \/ Bindings = <<>> /\ Run(Body, env, stack)
              \/ Bindings # <<>> /\ Run(Bindings[2], env, Push(stack, f))
  <2>1. /\ IsBinder(expr) /\ WellFormed(expr)
        /\ Bindings = expr.items[2].items /\ Body = expr.items[3]
        /\ Len(Bindings) \in Nat /\ DOMAIN Bindings = 1 .. Len(Bindings)
        /\ Bindings = <<>> => BindingCount(expr) = 0
        /\ Bindings # <<>> => 2 \in DOMAIN Bindings
    BY <1>1, <1>5, BinderForm
  <2>2. Fits(p, expr, k, b) =>
            /\ TailCalls(p) => k + 1 <= Depth(p)
            /\ Text(p, Body, k + 1, "loop-target") /\ Pairs(p, Bindings, k + 1)
            /\ Bindings = <<>> => Text(p, Body, k, b)
    BY <1>1, <1>2, <2>1, LoopText, BinderPairs
  <2>3. Restarts(p, expr, k) =>
            /\ TailCalls(p) => k + 1 <= Depth(p)
            /\ Text(p, Body, k + 1, "loop-target") /\ Pairs(p, Bindings, k + 1)
            /\ Bindings # <<>>
    BY <2>1 DEF Restarts, Text
  <2>4. CASE Bindings = <<>> /\ Run(Body, env, stack)
    BY <1>1, <1>2, <1>3, <2>2, <2>3, <2>4, RunFits
  <2>5. CASE Bindings # <<>> /\ Run(Bindings[2], env, Push(stack, f))
    <3>1. /\ TailCalls(p) => k + 1 <= Depth(p)
          /\ Text(p, Body, k + 1, "loop-target") /\ Pairs(p, Bindings, k + 1)
      BY <1>3, <2>2, <2>3
    <3>2. Names(p, Bindings)
      BY <3>1 DEF Pairs
    <3>3. FrameFits(p, f, k, b) /\ HeadFits(p, f, k)
      BY <1>2, <3>1, <3>2, LoopFrameFits
    <3>4. Text(p, Bindings[2], k + 1, "none")
      BY <2>1, <2>5, <3>1 DEF Pairs
    <3>5. Text(p, Bindings[2], k + 1, f.op)
      BY <3>4, TextAnywhere
    <3> HIDE DEF f
    <3> QED
      BY <1>1, <1>2, <1>3, <2>5, <3>1, <3>3, <3>5, PushedRunFits
  <2> QED
    BY <1>5, <2>4, <2>5
<1> QED
  BY <1>4, <1>5, Zenon DEF EvalLoop

(* fn delivers a closure of the text. *)
LEMMA EvalFnFits ==
    ASSUME NEW p \in Val, NEW V, Closed(V), StateOver(V), TypeOK, StateFits(p), EvalFn
    PROVE  StateFits(p)'
<1>1. StepCall /\ status = "running" /\ expr.type # "symbol"
  BY DEF EvalFn, StepCall, Form, IsForm
<1>2. EnvNames(p, env) /\ StackFits(p, stack) /\ HeadsFit(p, stack)
  BY <1>1, EvalStart
<1>3. CASE \E v : Deliver(v, env, stack)
  BY <1>1, <1>2, <1>3, DeliverFits
<1>4. CASE Fail("fn")
  BY <1>4, FailFits
<1> QED
  BY <1>3, <1>4 DEF EvalFn

(* The closure that fn makes fits the text too. *)
LEMMA MadeClosureFits ==
    ASSUME NEW p \in Val, NEW V, Closed(V), StateOver(V), TypeOK, StateFits(p),
           NEW c, MadeHere(c)
    PROVE  ClosureFits(p, c)
<1>0. StepCall
  BY DEF MadeHere
<1>1. IsForm /\ HasForm(expr, "fn") /\ WellFormed(expr)
  <2>1. IsForm /\ HasForm(expr, "fn")
    BY DEF MadeHere, Form, IsForm, IsList, HasForm, Item, Sym
  <2>2. WellFormed(expr)
    BY <2>1, OneForm DEF MadeHere, WellFormedFn, WellFormed, Item, Size
  <2> QED
    BY <2>1, <2>2
<1>2. Fits(p, expr, Len(stack), OpAt(stack, Len(stack)))
  BY <1>0, <1>1, EvalForm, OneForm
<1>3. EnvNames(p, env)
  BY <1>0, EvalStart
<1>4. c.params = expr.items[2].items /\ c.body = expr.items[3] /\ c.env = env
  BY DEF MadeHere, Item
<1> QED
  BY <1>1, <1>2, <1>3, <1>4, FnText DEF ClosureFits

-----------------------------------------------------------------------------
(* deliver_value *)

(* What deliver_value starts from. *)
LEMMA DeliverStart ==
    ASSUME NEW p \in Val, NEW V, StateOver(V), TypeOK, StateFits(p), NEW op, DeliverTo(op)
    PROVE  /\ status = "running" /\ Top.op = op
           /\ expr \in V /\ Top \in FrameOver(V) /\ FrameReady(Top)
           /\ EnvNames(p, env) /\ env \in EnvOver(V)
           /\ Below \in Seq(ReadyFrame(V)) /\ Len(Below) \in Nat
           /\ StackFits(p, Below) /\ HeadsFit(p, Below)
           /\ FrameFits(p, Top, Len(Below), OpAt(Below, Len(Below)))
           /\ TailCalls(p) => Len(Below) + 1 <= Depth(p)
           /\ HeadFits(p, Top, Len(Below)) \/ (Top.func = NULL /\ expr \in Val)
<1>1. status = "running" /\ ctl = "deliver" /\ stack # <<>> /\ Top.op = op
  BY DEF DeliverTo, Delivering
<1>2. stack \in Seq(ReadyFrame(V)) /\ expr \in V /\ env \in EnvOver(V)
  BY DEF StateOver, Stack
<1>3. Top \in FrameOver(V) /\ FrameReady(Top)
  BY <1>1, TopBelow DEF StateOver
<1>4. /\ EnvNames(p, env) /\ StackFits(p, stack)
      /\ HeadsFit(p, stack) \/ (expr \in Val /\ HeadOpen(p, stack))
  BY <1>1 DEF StateFits, HeadKnown
<1>5. /\ Below \in Seq(ReadyFrame(V)) /\ Len(Below) \in Nat /\ Len(stack) = Len(Below) + 1
      /\ StackFits(p, Below)
      /\ FrameFits(p, Top, Len(Below), OpAt(Below, Len(Below)))
      /\ TailCalls(p) => Len(stack) <= Depth(p)
      /\ HeadsFit(p, stack) => HeadsFit(p, Below) /\ HeadFits(p, Top, Len(Below))
      /\ HeadOpen(p, stack) => HeadsFit(p, Below)
  BY <1>1, <1>2, <1>4, PopFits DEF Top, Below
<1>6. HeadOpen(p, stack) => Top.func = NULL
  BY DEF HeadOpen, Top
<1> QED
  BY <1>1, <1>2, <1>3, <1>4, <1>5, <1>6

(* A closure is only called in tail position, on no frame. *)
LEMMA ApplyFits ==
    ASSUME NEW p \in Val, NEW V, Closed(V), StateOver(V), TypeOK, status = "running",
           StateFits(p), ClosuresFit(p, V),
           NEW f \in V, NEW args \in Seq(V), NEW X, NEW s \in Seq(X), Apply(f, args, s),
           StackFits(p, s), HeadsFit(p, s),
           TailCalls(p) /\ f.type = "closure" => Len(s) = 0
    PROVE  StateFits(p)'
<1>1. EnvNames(p, env)
  BY DEF StateFits
<1>2. CASE Fail("builtin") \/ Fail("arity") \/ Fail("not callable")
  BY <1>2, FailFits
<1>3. CASE \E v : Deliver(v, env, s)
  BY <1>1, <1>3, DeliverFits
<1>4. CASE \E name : Suspend(name, args, s)
  BY <1>4, SuspendFits
<1>5. CASE Abort
  BY <1>5, AbortFits
<1>6. CASE f.type = "closure" /\ Len(args) = Len(f.params) /\ Run(f.body, CalledEnv(f, args), s)
  <2>1. f.params \in Seq(V) /\ f.env \in EnvOver(V) /\ ClosureFits(p, f)
    BY <1>6 DEF Closed, ClosuresFit
  <2>2. EnvNames(p, CalledEnv(f, args))
    BY <1>6, <2>1, CalledNames
  <2>3. At(f.body, FnBody) \in Occurrences(p)
    BY <2>1 DEF ClosureFits
  <2>4. Depth(f.body) \in Nat /\ Depth(f.body) <= Depth(p)
    BY <2>3, OccurrencesAre, AtFields
  <2>5. ~ FnBody.recur /\ At(f.body, FnBody).form = f.body /\ At(f.body, FnBody).place = FnBody
    BY DEF FnBody, Place, At
  <2>6. TailCalls(p) => Len(s) + Depth(f.body) <= Depth(p) /\ Len(s) = 0 /\ Len(s) <= Depth(p)
    <3>1. Depth(p) \in Nat
      BY DepthAssumption
    <3> QED
      BY <1>6, <2>4, <3>1
  <2>7. Fits(p, f.body, Len(s), OpAt(s, Len(s)))
    BY <2>3, <2>5, <2>6 DEF Fits
  <2>8. Text(p, f.body, Len(s), OpAt(s, Len(s)))
    BY <2>6, <2>7 DEF Text
  <2> QED
    BY <1>6, <2>2, <2>8, RunFits
<1> QED
  BY <1>2, <1>3, <1>4, <1>5, <1>6, Zenon DEF Apply, ApplyBuiltin, ApplyClosure, ApplyForged

(* The items of the rest of a list. *)
LEMMA RestItems ==
    ASSUME NEW V, NEW s \in Seq(V), s # <<>>
    PROVE  /\ Tail(s) \in Seq(V) /\ Len(s) \in Nat /\ Len(s) > 0
           /\ DOMAIN s = 1 .. Len(s) /\ DOMAIN Tail(s) = 1 .. Len(s) - 1
           /\ Len(Tail(s)) = Len(s) - 1
           /\ \A j \in 1 .. Len(s) - 1 : Tail(s)[j] = s[j + 1] /\ j + 1 \in 1 .. Len(s)
           /\ 1 \in DOMAIN s
<1>1. Len(s) \in Nat /\ Len(s) > 0 /\ DOMAIN s = 1 .. Len(s)
  OBVIOUS
<1> QED
  BY <1>1

(* The function of the call, then its arguments one by one. *)
LEMMA DeliverCallFits ==
    ASSUME NEW p \in Val, NEW V, Closed(V), StateOver(V), TypeOK, StateFits(p),
           ClosuresFit(p, V), DeliverCall
    PROVE  StateFits(p)'
<1> DEFINE k == Len(Below)
           b == OpAt(Below, Len(Below))
<1>1. /\ status = "running" /\ Top.op = "call"
      /\ expr \in V /\ Top \in FrameOver(V)
      /\ EnvNames(p, env) /\ Below \in Seq(ReadyFrame(V)) /\ k \in Nat
      /\ StackFits(p, Below) /\ HeadsFit(p, Below) /\ FrameFits(p, Top, k, b)
      /\ TailCalls(p) => k + 1 <= Depth(p)
      /\ HeadFits(p, Top, k) \/ (Top.func = NULL /\ expr \in Val)
  BY DeliverStart DEF DeliverCall
<1>2. Top.func \in V \cup {NULL} /\ Top.args \in Seq(V) /\ Top.rest \in Seq(V)
  BY <1>1, FrameFields
<1>3. CallFunc \in V /\ CallArgs \in Seq(V)
  BY <1>1, <1>2 DEF CallFunc, CallArgs
<1>4. TailCalls(p) => k = 0 \/ (CallFunc # NULL /\ CallFunc.type # "closure")
  <2>1. CASE HeadFits(p, Top, k)
    BY <1>1, <2>1 DEF HeadFits, CallFunc
  <2>2. CASE Top.func = NULL /\ expr \in Val
    <3>1. expr # NULL /\ expr.type # "closure"
      BY <2>2, StepAssumption
    <3> QED
      BY <2>2, <3>1 DEF CallFunc
  <2> QED
    BY <1>1, <2>1, <2>2
<1>5. CASE Apply(CallFunc, CallArgs, Below)
  <2>1. TailCalls(p) /\ CallFunc.type = "closure" => Len(Below) = 0
    BY <1>4
  <2> QED
    BY <1>1, <1>3, <1>5, <2>1, ApplyFits
<1>6. CASE /\ Top.rest # <<>>
           /\ Run(Top.rest[1], env, Push(Below, CallFrame(CallFunc, CallArgs, Tail(Top.rest))))
  <2> DEFINE f == CallFrame(CallFunc, CallArgs, Tail(Top.rest))
  <2>1. \A j \in DOMAIN Top.rest : Text(p, Top.rest[j], k + 1, "none")
    BY <1>1 DEF FrameFits
  <2>2. /\ 1 \in DOMAIN Top.rest
        /\ \A j \in DOMAIN Tail(Top.rest) : Text(p, Tail(Top.rest)[j], k + 1, "none")
    BY <1>2, <1>6, <2>1, RestItems
  <2>3. FrameFits(p, f, k, b)
    BY <2>2, CallFrameFits
  <2>4. HeadFits(p, f, k)
    <3>1. f.func = CallFunc
      BY DEF CallFrame
    <3> QED
      BY <1>4, <3>1 DEF HeadFits
  <2>5. Text(p, Top.rest[1], k + 1, f.op)
    BY <2>1, <2>2, TextAnywhere
  <2> HIDE DEF f
  <2> QED
    BY <1>1, <1>6, <2>3, <2>4, <2>5, PushedRunFits DEF f
<1> QED
  BY <1>5, <1>6 DEF DeliverCall

(* if goes to a branch, where the if stood; a loop-target and the end of   *)
(* the stack pass the value on.                                            *)
LEMMA DeliverPlainFits ==
    ASSUME NEW p \in Val, NEW V, StateOver(V), TypeOK, StateFits(p),
           DeliverIf \/ DeliverTarget \/ DeliverDone
    PROVE  StateFits(p)'
<1> DEFINE k == Len(Below)
           b == OpAt(Below, Len(Below))
<1>1. ASSUME NEW op, DeliverTo(op)
      PROVE  /\ status = "running" /\ Top.op = op /\ EnvNames(p, env)
             /\ StackFits(p, Below) /\ HeadsFit(p, Below) /\ FrameFits(p, Top, k, b)
  BY <1>1, DeliverStart
<1>2. CASE DeliverIf
  <2>1. /\ status = "running" /\ Top.op = "if-branch" /\ EnvNames(p, env)
        /\ StackFits(p, Below) /\ HeadsFit(p, Below) /\ FrameFits(p, Top, k, b)
    BY <1>1, <1>2 DEF DeliverIf
  <2>2. Text(p, Top.then, k, b) /\ Text(p, Top.else, k, b)
    BY <2>1 DEF FrameFits
  <2>3. CASE Run(Top.then, env, Below)
    BY <2>1, <2>2, <2>3, RunFits
  <2>4. CASE Run(Top.else, env, Below)
    BY <2>1, <2>2, <2>4, RunFits
  <2> QED
    BY <1>2, <2>3, <2>4 DEF DeliverIf
<1>3. CASE DeliverTarget
  <2>1. status = "running" /\ EnvNames(p, env) /\ StackFits(p, Below) /\ HeadsFit(p, Below)
    BY <1>1, <1>3 DEF DeliverTarget
  <2>2. Deliver(expr, env, Below)
    BY <1>3 DEF DeliverTarget
  <2> QED
    BY <2>1, <2>2, DeliverFits
<1>4. CASE DeliverDone
  <2>1. /\ env' = env /\ stack' = stack /\ status' = "done" /\ error' = error
        /\ error = "none"
    BY <1>4 DEF DeliverDone, Delivering, TypeOK
  <2> QED
    BY <2>1 DEF StateFits, NoRecurError
<1> QED
  BY <1>2, <1>3, <1>4

(* The last expression of a do takes the place of the do. *)
LEMMA DeliverDoFits ==
    ASSUME NEW p \in Val, NEW V, StateOver(V), TypeOK, StateFits(p), DeliverDo
    PROVE  StateFits(p)'
<1> DEFINE k == Len(Below)
           b == OpAt(Below, Len(Below))
<1>1. /\ status = "running" /\ Top.op = "do-rest" /\ Top \in FrameOver(V) /\ FrameReady(Top)
      /\ EnvNames(p, env) /\ Below \in Seq(ReadyFrame(V)) /\ k \in Nat
      /\ StackFits(p, Below) /\ HeadsFit(p, Below) /\ FrameFits(p, Top, k, b)
      /\ TailCalls(p) => k + 1 <= Depth(p)
  BY DeliverStart DEF DeliverDo
<1>2. Top.rest \in Seq(V) /\ Top.rest # <<>>
  BY <1>1, FrameFields DEF FrameReady
<1>3. \A j \in DOMAIN Top.rest :
        /\ j = Len(Top.rest) => Text(p, Top.rest[j], k, b)
        /\ j # Len(Top.rest) => Text(p, Top.rest[j], k + 1, "none")
  BY <1>1 DEF FrameFits
<1> DEFINE s == Top.rest
           t == Tail(Top.rest)
<1>4. /\ Len(s) \in Nat /\ DOMAIN t = 1 .. Len(s) - 1 /\ Len(t) = Len(s) - 1
      /\ \A j \in 1 .. Len(s) - 1 : t[j] = s[j + 1] /\ j + 1 \in 1 .. Len(s)
      /\ 1 \in DOMAIN s /\ DOMAIN s = 1 .. Len(s)
  BY <1>2, RestItems
<1>5. CASE LastDo /\ Run(s[1], env, Below)
  <2>1. Text(p, s[1], k, b)
    BY <1>3, <1>4, <1>5 DEF LastDo
  <2> QED
    BY <1>1, <1>5, <2>1, RunFits
<1>6. CASE ~LastDo /\ Run(s[1], env, Push(Below, DoFrame(t)))
  <2> DEFINE f == DoFrame(t)
  <2>1. Text(p, s[1], k + 1, "none")
    BY <1>3, <1>4, <1>6 DEF LastDo
  <2> HIDE DEF s, t
  <2>2. ASSUME NEW j \in DOMAIN t
        PROVE  /\ j = Len(t) => Text(p, t[j], k, b)
               /\ j # Len(t) => Text(p, t[j], k + 1, "none")
    <3>1. /\ t[j] = s[j + 1] /\ j + 1 \in DOMAIN s
          /\ (j = Len(t)) <=> (j + 1 = Len(s))
      BY <1>4
    <3> QED
      BY <1>3, <3>1 DEF s
  <2>3. FrameFits(p, f, k, b) /\ HeadFits(p, f, k)
    BY <2>2, DoFrameFits
  <2>4. Text(p, s[1], k + 1, f.op)
    BY <2>1, TextAnywhere
  <2> HIDE DEF f
  <2> QED
    BY <1>1, <1>6, <2>3, <2>4, PushedRunFits DEF f
<1> QED
  BY <1>5, <1>6 DEF DeliverDo

(* The pairs that are left without the first one. *)
LEMMA PairsRest ==
    ASSUME NEW p, NEW V, NEW s \in Seq(V), NEW k, Pairs(p, s, k),
           Len(s) > 2, Len(s) % 2 = 0
    PROVE  /\ Pairs(p, SubSeq(s, 3, Len(s)), k)
           /\ Text(p, s[4], k, "none")
<1> DEFINE t == SubSeq(s, 3, Len(s))
           n == Len(s)
<1>1. n \in Nat /\ n >= 4 /\ n % 2 = 0 /\ DOMAIN s = 1 .. n
  <2>1. n \in Nat /\ n > 2 /\ n % 2 = 0
    OBVIOUS
  <2> HIDE DEF n
  <2>2. n >= 4
    BY <2>1
  <2> QED
    BY <2>1, <2>2 DEF n
<1>2. DOMAIN t = 1 .. n - 2 /\ \A i \in 1 .. n - 2 : t[i] = s[i + 2]
  BY <1>1
<1> HIDE DEF t, n
<1>3. \A i \in DOMAIN t : t[i] = s[i + 2] /\ i + 2 \in DOMAIN s /\ (i + 2) % 2 = i % 2
  BY <1>1, <1>2
<1>4. Names(p, t)
  BY <1>3 DEF Pairs, Names
<1>5. \A i \in DOMAIN t : i % 2 = 0 => Text(p, t[i], k, "none")
  BY <1>3 DEF Pairs
<1>6. 4 \in DOMAIN s /\ 4 % 2 = 0
  BY <1>1
<1>7. Text(p, s[4], k, "none")
  BY <1>6 DEF Pairs
<1> QED
  BY <1>4, <1>5, <1>7 DEF Pairs, t, n

(* The first name of a list of pairs is a name of the program. *)
LEMMA ExtendedNames ==
    ASSUME NEW p, NEW V, NEW s \in Seq(V), Names(p, s), Len(s) >= 2,
           NEW r \in EnvOver(V), EnvNames(p, r), NEW v \in V
    PROVE  EnvNames(p, EnvPush(Bind(s[1], v), r))
<1>1. 1 \in DOMAIN s
  OBVIOUS
<1> QED
  BY <1>1, BoundNames

(* The next binding of let stands as the first one, the body where the let *)
(* stood.                                                                  *)
LEMMA DeliverLetFits ==
    ASSUME NEW p \in Val, NEW V, StateOver(V), TypeOK, StateFits(p), DeliverLet
    PROVE  StateFits(p)'
<1> DEFINE k == Len(Below)
           b == OpAt(Below, Len(Below))
           f == LetFrame(RestBinds, Top.body, Extended)
<1>1. /\ status = "running" /\ Top.op = "let-binds" /\ Top \in FrameOver(V) /\ FrameReady(Top)
      /\ expr \in V /\ Below \in Seq(ReadyFrame(V)) /\ k \in Nat
      /\ StackFits(p, Below) /\ HeadsFit(p, Below) /\ FrameFits(p, Top, k, b)
      /\ TailCalls(p) => k + 1 <= Depth(p)
  BY DeliverStart DEF DeliverLet
<1>2. /\ Top.rest \in Seq(V) /\ Top.env \in EnvOver(V)
      /\ Len(Top.rest) >= 2 /\ Len(Top.rest) % 2 = 0
  BY <1>1, FrameFields DEF FrameReady
<1>3. Pairs(p, Top.rest, k + 1) /\ Text(p, Top.body, k, b) /\ EnvNames(p, Top.env)
  BY <1>1 DEF FrameFits
<1>4. EnvNames(p, Extended)
  BY <1>1, <1>2, <1>3, ExtendedNames DEF Extended, Pairs
<1>5. CASE Run(Top.body, Extended, Below)
  BY <1>1, <1>3, <1>4, <1>5, RunFits
<1>6. CASE Len(Top.rest) > 2 /\ Run(Top.rest[4], Extended, Push(Below, f))
  <2>1. Pairs(p, RestBinds, k + 1) /\ Text(p, Top.rest[4], k + 1, "none")
    BY <1>2, <1>3, <1>6, PairsRest DEF RestBinds
  <2>2. FrameFits(p, f, k, b) /\ HeadFits(p, f, k)
    BY <1>3, <1>4, <2>1, LetFrameFits
  <2>3. Text(p, Top.rest[4], k + 1, f.op)
    BY <2>1, TextAnywhere
  <2> HIDE DEF f
  <2> QED
    BY <1>1, <1>4, <1>6, <2>2, <2>3, PushedRunFits
<1> QED
  BY <1>5, <1>6 DEF DeliverLet

(* The next binding of loop stands as the first one, the body on a         *)
(* loop-target.                                                            *)
LEMMA DeliverLoopFits ==
    ASSUME NEW p \in Val, NEW V, StateOver(V), TypeOK, StateFits(p), DeliverLoop
    PROVE  StateFits(p)'
<1> DEFINE k == Len(Below)
           b == OpAt(Below, Len(Below))
           f == LoopFrame(RestBinds, Top.body, Extended, Top.orig)
           g == TargetFrame(Top.orig, Top.body, Top.env)
<1>1. /\ status = "running" /\ Top.op = "loop-binds" /\ Top \in FrameOver(V) /\ FrameReady(Top)
      /\ expr \in V /\ Below \in Seq(ReadyFrame(V)) /\ k \in Nat
      /\ StackFits(p, Below) /\ HeadsFit(p, Below) /\ FrameFits(p, Top, k, b)
      /\ TailCalls(p) => k + 1 <= Depth(p)
  BY DeliverStart DEF DeliverLoop
<1>2. /\ Top.rest \in Seq(V) /\ Top.env \in EnvOver(V)
      /\ Len(Top.rest) >= 2 /\ Len(Top.rest) % 2 = 0
  BY <1>1, FrameFields DEF FrameReady
<1>3. /\ Pairs(p, Top.rest, k + 1) /\ Names(p, Top.orig)
      /\ Text(p, Top.body, k + 1, "loop-target") /\ EnvNames(p, Top.env)
  BY <1>1 DEF FrameFits
<1>4. EnvNames(p, Extended)
  BY <1>1, <1>2, <1>3, ExtendedNames DEF Extended, Pairs
<1>5. CASE Run(Top.body, Extended, Push(Below, g))
  <2>1. FrameFits(p, g, k, b) /\ HeadFits(p, g, k)
    BY <1>3, TargetFrameFits
  <2>2. Text(p, Top.body, k + 1, g.op)
    BY <1>3 DEF TargetFrame
  <2> HIDE DEF g
  <2> QED
    BY <1>1, <1>4, <1>5, <2>1, <2>2, PushedRunFits
<1>6. CASE Len(Top.rest) > 2 /\ Run(Top.rest[4], Extended, Push(Below, f))
  <2>1. Pairs(p, RestBinds, k + 1) /\ Text(p, Top.rest[4], k + 1, "none")
    BY <1>2, <1>3, <1>6, PairsRest DEF RestBinds
  <2>2. FrameFits(p, f, k, b) /\ HeadFits(p, f, k)
    BY <1>3, <1>4, <2>1, LoopFrameFits
  <2>3. Text(p, Top.rest[4], k + 1, f.op)
    BY <2>1, TextAnywhere
  <2> HIDE DEF f
  <2> QED
    BY <1>1, <1>4, <1>6, <2>2, <2>3, PushedRunFits
<1> QED
  BY <1>5, <1>6 DEF DeliverLoop

(* The arguments of recur, one by one, on the frame it jumps to. *)
LEMMA DeliverRecurFits ==
    ASSUME NEW p \in Val, NEW V, StateOver(V), TypeOK, StateFits(p), DeliverRecur
    PROVE  StateFits(p)'
<1> DEFINE k == Len(Below)
           b == OpAt(Below, Len(Below))
           args == Append(Top.args, expr)
           f == RecurFrame(args, Tail(Top.rest))
<1>1. /\ status = "running" /\ Top.op = "recur-args" /\ Top \in FrameOver(V)
      /\ EnvNames(p, env) /\ Below \in Seq(ReadyFrame(V)) /\ k \in Nat
      /\ StackFits(p, Below) /\ HeadsFit(p, Below) /\ FrameFits(p, Top, k, b)
      /\ TailCalls(p) => k + 1 <= Depth(p)
  BY DeliverStart DEF DeliverRecur
<1>2. Top.rest \in Seq(V) /\ Below \in Stack(V)
  BY <1>1, FrameFields DEF Stack
<1>3. /\ RecursPlaced(p) /\ NoEmptyLoop(p) => b = "loop-target"
      /\ \A j \in DOMAIN Top.rest : Text(p, Top.rest[j], k + 1, "none")
  BY <1>1 DEF FrameFits
<1>4. CASE HandleRecur(args, Below)
  <2> HIDE DEF args
  <2> QED
    BY <1>1, <1>2, <1>3, <1>4, RecurFits
<1>5. CASE Top.rest # <<>> /\ Run(Top.rest[1], env, Push(Below, f))
  <2>1. /\ 1 \in DOMAIN Top.rest
        /\ \A j \in DOMAIN Tail(Top.rest) : Text(p, Tail(Top.rest)[j], k + 1, "none")
    BY <1>2, <1>3, <1>5, RestItems
  <2>2. FrameFits(p, f, k, b) /\ HeadFits(p, f, k)
    BY <1>3, <2>1, RecurFrameFits
  <2>3. Text(p, Top.rest[1], k + 1, f.op)
    BY <1>3, <2>1, TextAnywhere
  <2> HIDE DEF f
  <2> QED
    BY <1>1, <1>5, <2>2, <2>3, PushedRunFits
<1> QED
  BY <1>4, <1>5 DEF DeliverRecur

-----------------------------------------------------------------------------
(* The stack, and what recur finds on it *)

(* The program of a run and its answers stay. *)
LEMMA ProgramStays == TypeOK /\ [Next]_vars => program' = program /\ answers' = answers
  BY DEF Next, vars, state, Eval, EvalAtom, EvalSymbol, EvalEmptyList, EvalQuote, EvalIf, EvalDo,
     EvalLet, EvalFn, EvalLoop, EvalRecur, EvalCall, StepCall, DeliverValue, DeliverDone,
     DeliverCall, DeliverIf, DeliverDo, DeliverLet, DeliverLoop, DeliverTarget, DeliverRecur,
     DeliverTo, Delivering, Resume, StepSuspended, Stop

(* After every step, what a state holds stands where it may be evaluated.  *)
LEMMA FitsNext ==
    ASSUME NEW p \in Val, NEW V, Closed(V), StateOver(V), TypeOK, Plain(answers),
           ClosuresFit(p, V), StateFits(p), [Next]_vars
    PROVE  StateFits(p)'
<1>1. CASE Eval
  BY <1>1, EvalValueFits, EvalSymbolFits, EvalIfFits, EvalDoFits, EvalLetFits, EvalFnFits,
     EvalLoopFits, EvalRecurFits, EvalCallFits DEF Eval
<1>2. CASE DeliverValue
  BY <1>2, DeliverPlainFits, DeliverCallFits, DeliverDoFits, DeliverLetFits, DeliverLoopFits,
     DeliverRecurFits DEF DeliverValue
<1>3. CASE Resume
  <2>1. /\ status = "suspended" /\ ctl = "step" /\ error = "none"
        /\ expr' = answers[effect[1].name] /\ status' = "running"
        /\ env' = env /\ stack' = stack /\ error' = error /\ ctl' = ctl
    BY <1>3 DEF Resume, TypeOK
  <2>2. ~ IsList(expr')
    BY <2>1, RequestedEffect DEF Plain
  <2>3. StackFits(p, stack) /\ HeadsFit(p, stack) /\ EnvNames(p, env)
    BY <2>1 DEF StateFits
  <2>4. TailCalls(p) => Len(stack) <= Depth(p)
    BY <2>3 DEF StackFits
  <2>5. Text(p, expr', Len(stack), OpAt(stack, Len(stack)))
    BY <2>2, <2>4 DEF Text
  <2>6. NoRecurError(p)'
    BY <2>1 DEF NoRecurError
  <2> QED
    BY <2>1, <2>3, <2>4, <2>5, <2>6 DEF StateFits
<1>4. CASE StepSuspended
  <2>1. env' = env /\ stack' = stack /\ status' = "error" /\ error' = "suspended"
    BY <1>4 DEF StepSuspended
  <2> QED
    BY <2>1 DEF StateFits, NoRecurError
<1>5. CASE UNCHANGED vars
  BY <1>5 DEF vars, state, StateFits, NoRecurError, HeadKnown
<1> QED
  BY <1>1, <1>2, <1>3, <1>4, <1>5 DEF Next, Stop

(* The inductive invariant: a state is made of closed values, and when no  *)
(* answer is a form its closures and itself stand in the text.             *)
TextInv ==
    /\ TypeOK
    /\ \E V : /\ Closed(V) /\ StateOver(V)
              /\ Plain(answers) => ClosuresFit(program, V) /\ StateFits(program)

(* The program is in its own text. *)
LEMMA TextInvInit == Init => TextInv
<1> SUFFICES ASSUME Init PROVE TextInv
  OBVIOUS
<1>1. TypeOK /\ Closed(Val)
  BY TypeInit, ClosedVal
<1>2. StateOver(Val)
  BY InitOver
<1>3. ClosuresFit(program, Val)
  BY StepAssumption DEF ClosuresFit
<1>4. PICK p : p = program
  OBVIOUS
<1>5. p \in Val /\ Depth(p) \in Nat
  BY <1>4, StepAssumption, DepthAssumption DEF Init
<1>6. /\ expr = p /\ env = <<Global>> /\ stack = <<>> /\ status = "running"
      /\ error = "none" /\ ctl = "step" /\ Len(stack) = 0
  BY <1>4 DEF Init
<1>7. EnvNames(p, env) /\ StackFits(p, stack) /\ HeadsFit(p, stack) /\ NoRecurError(p)
  BY <1>5, <1>6 DEF EnvNames, StackFits, HeadsFit, NoRecurError
<1>8. At(p, FnBody) \in Occurrences(p) /\ ~ FnBody.recur
  BY <1>5, OccurrencesAre DEF FnBody, Place
<1>9. Fits(p, p, 0, "none")
  <2>1. At(p, FnBody).form = p /\ At(p, FnBody).place = FnBody
    BY AtFields
  <2>2. 0 + Depth(p) <= Depth(p)
    BY <1>5
  <2> QED
    BY <1>8, <2>1, <2>2 DEF Fits
<1>10. Text(p, expr, Len(stack), OpAt(stack, Len(stack)))
  BY <1>5, <1>6, <1>9 DEF Text, OpAt
<1>11. StateFits(p)
  BY <1>6, <1>7, <1>10 DEF StateFits, StackFits
<1>12. StateFits(program)
  BY <1>4, <1>11
<1> QED
  BY <1>1, <1>2, <1>3, <1>12 DEF TextInv

(* Every step keeps the state in the text of the program. *)
LEMMA TextInvNext == TextInv /\ [Next]_vars => TextInv'
<1> SUFFICES ASSUME TextInv, [Next]_vars PROVE TextInv'
  OBVIOUS
<1>1. TypeOK /\ TypeOK'
  BY TypeNext DEF TextInv
<1>2. PICK V : /\ Closed(V) /\ StateOver(V)
               /\ Plain(answers) => ClosuresFit(program, V) /\ StateFits(program)
  BY DEF TextInv
<1>3. PICK W : Closed(W) /\ StateOver(W)' /\ OldOrMade(V, W)
  BY <1>1, <1>2, ValuesNext
<1>4. program' = program /\ answers' = answers
  BY <1>1, ProgramStays
<1>5. PICK p : p = program
  OBVIOUS
<1>6. p \in Val
  BY <1>1, <1>5, StepAssumption DEF TypeOK
<1>7. ASSUME Plain(answers) PROVE ClosuresFit(p, W) /\ StateFits(p)'
  <2>1. ClosuresFit(p, V) /\ StateFits(p)
    BY <1>2, <1>5, <1>7
  <2>2. ASSUME NEW c \in W, c.type = "closure" PROVE ClosureFits(p, c)
    <3>1. CASE c \in V
      BY <2>1, <2>2, <3>1 DEF ClosuresFit
    <3>2. CASE MadeHere(c)
      BY <1>1, <1>2, <1>6, <2>1, <3>2, MadeClosureFits
    <3> QED
      BY <1>3, <2>2, <3>1, <3>2 DEF OldOrMade
  <2>3. StateFits(p)'
    BY <1>1, <1>2, <1>6, <1>7, <2>1, FitsNext
  <2> QED
    BY <2>2, <2>3 DEF ClosuresFit
<1>8. Plain(answers)' => ClosuresFit(program', W) /\ StateFits(program)'
  <2>1. Plain(answers)' => Plain(answers)
    BY <1>4 DEF Plain
  <2>2. program' = p
    BY <1>4, <1>5
  <2>3. StateFits(p)' => StateFits(program)'
    BY <2>2
  <2> QED
    BY <1>7, <2>1, <2>2, <2>3
<1> QED
  BY <1>1, <1>3, <1>8 DEF TextInv

(* What a state holds always stands where it may be evaluated. *)
LEMMA TextInvariance == Spec => []TextInv
<1> QED
  BY TextInvInit, TextInvNext, PTL DEF Spec

(* Loops and tail calls run in constant stack.  However long a program     *)
(* runs, through closures, loops, effects and errors: when it calls        *)
(* closures in tail position only, the stack is no higher than its text is *)
(* deep (step.c:396-397, 595-601, 686-692).                                *)
THEOREM StackStaysLow == Spec => []StackBounded
<1>1. TextInv => StackBounded
  <2> SUFFICES ASSUME TextInv, TailCalls(program), Plain(answers), Len(stack) > Depth(program)
               PROVE  FALSE
    BY DEF StackBounded
  <2>1. StateFits(program)
    BY DEF TextInv
  <2>2. Len(stack) <= Depth(program)
    BY <2>1 DEF StateFits
  <2>3. Depth(program) \in Nat
    BY StepAssumption, DepthAssumption DEF TextInv, TypeOK
  <2>4. Len(stack) \in Nat
    <3>1. PICK V : stack \in Seq(ReadyFrame(V))
      BY DEF TextInv, StateOver, Stack
    <3> QED
      BY <3>1
  <2> QED
    BY <2>2, <2>3, <2>4
<1> QED
  BY <1>1, TextInvariance, PTL

(* A recur in tail position of a loop finds the loop-target of the loop    *)
(* (step.md:57), in every program without a loop that binds nothing, whose *)
(* answers are no forms.                                                   *)
THEOREM RecurFindsItsLoop ==
    Spec => [](NoEmptyLoop(program) /\ Plain(answers) => RecurReachesLoop)
<1>1. TextInv => (NoEmptyLoop(program) /\ Plain(answers) => RecurReachesLoop)
  BY DEF TextInv, StateFits, NoRecurError, RecurReachesLoop
<1> QED
  BY <1>1, TextInvariance, PTL
-----------------------------------------------------------------------------
(* Recursion over the natural numbers: MadeOf, Meanings and Total *)

(* What the n-th of them is made of, given those before it. *)
Iterate(what, a, f, n) ==
    CASE what = "made" -> IF n = 0 THEN a ELSE Made(a, f[n - 1])
      [] what = "means" ->
            [t \in Tasks(Universe) |-> IF n = 0 THEN OutOfFuel ELSE Ev(Reading(a[1], a[2], f[n - 1]), t)]
      [] what = "total" -> IF n = 0 THEN 0 ELSE f[n - 1] + a[1][a[2][n]]
Recurs(what, a, f) == f = [n \in Nat |-> Iterate(what, a, f, n)]
SolvesBelow(what, a, f, d) == \A n \in Nat : n < d => f[n] = Iterate(what, a, f, n)

(* Only the one before it counts. *)
LEMMA BodyAgrees ==
    ASSUME NEW what, NEW a, NEW f, NEW g, NEW n \in Nat, n # 0 => f[n - 1] = g[n - 1]
    PROVE  Iterate(what, a, f, n) = Iterate(what, a, g, n)
  BY DEF Iterate

(* Up to every bound there is a function that satisfies the recursion. *)
LEMMA SolvedBelow ==
    ASSUME NEW what, NEW a, NEW d \in Nat
    PROVE  \E f : SolvesBelow(what, a, f, d)
<1> DEFINE Unsolved == {e \in Nat : ~ \E f : SolvesBelow(what, a, f, e)}
<1>1. \E f : SolvesBelow(what, a, f, 0)
  BY DEF SolvesBelow
<1>2. ASSUME NEW e \in Nat, NEW f, SolvesBelow(what, a, f, e)
      PROVE  \E g : SolvesBelow(what, a, g, e + 1)
  <2> DEFINE g == [n \in Nat |-> Iterate(what, a, f, n)]
  <2>1. \A n \in Nat : g[n] = Iterate(what, a, f, n)
    OBVIOUS
  <2>2. \A n \in Nat : n < e => f[n] = Iterate(what, a, f, n)
    BY <1>2 DEF SolvesBelow
  <2> HIDE DEF g
  <2>3. ASSUME NEW n \in Nat, n < e + 1 PROVE g[n] = Iterate(what, a, g, n)
    <3>1. n # 0 => n - 1 \in Nat /\ n - 1 < e
      BY <2>3
    <3>2. n # 0 => f[n - 1] = g[n - 1]
      BY <2>1, <2>2, <3>1
    <3> QED
      BY <2>1, <3>2, BodyAgrees
  <2> QED
    BY <2>3 DEF SolvesBelow
<1>3. Unsolved = {}
  <2> SUFFICES ASSUME Unsolved # {} PROVE FALSE
    OBVIOUS
  <2>1. Unsolved \in SUBSET Nat
    OBVIOUS
  <2> HIDE DEF Unsolved
  <2>2. PICK e \in Unsolved : \A m \in Unsolved : e <= m
    BY <2>1, LeastOfNaturals
  <2>3. e \in Nat /\ ~ \E f : SolvesBelow(what, a, f, e)
    BY <2>2 DEF Unsolved
  <2>4. e # 0
    BY <1>1, <2>3
  <2>5. e - 1 \in Nat /\ e - 1 + 1 = e /\ e - 1 \notin Unsolved
    BY <2>2, <2>3, <2>4
  <2>6. PICK f : SolvesBelow(what, a, f, e - 1)
    BY <2>5 DEF Unsolved
  <2> QED
    BY <1>2, <2>3, <2>5, <2>6
<1> QED
  BY <1>3

(* Two functions that satisfy it are alike wherever both do. *)
LEMMA SolvedAlike ==
    ASSUME NEW what, NEW a, NEW d \in Nat, NEW e \in Nat, NEW f, NEW g,
           SolvesBelow(what, a, f, d), SolvesBelow(what, a, g, e),
           NEW n \in Nat, n < d, n < e
    PROVE  f[n] = g[n]
<1> DEFINE Differ == {m \in Nat : m < d /\ m < e /\ f[m] # g[m]}
<1> SUFFICES ASSUME Differ # {} PROVE FALSE
  OBVIOUS
<1>1. Differ \in SUBSET Nat
  OBVIOUS
<1>2. PICK m \in Differ : \A k \in Differ : m <= k
  <2> HIDE DEF Differ
  <2> QED
    BY <1>1, LeastOfNaturals
<1>3. m \in Nat /\ m < d /\ m < e /\ f[m] # g[m]
  BY <1>2
<1>4. m # 0 => f[m - 1] = g[m - 1]
  BY <1>2, <1>3
<1>5. f[m] = Iterate(what, a, f, m) /\ g[m] = Iterate(what, a, g, m)
  BY <1>3 DEF SolvesBelow
<1> QED
  BY <1>3, <1>4, <1>5, BodyAgrees

(* So there is one function that satisfies it everywhere. *)
LEMMA RecursionExists == ASSUME NEW what, NEW a PROVE \E f : Recurs(what, a, f)
<1> DEFINE part(n) == CHOOSE f : SolvesBelow(what, a, f, n + 1)
           h == [n \in Nat |-> part(n)[n]]
<1>1. ASSUME NEW n \in Nat PROVE SolvesBelow(what, a, part(n), n + 1)
  <2>1. n + 1 \in Nat
    OBVIOUS
  <2> QED
    BY <2>1, SolvedBelow
<1> HIDE DEF part
<1>2. ASSUME NEW n \in Nat PROVE h[n] = Iterate(what, a, h, n)
  <2>1. h[n] = part(n)[n]
    OBVIOUS
  <2>2. part(n)[n] = Iterate(what, a, part(n), n)
    BY <1>1 DEF SolvesBelow
  <2>3. n # 0 => part(n)[n - 1] = h[n - 1]
    <3> SUFFICES ASSUME n # 0 PROVE part(n)[n - 1] = h[n - 1]
      OBVIOUS
    <3>1. n - 1 \in Nat /\ n - 1 < n + 1 /\ n - 1 < n - 1 + 1 /\ n + 1 \in Nat /\ n - 1 + 1 \in Nat
      OBVIOUS
    <3>2. SolvesBelow(what, a, part(n), n + 1) /\ SolvesBelow(what, a, part(n - 1), n - 1 + 1)
      BY <1>1, <3>1
    <3>3. part(n)[n - 1] = part(n - 1)[n - 1]
      BY <3>1, <3>2, SolvedAlike
    <3> QED
      BY <3>1, <3>3
  <2> QED
    BY <2>1, <2>2, <2>3, BodyAgrees
<1>3. h = [n \in Nat |-> h[n]]
  OBVIOUS
<1> HIDE DEF h
<1>4. h = [n \in Nat |-> Iterate(what, a, h, n)]
  BY <1>2, <1>3
<1> QED
  BY <1>4 DEF Recurs

(* MadeOf adds what a step makes, level by level. *)
LEMMA MadeOfIs ==
    ASSUME NEW old
    PROVE  /\ MadeOf(old, 0) = old
           /\ \A n \in Nat : MadeOf(old, n + 1) = Made(old, MadeOf(old, n))
<1> DEFINE h == CHOOSE f : Recurs("made", old, f)
<1>1. Recurs("made", old, h)
  BY RecursionExists
<1>2. \A n : MadeOf(old, n) = h[n]
  BY DEF MadeOf, Recurs, Iterate
<1> HIDE DEF h
<1>3. \A n \in Nat : h[n] = IF n = 0 THEN old ELSE Made(old, h[n - 1])
  BY <1>1 DEF Recurs, Iterate
<1>4. ASSUME NEW n \in Nat PROVE h[n + 1] = Made(old, h[n])
  <2>1. n + 1 \in Nat /\ n + 1 # 0 /\ n + 1 - 1 = n
    OBVIOUS
  <2> QED
    BY <1>3, <2>1
<1> QED
  BY <1>2, <1>3, <1>4

(* What a task comes to in n tasks inside each other. *)
LEMMA MeaningsAre ==
    ASSUME NEW lex, NEW ans
    PROVE  /\ \A t : Of(Meanings(lex, ans, 0), t) = OutOfFuel
           /\ \A n \in Nat, t \in Tasks(Universe) :
                Of(Meanings(lex, ans, n + 1), t) = Ev(Meanings(lex, ans, n), t)
           /\ \A n \in Nat : \A t : t \notin Tasks(Universe) => Of(Meanings(lex, ans, n), t) = OutOfFuel
           /\ \A n : Meanings(lex, ans, n).lex = lex /\ Meanings(lex, ans, n).answers = ans
<1>0. PICK a : a = <<lex, ans>>
  OBVIOUS
<1> DEFINE h == CHOOSE f : Recurs("means", a, f)
           m(n) == Reading(lex, ans, h[n])
<1>1. Recurs("means", a, h)
  BY RecursionExists
<1>2. \A n : Meanings(lex, ans, n) = m(n)
  BY <1>0 DEF Meanings, Recurs, Iterate
<1> HIDE DEF h
<1>3. \A n \in Nat :
        h[n] = [t \in Tasks(Universe) |->
                    IF n = 0 THEN OutOfFuel ELSE Ev(Reading(lex, ans, h[n - 1]), t)]
  BY <1>0, <1>1 DEF Recurs, Iterate
<1>4. ASSUME NEW n \in Nat
      PROVE  h[n + 1] = [t \in Tasks(Universe) |-> Ev(Reading(lex, ans, h[n]), t)]
  <2>1. n + 1 \in Nat /\ n + 1 # 0 /\ n + 1 - 1 = n
    OBVIOUS
  <2> QED
    BY <1>3, <2>1
<1>5. h[0] = [t \in Tasks(Universe) |-> OutOfFuel]
  BY <1>3
<1>6. \A t : Of(m(0), t) = OutOfFuel
  BY <1>5 DEF Of, Reading
<1>7. \A n \in Nat, t \in Tasks(Universe) : Of(m(n + 1), t) = Ev(m(n), t)
  BY <1>4 DEF Of, Reading
<1>8. \A n \in Nat : \A t : t \notin Tasks(Universe) => Of(m(n), t) = OutOfFuel
  <2> SUFFICES ASSUME NEW n \in Nat, NEW t, t \notin Tasks(Universe)
               PROVE  Of(m(n), t) = OutOfFuel
    OBVIOUS
  <2>1. DOMAIN h[n] = Tasks(Universe)
    BY <1>3
  <2> QED
    BY <2>1 DEF Of, Reading
<1>9. \A n : m(n).lex = lex /\ m(n).answers = ans
  BY DEF Reading
<1> HIDE DEF m
<1>10. \A n : Meanings(lex, ans, n) = m(n)
  BY <1>2
<1>11. \A n \in Nat : Meanings(lex, ans, n + 1) = m(n + 1) /\ Meanings(lex, ans, 0) = m(0)
  BY <1>10
<1> QED
  BY <1>10, <1>6, <1>7, <1>8, <1>9, <1>11, Zenon

(* With one more fuel a task means what Ev makes of it with the fuel before. *)
LEMMA MeaningAt ==
    ASSUME NEW lex, NEW ans, NEW n \in Nat, NEW t \in Tasks(Universe)
    PROVE  Of(Meanings(lex, ans, n + 1), t) = Ev(Meanings(lex, ans, n), t)
  BY MeaningsAre, Zenon

(* What is no task comes to nothing. *)
LEMMA NoMeaning ==
    ASSUME NEW lex, NEW ans, NEW n \in Nat, NEW t, t \notin Tasks(Universe)
    PROVE  Of(Meanings(lex, ans, n), t) = OutOfFuel
<1>1. \A m \in Nat : \A u : u \notin Tasks(Universe) => Of(Meanings(lex, ans, m), u) = OutOfFuel
  BY MeaningsAre
<1> QED
  BY <1>1

(* With any fuel, a program is read alike. *)
LEMMA MeaningReads ==
    ASSUME NEW lex, NEW ans, NEW n
    PROVE  Meanings(lex, ans, n).lex = lex /\ Meanings(lex, ans, n).answers = ans
  BY DEF Meanings, Reading

(* g reads as f does, and whatever f gives an answer to, g answers alike. *)
More(f, g) ==
    /\ f.lex = g.lex /\ f.answers = g.answers
    /\ \A t : Of(f, t).tag # "fuel" => Of(g, t) = Of(f, t)

(* Two meanings of which one has more answers read the program alike. *)
LEMMA Alike ==
    ASSUME NEW f, NEW g, More(f, g)
    PROVE  g.lex = f.lex /\ g.answers = f.answers
  BY DEF More

(* An answer f gives is the answer g gives. *)
LEMMA MoreAt ==
    ASSUME NEW f, NEW g, More(f, g), NEW t, Of(f, t).tag # "fuel"
    PROVE  Of(g, t) = Of(f, t)
  BY DEF More

(* With more fuel: what is left of forms comes to the same. *)
LEMMA EachOfMore ==
    ASSUME NEW f, NEW g, More(f, g), NEW es, NEW vals, NEW r, NEW l,
           EachOf(f, es, vals, r, l).tag # "fuel"
    PROVE  EachOf(g, es, vals, r, l) = EachOf(f, es, vals, r, l)
  BY MoreAt DEF EachOf

(* With more fuel: what is left of pairs comes to the same. *)
LEMMA PairsOfMore ==
    ASSUME NEW f, NEW g, More(f, g), NEW ps, NEW r, NEW l,
           PairsOf(f, ps, r, l).tag # "fuel"
    PROVE  PairsOf(g, ps, r, l) = PairsOf(f, ps, r, l)
  BY MoreAt DEF PairsOf

(* With more fuel: forms from left to right. *)
LEMMA EachMore ==
    ASSUME NEW f, NEW g, More(f, g), NEW es, NEW vals, NEW r, NEW l,
           EvEach(f, es, vals, r, l).tag # "fuel"
    PROVE  EvEach(g, es, vals, r, l) = EvEach(f, es, vals, r, l)
  BY Alike, MoreAt, EachOfMore DEF EvEach, Onward

(* With more fuel: forms of which the last one counts. *)
LEMMA LastMore ==
    ASSUME NEW f, NEW g, More(f, g), NEW es, NEW r, NEW l, NEW tail,
           EvLast(f, es, r, l, tail).tag # "fuel"
    PROVE  EvLast(g, es, r, l, tail) = EvLast(f, es, r, l, tail)
  BY Alike, MoreAt DEF EvLast, Onward

(* With more fuel: pairs to bind. *)
LEMMA PairsMore ==
    ASSUME NEW f, NEW g, More(f, g), NEW ps, NEW r, NEW l,
           EvPairs(f, ps, r, l).tag # "fuel"
    PROVE  EvPairs(g, ps, r, l) = EvPairs(f, ps, r, l)
  BY MoreAt, PairsOfMore DEF EvPairs

(* With more fuel: the next round of a loop. *)
LEMMA NextRoundMore ==
    ASSUME NEW f, NEW g, More(f, g), NEW names, NEW body, NEW args, NEW r, NEW l,
           NextRound(f, names, body, args, r, l).tag # "fuel"
    PROVE  NextRound(g, names, body, args, r, l) = NextRound(f, names, body, args, r, l)
  BY Alike, MoreAt DEF NextRound

(* With more fuel: a loop from one of its rounds. *)
LEMMA RoundsMore ==
    ASSUME NEW f, NEW g, More(f, g), NEW names, NEW body, NEW q, NEW r, NEW l,
           EvRounds(f, names, body, q, r, l).tag # "fuel"
    PROVE  EvRounds(g, names, body, q, r, l) = EvRounds(f, names, body, q, r, l)
  BY MoreAt, NextRoundMore DEF EvRounds

(* With more fuel: a function applied to its arguments. *)
LEMMA ApplyMore ==
    ASSUME NEW f, NEW g, More(f, g), NEW fn, NEW args, NEW r, NEW l, NEW tail,
           EvApply(f, fn, args, r, l, tail).tag # "fuel"
    PROVE  EvApply(g, fn, args, r, l, tail) = EvApply(f, fn, args, r, l, tail)
<1>1. g.lex = f.lex /\ g.answers = f.answers
  BY Alike
<1>2. \A t : Of(f, t).tag # "fuel" => Of(g, t) = Of(f, t)
  BY MoreAt
<1>3. CASE fn.type = "builtin"
  BY <1>3 DEF EvApply
<1>4. CASE fn.type = "effect"
  <2> DEFINE t == FormTask(f.answers[fn.name], r, Append(l, [name |-> fn.name, args |-> args]), tail)
  <2>1. EvApply(f, fn, args, r, l, tail) = Of(f, t)
    BY <1>4 DEF EvApply
  <2>2. EvApply(g, fn, args, r, l, tail) = Of(g, t)
    BY <1>1, <1>4 DEF EvApply
  <2> HIDE DEF t
  <2> QED
    BY <1>2, <2>1, <2>2
<1>5. CASE fn.type = "closure"
  <2> DEFINE t == FormTask(fn.body, EnvPush(BindAll(fn.params, args), fn.env), l,
                           IF f.lex THEN "top" ELSE tail)
  <2>1. EvApply(f, fn, args, r, l, tail) =
          IF Len(args) # Len(fn.params) THEN Error("arity", l) ELSE Of(f, t)
    BY <1>5 DEF EvApply
  <2>2. EvApply(g, fn, args, r, l, tail) =
          IF Len(args) # Len(fn.params) THEN Error("arity", l) ELSE Of(g, t)
    BY <1>1, <1>5 DEF EvApply
  <2> HIDE DEF t
  <2> QED
    BY <1>2, <2>1, <2>2
<1>6. CASE fn.type \notin {"builtin", "effect", "closure"}
  BY <1>6 DEF EvApply
<1> QED
  BY <1>3, <1>4, <1>5, <1>6

(* With more fuel: the rest of a let. *)
LEMMA BodyMore ==
    ASSUME NEW f, NEW g, More(f, g), NEW ps, NEW body, NEW r, NEW l, NEW tail,
           EvBody(f, ps, body, r, l, tail).tag # "fuel"
    PROVE  EvBody(g, ps, body, r, l, tail) = EvBody(f, ps, body, r, l, tail)
  BY MoreAt, PairsOfMore DEF EvBody

(* With more fuel: the rest of a loop. *)
LEMMA EntryMore ==
    ASSUME NEW f, NEW g, More(f, g), NEW ps, NEW names, NEW body, NEW r, NEW l,
           EvEntry(f, ps, names, body, r, l).tag # "fuel"
    PROVE  EvEntry(g, ps, names, body, r, l) = EvEntry(f, ps, names, body, r, l)
  BY Alike, MoreAt, PairsOfMore DEF EvEntry

(* With more fuel: a list, whichever form it is. *)
LEMMA ListMore ==
    ASSUME NEW f, NEW g, More(f, g), NEW e, NEW r, NEW l, NEW tail,
           EvList(f, e, r, l, tail).tag # "fuel"
    PROVE  EvList(g, e, r, l, tail) = EvList(f, e, r, l, tail)
<1>1. EvIf(f, e, r, l, tail).tag # "fuel" => EvIf(g, e, r, l, tail) = EvIf(f, e, r, l, tail)
  BY Alike, MoreAt DEF EvIf, Onward
<1>2. EvLet(f, e, r, l, tail).tag # "fuel" => EvLet(g, e, r, l, tail) = EvLet(f, e, r, l, tail)
  <2> DEFINE ps == e.items[2].items
  <2>1. CASE ps # <<>> /\ ps[1].type # "symbol"
    BY <2>1 DEF EvLet
  <2>2. CASE ~(ps # <<>> /\ ps[1].type # "symbol")
    <3>1. \A h : EvLet(h, e, r, l, tail) = EvBody(h, ps, e.items[3], r, l, tail)
      BY <2>2 DEF EvLet
    <3> QED
      BY <3>1, BodyMore
  <2> QED
    BY <2>1, <2>2
<1>3. EvLoop(f, e, r, l, tail).tag # "fuel" => EvLoop(g, e, r, l, tail) = EvLoop(f, e, r, l, tail)
  BY Alike, MoreAt, EntryMore DEF EvLoop
<1>4. EvRecur(f, e, r, l, tail).tag # "fuel" => EvRecur(g, e, r, l, tail) = EvRecur(f, e, r, l, tail)
  BY EachOfMore DEF EvRecur
<1>5. EvCall(f, e, r, l, tail).tag # "fuel" => EvCall(g, e, r, l, tail) = EvCall(f, e, r, l, tail)
  BY Alike, MoreAt, EachOfMore, ApplyMore DEF EvCall, Onward
<1> QED
  BY <1>1, <1>2, <1>3, <1>4, <1>5, MoreAt DEF EvList

(* There are five kinds of task. *)
LEMMA TaskKinds ==
    ASSUME NEW V, NEW t \in Tasks(V)
    PROVE  t.do \in {"form", "each", "last", "pairs", "rounds"}
  BY DEF Tasks

(* With more fuel: any form. *)
LEMMA FormMore ==
    ASSUME NEW f, NEW g, More(f, g), NEW e, NEW r, NEW l, NEW tail,
           EvForm(f, e, r, l, tail).tag # "fuel"
    PROVE  EvForm(g, e, r, l, tail) = EvForm(f, e, r, l, tail)
<1>1. CASE e.type = "symbol" \/ ~IsList(e) \/ ~WellFormed(e)
  BY <1>1 DEF EvForm
<1>2. CASE ~(e.type = "symbol" \/ ~IsList(e) \/ ~WellFormed(e))
  <2>1. \A h : EvForm(h, e, r, l, tail) = EvList(h, e, r, l, tail)
    BY <1>2 DEF EvForm
  <2> QED
    BY <2>1, ListMore
<1> QED
  BY <1>1, <1>2

(* With more fuel: any task. *)
LEMMA EvMore ==
    ASSUME NEW f, NEW g, More(f, g), NEW t \in Tasks(Universe),
           Ev(f, t).tag # "fuel"
    PROVE  Ev(g, t) = Ev(f, t)
<1>1. CASE t.do = "form"
  BY <1>1, FormMore DEF Ev
<1>2. CASE t.do = "each"
  BY <1>2, EachMore DEF Ev
<1>3. CASE t.do = "last"
  BY <1>3, LastMore DEF Ev
<1>4. CASE t.do = "pairs"
  BY <1>4, PairsMore DEF Ev
<1>5. CASE t.do = "rounds"
  BY <1>5, RoundsMore DEF Ev
<1> QED
  BY <1>1, <1>2, <1>3, <1>4, <1>5, TaskKinds

(* More fuel never changes an answer. *)
LEMMA MeaningsMore ==
    ASSUME NEW lex, NEW ans, NEW j \in Nat, NEW k \in Nat, j <= k
    PROVE  More(Meanings(lex, ans, j), Meanings(lex, ans, k))
<1> DEFINE Bad == {n \in Nat : ~ More(Meanings(lex, ans, n), Meanings(lex, ans, n + 1))}
           Worse == {n \in Nat : j <= n /\ ~ More(Meanings(lex, ans, j), Meanings(lex, ans, n))}
<1>1. ASSUME NEW n \in Nat, More(Meanings(lex, ans, n), Meanings(lex, ans, n + 1))
      PROVE  More(Meanings(lex, ans, n + 1), Meanings(lex, ans, n + 1 + 1))
  <2> SUFFICES ASSUME NEW t, Of(Meanings(lex, ans, n + 1), t).tag # "fuel"
               PROVE  Of(Meanings(lex, ans, n + 1 + 1), t) = Of(Meanings(lex, ans, n + 1), t)
    <3>1. /\ Meanings(lex, ans, n + 1).lex = Meanings(lex, ans, n + 1 + 1).lex
          /\ Meanings(lex, ans, n + 1).answers = Meanings(lex, ans, n + 1 + 1).answers
      BY MeaningReads
    <3> QED
      BY <3>1 DEF More
  <2>1. t \in Tasks(Universe)
    <3>1. t \notin Tasks(Universe) => Of(Meanings(lex, ans, n + 1), t) = OutOfFuel
      <4>1. n + 1 \in Nat
        OBVIOUS
      <4> QED
        BY <4>1, NoMeaning
    <3> QED
      BY <3>1 DEF OutOfFuel
  <2>2. n + 1 \in Nat
    OBVIOUS
  <2>3. /\ Of(Meanings(lex, ans, n + 1), t) = Ev(Meanings(lex, ans, n), t)
        /\ Of(Meanings(lex, ans, n + 1 + 1), t) = Ev(Meanings(lex, ans, n + 1), t)
    BY <2>1, <2>2, MeaningAt, Zenon
  <2> QED
    BY <1>1, <2>1, <2>3, EvMore
<1>2. More(Meanings(lex, ans, 0), Meanings(lex, ans, 0 + 1))
  BY MeaningsAre DEF More, OutOfFuel
<1>3. Bad = {}
  <2> SUFFICES ASSUME Bad # {} PROVE FALSE
    OBVIOUS
  <2>1. Bad \in SUBSET Nat
    OBVIOUS
  <2> HIDE DEF Bad
  <2>2. PICK n \in Bad : \A m \in Bad : n <= m
    BY <2>1, LeastOfNaturals
  <2>3. n \in Nat /\ ~ More(Meanings(lex, ans, n), Meanings(lex, ans, n + 1))
    BY <2>2 DEF Bad
  <2>4. n # 0
    BY <1>2, <2>3
  <2>5. PICK m \in Nat : n = m + 1
    <3>1. n - 1 \in Nat /\ n = n - 1 + 1
      BY <2>3, <2>4
    <3> QED
      BY <3>1
  <2>6. m \notin Bad
    BY <2>2, <2>5
  <2>7. More(Meanings(lex, ans, m), Meanings(lex, ans, m + 1))
    BY <2>6 DEF Bad
  <2> QED
    BY <1>1, <2>3, <2>5, <2>7
<1>4. More(Meanings(lex, ans, j), Meanings(lex, ans, j))
  BY DEF More
<1>5. Worse = {}
  <2> SUFFICES ASSUME Worse # {} PROVE FALSE
    OBVIOUS
  <2>1. Worse \in SUBSET Nat
    OBVIOUS
  <2> HIDE DEF Worse
  <2>2. PICK n \in Worse : \A m \in Worse : n <= m
    BY <2>1, LeastOfNaturals
  <2>3. n \in Nat /\ j <= n /\ ~ More(Meanings(lex, ans, j), Meanings(lex, ans, n))
    BY <2>2 DEF Worse
  <2>4. n # j
    BY <1>4, <2>3
  <2>5. PICK m \in Nat : n = m + 1 /\ j <= m
    <3>1. n - 1 \in Nat /\ n = n - 1 + 1 /\ j <= n - 1
      BY <2>3, <2>4
    <3> QED
      BY <3>1
  <2>6. m \notin Worse
    BY <2>2, <2>5
  <2>7. More(Meanings(lex, ans, j), Meanings(lex, ans, m))
    BY <2>5, <2>6 DEF Worse
  <2>8. More(Meanings(lex, ans, m), Meanings(lex, ans, m + 1))
    BY <1>3
  <2>9. More(Meanings(lex, ans, j), Meanings(lex, ans, m + 1))
    BY <2>7, <2>8 DEF More
  <2> QED
    BY <2>3, <2>5, <2>9
<1> QED
  BY <1>5
-----------------------------------------------------------------------------
(* What a stack makes of a result *)

(* What a recur finds above frame i of the stack s. *)
TailAt(s, i) ==
    IF i = 0 THEN "top" ELSE IF s[i].op = "loop-target" THEN "loop" ELSE "inner"

(* What a recur finds above the whole stack. *)
TailOf(s) == TailAt(s, Len(s))

(* The function of a call frame, and the arguments it has, once v is       *)
(* delivered.                                                              *)
FuncOf(fr, v) == IF fr.func = NULL THEN v ELSE fr.func
ArgsOf(fr, v) == IF fr.func = NULL THEN fr.args ELSE Append(fr.args, v)

(* The rest of a call, of a recur, of a let and of a loop, by the meanings f. *)
CallRest(f, fn, args, rest, r, l, tail) ==
    LET a == EachOf(f, rest, args, r, l)
    IN  IF a.tag # "value" THEN a ELSE EvApply(f, fn, a.val, a.env, a.log, tail)
JumpRest(f, args, rest, r, l, tail) ==
    LET a == EachOf(f, rest, args, r, l)
    IN  IF a.tag # "value" THEN a ELSE EvJump(a.val, a.log, tail)
LetRest(f, ps, v, body, r, l, tail) ==
    EvBody(f, SubSeq(ps, 3, Len(ps)), body, EnvPush(Bind(ps[1], v), r), l, tail)
LoopRest(f, ps, v, names, body, r, l) ==
    EvEntry(f, SubSeq(ps, 3, Len(ps)), names, body, EnvPush(Bind(ps[1], v), r), l)

(* What a frame makes of a value, and of any result. *)
FeedValue(f, fr, h, tail) ==
    CASE fr.op = "call" ->
            CallRest(f, FuncOf(fr, h.val), ArgsOf(fr, h.val), fr.rest, h.env, h.log, tail)
      [] fr.op = "if-branch" ->
            Of(f, FormTask(IF Falsy(h.val) THEN fr.else ELSE fr.then, h.env, h.log, tail))
      [] fr.op = "do-rest" -> Of(f, LastTask(fr.rest, h.env, h.log, tail))
      [] fr.op = "let-binds" -> LetRest(f, fr.rest, h.val, fr.body, fr.env, h.log, tail)
      [] fr.op = "loop-binds" ->
            LoopRest(f, fr.rest, h.val, NamesOf(fr.orig), fr.body, fr.env, h.log)
      [] fr.op = "recur-args" ->
            JumpRest(f, Append(fr.args, h.val), fr.rest, h.env, h.log, tail)
      [] OTHER -> h

Feed(f, fr, h, tail) ==
    IF h.tag = "recur" /\ fr.op = "loop-target"
    THEN NextRound(f, NamesOf(fr.rest), fr.body, h.args, fr.env, h.log)
    ELSE IF h.tag # "value" THEN h
    ELSE FeedValue(f, fr, h, tail)

(* The frames of s, from the top down, make res of c. *)
Feeds(f, s, R) == \A i \in 1 .. Len(s) : R[i - 1] = Feed(f, s[i], R[i], TailAt(s, i - 1))
Explains(f, s, c, res) == \E R : R[Len(s)] = c /\ R[0] = res /\ Feeds(f, s, R)

(* The four that a frame goes on with, together. *)
LEMMA StayingMore ==
    ASSUME NEW f, NEW g, More(f, g)
    PROVE  /\ \A fn, args, r, l, tail : EvApply(f, fn, args, r, l, tail).tag # "fuel" =>
                EvApply(g, fn, args, r, l, tail) = EvApply(f, fn, args, r, l, tail)
           /\ \A ps, names, body, r, l : EvEntry(f, ps, names, body, r, l).tag # "fuel" =>
                EvEntry(g, ps, names, body, r, l) = EvEntry(f, ps, names, body, r, l)
           /\ \A names, body, args, r, l : NextRound(f, names, body, args, r, l).tag # "fuel" =>
                NextRound(g, names, body, args, r, l) = NextRound(f, names, body, args, r, l)
           /\ \A e, r, l, tail : EvForm(f, e, r, l, tail).tag # "fuel" =>
                EvForm(g, e, r, l, tail) = EvForm(f, e, r, l, tail)
  BY ApplyMore, EntryMore, NextRoundMore, FormMore, Zenon

(* What comes to be with f comes to be with g, and not without an answer. *)
LEMMA RestMore ==
    ASSUME NEW f, NEW g, More(f, g), NEW fn, NEW args, NEW rest, NEW r, NEW l, NEW tail
    PROVE  /\ CallRest(f, fn, args, rest, r, l, tail).tag # "fuel" =>
                CallRest(g, fn, args, rest, r, l, tail) = CallRest(f, fn, args, rest, r, l, tail)
           /\ JumpRest(f, args, rest, r, l, tail).tag # "fuel" =>
                JumpRest(g, args, rest, r, l, tail) = JumpRest(f, args, rest, r, l, tail)
<1> DEFINE a == EachOf(f, rest, args, r, l)
           b == EachOf(g, rest, args, r, l)
<1>1. CASE a.tag # "value"
  <2>1. CallRest(f, fn, args, rest, r, l, tail) = a /\ JumpRest(f, args, rest, r, l, tail) = a
    BY <1>1 DEF CallRest, JumpRest
  <2>2. a.tag # "fuel" => b = a
    BY EachOfMore
  <2>3. b = a => CallRest(g, fn, args, rest, r, l, tail) = a /\ JumpRest(g, args, rest, r, l, tail) = a
    BY <1>1 DEF CallRest, JumpRest
  <2> QED
    BY <2>1, <2>2, <2>3
<1>2. CASE a.tag = "value"
  <2>1. b = a
    BY <1>2, EachOfMore
  <2>2. /\ CallRest(f, fn, args, rest, r, l, tail) = EvApply(f, fn, a.val, a.env, a.log, tail)
        /\ JumpRest(f, args, rest, r, l, tail) = EvJump(a.val, a.log, tail)
    BY <1>2 DEF CallRest, JumpRest
  <2>3. /\ CallRest(g, fn, args, rest, r, l, tail) = EvApply(g, fn, b.val, b.env, b.log, tail)
        /\ JumpRest(g, args, rest, r, l, tail) = EvJump(b.val, b.log, tail)
    BY <1>2, <2>1 DEF CallRest, JumpRest
  <2> HIDE DEF a, b
  <2> QED
    BY <2>1, <2>2, <2>3, StayingMore
<1> QED
  BY <1>1, <1>2

(* A frame makes the same of a result with more fuel, and nothing of one   *)
(* there is no fuel for.                                                   *)
LEMMA FeedMore ==
    ASSUME NEW f, NEW g, More(f, g), NEW fr, NEW h, NEW tail,
           Feed(f, fr, h, tail).tag # "fuel"
    PROVE  Feed(g, fr, h, tail) = Feed(f, fr, h, tail) /\ h.tag # "fuel"
<1>1. FeedValue(f, fr, h, tail).tag # "fuel" =>
        FeedValue(g, fr, h, tail) = FeedValue(f, fr, h, tail)
  <2>1. CASE fr.op = "call"
    BY <2>1, RestMore DEF FeedValue
  <2>2. CASE fr.op = "if-branch"
    BY <2>2, MoreAt DEF FeedValue
  <2>3. CASE fr.op = "do-rest"
    BY <2>3, MoreAt DEF FeedValue
  <2>4. CASE fr.op = "let-binds"
    BY <2>4, BodyMore DEF FeedValue, LetRest
  <2>5. CASE fr.op = "loop-binds"
    BY <2>5, StayingMore DEF FeedValue, LoopRest
  <2>6. CASE fr.op = "recur-args"
    BY <2>6, RestMore DEF FeedValue
  <2>7. CASE fr.op \notin {"call", "if-branch", "do-rest", "let-binds", "loop-binds", "recur-args"}
    BY <2>7 DEF FeedValue
  <2> QED
    BY <2>1, <2>2, <2>3, <2>4, <2>5, <2>6, <2>7
<1>2. CASE h.tag = "recur" /\ fr.op = "loop-target"
  <2>1. \A x : Feed(x, fr, h, tail) =
            NextRound(x, NamesOf(fr.rest), fr.body, h.args, fr.env, h.log)
    BY <1>2 DEF Feed
  <2> QED
    BY <1>2, <2>1, StayingMore
<1>3. CASE ~(h.tag = "recur" /\ fr.op = "loop-target") /\ h.tag # "value"
  BY <1>3 DEF Feed
<1>4. CASE h.tag = "value"
  BY <1>1, <1>4 DEF Feed
<1> QED
  BY <1>2, <1>3, <1>4

(* A frame pushed on a stack changes what a recur finds above it, and      *)
(* nothing below.                                                          *)
LEMMA PushedTails ==
    ASSUME NEW S, NEW s \in Seq(S), NEW fr
    PROVE  /\ Len(Push(s, fr)) = Len(s) + 1 /\ Push(s, fr)[Len(s) + 1] = fr
           /\ \A i \in 1 .. Len(s) : Push(s, fr)[i] = s[i]
           /\ \A i \in 0 .. Len(s) : TailAt(Push(s, fr), i) = TailAt(s, i)
<1> DEFINE q == Push(s, fr)
<1>1. /\ Len(q) = Len(s) + 1 /\ q[Len(s) + 1] = fr
      /\ \A i \in 1 .. Len(s) : q[i] = s[i]
  BY DEF Push
<1> HIDE DEF q
<1>2. ASSUME NEW i \in 0 .. Len(s) PROVE TailAt(q, i) = TailAt(s, i)
  <2>1. CASE i = 0
    BY <2>1 DEF TailAt
  <2>2. CASE i # 0
    <3>1. i \in 1 .. Len(s)
      BY <2>2
    <3> QED
      BY <1>1, <3>1 DEF TailAt
  <2> QED
    BY <2>1, <2>2
<1> QED
  BY <1>1, <1>2 DEF q

(* The frame on top comes first. *)
LEMMA Peeled ==
    ASSUME NEW S, NEW s \in Seq(S), NEW fr, NEW f, NEW c, NEW res
    PROVE  Explains(f, Push(s, fr), c, res) <=> Explains(f, s, Feed(f, fr, c, TailOf(s)), res)
<1> DEFINE q == Push(s, fr)
           n == Len(s)
<1>1. /\ n \in Nat /\ Len(q) = n + 1 /\ q[n + 1] = fr
      /\ \A i \in 1 .. n : q[i] = s[i]
      /\ \A i \in 0 .. n : TailAt(q, i) = TailAt(s, i)
  BY PushedTails
<1> HIDE DEF q
<1>2. TailOf(s) = TailAt(s, n)
  BY DEF TailOf
<1>3. ASSUME Explains(f, q, c, res) PROVE Explains(f, s, Feed(f, fr, c, TailOf(s)), res)
  <2>1. PICK R : R[n + 1] = c /\ R[0] = res /\ Feeds(f, q, R)
    BY <1>1, <1>3 DEF Explains
  <2>2. \A i \in 1 .. n + 1 : R[i - 1] = Feed(f, q[i], R[i], TailAt(q, i - 1))
    BY <1>1, <2>1 DEF Feeds
  <2>3. n + 1 \in 1 .. n + 1 /\ n + 1 - 1 = n /\ n \in 0 .. n
    BY <1>1
  <2>4. R[n] = Feed(f, fr, c, TailOf(s))
    BY <1>1, <1>2, <2>1, <2>2, <2>3
  <2>5. ASSUME NEW i \in 1 .. n PROVE R[i - 1] = Feed(f, s[i], R[i], TailAt(s, i - 1))
    <3>1. i \in 1 .. n + 1 /\ i - 1 \in 0 .. n
      BY <1>1
    <3> QED
      BY <1>1, <2>2, <3>1
  <2> QED
    BY <2>1, <2>4, <2>5 DEF Explains, Feeds
<1>4. ASSUME Explains(f, s, Feed(f, fr, c, TailOf(s)), res) PROVE Explains(f, q, c, res)
  <2>1. PICK R : R[n] = Feed(f, fr, c, TailOf(s)) /\ R[0] = res /\ Feeds(f, s, R)
    BY <1>4 DEF Explains
  <2> DEFINE Q == [i \in 0 .. n + 1 |-> IF i = n + 1 THEN c ELSE R[i]]
  <2>2. Q[n + 1] = c /\ Q[0] = res /\ \A i \in 0 .. n : Q[i] = R[i]
    BY <1>1, <2>1
  <2> HIDE DEF Q
  <2>3. ASSUME NEW i \in 1 .. n + 1 PROVE Q[i - 1] = Feed(f, q[i], Q[i], TailAt(q, i - 1))
    <3>1. CASE i = n + 1
      <4>1. i - 1 = n /\ n \in 0 .. n
        BY <1>1, <3>1
      <4> QED
        BY <1>1, <1>2, <2>1, <2>2, <3>1, <4>1
    <3>2. CASE i # n + 1
      <4>1. i \in 1 .. n /\ i \in 0 .. n /\ i - 1 \in 0 .. n
        BY <1>1, <3>2
      <4>2. R[i - 1] = Feed(f, s[i], R[i], TailAt(s, i - 1))
        BY <2>1, <4>1 DEF Feeds
      <4> QED
        BY <1>1, <2>2, <4>1, <4>2
    <3> QED
      BY <3>1, <3>2
  <2> QED
    BY <1>1, <2>2, <2>3 DEF Explains, Feeds
<1> QED
  BY <1>3, <1>4 DEF q

(* More fuel explains as much, and without an answer there is no result. *)
LEMMA ExplainsMore ==
    ASSUME NEW S, NEW s \in Seq(S), NEW f, NEW g, More(f, g), NEW c, NEW res,
           res.tag # "fuel", Explains(f, s, c, res)
    PROVE  Explains(g, s, c, res) /\ c.tag # "fuel"
<1>1. PICK R : R[Len(s)] = c /\ R[0] = res /\ Feeds(f, s, R)
  BY DEF Explains
<1> DEFINE Bad == {i \in Nat : i <= Len(s) /\ R[i].tag = "fuel"}
<1>2. Len(s) \in Nat
  OBVIOUS
<1>3. Bad = {}
  <2> SUFFICES ASSUME Bad # {} PROVE FALSE
    OBVIOUS
  <2>1. Bad \in SUBSET Nat
    OBVIOUS
  <2> HIDE DEF Bad
  <2>2. PICK i \in Bad : \A j \in Bad : i <= j
    BY <2>1, LeastOfNaturals
  <2>3. i \in Nat /\ i <= Len(s) /\ R[i].tag = "fuel"
    BY <2>2 DEF Bad
  <2>4. i # 0
    BY <1>1, <2>3
  <2>5. i \in 1 .. Len(s) /\ i - 1 \in Nat /\ i - 1 <= Len(s) /\ ~(i <= i - 1)
    BY <1>2, <2>3, <2>4
  <2>6. i - 1 \notin Bad
    BY <2>2, <2>5
  <2>7. R[i - 1].tag # "fuel"
    BY <2>5, <2>6 DEF Bad
  <2>8. R[i - 1] = Feed(f, s[i], R[i], TailAt(s, i - 1))
    BY <1>1, <2>5 DEF Feeds
  <2> QED
    BY <2>3, <2>7, <2>8, FeedMore
<1>4. ASSUME NEW i \in 1 .. Len(s) PROVE R[i - 1] = Feed(g, s[i], R[i], TailAt(s, i - 1))
  <2>1. R[i - 1] = Feed(f, s[i], R[i], TailAt(s, i - 1))
    BY <1>1 DEF Feeds
  <2>2. i - 1 \in Nat /\ i - 1 <= Len(s) /\ i - 1 \notin Bad
    BY <1>2, <1>3
  <2>3. R[i - 1].tag # "fuel"
    BY <2>2
  <2> QED
    BY <2>1, <2>3, FeedMore
<1>5. Len(s) \notin Bad
  BY <1>3
<1> QED
  BY <1>1, <1>2, <1>4, <1>5 DEF Explains, Feeds

(* No frame takes an error. *)
LEMMA ErrorExplained ==
    ASSUME NEW S, NEW s \in Seq(S), NEW f, NEW c, c.tag = "error"
    PROVE  Explains(f, s, c, c)
<1> DEFINE R == [i \in 0 .. Len(s) |-> c]
<1>1. Len(s) \in Nat
  OBVIOUS
<1>2. \A i \in 0 .. Len(s) : R[i] = c
  OBVIOUS
<1>3. R[Len(s)] = c /\ R[0] = c
  BY <1>1, <1>2
<1> HIDE DEF R
<1>4. ASSUME NEW i \in 1 .. Len(s) PROVE R[i - 1] = Feed(f, s[i], R[i], TailAt(s, i - 1))
  <2>1. i - 1 \in 0 .. Len(s) /\ i \in 0 .. Len(s)
    BY <1>1
  <2>2. Feed(f, s[i], c, TailAt(s, i - 1)) = c
    BY DEF Feed
  <2> QED
    BY <1>2, <2>1, <2>2
<1> QED
  BY <1>3, <1>4 DEF Explains, Feeds

(* The meanings of the machine, whose scopes stay; p is the program and    *)
(* the answers there are to its effects.                                   *)
M(p, k) == Meanings(FALSE, p.answers, k)

(* The task that is the whole program. *)
StartOf(p) == FormTask(p.text, <<Global>>, <<>>, "top")

(* More fuel keeps every answer of the machine's meanings. *)
LEMMA MMore == ASSUME NEW p, NEW j \in Nat, NEW k \in Nat, j <= k PROVE More(M(p, j), M(p, k))
  BY MeaningsMore, Zenon DEF M

(* Without fuel there is no answer, and never one to what is no task. *)
LEMMA MAre ==
    ASSUME NEW p
    PROVE  /\ \A t : Of(M(p, 0), t) = OutOfFuel
           /\ \A n \in Nat : \A t : t \notin Tasks(Universe) => Of(M(p, n), t) = OutOfFuel
<1>1. PICK lex, ans : lex = FALSE /\ ans = p.answers
  OBVIOUS
<1>2. \A n : M(p, n) = Meanings(lex, ans, n)
  BY <1>1 DEF M
<1>3. /\ \A t : Of(Meanings(lex, ans, 0), t) = OutOfFuel
      /\ \A n \in Nat : \A t : t \notin Tasks(Universe) => Of(Meanings(lex, ans, n), t) = OutOfFuel
  BY MeaningsAre
<1> QED
  BY <1>2, <1>3, Zenon

(* The machine's meanings are those of scopes that stay. *)
LEMMA MReads ==
    ASSUME NEW p, NEW k
    PROVE  M(p, k).lex = FALSE /\ M(p, k).answers = p.answers
  BY DEF M, Meanings, Reading

(* With an answer there was fuel, and a task there is. *)
LEMMA Answered ==
    ASSUME NEW p, NEW k \in Nat, NEW t, Of(M(p, k), t).tag # "fuel"
    PROVE  t \in Tasks(Universe) /\ \E j \in Nat : k = j + 1
<1>0. /\ k = 0 => Of(M(p, k), t) = OutOfFuel
      /\ t \notin Tasks(Universe) => Of(M(p, k), t) = OutOfFuel
  BY MAre, Zenon
<1>1. k # 0 /\ t \in Tasks(Universe)
  BY <1>0 DEF OutOfFuel
<1>2. k - 1 \in Nat /\ k = k - 1 + 1
  BY <1>1
<1> QED
  BY <1>1, <1>2

(* The semantics of tasks, where scopes stay. *)
Each(f, es, vals, r, l) ==
    LET h == Of(f, FormTask(es[1], r, l, "inner"))
    IN  IF h.tag # "value" THEN h
        ELSE EachOf(f, Tail(es), Append(vals, h.val), h.env, h.log)

(* Forms of which the last counts, and rounds of a loop, as the machine    *)
(* reads them.                                                             *)
Last(f, es, r, l, tail) ==
    LET h == Of(f, FormTask(es[1], r, l, "inner"))
    IN  IF h.tag # "value" THEN h ELSE Of(f, LastTask(Tail(es), h.env, h.log, tail))
Rounds(f, names, body, q, r, l) ==
    LET round == Of(f, FormTask(body, q, l, "loop"))
    IN  IF round.tag # "recur" THEN round
        ELSE NextRound(f, names, body, round.args, r, round.log)

(* What a task means with one more fuel, for every kind of task. *)
LEMMA Unfolded ==
    ASSUME NEW p, NEW k \in Nat
    PROVE  /\ \A e, r, l, tail : FormTask(e, r, l, tail) \in Tasks(Universe) =>
                Of(M(p, k + 1), FormTask(e, r, l, tail)) = EvForm(M(p, k), e, r, l, tail)
           /\ \A es, vals, r, l : EachTask(es, vals, r, l) \in Tasks(Universe) =>
                Of(M(p, k + 1), EachTask(es, vals, r, l)) = Each(M(p, k), es, vals, r, l)
           /\ \A es, r, l, tail : LastTask(es, r, l, tail) \in Tasks(Universe) =>
                Of(M(p, k + 1), LastTask(es, r, l, tail)) =
                    IF Len(es) = 1 THEN Of(M(p, k), FormTask(es[1], r, l, tail))
                    ELSE Last(M(p, k), es, r, l, tail)
           /\ \A ps, r, l : PairsTask(ps, r, l) \in Tasks(Universe) =>
                Of(M(p, k + 1), PairsTask(ps, r, l)) = EvPairs(M(p, k), ps, r, l)
           /\ \A names, body, q, r, l : RoundsTask(names, body, q, r, l) \in Tasks(Universe) =>
                Of(M(p, k + 1), RoundsTask(names, body, q, r, l)) = Rounds(M(p, k), names, body, q, r, l)
<1>1. ASSUME NEW t \in Tasks(Universe) PROVE Of(M(p, k + 1), t) = Ev(M(p, k), t)
  BY MeaningAt, Zenon DEF M
<1>2. ASSUME NEW f, NEW e, NEW r, NEW l, NEW tail
      PROVE  Ev(f, FormTask(e, r, l, tail)) = EvForm(f, e, r, l, tail)
  <2> DEFINE t == FormTask(e, r, l, tail)
  <2>1. /\ t.do = "form" /\ t.form = e /\ t.env = r /\ t.log = l /\ t.tail = tail
    BY DEF FormTask
  <2> HIDE DEF t
  <2>2. Ev(f, t) = EvForm(f, t.form, t.env, t.log, t.tail)
    BY <2>1 DEF Ev
  <2> QED
    BY <2>1, <2>2 DEF t
<1>3. ASSUME NEW f, f.lex = FALSE, NEW es, NEW vals, NEW r, NEW l
      PROVE  Ev(f, EachTask(es, vals, r, l)) = Each(f, es, vals, r, l)
  <2> DEFINE t == EachTask(es, vals, r, l)
  <2>1. /\ t.do = "each" /\ t.forms = es /\ t.env = r /\ t.log = l /\ t.vals = vals
    BY DEF EachTask
  <2> HIDE DEF t
  <2>2. Ev(f, t) = EvEach(f, t.forms, t.vals, t.env, t.log)
    BY <2>1 DEF Ev
  <2> QED
    BY <1>3, <2>1, <2>2 DEF Each, EvEach, Onward, t
<1>4. ASSUME NEW f, f.lex = FALSE, NEW es, NEW r, NEW l, NEW tail
      PROVE  Ev(f, LastTask(es, r, l, tail)) =
                 IF Len(es) = 1 THEN Of(f, FormTask(es[1], r, l, tail))
                 ELSE Last(f, es, r, l, tail)
  <2> DEFINE t == LastTask(es, r, l, tail)
  <2>1. /\ t.do = "last" /\ t.forms = es /\ t.env = r /\ t.log = l /\ t.tail = tail
    BY DEF LastTask
  <2> HIDE DEF t
  <2>2. Ev(f, t) = EvLast(f, t.forms, t.env, t.log, t.tail)
    BY <2>1 DEF Ev
  <2> QED
    BY <1>4, <2>1, <2>2 DEF Last, EvLast, Onward, t
<1>5. ASSUME NEW f, NEW ps, NEW r, NEW l
      PROVE  Ev(f, PairsTask(ps, r, l)) = EvPairs(f, ps, r, l)
  <2> DEFINE t == PairsTask(ps, r, l)
  <2>1. /\ t.do = "pairs" /\ t.pairs = ps /\ t.env = r /\ t.log = l
    BY DEF PairsTask
  <2> HIDE DEF t
  <2>2. Ev(f, t) = EvPairs(f, t.pairs, t.env, t.log)
    BY <2>1 DEF Ev
  <2> QED
    BY <2>1, <2>2 DEF t
<1>6. ASSUME NEW f, NEW names, NEW body, NEW q, NEW r, NEW l
      PROVE  Ev(f, RoundsTask(names, body, q, r, l)) = Rounds(f, names, body, q, r, l)
  <2> DEFINE t == RoundsTask(names, body, q, r, l)
  <2>1. /\ t.do = "rounds" /\ t.names = names /\ t.body = body /\ t.in = q /\ t.env = r
        /\ t.log = l
    BY DEF RoundsTask
  <2> HIDE DEF t
  <2>2. Ev(f, t) = EvRounds(f, t.names, t.body, t.in, t.env, t.log)
    BY <2>1 DEF Ev
  <2> QED
    BY <2>1, <2>2 DEF Rounds, EvRounds, t
<1>7. /\ \A es, vals, r, l : Ev(M(p, k), EachTask(es, vals, r, l)) = Each(M(p, k), es, vals, r, l)
      /\ \A es, r, l, tail :
            Ev(M(p, k), LastTask(es, r, l, tail)) =
                IF Len(es) = 1 THEN Of(M(p, k), FormTask(es[1], r, l, tail))
                ELSE Last(M(p, k), es, r, l, tail)
  <2>1. M(p, k).lex = FALSE
    BY MReads
  <2> QED
    BY <1>3, <1>4, <2>1
<1> QED
  BY <1>1, <1>2, <1>5, <1>6, <1>7

-----------------------------------------------------------------------------
(* What a state tells of the program *)

(* With k fuel for what is left, and n for the steps made, the program p   *)
(* comes to what the frames of s make of c.                                *)
Told(p, n, k, c, s) ==
    \A res : res.tag # "fuel" /\ Explains(M(p, k), s, c, res) => Of(M(p, k + n), StartOf(p)) = res

(* A form is left to evaluate, or a value to deliver, or an error.         *)
FormTold(p, n, e, r, l, s) == \A k \in Nat : Told(p, n, k, Of(M(p, k), FormTask(e, r, l, TailOf(s))), s)
ValueTold(p, n, v, r, l, s) == \A k \in Nat : Told(p, n, k, Ok(v, r, l), s)
ErrorTold(p, n, kind, l) == Of(M(p, n), StartOf(p)) = Error(kind, l)

(* A step of the machine at the price of g fuel carries what was told. *)
LEMMA Carried ==
    ASSUME NEW S, NEW s \in Seq(S), NEW p, NEW n \in Nat, NEW k \in Nat, NEW g \in Nat,
           NEW c, NEW d, Told(p, n, k + g, d, s), c.tag # "fuel" => d = c
    PROVE  Told(p, n + g, k, c, s)
<1> SUFFICES ASSUME NEW res, res.tag # "fuel", Explains(M(p, k), s, c, res)
             PROVE  Of(M(p, k + (n + g)), StartOf(p)) = res
  BY DEF Told
<1>1. k + g \in Nat /\ k <= k + g /\ k + (n + g) = k + g + n
  OBVIOUS
<1>2. Explains(M(p, k + g), s, c, res) /\ c.tag # "fuel"
  BY <1>1, MMore, ExplainsMore
<1>3. Of(M(p, k + g + n), StartOf(p)) = res
  BY <1>2 DEF Told
<1> QED
  BY <1>1, <1>3

(* The same for a step that pushes a frame. *)
LEMMA CarriedUp ==
    ASSUME NEW S, NEW s \in Seq(S), NEW p, NEW n \in Nat, NEW k \in Nat, NEW g \in Nat,
           NEW fr, NEW c, NEW d, Told(p, n, k + g, d, s),
           Feed(M(p, k), fr, c, TailOf(s)).tag # "fuel" => d = Feed(M(p, k), fr, c, TailOf(s))
    PROVE  Told(p, n + g, k, c, Push(s, fr))
<1>1. Told(p, n + g, k, Feed(M(p, k), fr, c, TailOf(s)), s)
  BY Carried
<1> QED
  BY <1>1, Peeled DEF Told

(* A frame popped is told what it makes of the result. *)
LEMMA PoppedTold ==
    ASSUME NEW S, NEW s \in Seq(S), NEW p, NEW n, NEW k, NEW fr, NEW c,
           Told(p, n, k, c, Push(s, fr))
    PROVE  Told(p, n, k, Feed(M(p, k), fr, c, TailOf(s)), s)
  BY Peeled DEF Told

(* An error told to any stack is what the program comes to. *)
LEMMA ErrorCarried ==
    ASSUME NEW S, NEW s \in Seq(S), NEW p, NEW n \in Nat, NEW k \in Nat, NEW kind, NEW l,
           Told(p, n, k, Error(kind, l), s), NEW m \in Nat, k + n <= m
    PROVE  ErrorTold(p, m, kind, l)
<1> DEFINE c == Error(kind, l)
<1>1. c.tag = "error"
  BY DEF Error
<1> HIDE DEF c
<1>2. Explains(M(p, k), s, c, c)
  BY <1>1, ErrorExplained
<1>3. Of(M(p, k + n), StartOf(p)) = c
  BY <1>1, <1>2 DEF Told, c
<1>4. k + n \in Nat /\ More(M(p, k + n), M(p, m))
  BY MMore
<1>5. Of(M(p, m), StartOf(p)) = c
  BY <1>1, <1>3, <1>4, MoreAt
<1> QED
  BY <1>5 DEF ErrorTold, c

(* What a recur finds right above the frame that was pushed. *)
LEMMA PushedTail ==
    ASSUME NEW S, NEW s \in Seq(S), NEW fr
    PROVE  /\ TailOf(Push(s, fr)) = IF fr.op = "loop-target" THEN "loop" ELSE "inner"
           /\ TailOf(s) \in Tails
<1>1. Len(Push(s, fr)) = Len(s) + 1 /\ Push(s, fr)[Len(s) + 1] = fr /\ Len(s) \in Nat
  BY PushedTails
<1>2. Len(s) + 1 # 0
  BY <1>1
<1> QED
  BY <1>1, <1>2 DEF TailOf, TailAt, Tails
-----------------------------------------------------------------------------
(* What each form means, where scopes stay *)

(* No list is two special forms. *)
LEMMA FormsApart ==
    ASSUME NEW e, NEW x, HasForm(e, x)
    PROVE  /\ IsList(e) /\ e.type = "list" /\ e.items[1].name = x
           /\ \A y : HasForm(e, y) => y = x
  BY DEF HasForm, IsList, Sym

(* A form that is no list means itself, a symbol its value, and a special  *)
(* form of the wrong shape an error.                                       *)
LEMMA FormedPlain ==
    ASSUME NEW f, NEW e, NEW r, NEW l, NEW tail
    PROVE  /\ e.type # "symbol" /\ ~IsList(e) => EvForm(f, e, r, l, tail) = Ok(e, r, l)
           /\ e.type = "symbol" =>
                EvForm(f, e, r, l, tail) =
                    IF Lookup(e.name, r) = NULL THEN Error("undefined symbol", l)
                    ELSE Ok(Lookup(e.name, r), r, l)
           /\ \A x : HasForm(e, x) /\ ~WellFormed(e) => EvForm(f, e, r, l, tail) = Error(x, l)
<1>1. CASE e.type = "symbol" \/ ~IsList(e)
  <2>1. \A x : ~HasForm(e, x) \/ e.type # "symbol"
    BY FormsApart
  <2> QED
    BY <1>1, <2>1 DEF EvForm, HasForm, IsList
<1>2. CASE ~(e.type = "symbol" \/ ~IsList(e))
  BY <1>2, FormsApart DEF EvForm, EvList
<1> QED
  BY <1>1, <1>2

(* A list of the right shape means what EvList says. *)
LEMMA FormedListed ==
    ASSUME NEW f, NEW e, NEW r, NEW l, NEW tail, IsList(e), WellFormed(e)
    PROVE  EvForm(f, e, r, l, tail) = EvList(f, e, r, l, tail)
<1>1. e.type # "symbol"
  BY DEF IsList
<1> QED
  BY <1>1 DEF EvForm, EvList

(* (quote x) means x. *)
LEMMA FormedQuote ==
    ASSUME NEW f, NEW e, NEW r, NEW l, NEW tail, WellFormed(e), HasForm(e, "quote")
    PROVE  EvForm(f, e, r, l, tail) = Ok(e.items[2], r, l)
<1>1. IsList(e) /\ \A y : HasForm(e, y) => y = "quote"
  BY FormsApart
<1>2. EvForm(f, e, r, l, tail) = EvList(f, e, r, l, tail)
  BY <1>1, FormedListed
<1> QED
  BY <1>1, <1>2 DEF EvList

(* (do x ...) means the last of its forms. *)
LEMMA FormedDo ==
    ASSUME NEW f, NEW e, NEW r, NEW l, NEW tail, WellFormed(e), HasForm(e, "do")
    PROVE  EvForm(f, e, r, l, tail) = Of(f, LastTask(Tail(e.items), r, l, tail))
<1>1. IsList(e) /\ \A y : HasForm(e, y) => y = "do"
  BY FormsApart
<1>2. EvForm(f, e, r, l, tail) = EvList(f, e, r, l, tail)
  BY <1>1, FormedListed
<1> QED
  BY <1>1, <1>2 DEF EvList

(* (fn ...) means a closure over the env. *)
LEMMA FormedFn ==
    ASSUME NEW f, NEW e, NEW r, NEW l, NEW tail, WellFormed(e), HasForm(e, "fn")
    PROVE  EvForm(f, e, r, l, tail) = 
               Ok([type |-> "closure", params |-> e.items[2].items,
                   body |-> e.items[3], env |-> r], r, l)
<1>1. IsList(e) /\ \A y : HasForm(e, y) => y = "fn"
  BY FormsApart
<1>2. EvForm(f, e, r, l, tail) = EvList(f, e, r, l, tail)
  BY <1>1, FormedListed
<1> QED
  BY <1>1, <1>2 DEF EvList

(* (if c x y) means what the if-branch frame makes of c. *)
LEMMA FormedIf ==
    ASSUME NEW f, f.lex = FALSE, NEW e, NEW r, NEW l, NEW tail, WellFormed(e), HasForm(e, "if")
    PROVE  EvForm(f, e, r, l, tail) =
             Feed(f, IfFrame(e.items[3], e.items[4]),
                  Of(f, FormTask(e.items[2], r, l, "inner")), tail)
<1> DEFINE h == Of(f, FormTask(e.items[2], r, l, "inner"))
<1>1. EvForm(f, e, r, l, tail) = EvIf(f, e, r, l, tail)
  <2>1. IsList(e) /\ \A y : HasForm(e, y) => y = "if"
    BY FormsApart
  <2>2. EvForm(f, e, r, l, tail) = EvList(f, e, r, l, tail)
    BY <2>1, FormedListed
  <2> QED
    BY <2>1, <2>2 DEF EvList
<1>2. EvIf(f, e, r, l, tail) =
        IF h.tag # "value" THEN h
        ELSE Of(f, FormTask(IF Falsy(h.val) THEN e.items[4] ELSE e.items[3], h.env, h.log, tail))
  BY DEF EvIf, Onward
<1> HIDE DEF h
<1>3. Feed(f, IfFrame(e.items[3], e.items[4]), h, tail) =
        IF h.tag # "value" THEN h
        ELSE Of(f, FormTask(IF Falsy(h.val) THEN e.items[4] ELSE e.items[3], h.env, h.log, tail))
  BY DEF Feed, FeedValue, IfFrame
<1> QED
  BY <1>1, <1>2, <1>3 DEF h

(* (let (n x ...) body) means the rest of a let with nothing bound. *)
LEMMA FormedLet ==
    ASSUME NEW f, NEW e, NEW r, NEW l, NEW tail, WellFormed(e), HasForm(e, "let")
    PROVE  LET ps == e.items[2].items
           IN  EvForm(f, e, r, l, tail) =
                 IF ps # <<>> /\ ps[1].type # "symbol" THEN Error("let name", l)
                 ELSE EvBody(f, ps, e.items[3], r, l, tail)
<1>1. EvForm(f, e, r, l, tail) = EvLet(f, e, r, l, tail)
  <2>1. IsList(e) /\ \A y : HasForm(e, y) => y = "let"
    BY FormsApart
  <2>2. EvForm(f, e, r, l, tail) = EvList(f, e, r, l, tail)
    BY <2>1, FormedListed
  <2> QED
    BY <2>1, <2>2 DEF EvList
<1> QED
  BY <1>1 DEF EvLet

(* (loop (n x ...) body) means the rest of a loop with nothing bound. *)
LEMMA FormedLoop ==
    ASSUME NEW f, f.lex = FALSE, NEW e, NEW r, NEW l, NEW tail, WellFormed(e), HasForm(e, "loop")
    PROVE  LET ps == e.items[2].items
           IN  EvForm(f, e, r, l, tail) =
                 IF ps = <<>> THEN Of(f, FormTask(e.items[3], r, l, tail))
                 ELSE EvEntry(f, ps, NamesOf(ps), e.items[3], r, l)
<1>1. EvForm(f, e, r, l, tail) = EvLoop(f, e, r, l, tail)
  <2>1. IsList(e) /\ \A y : HasForm(e, y) => y = "loop"
    BY FormsApart
  <2>2. EvForm(f, e, r, l, tail) = EvList(f, e, r, l, tail)
    BY <2>1, FormedListed
  <2> QED
    BY <2>1, <2>2 DEF EvList
<1> QED
  BY <1>1 DEF EvLoop

(* (recur x ...) means the rest of a recur with nothing evaluated. *)
LEMMA FormedRecur ==
    ASSUME NEW f, NEW e, NEW r, NEW l, NEW tail, WellFormed(e), HasForm(e, "recur")
    PROVE  EvForm(f, e, r, l, tail) = JumpRest(f, <<>>, Tail(e.items), r, l, tail)
<1>1. EvForm(f, e, r, l, tail) = EvRecur(f, e, r, l, tail)
  <2>1. IsList(e) /\ \A y : HasForm(e, y) => y = "recur"
    BY FormsApart
  <2>2. EvForm(f, e, r, l, tail) = EvList(f, e, r, l, tail)
    BY <2>1, FormedListed
  <2> QED
    BY <2>1, <2>2 DEF EvList
<1> QED
  BY <1>1 DEF EvRecur, JumpRest

(* A call means what the call frame makes of its head. *)
LEMMA FormedCall ==
    ASSUME NEW f, f.lex = FALSE, NEW e, NEW r, NEW l, NEW tail,
           IsList(e), \A x \in SpecialForms : ~HasForm(e, x)
    PROVE  EvForm(f, e, r, l, tail) =
             Feed(f, CallFrame(NULL, <<>>, Tail(e.items)),
                  Of(f, FormTask(e.items[1], r, l, "inner")), tail)
<1> DEFINE h == Of(f, FormTask(e.items[1], r, l, "inner"))
<1>0. WellFormed(e)
  BY DEF WellFormed, SpecialForms
<1>1. EvForm(f, e, r, l, tail) = EvCall(f, e, r, l, tail)
  <2>1. EvForm(f, e, r, l, tail) = EvList(f, e, r, l, tail)
    BY <1>0, FormedListed
  <2> QED
    BY <2>1 DEF EvList, SpecialForms
<1>2. EvCall(f, e, r, l, tail) =
        IF h.tag # "value" THEN h
        ELSE CallRest(f, h.val, <<>>, Tail(e.items), h.env, h.log, tail)
  BY DEF EvCall, Onward, CallRest, EvApply
<1> HIDE DEF h
<1>3. Feed(f, CallFrame(NULL, <<>>, Tail(e.items)), h, tail) =
        IF h.tag # "value" THEN h
        ELSE CallRest(f, h.val, <<>>, Tail(e.items), h.env, h.log, tail)
  BY DEF Feed, FeedValue, CallFrame, FuncOf, ArgsOf
<1> QED
  BY <1>1, <1>2, <1>3 DEF h
-----------------------------------------------------------------------------
(* Tasks over the values there are *)

(* The env r, the effects l and the stack s are made of V. *)
Whole(V, r, l, s) ==
    /\ V \subseteq Universe /\ Closed(V)
    /\ r \in EnvOver(V) /\ l \in Requests(V) /\ s \in Stack(V)

(* What is made of V is made of all there can be. *)
LEMMA WholeGrown ==
    ASSUME NEW V, V \subseteq Universe, NEW r \in EnvOver(V), NEW l \in Requests(V)
    PROVE  /\ r \in Env(Universe) /\ l \in Log(Universe) /\ Seq(V) \subseteq Seq(Universe)
           /\ \A q \in EnvOver(V) : q \in Env(Universe)
<1>1. EnvOver(V) \subseteq EnvOver(Universe) /\ Requests(V) \subseteq Requests(Universe)
  BY EnvGrows, FrameGrows
<1>2. Requests(Universe) = Log(Universe)
  BY DEF Requests, Log
<1>3. \A q \in EnvOver(Universe) : q \in Env(Universe)
  BY DEF EnvOver, Env
<1>4. Seq(V) \subseteq Seq(Universe)
  OBVIOUS
<1> QED
  BY <1>1, <1>2, <1>3, <1>4

(* What there is to do over V is among the tasks. *)
LEMMA WholeTasks ==
    ASSUME NEW V, V \subseteq Universe, NEW r \in EnvOver(V), NEW l \in Requests(V)
    PROVE  /\ \A e \in V, tail \in Tails : FormTask(e, r, l, tail) \in Tasks(Universe)
           /\ \A es \in Seq(V), vals \in Seq(V) : EachTask(es, vals, r, l) \in Tasks(Universe)
           /\ \A es \in Seq(V), tail \in Tails : LastTask(es, r, l, tail) \in Tasks(Universe)
           /\ \A ps \in Seq(V) : PairsTask(ps, r, l) \in Tasks(Universe)
           /\ \A names \in Seq(V), body \in V, q \in EnvOver(V) :
                RoundsTask(names, body, q, r, l) \in Tasks(Universe)
<1> DEFINE U == Universe
<1>1. /\ r \in Env(U) /\ l \in Log(U) /\ Seq(V) \subseteq Seq(U)
      /\ \A q \in EnvOver(V) : q \in Env(U)
  BY WholeGrown
<1>2. V \subseteq U
  OBVIOUS
<1> HIDE DEF U
<1>3. ASSUME NEW e \in V, NEW tail \in Tails PROVE FormTask(e, r, l, tail) \in Tasks(U)
  BY <1>1, <1>2 DEF FormTask, Tasks
<1>4. ASSUME NEW es \in Seq(V), NEW vals \in Seq(V) PROVE EachTask(es, vals, r, l) \in Tasks(U)
  BY <1>1, <1>2 DEF EachTask, Tasks
<1>5. ASSUME NEW es \in Seq(V), NEW tail \in Tails PROVE LastTask(es, r, l, tail) \in Tasks(U)
  BY <1>1, <1>2 DEF LastTask, Tasks
<1>6. ASSUME NEW ps \in Seq(V) PROVE PairsTask(ps, r, l) \in Tasks(U)
  BY <1>1, <1>2 DEF PairsTask, Tasks
<1>7. ASSUME NEW names \in Seq(V), NEW body \in V, NEW q \in EnvOver(V)
      PROVE  RoundsTask(names, body, q, r, l) \in Tasks(U)
  BY <1>1, <1>2 DEF RoundsTask, Tasks
<1> QED
  BY <1>3, <1>4, <1>5, <1>6, <1>7 DEF U

(* One more argument, expression or pair, with one more fuel. *)
LEMMA EachUnfolds ==
    ASSUME NEW p, NEW V, NEW r, NEW l, NEW s, Whole(V, r, l, s), NEW k \in Nat,
           NEW es \in Seq(V), es # <<>>, NEW vals \in Seq(V)
    PROVE  EachOf(M(p, k + 1), es, vals, r, l) = Each(M(p, k), es, vals, r, l)
<1>1. EachTask(es, vals, r, l) \in Tasks(Universe)
  BY WholeTasks DEF Whole
<1> QED
  BY <1>1, Unfolded DEF EachOf

(* The rest of a do means what the do-rest frame makes of its first form. *)
LEMMA LastUnfolds ==
    ASSUME NEW p, NEW V, NEW r, NEW l, NEW s, Whole(V, r, l, s), NEW k \in Nat,
           NEW es \in Seq(V), NEW tail \in Tails
    PROVE  Of(M(p, k + 1), LastTask(es, r, l, tail)) =
             IF Len(es) = 1 THEN Of(M(p, k), FormTask(es[1], r, l, tail))
             ELSE Feed(M(p, k), DoFrame(Tail(es)), Of(M(p, k), FormTask(es[1], r, l, "inner")), tail)
<1>1. LastTask(es, r, l, tail) \in Tasks(Universe)
  BY WholeTasks DEF Whole
<1>2. Feed(M(p, k), DoFrame(Tail(es)), Of(M(p, k), FormTask(es[1], r, l, "inner")), tail)
        = Last(M(p, k), es, r, l, tail)
  BY DEF Feed, FeedValue, DoFrame, Last
<1> QED
  BY <1>1, <1>2, Unfolded

(* The rest of a recur and of a call, as a frame finds it. *)
LEMMA JumpUnfolds ==
    ASSUME NEW p, NEW V, NEW r, NEW l, NEW s, NEW k \in Nat, NEW es \in Seq(V), NEW vals \in Seq(V), NEW tail,
           Whole(V, r, l, s),
           es # <<>>,
           Feed(M(p, k), RecurFrame(vals, Tail(es)), Of(M(p, k), FormTask(es[1], r, l, "inner")), tail).tag
                # "fuel"
    PROVE  JumpRest(M(p, k + 1), vals, es, r, l, tail) =
           Feed(M(p, k), RecurFrame(vals, Tail(es)), Of(M(p, k), FormTask(es[1], r, l, "inner")), tail)
<1> DEFINE h == Of(M(p, k), FormTask(es[1], r, l, "inner"))
           a == EachOf(M(p, k), Tail(es), Append(vals, h.val), h.env, h.log)
           b == EachOf(M(p, k + 1), es, vals, r, l)
           fr == RecurFrame(vals, Tail(es))
<1>1. b = IF h.tag # "value" THEN h ELSE a
  BY EachUnfolds DEF Each
<1>2. Feed(M(p, k), fr, h, tail) =
        IF h.tag # "value" THEN h ELSE IF a.tag # "value" THEN a ELSE EvJump(a.val, a.log, tail)
  BY DEF Feed, FeedValue, RecurFrame, JumpRest
<1>3. JumpRest(M(p, k + 1), vals, es, r, l, tail) =
        IF b.tag # "value" THEN b ELSE EvJump(b.val, b.log, tail)
  BY DEF JumpRest
<1> HIDE DEF h, a, b
<1> QED
  BY <1>1, <1>2, <1>3 DEF h

(* The rest of a call means what the call frame makes of the next argument. *)
LEMMA CallUnfolds ==
    ASSUME NEW p, NEW V, NEW r, NEW l, NEW s, NEW k \in Nat, NEW fn, NEW es \in Seq(V), NEW vals \in Seq(V), NEW tail,
           Whole(V, r, l, s),
           fn # NULL,
           es # <<>>,
           Feed(M(p, k), CallFrame(fn, vals, Tail(es)), Of(M(p, k), FormTask(es[1], r, l, "inner")), tail).tag
                # "fuel"
    PROVE  CallRest(M(p, k + 1), fn, vals, es, r, l, tail) =
           Feed(M(p, k), CallFrame(fn, vals, Tail(es)), Of(M(p, k), FormTask(es[1], r, l, "inner")), tail)
<1> DEFINE h == Of(M(p, k), FormTask(es[1], r, l, "inner"))
           a == EachOf(M(p, k), Tail(es), Append(vals, h.val), h.env, h.log)
           b == EachOf(M(p, k + 1), es, vals, r, l)
           fr == CallFrame(fn, vals, Tail(es))
           X(f, c) == EvApply(f, fn, c.val, c.env, c.log, tail)
<1>1. b = IF h.tag # "value" THEN h ELSE a
  BY EachUnfolds DEF Each
<1>2. Feed(M(p, k), fr, h, tail) =
        IF h.tag # "value" THEN h ELSE IF a.tag # "value" THEN a ELSE X(M(p, k), a)
  BY DEF Feed, FeedValue, CallFrame, CallRest, FuncOf, ArgsOf
<1>3. CallRest(M(p, k + 1), fn, vals, es, r, l, tail) =
        IF b.tag # "value" THEN b ELSE X(M(p, k + 1), b)
  BY DEF CallRest
<1>4. X(M(p, k), a).tag # "fuel" => X(M(p, k + 1), a) = X(M(p, k), a)
  <2>1. More(M(p, k), M(p, k + 1))
    BY MMore
  <2> QED
    BY <2>1, StayingMore
<1> HIDE DEF h, a, b, X
<1> QED
  BY <1>1, <1>2, <1>3, <1>4 DEF h

(* The rest of a let and of a loop. *)
LEMMA PairsUnfold ==
    ASSUME NEW p, NEW V, NEW r, NEW l, NEW s, Whole(V, r, l, s), NEW k \in Nat,
           NEW ps \in Seq(V), ps # <<>>
    PROVE  LET h == Of(M(p, k), FormTask(ps[2], r, l, "inner"))
           IN  PairsOf(M(p, k + 1), ps, r, l) =
                 IF h.tag # "value" THEN h
                 ELSE PairsOf(M(p, k), SubSeq(ps, 3, Len(ps)), EnvPush(Bind(ps[1], h.val), r), h.log)
<1>1. PairsTask(ps, r, l) \in Tasks(Universe)
  BY WholeTasks DEF Whole
<1>2. Of(M(p, k + 1), PairsTask(ps, r, l)) = EvPairs(M(p, k), ps, r, l)
  BY <1>1, Unfolded
<1> QED
  BY <1>2 DEF EvPairs, PairsOf

(* The rest of a let means what the let-binds frame makes of the next value. *)
LEMMA BodyUnfolds ==
    ASSUME NEW p, NEW V, NEW r, NEW l, NEW s, NEW k \in Nat, NEW ps \in Seq(V), NEW body, NEW tail,
           Whole(V, r, l, s),
           ps # <<>>,
           Feed(M(p, k), LetFrame(ps, body, r), Of(M(p, k), FormTask(ps[2], r, l, "inner")), tail).tag
                # "fuel"
    PROVE  EvBody(M(p, k + 1), ps, body, r, l, tail) =
           Feed(M(p, k), LetFrame(ps, body, r), Of(M(p, k), FormTask(ps[2], r, l, "inner")), tail)
<1> DEFINE h == Of(M(p, k), FormTask(ps[2], r, l, "inner"))
           a == PairsOf(M(p, k), SubSeq(ps, 3, Len(ps)), EnvPush(Bind(ps[1], h.val), r), h.log)
           b == PairsOf(M(p, k + 1), ps, r, l)
           X(f, c) == Of(f, FormTask(body, c.env, c.log, tail))
<1>1. b = IF h.tag # "value" THEN h ELSE a
  BY PairsUnfold
<1>2. Feed(M(p, k), LetFrame(ps, body, r), h, tail) =
        IF h.tag # "value" THEN h ELSE IF a.tag # "value" THEN a ELSE X(M(p, k), a)
  BY DEF Feed, FeedValue, LetFrame, LetRest, EvBody
<1>3. EvBody(M(p, k + 1), ps, body, r, l, tail) = IF b.tag # "value" THEN b ELSE X(M(p, k + 1), b)
  BY DEF EvBody
<1>4. X(M(p, k), a).tag # "fuel" => X(M(p, k + 1), a) = X(M(p, k), a)
  <2>1. More(M(p, k), M(p, k + 1))
    BY MMore
  <2> QED
    BY <2>1, MoreAt
<1> HIDE DEF h, a, b, X
<1> QED
  BY <1>1, <1>2, <1>3, <1>4 DEF h

(* The rest of a loop means what the loop-binds frame makes of the next    *)
(* value.                                                                  *)
LEMMA EntryUnfolds ==
    ASSUME NEW p, NEW V, NEW r, NEW l, NEW s, NEW k \in Nat, NEW ps \in Seq(V), NEW body,
           NEW orig, NEW tail, NEW names,
           Whole(V, r, l, s), ps # <<>>, names = NamesOf(orig),
           Feed(M(p, k), LoopFrame(ps, body, r, orig), Of(M(p, k), FormTask(ps[2], r, l, "inner")), tail).tag
                # "fuel"
    PROVE  EvEntry(M(p, k + 1), ps, names, body, r, l) =
           Feed(M(p, k), LoopFrame(ps, body, r, orig), Of(M(p, k), FormTask(ps[2], r, l, "inner")), tail)
<1> DEFINE h == Of(M(p, k), FormTask(ps[2], r, l, "inner"))
           a == PairsOf(M(p, k), SubSeq(ps, 3, Len(ps)), EnvPush(Bind(ps[1], h.val), r), h.log)
           b == PairsOf(M(p, k + 1), ps, r, l)
           X(f, c) == Of(f, RoundsTask(NamesOf(orig), body, c.env, Tail(c.env), c.log))
<1>1. b = IF h.tag # "value" THEN h ELSE a
  BY PairsUnfold
<1>2. Feed(M(p, k), LoopFrame(ps, body, r, orig), h, tail) =
        IF h.tag # "value" THEN h ELSE IF a.tag # "value" THEN a ELSE X(M(p, k), a)
  BY MReads DEF Feed, FeedValue, LoopFrame, LoopRest, EvEntry
<1>3. EvEntry(M(p, k + 1), ps, names, body, r, l) =
        IF b.tag # "value" THEN b ELSE X(M(p, k + 1), b)
  BY MReads DEF EvEntry
<1>4. X(M(p, k), a).tag # "fuel" => X(M(p, k + 1), a) = X(M(p, k), a)
  <2>1. More(M(p, k), M(p, k + 1))
    BY MMore
  <2> QED
    BY <2>1, MoreAt
<1> HIDE DEF h, a, b, X
<1> QED
  BY <1>1, <1>2, <1>3, <1>4 DEF h
-----------------------------------------------------------------------------
(* From a state to the next *)

(* With k fuel left and g spent on a step, the stack s is given D[k].       *)
Leads(p, n, g, D, s) == \A k \in Nat : Told(p, n, k + g, D[k], s)

(* A step to a form in place of another. *)
LEMMA ToForm ==
    ASSUME NEW V, NEW s \in Stack(V), NEW p, NEW n \in Nat, NEW g \in Nat, NEW D,
           Leads(p, n, g, D, s), NEW e, NEW r, NEW l,
           \A k \in Nat : Of(M(p, k), FormTask(e, r, l, TailOf(s))).tag # "fuel" =>
                D[k] = Of(M(p, k), FormTask(e, r, l, TailOf(s)))
    PROVE  FormTold(p, n + g, e, r, l, s)
<1>1. s \in Seq(ReadyFrame(V))
  BY DEF Stack
<1> SUFFICES ASSUME NEW k \in Nat
             PROVE  Told(p, n + g, k, Of(M(p, k), FormTask(e, r, l, TailOf(s))), s)
  BY DEF FormTold
<1>2. Told(p, n, k + g, D[k], s)
  BY DEF Leads
<1> QED
  BY <1>1, <1>2, Carried

(* With the same fuel, D gives what the frame fr makes of a form.          *)
Framed(p, D, fr, e, r, l, tail, s) ==
    \A k \in Nat :
        Feed(M(p, k), fr, Of(M(p, k), FormTask(e, r, l, tail)), TailOf(s)).tag # "fuel" =>
            D[k] = Feed(M(p, k), fr, Of(M(p, k), FormTask(e, r, l, tail)), TailOf(s))

(* A step to a form below a new frame. *)
LEMMA ToPushed ==
    ASSUME NEW V, NEW s \in Stack(V), NEW p, NEW n \in Nat, NEW g \in Nat, NEW D,
           Leads(p, n, g, D, s), NEW fr, NEW tail,
           tail = IF fr.op = "loop-target" THEN "loop" ELSE "inner", NEW e, NEW r, NEW l,
           Framed(p, D, fr, e, r, l, tail, s)
    PROVE  FormTold(p, n + g, e, r, l, Push(s, fr))
<1>1. s \in Seq(ReadyFrame(V))
  BY DEF Stack
<1>2. TailOf(Push(s, fr)) = tail
  BY <1>1, PushedTail
<1> SUFFICES ASSUME NEW k \in Nat
             PROVE  Told(p, n + g, k, Of(M(p, k), FormTask(e, r, l, tail)), Push(s, fr))
  BY <1>2 DEF FormTold
<1>3. Told(p, n, k + g, D[k], s)
  BY DEF Leads
<1>4. PICK c : c = Of(M(p, k), FormTask(e, r, l, tail))
  OBVIOUS
<1>5. Feed(M(p, k), fr, c, TailOf(s)).tag # "fuel" => D[k] = Feed(M(p, k), fr, c, TailOf(s))
  BY <1>4 DEF Framed
<1>6. Told(p, n + g, k, c, Push(s, fr))
  BY <1>1, <1>3, <1>5, CarriedUp
<1> QED
  BY <1>4, <1>6

(* A step to a value. *)
LEMMA ToValue ==
    ASSUME NEW V, NEW s \in Stack(V), NEW p, NEW n \in Nat, NEW g \in Nat, NEW D,
           Leads(p, n, g, D, s), NEW v, NEW r, NEW l,
           \A k \in Nat : D[k] = Ok(v, r, l)
    PROVE  ValueTold(p, n + g, v, r, l, s)
<1>1. s \in Seq(ReadyFrame(V))
  BY DEF Stack
<1> SUFFICES ASSUME NEW k \in Nat PROVE Told(p, n + g, k, Ok(v, r, l), s)
  BY DEF ValueTold
<1>2. Told(p, n, k + g, D[k], s)
  BY DEF Leads
<1> QED
  BY <1>1, <1>2, Carried

(* A step to an error. *)
LEMMA ToError ==
    ASSUME NEW V, NEW s \in Stack(V), NEW p, NEW n \in Nat, NEW g \in Nat, NEW D,
           Leads(p, n, g, D, s), NEW kind, NEW l, D[0] = Error(kind, l)
    PROVE  ErrorTold(p, n + g, kind, l)
<1>1. s \in Seq(ReadyFrame(V))
  BY DEF Stack
<1>2. Told(p, n, 0 + g, Error(kind, l), s)
  BY DEF Leads
<1>3. 0 + g \in Nat /\ n + g \in Nat /\ 0 + g + n <= n + g
  OBVIOUS
<1> QED
  BY <1>1, <1>2, <1>3, ErrorCarried

(* Both are as good with more steps made. *)
LEMMA ToldLater ==
    ASSUME NEW V, NEW s \in Stack(V), NEW p, NEW n \in Nat, NEW m \in Nat, n <= m
    PROVE  /\ \A e, r, l : FormTold(p, n, e, r, l, s) => FormTold(p, m, e, r, l, s)
           /\ \A kind, l : ErrorTold(p, n, kind, l) => ErrorTold(p, m, kind, l)
<1>1. s \in Seq(ReadyFrame(V))
  BY DEF Stack
<1>2. ASSUME NEW e, NEW r, NEW l, FormTold(p, n, e, r, l, s) PROVE FormTold(p, m, e, r, l, s)
  <2> SUFFICES ASSUME NEW k \in Nat, NEW res, res.tag # "fuel",
                      Explains(M(p, k), s, Of(M(p, k), FormTask(e, r, l, TailOf(s))), res)
               PROVE  Of(M(p, k + m), StartOf(p)) = res
    BY DEF FormTold, Told
  <2>1. Of(M(p, k + n), StartOf(p)) = res
    BY <1>2 DEF FormTold, Told
  <2>2. k + n \in Nat /\ k + m \in Nat /\ k + n <= k + m
    OBVIOUS
  <2>3. More(M(p, k + n), M(p, k + m))
    BY <2>2, MMore
  <2> QED
    BY <2>1, <2>3, MoreAt
<1>3. ASSUME NEW kind, NEW l, ErrorTold(p, n, kind, l) PROVE ErrorTold(p, m, kind, l)
  <2>1. Of(M(p, n), StartOf(p)) = Error(kind, l) /\ Error(kind, l).tag # "fuel"
    BY <1>3 DEF ErrorTold, Error
  <2>2. More(M(p, n), M(p, m))
    BY MMore
  <2> QED
    BY <2>1, <2>2, MoreAt DEF ErrorTold
<1> QED
  BY <1>2, <1>3

(* What evaluating a form in a step leads to, and delivering to a frame. *)
Evaluation(p, e, r, l, s) == [k \in Nat |-> EvForm(M(p, k + 1), e, r, l, TailOf(s))]
Delivered(p, fr, v, r, l, s) == [k \in Nat |-> Feed(M(p, k + 1), fr, Ok(v, r, l), TailOf(s))]

(* A step that evaluates a form leads to what EvForm says, for two fuel. *)
LEMMA EvalLeads ==
    ASSUME NEW V, NEW r, NEW l, NEW s, Whole(V, r, l, s), NEW p, NEW n \in Nat,
           NEW e \in V, FormTold(p, n, e, r, l, s)
    PROVE  Leads(p, n, 2, Evaluation(p, e, r, l, s), s) /\ TailOf(s) \in Tails
<1>1. s \in Seq(ReadyFrame(V)) /\ V \subseteq Universe /\ r \in EnvOver(V) /\ l \in Requests(V)
  BY DEF Stack, Whole
<1>2. TailOf(s) \in Tails
  BY <1>1, PushedTail
<1>3. FormTask(e, r, l, TailOf(s)) \in Tasks(Universe)
  BY <1>1, <1>2, WholeTasks
<1> SUFFICES ASSUME NEW k \in Nat PROVE Told(p, n, k + 2, Evaluation(p, e, r, l, s)[k], s)
  BY <1>2 DEF Leads
<1>4. k + 1 \in Nat /\ k + 1 + 1 = k + 2 /\ k + 2 \in Nat
  OBVIOUS
<1>5. Of(M(p, k + 2), FormTask(e, r, l, TailOf(s))) = EvForm(M(p, k + 1), e, r, l, TailOf(s))
  BY <1>3, <1>4, Unfolded
<1>6. Told(p, n, k + 2, Of(M(p, k + 2), FormTask(e, r, l, TailOf(s))), s)
  BY <1>4 DEF FormTold
<1>7. Evaluation(p, e, r, l, s)[k] = EvForm(M(p, k + 1), e, r, l, TailOf(s))
  BY DEF Evaluation
<1> QED
  BY <1>5, <1>6, <1>7

(* A step that delivers a value leads to what the frame makes of it, for   *)
(* one fuel.                                                               *)
LEMMA DeliverLeads ==
    ASSUME NEW V, NEW s \in Stack(V), NEW p, NEW n \in Nat, NEW fr, NEW v, NEW r, NEW l,
           ValueTold(p, n, v, r, l, Push(s, fr))
    PROVE  Leads(p, n, 1, Delivered(p, fr, v, r, l, s), s) /\ TailOf(s) \in Tails
<1>1. s \in Seq(ReadyFrame(V))
  BY DEF Stack
<1>2. TailOf(s) \in Tails
  BY <1>1, PushedTail
<1> SUFFICES ASSUME NEW k \in Nat PROVE Told(p, n, k + 1, Delivered(p, fr, v, r, l, s)[k], s)
  BY <1>2 DEF Leads
<1>3. Told(p, n, k + 1, Ok(v, r, l), Push(s, fr))
  BY DEF ValueTold
<1>4. Told(p, n, k + 1, Feed(M(p, k + 1), fr, Ok(v, r, l), TailOf(s)), s)
  BY <1>1, <1>3, PoppedTold
<1> QED
  BY <1>4 DEF Delivered

-----------------------------------------------------------------------------
(* recur *)

(* What a recur on the stack s finds there. *)
LEMMA TailIs ==
    ASSUME NEW V, NEW s \in Stack(V)
    PROVE  TailOf(s) = IF s = <<>> THEN "top" ELSE IF s[Len(s)].op = "loop-target" THEN "loop" ELSE "inner"
<1>1. s \in Seq(ReadyFrame(V))
  BY DEF Stack
<1>2. Len(s) = 0 <=> s = <<>>
  BY <1>1
<1> QED
  BY <1>2 DEF TailOf, TailAt

(* The last frame and those before it. *)
LEMMA Topped ==
    ASSUME NEW V, NEW s \in Stack(V), s # <<>>
    PROVE  /\ s = Push(SubSeq(s, 1, Len(s) - 1), s[Len(s)])
           /\ SubSeq(s, 1, Len(s) - 1) \in Stack(V)
           /\ s[Len(s)] \in ReadyFrame(V)
<1> DEFINE S == ReadyFrame(V)
<1>1. s \in Seq(S) /\ s # <<>>
  BY DEF Stack
<1> HIDE DEF S
<1> DEFINE n == Len(s) - 1
           q == SubSeq(s, 1, n)
<1>2. Len(s) \in Nat /\ Len(s) > 0 /\ n \in Nat /\ n + 1 = Len(s) /\ s = [i \in 1 .. n + 1 |-> s[i]]
  BY <1>1
<1>3. q = [i \in 1 .. n |-> s[i]] /\ \A i \in 1 .. n : s[i] \in S
  BY <1>1
<1> HIDE DEF n, q
<1>4. q \in Seq(S) /\ Len(q) = n /\ \A i \in 1 .. n : q[i] = s[i]
  <2>1. n \in Nat
    BY <1>2
  <2>2. q \in [1 .. n -> S]
    BY <1>3
  <2>3. q \in Seq(S)
    BY <2>1, <2>2
  <2>4. Len(q) = n
    BY <2>1, <2>2, <2>3
  <2> QED
    BY <1>3, <2>3, <2>4
<1>5. Append(q, s[n + 1]) = [i \in 1 .. n + 1 |-> s[i]]
  <2> DEFINE a == Append(q, s[n + 1])
  <2>1. s[n + 1] \in S
    BY <1>1, <1>2
  <2>2. a \in Seq(S) /\ Len(a) = n + 1 /\ a[n + 1] = s[n + 1] /\ \A i \in 1 .. n : a[i] = q[i]
    BY <1>2, <1>4, <2>1
  <2> HIDE DEF a
  <2>3. a = [i \in 1 .. n + 1 |-> a[i]]
    BY <2>2
  <2>4. \A i \in 1 .. n + 1 : a[i] = s[i]
    <3>1. \A i \in 1 .. n + 1 : i = n + 1 \/ i \in 1 .. n
      BY <1>2
    <3> QED
      BY <1>4, <2>2, <3>1
  <2>5. a = [i \in 1 .. n + 1 |-> s[i]]
    BY <2>3, <2>4
  <2> QED
    BY <2>5 DEF a
<1>6. s[n + 1] \in S
  BY <1>1, <1>2
<1> QED
  BY <1>2, <1>4, <1>5, <1>6 DEF n, q, S, Push, Stack
-----------------------------------------------------------------------------
(* The loop a recur starts again *)

(* The last item of a moves in front of r: a is b and the item, c the item and r. *)
Moved(a, b, c, r) ==
    /\ Len(c) = Len(r) + 1 /\ Len(a) = Len(b) + 1 /\ a[Len(a)] = c[1]
    /\ \A i \in 1 .. Len(r) : c[i + 1] = r[i]
    /\ \A i \in 1 .. Len(b) : a[i] = b[i]

(* One sequence after the other. *)
Joined(a, b) == a \o b

(* Moving an item from one sequence to the next leaves them joined the same. *)
LEMMA Regrouped ==
    ASSUME NEW S, NEW a \in Seq(S), NEW b \in Seq(S), NEW c \in Seq(S), NEW r \in Seq(S),
           Moved(a, b, c, r)
    PROVE  Joined(a, r) = Joined(b, c)
<1>1. Len(c) = Len(r) + 1 /\ Len(a) = Len(b) + 1 /\ a[Len(a)] = c[1]
  BY DEF Moved
<1>2. /\ a \o r \in Seq(S) /\ b \o c \in Seq(S) /\ Len(a \o r) = Len(b \o c)
      /\ Len(a \o r) = Len(b) + 1 + Len(r) /\ Len(b) \in Nat /\ Len(r) \in Nat
  <2>1. /\ Len(b) \in Nat /\ Len(r) \in Nat /\ a \o r \in Seq(S) /\ b \o c \in Seq(S)
        /\ Len(a \o r) = Len(a) + Len(r) /\ Len(b \o c) = Len(b) + Len(c)
    OBVIOUS
  <2> QED
    BY <1>1, <2>1
<1>3. ASSUME NEW i \in 1 .. Len(b) + 1 + Len(r) PROVE (a \o r)[i] = (b \o c)[i]
  <2>1. CASE i <= Len(b)
    BY <1>1, <1>2, <2>1 DEF Moved
  <2>2. CASE i = Len(b) + 1
    BY <1>1, <1>2, <2>2
  <2>3. CASE i > Len(b) + 1
    <3>1. PICK j \in 1 .. Len(r) : i = Len(b) + 1 + j
      <4>1. i - (Len(b) + 1) \in 1 .. Len(r) /\ i = Len(b) + 1 + (i - (Len(b) + 1))
        BY <1>2, <2>3
      <4> QED
        BY <4>1
    <3>2. (a \o r)[i] = r[j]
      BY <1>1, <1>2, <3>1
    <3>3. (b \o c)[i] = c[j + 1]
      BY <1>1, <1>2, <3>1
    <3> QED
      BY <3>2, <3>3 DEF Moved
  <2>4. i \in Nat /\ (i <= Len(b) \/ i = Len(b) + 1 \/ i > Len(b) + 1)
    BY <1>2
  <2> QED
    BY <2>1, <2>2, <2>3, <2>4
<1>4. a \o r = b \o c
  BY <1>2, <1>3, SeqEqual
<1> QED
  BY <1>4 DEF Joined

(* more and rest are what follows the first of names and args. *)
Follow(names, args, more, rest) ==
    /\ args # <<>> /\ Len(names) = Len(args)
    /\ Len(more) = Len(args) - 1 /\ Len(rest) = Len(args) - 1
    /\ \A i \in 1 .. Len(args) - 1 : more[i] = names[i + 1] /\ rest[i] = args[i + 1]

(* The names of the first pair are entered first. *)
LEMMA EnterFirst ==
    ASSUME NEW V, NEW W, NEW names \in Seq(W), NEW args \in Seq(V), NEW r \in Seq(Scope(V)),
           NEW more \in Seq(W), NEW rest \in Seq(V), Follow(names, args, more, rest)
    PROVE  /\ EnvPush(Bind(names[1], args[1]), r) \in Seq(Scope(V))
           /\ Enter(names, args, r)
                = Enter(more, rest, EnvPush(Bind(names[1], args[1]), r))
           /\ Enter(names, args, r) \in Seq(Scope(V))
<1> DEFINE n == Len(args)
           S == Scope(V)
           sc(i) == Bind(names[n + 1 - i], args[n + 1 - i])
           A == [i \in 1 .. n |-> sc(i)]
           B == [i \in 1 .. n - 1 |-> sc(i)]
           c == <<sc(n)>>
<1>1. n \in Nat /\ n >= 1 /\ n - 1 \in Nat
  BY DEF Follow
<1>2. ASSUME NEW i \in 1 .. n PROVE sc(i) \in S
  <2>1. n + 1 - i \in 1 .. n
    BY <1>1
  <2>2. args[n + 1 - i] \in V
    BY <2>1
  <2> QED
    BY <2>2, BindScope
<1>3. /\ names[n + 1 - n] = names[1] /\ args[n + 1 - n] = args[1]
      /\ sc(n) = Bind(names[1], args[1])
  <2>1. n + 1 - n = 1
    BY <1>1
  <2> QED
    BY <2>1
<1>4. \A i \in 1 .. n - 1 : /\ rest[n - 1 + 1 - i] = args[n + 1 - i]
                          /\ more[n - 1 + 1 - i] = names[n + 1 - i]
  <2>1. ASSUME NEW i \in 1 .. n - 1
        PROVE  n - 1 + 1 - i \in 1 .. n - 1 /\ n - 1 + 1 - i + 1 = n + 1 - i
    BY <1>1
  <2>2. \A j \in 1 .. n - 1 : rest[j] = args[j + 1] /\ more[j] = names[j + 1]
    BY DEF Follow
  <2> HIDE DEF n
  <2> QED
    BY <2>1, <2>2
<1>5. Enter(names, args, r) = A \o r
  BY DEF Enter, Follow
<1>6. Enter(more, rest, EnvPush(Bind(names[1], args[1]), r)) = B \o (c \o r)
  <2>1. Enter(more, rest, EnvPush(Bind(names[1], args[1]), r)) =
          [i \in 1 .. n - 1 |-> Bind(more[n - 1 + 1 - i], rest[n - 1 + 1 - i])]
            \o (c \o r)
    BY <1>3 DEF Enter, EnvPush, Follow
  <2>2. [i \in 1 .. n - 1 |-> Bind(more[n - 1 + 1 - i], rest[n - 1 + 1 - i])] = B
    BY <1>4
  <2> QED
    BY <2>1, <2>2
<1>7. /\ A \in [1 .. n -> S] /\ B \in [1 .. n - 1 -> S]
      /\ \A i \in 1 .. n : A[i] = sc(i) /\ \A j \in 1 .. n - 1 : B[j] = sc(j)
  <2>1. \A i \in 1 .. n - 1 : i \in 1 .. n
    BY <1>1
  <2> QED
    BY <1>2, <2>1
<1>7a. \A i \in 1 .. n - 1 : B[i] = A[i]
  <2>1. \A i \in 1 .. n - 1 : i \in 1 .. n
    BY <1>1
  <2> QED
    BY <2>1
<1>7b. A[n] = sc(n) /\ sc(n) \in S
  <2>1. n \in 1 .. n
    BY <1>1
  <2> QED
    BY <1>2, <2>1
<1>8. r \in Seq(S) /\ EnvPush(Bind(names[1], args[1]), r) = c \o r
  BY <1>3 DEF EnvPush
<1> HIDE DEF n, S, sc, A, B
<1>9. A \in Seq(S) /\ B \in Seq(S) /\ Len(A) = n /\ Len(B) = n - 1 /\ c \in Seq(S)
  BY <1>1, <1>7, <1>7b
<1>10. A \o r = B \o (<<Bind(names[1], args[1])>> \o r)
  <2>1. PICK z \in S : z = Bind(names[1], args[1])
    BY <1>3, <1>7b
  <2>2. A[Len(A)] = z /\ Len(A) = Len(B) + 1 /\ \A i \in 1 .. Len(B) : A[i] = B[i]
    BY <1>1, <1>3, <1>7a, <1>7b, <1>9, <2>1
  <2>3. A \o r = B \o (<<z>> \o r)
    <3>1. <<z>> \in Seq(S) /\ Len(<<z>>) = 1 /\ <<z>>[1] = z
      OBVIOUS
    <3>2. PICK o \in Seq(S) : o = <<z>> /\ Len(o) = 1 /\ o[1] = z
      BY <3>1
    <3>3. /\ o \o r \in Seq(S) /\ Len(o \o r) = Len(r) + 1 /\ (o \o r)[1] = z
          /\ \A i \in 1 .. Len(r) : (o \o r)[i + 1] = r[i]
      BY <1>8, <3>2
    <3>4. PICK u \in Seq(S) :
            /\ u = o \o r /\ Len(u) = Len(r) + 1 /\ u[1] = z
            /\ \A i \in 1 .. Len(r) : u[i + 1] = r[i]
      BY <3>3
    <3>5. A \o r = B \o u
      <4>1. Moved(A, B, u, r)
        BY <1>8, <1>9, <2>2, <3>4 DEF Moved
      <4>2. Joined(A, r) = Joined(B, u)
        BY <1>8, <1>9, <4>1, Regrouped
      <4> QED
        BY <4>2 DEF Joined
    <3> QED
      BY <3>2, <3>4, <3>5
  <2> QED
    BY <2>1, <2>3
<1>12. c \o r \in Seq(S) /\ A \o r \in Seq(S)
  BY <1>8, <1>9
<1>13. c = <<Bind(names[1], args[1])>>
  BY <1>3 DEF c
<1> QED
  BY <1>3, <1>5, <1>6, <1>8, <1>10, <1>12, <1>13 DEF S

(* The other names and arguments are entered on top of the first. *)
LEMMA EnterOn ==
    ASSUME NEW V, NEW W, NEW names \in Seq(W), NEW args \in Seq(V), NEW r \in Seq(Scope(V)),
           NEW more \in Seq(W), NEW rest \in Seq(V), Follow(names, args, more, rest),
           NEW q, q = EnvPush(Bind(names[1], args[1]), r)
    PROVE  Enter(names, args, r) = Enter(more, rest, q)
  BY EnterFirst

(* A quoted value means itself. *)
LEMMA QuoteMeans ==
    ASSUME NEW p, NEW k \in Nat, NEW v, NEW r, NEW l, NEW tail, NEW e, e = Lst(<<Sym("quote"), v>>),
           Of(M(p, k), FormTask(e, r, l, tail)).tag # "fuel"
    PROVE  Of(M(p, k), FormTask(e, r, l, tail)) = Ok(v, r, l)
<1>1. FormTask(e, r, l, tail) \in Tasks(Universe) /\ \E j \in Nat : k = j + 1
  BY Answered
<1>2. PICK j \in Nat : k = j + 1
  BY <1>1
<1>3. Of(M(p, k), FormTask(e, r, l, tail)) = EvForm(M(p, j), e, r, l, tail)
  BY <1>1, <1>2, Unfolded
<1>4. e.type = "list" /\ e.items = <<Sym("quote"), v>>
  BY DEF Lst
<1>5. e.items # <<>> /\ e.items[1] = Sym("quote") /\ e.items[2] = v /\ Len(e.items) = 2
  BY <1>4
<1>6. HasForm(e, "quote") /\ WellFormed(e)
  <2>1. HasForm(e, "quote")
    BY <1>4, <1>5 DEF HasForm, IsList
  <2> QED
    BY <1>5, <2>1, FormsApart DEF WellFormed
<1>7. EvForm(M(p, j), e, r, l, tail) = Ok(e.items[2], r, l)
  BY <1>6, FormedQuote
<1> QED
  BY <1>3, <1>5, <1>7

(* ps binds names to quoted args. *)
Quoted(ps, args) ==
    /\ Len(ps) = 2 * Len(args)
    /\ \A i \in 1 .. Len(args) : ps[2 * i] = Lst(<<Sym("quote"), args[i]>>)

(* Binding n quoted arguments one by one enters them all at once. *)
QuotedBind(p, V, W, n) ==
    \A ps \in Seq(W), args \in Seq(V), r \in Seq(Scope(V)), k \in Nat : \A l :
        Len(args) = n /\ Quoted(ps, args) /\ PairsOf(M(p, k), ps, r, l).tag # "fuel" =>
            PairsOf(M(p, k), ps, r, l) = Ok(Nil, Enter(NamesOf(ps), args, r), l)

(* Without arguments there is nothing to bind. *)
LEMMA NoneBound ==
    ASSUME NEW p, NEW V, NEW W
    PROVE  QuotedBind(p, V, W, 0)
<1> SUFFICES ASSUME NEW ps \in Seq(W), NEW args \in Seq(V), NEW r \in Seq(Scope(V)),
                    NEW k \in Nat, NEW l,
                    Len(args) = 0, Quoted(ps, args), PairsOf(M(p, k), ps, r, l).tag # "fuel"
             PROVE  PairsOf(M(p, k), ps, r, l) = Ok(Nil, Enter(NamesOf(ps), args, r), l)
  BY DEF QuotedBind
<1>1. ps = <<>> /\ Len(ps) = 0
  BY DEF Quoted
<1>2. Len(NamesOf(ps)) = 0
  BY <1>1 DEF NamesOf
<1>3. Enter(NamesOf(ps), args, r) = <<>> \o r
  BY <1>2 DEF Enter
<1>4. Enter(NamesOf(ps), args, r) = r
  BY <1>3, ConcatEmptySeq
<1> QED
  BY <1>1, <1>4 DEF PairsOf

(* What QuotedBind says, at one place. *)
LEMMA BoundBy ==
    ASSUME NEW p, NEW V, NEW W, NEW n, QuotedBind(p, V, W, n), NEW ps \in Seq(W), NEW args \in Seq(V),
           NEW r \in Seq(Scope(V)), NEW k \in Nat, NEW l, Len(args) = n, Quoted(ps, args),
           PairsOf(M(p, k), ps, r, l).tag # "fuel"
    PROVE  PairsOf(M(p, k), ps, r, l) = Ok(Nil, Enter(NamesOf(ps), args, r), l)
  BY DEF QuotedBind

(* With one more argument, the first is bound and the others follow. *)
LEMMA OneMoreBound ==
    ASSUME NEW p, NEW V, NEW W, NEW n \in Nat, QuotedBind(p, V, W, n)
    PROVE  QuotedBind(p, V, W, n + 1)
<1> SUFFICES ASSUME NEW ps \in Seq(W), NEW args \in Seq(V), NEW r \in Seq(Scope(V)),
                    NEW k \in Nat, NEW l,
                    Len(args) = n + 1, Quoted(ps, args), PairsOf(M(p, k), ps, r, l).tag # "fuel"
             PROVE  PairsOf(M(p, k), ps, r, l) = Ok(Nil, Enter(NamesOf(ps), args, r), l)
  BY DEF QuotedBind
<1> DEFINE rest == SubSeq(ps, 3, Len(ps))
           q == EnvPush(Bind(ps[1], args[1]), r)
<1>1. /\ Len(ps) = 2 * n + 2 /\ ps # <<>> /\ args # <<>> /\ ps[2] = Lst(<<Sym("quote"), args[1]>>)
  <2>1. Len(ps) = 2 * (n + 1) /\ 1 \in 1 .. Len(args)
    BY DEF Quoted
  <2>2. ps[2 * 1] = Lst(<<Sym("quote"), args[1]>>)
    BY <2>1 DEF Quoted
  <2> QED
    BY <2>1, <2>2
<1>2. PairsOf(M(p, k), ps, r, l) = Of(M(p, k), PairsTask(ps, r, l))
  BY <1>1 DEF PairsOf
<1>3. PairsTask(ps, r, l) \in Tasks(Universe) /\ \E j \in Nat : k = j + 1
  BY <1>2, Answered
<1>4. PICK j \in Nat : k = j + 1
  BY <1>3
<1> DEFINE h == Of(M(p, j), FormTask(ps[2], r, l, "inner"))
<1>5. Of(M(p, k), PairsTask(ps, r, l)) =
        IF h.tag # "value" THEN h
        ELSE PairsOf(M(p, j), rest, EnvPush(Bind(ps[1], h.val), r), h.log)
  BY <1>3, <1>4, Unfolded DEF EvPairs
<1>6. h = Ok(args[1], r, l)
  <2>1. h.tag # "fuel"
    BY <1>2, <1>5
  <2> QED
    BY <1>1, <2>1, QuoteMeans
<1>7. PairsOf(M(p, k), ps, r, l) = PairsOf(M(p, j), rest, q, l)
  <2>1. h.tag = "value" /\ h.val = args[1] /\ h.log = l
    BY <1>6 DEF Ok
  <2> HIDE DEF h
  <2> QED
    BY <1>2, <1>5, <2>1
<1>8. /\ rest \in Seq(W) /\ Len(rest) = 2 * n
      /\ \A i \in 1 .. 2 * n : rest[i] = ps[i + 2]
  <2>1. 3 <= Len(ps) + 1 /\ Len(ps) \in Nat
    BY <1>1
  <2>2. rest \in Seq(W) /\ Len(rest) = Len(ps) - 3 + 1
    <3> HIDE DEF q
    <3>1. 3 \in Nat /\ 3 > 0
      OBVIOUS
    <3> QED
      BY <2>1, <3>1, RestOfSeq
  <2>3. \A i \in 1 .. 2 * n : rest[i] = ps[i + 3 - 1]
    BY <1>1, <2>1
  <2> QED
    BY <1>1, <2>2, <2>3
<1>9. PICK left \in Seq(V) : Len(left) = n /\ \A i \in 1 .. n : left[i] = args[i + 1]
  <2>1. Tail(args) \in Seq(V) /\ Len(Tail(args)) = n /\ \A i \in 1 .. n : Tail(args)[i] = args[i + 1]
    BY <1>1
  <2> QED
    BY <2>1
<1>10. Quoted(rest, left)
  <2> SUFFICES ASSUME NEW i \in 1 .. n PROVE rest[2 * i] = Lst(<<Sym("quote"), left[i]>>)
    BY <1>8, <1>9 DEF Quoted
  <2>1. i + 1 \in 1 .. Len(args) /\ 2 * i \in 1 .. 2 * n /\ 2 * (i + 1) = 2 * i + 2
    OBVIOUS
  <2>2. ps[2 * (i + 1)] = Lst(<<Sym("quote"), args[i + 1]>>)
    BY <2>1 DEF Quoted
  <2>3. rest[2 * i] = ps[2 * i + 2]
    BY <1>8, <2>1
  <2> QED
    BY <1>9, <2>1, <2>2, <2>3
<1>11. /\ NamesOf(ps) \in Seq(W) /\ Len(NamesOf(ps)) = n + 1 /\ NamesOf(ps)[1] = ps[1]
       /\ NamesOf(rest) \in Seq(W) /\ Len(NamesOf(rest)) = n
       /\ \A i \in 1 .. n : NamesOf(rest)[i] = NamesOf(ps)[i + 1]
  <2>1. Len(ps) \div 2 = n + 1 /\ Len(rest) \div 2 = n
    <3>1. (2 * n + 2) \div 2 = n + 1 /\ (2 * n) \div 2 = n
      OBVIOUS
    <3> HIDE DEF rest
    <3> QED
      BY <1>1, <1>8, <3>1
  <2>2. NamesOf(ps) = [i \in 1 .. n + 1 |-> ps[2 * i - 1]]
    BY <2>1 DEF NamesOf
  <2>3. NamesOf(rest) = [i \in 1 .. n |-> ps[2 * i + 1]]
    <3>1. NamesOf(rest) = [i \in 1 .. n |-> rest[2 * i - 1]]
      BY <2>1 DEF NamesOf
    <3>2. \A i \in 1 .. n : 2 * i - 1 \in 1 .. 2 * n /\ 2 * i - 1 + 2 = 2 * i + 1
      OBVIOUS
    <3>3. \A i \in 1 .. n : rest[2 * i - 1] = ps[2 * i + 1]
      BY <1>8, <3>2
    <3> QED
      BY <3>1, <3>3
  <2>4. \A i \in 1 .. n + 1 : ps[2 * i - 1] \in W
    <3> SUFFICES ASSUME NEW i \in 1 .. n + 1 PROVE ps[2 * i - 1] \in W
      OBVIOUS
    <3>1. 2 * i - 1 \in 1 .. Len(ps)
      BY <1>1
    <3> QED
      BY <3>1
  <2>5. NamesOf(ps) \in Seq(W) /\ Len(NamesOf(ps)) = n + 1
    <3>1. NamesOf(ps) \in [1 .. n + 1 -> W]
      BY <2>2, <2>4
    <3> QED
      BY <3>1
  <2>6. NamesOf(ps)[1] = ps[1]
    BY <2>2
  <2>7. ASSUME NEW i \in 1 .. n
        PROVE  NamesOf(rest)[i] = NamesOf(ps)[i + 1] /\ ps[2 * i + 1] \in W
    <3>1. i + 1 \in 1 .. n + 1 /\ 2 * (i + 1) - 1 = 2 * i + 1
      OBVIOUS
    <3>2. NamesOf(ps)[i + 1] = ps[2 * (i + 1) - 1]
      BY <2>2, <3>1
    <3>3. ps[2 * (i + 1) - 1] \in W
      BY <2>4, <3>1
    <3> QED
      BY <2>3, <3>1, <3>2, <3>3
  <2>8. NamesOf(rest) \in Seq(W) /\ Len(NamesOf(rest)) = n
    <3>1. NamesOf(rest) \in [1 .. n -> W]
      BY <2>3, <2>7
    <3> QED
      BY <3>1
  <2> QED
    BY <2>5, <2>6, <2>7, <2>8
<1>12. q \in Seq(Scope(V)) /\ Enter(NamesOf(ps), args, r) = Enter(NamesOf(rest), left, q)
  <2>1. PICK names \in Seq(W) : names = NamesOf(ps)
    BY <1>11
  <2>2. PICK more \in Seq(W) : more = NamesOf(rest)
    BY <1>11
  <2> HIDE DEF rest, q
  <2>3. names[1] = ps[1] /\ Follow(names, args, more, left)
    BY <1>1, <1>9, <1>11, <2>1, <2>2 DEF Follow
  <2> HIDE DEF h
  <2>4. Follow(names, args, more, left)
    BY <2>3
  <2>5. EnvPush(Bind(names[1], args[1]), r) \in Seq(Scope(V))
    BY <2>4, EnterFirst
  <2>6. PICK on : on = EnvPush(Bind(names[1], args[1]), r)
    OBVIOUS
  <2>7. Enter(names, args, r) = Enter(more, left, on)
    BY <2>4, <2>6, EnterOn
  <2> QED
    BY <2>1, <2>2, <2>3, <2>5, <2>6, <2>7 DEF q
<1> HIDE DEF rest, q, h
<1>13. PairsOf(M(p, j), rest, q, l) = Ok(Nil, Enter(NamesOf(rest), left, q), l)
  <2>1. PairsOf(M(p, j), rest, q, l).tag # "fuel"
    BY <1>7
  <2>2. Len(left) = n /\ rest \in Seq(W) /\ q \in Seq(Scope(V))
    BY <1>8, <1>9, <1>12
  <2>3. PICK some \in Seq(W) : some = rest
    BY <2>2
  <2>4. PICK qq \in Seq(Scope(V)) : qq = q
    BY <2>2
  <2>5. PairsOf(M(p, j), some, qq, l).tag # "fuel" /\ Quoted(some, left) /\ Len(left) = n
    BY <1>10, <2>1, <2>2, <2>3, <2>4
  <2>6. PairsOf(M(p, j), some, qq, l) = Ok(Nil, Enter(NamesOf(some), left, qq), l)
    BY <2>5 DEF QuotedBind
  <2> QED
    BY <2>3, <2>4, <2>6
<1> QED
  BY <1>7, <1>12, <1>13

(* Any number of quoted arguments is bound to the names. *)
LEMMA AllBound ==
    ASSUME NEW p, NEW V, NEW W, NEW n \in Nat
    PROVE  QuotedBind(p, V, W, n)
<1> DEFINE Bad == {m \in Nat : ~ QuotedBind(p, V, W, m)}
<1>1. Bad = {}
  <2> SUFFICES ASSUME Bad # {} PROVE FALSE
    OBVIOUS
  <2>1. Bad \in SUBSET Nat
    OBVIOUS
  <2> HIDE DEF Bad
  <2>2. PICK m \in Bad : \A i \in Bad : m <= i
    BY <2>1, LeastOfNaturals
  <2>3. m \in Nat /\ ~ QuotedBind(p, V, W, m)
    BY <2>2 DEF Bad
  <2>4. m # 0
    BY <2>3, NoneBound
  <2>5. m - 1 \in Nat /\ m - 1 + 1 = m /\ m - 1 \notin Bad
    BY <2>2, <2>3, <2>4
  <2>6. QuotedBind(p, V, W, m - 1)
    BY <2>5 DEF Bad
  <2>7. QuotedBind(p, V, W, m - 1 + 1)
    BY <2>5, <2>6, OneMoreBound
  <2> QED
    BY <2>3, <2>5, <2>7
<1> QED
  BY <1>1

(* Half of an even number, doubled. *)
LEMMA EvenHalf ==
    ASSUME NEW m \in Nat, m % 2 = 0
    PROVE  m \div 2 \in Nat /\ m = 2 * (m \div 2)
  OBVIOUS

(* A loop with pairs and a body has its shape. *)
LEMMA LoopWellFormed ==
    ASSUME NEW e, HasForm(e, "loop"), Len(e.items) = 3,
           e.items[2].type = "list", Len(e.items[2].items) % 2 = 0
    PROVE  WellFormed(e)
<1>1. \A y : HasForm(e, y) => y = "loop"
  BY FormsApart
<1> QED
  BY <1>1 DEF WellFormed

(* The loop that handle_recur makes means the next round of the loop.      *)
AgainWith(V, target, args) ==
    /\ V \subseteq Universe /\ target.op = "loop-target" /\ FrameReady(target)
    /\ Len(args) = Len(target.rest) \div 2

(* The loop that handle_recur builds from quoted arguments means the next  *)
(* round.                                                                  *)
LEMMA NewLoopMeans ==
    ASSUME NEW p, NEW V, NEW target, NEW args, NEW k \in Nat,
           NEW l, NEW tail, NEW form, NEW within, NEW around, NEW body,
           target \in FrameOver(V), args \in Seq(V), form = NewLoop(target, args), within = target.env,
           around = NamesOf(target.rest), body = target.body,
           AgainWith(V, target, args), Of(M(p, k), FormTask(form, within, l, tail)).tag # "fuel"
    PROVE  Of(M(p, k), FormTask(form, within, l, tail)) =
             NextRound(M(p, k), around, body, args, within, l)
<1>a. /\ V \subseteq Universe /\ target.op = "loop-target" /\ FrameReady(target)
      /\ Len(args) = Len(target.rest) \div 2
  BY DEF AgainWith
<1> USE <1>a
<1> SUFFICES Of(M(p, k), FormTask(NewLoop(target, args), target.env, l, tail)) =
             NextRound(M(p, k), NamesOf(target.rest), target.body, args, target.env, l)
  OBVIOUS
<1> DEFINE e == NewLoop(target, args)
           r == target.env
           ps == Rebind(target.rest, args)
           names == NamesOf(target.rest)
           n == Len(args)
<1>1. /\ target.rest \in Seq(V) /\ r \in EnvOver(V) /\ Len(target.rest) \in Nat
      /\ Len(target.rest) >= 2 /\ Len(target.rest) % 2 = 0
  <2>1. target.rest \in Seq(V) /\ target.env \in EnvOver(V)
    BY FrameFields
  <2>2. Len(target.rest) >= 2 /\ Len(target.rest) % 2 = 0
    BY DEF FrameReady
  <2>3. Len(target.rest) \in Nat
    BY <2>1
  <2> QED
    BY <2>1, <2>2, <2>3
<1>2. /\ e.type = "list" /\ e.items = <<Sym("loop"), Lst(ps), target.body>>
      /\ Lst(ps).type = "list" /\ Lst(ps).items = ps
  BY DEF NewLoop, Lst
<1>3. /\ ps = [i \in 1 .. Len(target.rest) |-> ps[i]] /\ Len(ps) = Len(target.rest)
      /\ \A i \in 1 .. Len(target.rest) : ps[i] =
            IF i % 2 = 1 THEN target.rest[i] ELSE Lst(<<Sym("quote"), args[i \div 2]>>)
  <2>1. PICK m \in Nat : m = Len(target.rest)
    BY <1>1
  <2>2. ps = [i \in 1 .. m |-> IF i % 2 = 1 THEN target.rest[i]
                               ELSE Lst(<<Sym("quote"), args[i \div 2]>>)]
    BY <2>1 DEF Rebind
  <2>3. Len(ps) = m
    BY <2>2
  <2> HIDE DEF ps
  <2> QED
    BY <2>1, <2>2, <2>3
<1>4. n \in Nat /\ Len(target.rest) = 2 * n /\ Len(target.rest) \div 2 = n
  <2>1. PICK m \in Nat : m = Len(target.rest) /\ m % 2 = 0
    BY <1>1
  <2>2. m \div 2 \in Nat /\ m = 2 * (m \div 2)
    BY <2>1, EvenHalf
  <2>3. n = m \div 2
    <3> HIDE DEF ps
    <3> QED
      BY <2>1
  <2> QED
    BY <2>1, <2>2, <2>3
<1> HIDE DEF ps, n
<1>5. HasForm(e, "loop") /\ WellFormed(e) /\ e.items[2].items = ps /\ e.items[3] = target.body
      /\ ps # <<>>
  <2>1. HasForm(e, "loop") /\ ~HasForm(e, "quote") /\ ~HasForm(e, "if") /\ ~HasForm(e, "do")
    BY <1>2 DEF HasForm, IsList, Sym
  <2>2. Len(e.items) = 3 /\ e.items[2] = Lst(ps) /\ e.items[3] = target.body
    BY <1>2
  <2>3. ps # <<>>
    BY <1>1, <1>3
  <2> HIDE DEF e
  <2> QED
    <3>1. Lst(ps).type = "list" /\ Len(Lst(ps).items) % 2 = 0
      BY <1>1, <1>2, <1>3
    <3>2. e.items[2].type = "list" /\ Len(e.items[2].items) % 2 = 0
      BY <2>2, <3>1
    <3>3. WellFormed(e)
      BY <2>1, <2>2, <3>2, LoopWellFormed
    <3> QED
      BY <1>2, <2>1, <2>2, <2>3, <3>3
<1>6. Quoted(ps, args)
  <2> SUFFICES ASSUME NEW i \in 1 .. n PROVE ps[2 * i] = Lst(<<Sym("quote"), args[i]>>)
    BY <1>3, <1>4 DEF Quoted, n
  <2>1. 2 * i \in 1 .. 2 * n /\ (2 * i) % 2 # 1 /\ (2 * i) \div 2 = i
    BY <1>4
  <2> QED
    BY <1>3, <1>4, <2>1
<1>7. NamesOf(ps) = names
  <2>1. NamesOf(ps) = [i \in 1 .. n |-> ps[2 * i - 1]] /\ names = [i \in 1 .. n |-> target.rest[2 * i - 1]]
    BY <1>3, <1>4 DEF NamesOf
  <2>2. ASSUME NEW i \in 1 .. n PROVE ps[2 * i - 1] = target.rest[2 * i - 1]
    <3>1. 2 * i - 1 \in 1 .. 2 * n /\ (2 * i - 1) % 2 = 1
      BY <1>4
    <3> QED
      BY <1>3, <1>4, <3>1
  <2> QED
    BY <2>1, <2>2
<1>8. Len(names) = n
  BY <1>4 DEF NamesOf
<1> HIDE DEF e, names
<1>9. FormTask(e, r, l, tail) \in Tasks(Universe) /\ \E j \in Nat : k = j + 1
  BY Answered DEF e
<1>10. PICK j \in Nat : k = j + 1
  BY <1>9
<1> DEFINE b == PairsOf(M(p, j), ps, r, l)
           q == Enter(names, args, r)
<1>11. Of(M(p, k), FormTask(e, r, l, tail)) = EvEntry(M(p, j), ps, names, target.body, r, l)
  <2>1. Of(M(p, k), FormTask(e, r, l, tail)) = EvForm(M(p, j), e, r, l, tail)
    BY <1>9, <1>10, Unfolded
  <2> QED
    BY <1>5, <1>7, <2>1, MReads, FormedLoop
<1>12. EvEntry(M(p, j), ps, names, target.body, r, l) =
         IF b.tag # "value" THEN b
         ELSE Of(M(p, j), RoundsTask(names, target.body, b.env, Tail(b.env), b.log))
  BY MReads DEF EvEntry
<1>13. b.tag # "fuel"
  BY <1>11, <1>12 DEF e
<1>14. b = Ok(Nil, q, l)
  <2>1. b = Of(M(p, j), PairsTask(ps, r, l))
    BY <1>5 DEF PairsOf
  <2>2. PairsTask(ps, r, l) \in Tasks(Universe)
    BY <1>13, <2>1, Answered
  <2>3. ps \in Seq(Universe)
    BY <2>2 DEF PairsTask, Tasks
  <2>4. r \in Seq(Scope(Universe)) /\ args \in Seq(Universe)
    <3>1. EnvOver(V) \subseteq EnvOver(Universe) /\ Seq(V) \subseteq Seq(Universe)
      BY EnvGrows
    <3> QED
      BY <1>1, <3>1 DEF EnvOver
  <2>5. QuotedBind(p, Universe, Universe, n)
    BY <1>4, AllBound
  <2> HIDE DEF b, r
  <2> QED
    <3>1. PairsOf(M(p, j), ps, r, l).tag # "fuel" /\ Len(args) = n
      BY <1>13 DEF b, n
    <3>2. PairsOf(M(p, j), ps, r, l) = Ok(Nil, Enter(NamesOf(ps), args, r), l)
      BY <1>6, <2>3, <2>4, <2>5, <3>1, BoundBy
    <3> QED
      BY <1>7, <3>2 DEF b
<1>15. Of(M(p, k), FormTask(e, r, l, tail)) = Of(M(p, j), RoundsTask(names, target.body, q, Tail(q), l))
  <2>1. b.tag = "value" /\ b.env = q /\ b.log = l
    BY <1>14 DEF Ok
  <2> HIDE DEF b, q
  <2> QED
    BY <1>11, <1>12, <2>1
<1>16. NextRound(M(p, k), names, target.body, args, r, l) =
         Of(M(p, k), RoundsTask(names, target.body, q, Tail(q), l))
  BY <1>8, MReads DEF NextRound, n
<1>17. More(M(p, j), M(p, k))
  BY <1>10, MMore
<1> HIDE DEF q
<1> QED
  BY <1>15, <1>16, <1>17, MoreAt DEF e, names
-----------------------------------------------------------------------------
(* The state follows the meaning of the program *)

(* Tasks that the steps made so far have gone through, at most. *)
Pot == 2 * steps + (IF ctl = "step" THEN 1 ELSE 0)

(* The program that runs, and the answers to its effects. *)
Job == [text |-> program, answers |-> answers]

(* Whatever is left to do comes to what the program means. *)
Follows ==
    /\ status = "running" /\ ctl = "step" => FormTold(Job, Pot, expr, env, log, stack)
    /\ status = "running" /\ ctl = "deliver" => ValueTold(Job, Pot, expr, env, log, stack)
    /\ status = "suspended" =>
        FormTold(Job, Pot, answers[effect[1].name], env, log, stack)
    /\ status = "done" => Of(M(Job, Pot), StartOf(Job)) = Ok(expr, env, log)
    /\ status = "error" /\ error # "suspended" => ErrorTold(Job, Pot, error, log)
    /\ status = "aborted" => ErrorTold(Job, Pot, "aborted", log)

(* Following, after a step that goes on with a form. *)
LEMMA RunFollows ==
    ASSUME NEW n, n = 2 * steps' + 1, status = "running", program' = program, answers' = answers,
           NEW e, NEW r, NEW s, Run(e, r, s), FormTold(Job, n, e, r, log, s)
    PROVE  Follows'
<1>1. /\ status' = "running" /\ ctl' = "step" /\ expr' = e /\ env' = r /\ stack' = s /\ log' = log
  BY DEF Run
<1>2. Pot' = n /\ Job' = Job
  BY <1>1 DEF Pot, Job
<1> QED
  BY <1>1, <1>2 DEF Follows

(* Following, after a step that goes on with a value. *)
LEMMA DeliverFollows ==
    ASSUME NEW n, n = 2 * steps', steps' \in Nat, status = "running", program' = program, answers' = answers,
           NEW v, NEW r, NEW s, Deliver(v, r, s), ValueTold(Job, n, v, r, log, s)
    PROVE  Follows'
<1>1. status' = "running" /\ ctl' = "deliver" /\ expr' = v /\ env' = r /\ stack' = s /\ log' = log
  BY DEF Deliver
<1>2. Pot' = n /\ Job' = Job
  BY <1>1 DEF Pot, Job
<1> QED
  BY <1>1, <1>2 DEF Follows

(* Following, after a step that fails. *)
LEMMA FailFollows ==
    ASSUME NEW n, n = 2 * steps' + 1, program' = program, answers' = answers,
           NEW kind, Fail(kind), ErrorTold(Job, n, kind, log)
    PROVE  Follows'
<1>1. status' = "error" /\ ctl' = "step" /\ error' = kind /\ log' = log
  BY DEF Fail
<1>2. Pot' = n /\ Job' = Job
  BY <1>1 DEF Pot, Job
<1> QED
  BY <1>1, <1>2 DEF Follows

(* Following, after a step that aborts. *)
LEMMA AbortFollows ==
    ASSUME NEW n, n = 2 * steps' + 1, program' = program, answers' = answers,
           Abort, ErrorTold(Job, n, "aborted", log)
    PROVE  Follows'
<1>1. status' = "aborted" /\ ctl' = "step" /\ log' = log
  BY DEF Abort
<1>2. Pot' = n /\ Job' = Job
  BY <1>1 DEF Pot, Job
<1> QED
  BY <1>1, <1>2 DEF Follows

(* Following, after a step that suspends on an effect. *)
LEMMA SuspendFollows ==
    ASSUME NEW n, n = 2 * steps' + 1, program' = program, answers' = answers,
           NEW name, NEW args, NEW s, Suspend(name, args, s),
           FormTold(Job, n, answers[name], env,
                    Append(log, [name |-> name, args |-> args]), s)
    PROVE  Follows'
<1>1. /\ status' = "suspended" /\ ctl' = "step" /\ env' = env /\ stack' = s
      /\ log' = Append(log, [name |-> name, args |-> args]) /\ effect'[1].name = name
  BY DEF Suspend
<1>2. Pot' = n /\ Job' = Job
  BY <1>1 DEF Pot, Job
<1> QED
  BY <1>1, <1>2 DEF Follows

-----------------------------------------------------------------------------
(* step_eval *)

(* A form that comes to a value, or to an error, at once. *)
LEMMA ValueAtOnce ==
    ASSUME NEW V, NEW r, NEW l, NEW s, Whole(V, r, l, s), NEW p, NEW n \in Nat,
           NEW e \in V, FormTold(p, n, e, r, l, s), NEW v,
           \A k \in Nat : EvForm(M(p, k), e, r, l, TailOf(s)) = Ok(v, r, l)
    PROVE  ValueTold(p, n + 1, v, r, l, s)
<1>1. s \in Stack(V) /\ s \in Seq(ReadyFrame(V)) /\ V \subseteq Universe /\ r \in EnvOver(V) /\ l \in Requests(V)
  BY DEF Stack, Whole
<1>2. TailOf(s) \in Tails
  BY <1>1, PushedTail
<1>3. FormTask(e, r, l, TailOf(s)) \in Tasks(Universe)
  BY <1>1, <1>2, WholeTasks
<1> DEFINE D == [k \in Nat |-> Ok(v, r, l)]
<1>4. \A k \in Nat : D[k] = Ok(v, r, l)
  OBVIOUS
<1> HIDE DEF D
<1>5. ASSUME NEW k \in Nat PROVE Told(p, n, k + 1, D[k], s)
  <2>1. Of(M(p, k + 1), FormTask(e, r, l, TailOf(s))) = EvForm(M(p, k), e, r, l, TailOf(s))
    BY <1>3, Unfolded
  <2>2. Told(p, n, k + 1, Of(M(p, k + 1), FormTask(e, r, l, TailOf(s))), s)
    BY DEF FormTold
  <2> QED
    BY <1>4, <2>1, <2>2
<1>6. Leads(p, n, 1, D, s)
  BY <1>5 DEF Leads
<1> QED
  BY <1>1, <1>4, <1>6, ToValue

(* A form that means an error with any fuel is what the program comes to. *)
LEMMA ErrorAtOnce ==
    ASSUME NEW V, NEW r, NEW l, NEW s, Whole(V, r, l, s), NEW p, NEW n \in Nat,
           NEW e \in V, FormTold(p, n, e, r, l, s), NEW kind,
           \A k \in Nat : EvForm(M(p, k), e, r, l, TailOf(s)) = Error(kind, l)
    PROVE  ErrorTold(p, n + 2, kind, l)
<1>1. Leads(p, n, 2, Evaluation(p, e, r, l, s), s) /\ s \in Stack(V)
  BY EvalLeads DEF Whole
<1>2. Evaluation(p, e, r, l, s)[0] = Error(kind, l)
  BY DEF Evaluation
<1> QED
  BY <1>1, <1>2, ToError

(* A form whose value is that of another, in place of it or on a frame. *)
LEMMA FormInPlace ==
    ASSUME NEW V, NEW r, NEW l, NEW s, Whole(V, r, l, s), NEW p, NEW n \in Nat,
           NEW e \in V, FormTold(p, n, e, r, l, s), NEW d,
           \A k \in Nat : Of(M(p, k), FormTask(d, r, l, TailOf(s))).tag # "fuel" =>
                EvForm(M(p, k + 1), e, r, l, TailOf(s)) = Of(M(p, k), FormTask(d, r, l, TailOf(s)))
    PROVE  FormTold(p, n + 2, d, r, l, s)
<1>1. Leads(p, n, 2, Evaluation(p, e, r, l, s), s) /\ s \in Stack(V)
  BY EvalLeads DEF Whole
<1>2. \A k \in Nat : Evaluation(p, e, r, l, s)[k] = EvForm(M(p, k + 1), e, r, l, TailOf(s))
  BY DEF Evaluation
<1>3. PICK D : D = Evaluation(p, e, r, l, s)
  OBVIOUS
<1>4. \A k \in Nat : Of(M(p, k), FormTask(d, r, l, TailOf(s))).tag # "fuel" =>
                D[k] = Of(M(p, k), FormTask(d, r, l, TailOf(s)))
  BY <1>2, <1>3
<1> QED
  BY <1>1, <1>3, <1>4, ToForm

(* A form that means what a frame makes of another is told as that one     *)
(* above the frame.                                                        *)
LEMMA FormOnFrame ==
    ASSUME NEW V, NEW r, NEW l, NEW s, Whole(V, r, l, s), NEW p, NEW n \in Nat,
           NEW e \in V, FormTold(p, n, e, r, l, s), NEW d, NEW fr, fr.op # "loop-target",
           \A k \in Nat : Feed(M(p, k), fr, Of(M(p, k), FormTask(d, r, l, "inner")), TailOf(s)).tag # "fuel" =>
                EvForm(M(p, k + 1), e, r, l, TailOf(s)) =
                Feed(M(p, k), fr, Of(M(p, k), FormTask(d, r, l, "inner")), TailOf(s))
    PROVE  FormTold(p, n + 2, d, r, l, Push(s, fr))
<1>1. Leads(p, n, 2, Evaluation(p, e, r, l, s), s) /\ s \in Stack(V)
  BY EvalLeads DEF Whole
<1>2. \A k \in Nat : Evaluation(p, e, r, l, s)[k] = EvForm(M(p, k + 1), e, r, l, TailOf(s))
  BY DEF Evaluation
<1>3. PICK D : D = Evaluation(p, e, r, l, s)
  OBVIOUS
<1>4. PICK tail : tail = "inner"
  OBVIOUS
<1>5. Framed(p, D, fr, d, r, l, tail, s)
  BY <1>2, <1>3, <1>4 DEF Framed
<1>6. tail = IF fr.op = "loop-target" THEN "loop" ELSE "inner"
  BY <1>4
<1> QED
  BY <1>1, <1>3, <1>5, <1>6, ToPushed

(* A state in which the machine follows the program, all of it made of V.  *)
OnTrack(V) ==
    /\ TypeOK /\ StateOver(V) /\ Whole(V, env, log, stack)
    /\ Follows

(* What form expr comes to with k fuel, in the state there is. *)
Comes(k) == EvForm(M(Job, k), expr, env, log, TailOf(stack))

(* What a step that evaluates starts from. *)
LEMMA EvalTold ==
    ASSUME NEW V, OnTrack(V), StepCall
    PROVE  /\ status = "running" /\ program' = program /\ answers' = answers
           /\ steps' \in Nat /\ Pot \in Nat /\ Pot + 1 = 2 * steps' /\ Pot + 2 = 2 * steps' + 1
           /\ expr \in V /\ FormTold(Job, Pot, expr, env, log, stack)
           /\ Whole(V, env, log, stack)
<1>1. steps \in Nat /\ MaxSteps \in Nat
  BY StepAssumption DEF OnTrack, TypeOK
<1> QED
  BY <1>1 DEF OnTrack, StepCall, Follows, Pot, StateOver

(* A step that delivers what the form comes to, or fails as it does. *)
LEMMA EvalDelivers ==
    ASSUME NEW V, OnTrack(V), StepCall, NEW v, Deliver(v, env, stack),
           \A k \in Nat : Comes(k) = Ok(v, env, log)
    PROVE  Follows'
<1>1. /\ status = "running" /\ program' = program /\ answers' = answers
      /\ steps' \in Nat /\ Pot \in Nat /\ Pot + 1 = 2 * steps'
      /\ expr \in V /\ FormTold(Job, Pot, expr, env, log, stack) /\ Whole(V, env, log, stack)
  BY EvalTold
<1>n. PICK n \in Nat : n = Pot
  BY <1>1
<1>2. PICK p : p = Job /\ n = Pot
  BY <1>n
<1>3. \A k \in Nat : EvForm(M(p, k), expr, env, log, TailOf(stack)) = Ok(v, env, log)
  BY <1>2 DEF Comes
<1>4. ValueTold(p, n + 1, v, env, log, stack)
  BY <1>1, <1>2, <1>3, ValueAtOnce
<1>5. ValueTold(Job, Pot + 1, v, env, log, stack)
  BY <1>2, <1>4
<1> QED
  BY <1>1, <1>5, DeliverFollows

(* A step that fails on its form follows the meaning. *)
LEMMA EvalFails ==
    ASSUME NEW V, OnTrack(V), StepCall, NEW kind, Fail(kind),
           \A k \in Nat : Comes(k) = Error(kind, log)
    PROVE  Follows'
<1>1. /\ program' = program /\ answers' = answers /\ Pot \in Nat /\ Pot + 2 = 2 * steps' + 1
      /\ expr \in V /\ FormTold(Job, Pot, expr, env, log, stack) /\ Whole(V, env, log, stack)
  BY EvalTold
<1>n. PICK n \in Nat : n = Pot
  BY <1>1
<1>2. PICK p : p = Job /\ n = Pot
  BY <1>n
<1>3. \A k \in Nat : EvForm(M(p, k), expr, env, log, TailOf(stack)) = Error(kind, log)
  BY <1>2 DEF Comes
<1>4. ErrorTold(p, n + 2, kind, log)
  BY <1>1, <1>2, <1>3, ErrorAtOnce
<1>5. ErrorTold(Job, Pot + 2, kind, log)
  BY <1>2, <1>4
<1> QED
  BY <1>1, <1>5, FailFollows

(* A step to a form in place of the form, or above a frame. *)
LEMMA EvalRuns ==
    ASSUME NEW V, OnTrack(V), StepCall, NEW d, Run(d, env, stack),
           \A k \in Nat : Of(M(Job, k), FormTask(d, env, log, TailOf(stack))).tag # "fuel" =>
                Comes(k + 1) = Of(M(Job, k), FormTask(d, env, log, TailOf(stack)))
    PROVE  Follows'
<1>1. /\ status = "running" /\ program' = program /\ answers' = answers
      /\ Pot \in Nat /\ Pot + 2 = 2 * steps' + 1
      /\ expr \in V /\ FormTold(Job, Pot, expr, env, log, stack) /\ Whole(V, env, log, stack)
  BY EvalTold
<1>n. PICK n \in Nat : n = Pot
  BY <1>1
<1>2. PICK p : p = Job /\ n = Pot
  BY <1>n
<1>3. \A k \in Nat : Of(M(p, k), FormTask(d, env, log, TailOf(stack))).tag # "fuel" =>
        EvForm(M(p, k + 1), expr, env, log, TailOf(stack))
            = Of(M(p, k), FormTask(d, env, log, TailOf(stack)))
  BY <1>2 DEF Comes
<1>4. FormTold(p, n + 2, d, env, log, stack)
  BY <1>1, <1>2, <1>3, FormInPlace
<1>5. FormTold(Job, Pot + 2, d, env, log, stack)
  BY <1>2, <1>4
<1> QED
  BY <1>1, <1>5, RunFollows

(* A step that pushes a frame for a part of its form follows the meaning. *)
LEMMA EvalPushes ==
    ASSUME NEW V, OnTrack(V), StepCall, NEW d, NEW fr, fr.op # "loop-target",
           Run(d, env, Push(stack, fr)),
           \A k \in Nat :
              Feed(M(Job, k), fr, Of(M(Job, k), FormTask(d, env, log, "inner")), TailOf(stack)).tag # "fuel" =>
                Comes(k + 1) =
                Feed(M(Job, k), fr, Of(M(Job, k), FormTask(d, env, log, "inner")), TailOf(stack))
    PROVE  Follows'
<1>1. /\ status = "running" /\ program' = program /\ answers' = answers
      /\ Pot \in Nat /\ Pot + 2 = 2 * steps' + 1
      /\ expr \in V /\ FormTold(Job, Pot, expr, env, log, stack) /\ Whole(V, env, log, stack)
  BY EvalTold
<1>n. PICK n \in Nat : n = Pot
  BY <1>1
<1>2. PICK p : p = Job /\ n = Pot
  BY <1>n
<1>3. \A k \in Nat : Feed(M(p, k), fr, Of(M(p, k), FormTask(d, env, log, "inner")), TailOf(stack)).tag # "fuel" =>
        EvForm(M(p, k + 1), expr, env, log, TailOf(stack))
            = Feed(M(p, k), fr, Of(M(p, k), FormTask(d, env, log, "inner")), TailOf(stack))
  BY <1>2 DEF Comes
<1>4. FormTold(p, n + 2, d, env, log, Push(stack, fr))
  BY <1>1, <1>2, <1>3, FormOnFrame
<1>5. FormTold(Job, Pot + 2, d, env, log, Push(stack, fr))
  BY <1>2, <1>4
<1> QED
  BY <1>1, <1>5, RunFollows

(* What is no list of a special form comes to, and what one that is of the *)
(* wrong shape.                                                            *)
LEMMA FormedAtom ==
    ASSUME NEW f, NEW e, NEW r, NEW l, NEW tail, e.type # "symbol", ~IsList(e)
    PROVE  EvForm(f, e, r, l, tail) = Ok(e, r, l)
  BY DEF EvForm

(* A symbol that is bound means its value. *)
LEMMA FormedSymbol ==
    ASSUME NEW f, NEW e, NEW r, NEW l, NEW tail, NEW v,
           e.type = "symbol", v = Lookup(e.name, r), v # NULL
    PROVE  EvForm(f, e, r, l, tail) = Ok(v, r, l)
  BY DEF EvForm

(* A symbol that is not bound means an error. *)
LEMMA FormedUnbound ==
    ASSUME NEW f, NEW e, NEW r, NEW l, NEW tail, e.type = "symbol", Lookup(e.name, r) = NULL
    PROVE  EvForm(f, e, r, l, tail) = Error("undefined symbol", l)
  BY DEF EvForm

(* A special form of the wrong shape means an error. *)
LEMMA FormedMisshapen ==
    ASSUME NEW f, NEW e, NEW r, NEW l, NEW tail, NEW x, HasForm(e, x), ~WellFormed(e)
    PROVE  EvForm(f, e, r, l, tail) = Error(x, l)
  BY FormsApart DEF EvForm

(* The form that a step looks at. *)
LEMMA FormHere ==
    ASSUME NEW x, Form(x)
    PROVE  /\ IsForm /\ IsList(expr) /\ HasForm(expr, x) /\ expr.type # "symbol"
           /\ \A y : HasForm(expr, y) => y = x
<1>1. IsForm /\ IsList(expr) /\ HasForm(expr, x) /\ expr.type # "symbol"
  BY DEF Form, IsForm, IsList, HasForm, Item
<1> QED
  BY <1>1, FormsApart

(* Its items after the first one. *)
LEMMA ItemsAfter ==
    ASSUME NEW S, NEW items \in Seq(S), Len(items) > 1
    PROVE  \E es \in Seq(S) :
                /\ es = Tail(items) /\ es # <<>> /\ Len(es) = Len(items) - 1 /\ es[1] = items[2]
                /\ \E rest \in Seq(S) : rest = Tail(es) /\ rest = SubSeq(items, 3, Len(items))
<1> DEFINE es == Tail(items)
           rest == Tail(es)
<1>1. es \in Seq(S) /\ Len(es) = Len(items) - 1 /\ es[1] = items[2] /\ es # <<>>
  <2>1. es \in Seq(S) /\ Len(es) = Len(items) - 1 /\ es[1] = items[2] /\ Len(items) \in Nat
    OBVIOUS
  <2> HIDE DEF es
  <2> QED
    BY <2>1
<1>2. rest \in Seq(S) /\ Len(rest) = Len(items) - 2 /\ \A i \in 1 .. Len(items) - 2 : rest[i] = items[i + 2]
  <2>1. Len(es) > 0 /\ \A i \in 1 .. Len(items) - 1 : es[i] = items[i + 1]
    OBVIOUS
  <2> HIDE DEF es
  <2>2. rest \in Seq(S) /\ Len(rest) = Len(es) - 1 /\ \A i \in 1 .. Len(es) - 1 : rest[i] = es[i + 1]
    BY <1>1, <2>1
  <2> QED
    BY <1>1, <2>1, <2>2
<1>3. SubSeq(items, 3, Len(items)) = [i \in 1 .. Len(items) - 2 |-> items[i + 2]]
  OBVIOUS
<1>4. rest = [i \in 1 .. Len(items) - 2 |-> rest[i]]
  <2> HIDE DEF rest
  <2> QED
    BY <1>2
<1>5. rest = SubSeq(items, 3, Len(items))
  BY <1>2, <1>3, <1>4
<1> QED
  BY <1>1, <1>2, <1>5

(* Atoms, symbols, the empty list, quote and fn come to a value at once.   *)
LEMMA EvalAtomOnTrack == ASSUME NEW V, OnTrack(V), EvalAtom \/ EvalEmptyList PROVE Follows'
<1>1. StepCall /\ Deliver(expr, env, stack) /\ expr.type # "symbol" /\ ~IsList(expr)
  BY DEF EvalAtom, EvalEmptyList, Atoms, IsList
<1>2. \A k \in Nat : Comes(k) = Ok(expr, env, log)
  BY <1>1, FormedAtom DEF Comes
<1> QED
  BY <1>1, <1>2, EvalDelivers

(* The innermost scope that binds a symbol is where Lookup finds it. *)
LEMMA LookupFound ==
    ASSUME NEW y, NEW r, NEW i \in DOMAIN r, DOMAIN r \subseteq Nat \ {0}, Innermost(i, y, r)
    PROVE  Lookup(y, r) = r[i][y]
<1>1. ASSUME NEW j \in DOMAIN r, Innermost(j, y, r) PROVE j = i
  BY <1>1 DEF Innermost
<1> QED
  BY <1>1 DEF Lookup

(* A symbol evaluated. *)
LEMMA EvalSymbolOnTrack == ASSUME NEW V, OnTrack(V), EvalSymbol PROVE Follows'
<1>1. StepCall /\ expr.type = "symbol"
  BY DEF EvalSymbol
<1>2. /\ env \in EnvOver(V) /\ V \subseteq Universe /\ Closed(V) /\ expr \in V
  BY <1>1, EvalTold DEF Whole
<1>3. env \in Seq(Scope(V)) /\ DOMAIN env = 1 .. Len(env) /\ Len(env) \in Nat
  BY <1>2 DEF EnvOver
<1>4. CASE /\ \A i \in DOMAIN env : env[i][expr.name] = NULL
           /\ Fail("undefined symbol")
  <2>1. Lookup(expr.name, env) = NULL
    BY <1>4 DEF Lookup, Innermost
  <2>2. \A k \in Nat : Comes(k) = Error("undefined symbol", log)
    BY <1>1, <2>1, FormedUnbound DEF Comes
  <2> QED
    BY <1>1, <1>4, <2>2, EvalFails
<1>5. ASSUME NEW i \in DOMAIN env, FoundAt(i, expr.name), Deliver(env[i][expr.name], env, stack)
      PROVE  Follows'
  <2>1. Lookup(expr.name, env) = env[i][expr.name]
    BY <1>3, <1>5, LookupFound DEF FoundAt, Innermost
  <2>2. env[i][expr.name] # NULL
    BY <1>5 DEF FoundAt
  <2>3. PICK v : v = env[i][expr.name]
    OBVIOUS
  <2>4. \A k \in Nat : Comes(k) = Ok(v, env, log)
    <3>1. v = Lookup(expr.name, env) /\ v # NULL
      BY <2>1, <2>2, <2>3
    <3> QED
      BY <1>1, <3>1, FormedSymbol DEF Comes
  <2> QED
    BY <1>1, <1>5, <2>3, <2>4, EvalDelivers
<1> QED
  BY <1>4, <1>5 DEF EvalSymbol

(* A form of the wrong shape. *)
LEMMA EvalMisshapen ==
    ASSUME NEW V, OnTrack(V), StepCall, NEW x, Form(x), ~WellFormed(expr), Fail(x)
    PROVE  Follows'
<1>1. \A k \in Nat : Comes(k) = Error(x, log)
  BY FormHere, FormedMisshapen DEF Comes
<1> QED
  BY <1>1, EvalFails

(* A quote evaluated. *)
LEMMA EvalQuoteOnTrack == ASSUME NEW V, OnTrack(V), EvalQuote PROVE Follows'
<1>1. StepCall /\ Form("quote") /\ HasForm(expr, "quote") /\ \A y : HasForm(expr, y) => y = "quote"
  BY FormHere DEF EvalQuote
<1>2. WellFormed(expr) <=> Size = 2
  BY <1>1 DEF WellFormed, Size
<1>3. CASE Size # 2 /\ Fail("quote")
  BY <1>1, <1>2, <1>3, EvalMisshapen
<1>4. CASE Size = 2 /\ Deliver(Item(2), env, stack)
  <2>1. \A k \in Nat : Comes(k) = Ok(Item(2), env, log)
    BY <1>1, <1>2, <1>4, FormedQuote DEF Comes, Item
  <2> QED
    BY <1>1, <1>4, <2>1, EvalDelivers
<1> QED
  BY <1>3, <1>4 DEF EvalQuote

(* A fn evaluated. *)
LEMMA EvalFnOnTrack == ASSUME NEW V, OnTrack(V), EvalFn PROVE Follows'
<1>1. StepCall /\ Form("fn") /\ HasForm(expr, "fn") /\ \A y : HasForm(expr, y) => y = "fn"
  BY FormHere DEF EvalFn
<1>2. WellFormed(expr) <=> WellFormedFn
  BY <1>1 DEF WellFormed, WellFormedFn, Size, Item
<1>3. CASE ~WellFormedFn /\ Fail("fn")
  BY <1>1, <1>2, <1>3, EvalMisshapen
<1>4. CASE /\ WellFormedFn
           /\ Deliver([type |-> "closure", params |-> Item(2).items,
                       body |-> Item(3), env |-> env], env, stack)
  <2>1. PICK v : v = [type |-> "closure", params |-> Item(2).items, body |-> Item(3), env |-> env]
    OBVIOUS
  <2>2. \A k \in Nat : Comes(k) = Ok(v, env, log)
    BY <1>1, <1>2, <1>4, <2>1, FormedFn DEF Comes, Item
  <2> QED
    BY <1>1, <1>4, <2>1, <2>2, EvalDelivers
<1> QED
  BY <1>3, <1>4 DEF EvalFn

(* The other forms go to one of their parts. *)
LEMMA EvalIfOnTrack == ASSUME NEW V, OnTrack(V), EvalIf PROVE Follows'
<1>1. StepCall /\ Form("if") /\ HasForm(expr, "if") /\ \A y : HasForm(expr, y) => y = "if"
  BY FormHere DEF EvalIf
<1>2. WellFormed(expr) <=> Size = 4
  BY <1>1 DEF WellFormed, Size
<1>3. CASE Size # 4 /\ Fail("if")
  BY <1>1, <1>2, <1>3, EvalMisshapen
<1>4. CASE Size = 4 /\ Run(Item(2), env, Push(stack, IfFrame(Item(3), Item(4))))
  <2>1. PICK fr : fr = IfFrame(Item(3), Item(4))
    OBVIOUS
  <2>2. PICK d : d = Item(2)
    OBVIOUS
  <2>3. ASSUME NEW k \in Nat,
               Feed(M(Job, k), fr, Of(M(Job, k), FormTask(d, env, log, "inner")), TailOf(stack)).tag # "fuel"
        PROVE  Comes(k + 1) =
               Feed(M(Job, k), fr, Of(M(Job, k), FormTask(d, env, log, "inner")), TailOf(stack))
    <3>1. EvForm(M(Job, k), expr, env, log, TailOf(stack)) =
             Feed(M(Job, k), fr, Of(M(Job, k), FormTask(d, env, log, "inner")), TailOf(stack))
      BY <1>1, <1>2, <1>4, <2>1, <2>2, MReads, FormedIf DEF Item
    <3>2. More(M(Job, k), M(Job, k + 1))
      BY MMore
    <3> QED
      BY <2>3, <3>1, <3>2, FormMore DEF Comes
  <2>4. fr.op # "loop-target"
    BY <2>1 DEF IfFrame
  <2> QED
    BY <1>1, <1>4, <2>1, <2>2, <2>3, <2>4, EvalPushes
<1> QED
  BY <1>3, <1>4 DEF EvalIf

(* A do evaluated. *)
LEMMA EvalDoOnTrack == ASSUME NEW V, OnTrack(V), EvalDo PROVE Follows'
<1>1. StepCall /\ Form("do") /\ HasForm(expr, "do") /\ \A y : HasForm(expr, y) => y = "do"
  BY FormHere DEF EvalDo
<1>2. WellFormed(expr) <=> Size >= 2
  BY <1>1 DEF WellFormed, Size
<1>3. expr.items \in Seq(V) /\ Size = Len(expr.items) /\ Size \in Nat /\ Whole(V, env, log, stack)
  BY <1>1, FormHere, FormItems DEF OnTrack, Whole, Size
<1>4. TailOf(stack) \in Tails
  <2>1. stack \in Seq(ReadyFrame(V))
    BY <1>3 DEF Whole, Stack
  <2> QED
    BY <2>1, PushedTail
<1>5. CASE Size < 2 /\ Fail("do")
  BY <1>1, <1>2, <1>3, <1>5, EvalMisshapen
<1>6. CASE Size >= 2
  <2>1. PICK es \in Seq(V) :
            /\ es = Tail(expr.items) /\ es # <<>> /\ Len(es) = Size - 1 /\ es[1] = Item(2)
            /\ \E rest \in Seq(V) : rest = Tail(es) /\ rest = SubSeq(expr.items, 3, Size)
    <3>1. PICK items \in Seq(V) : items = expr.items /\ Len(items) = Size /\ Len(items) > 1
      BY <1>3, <1>6
    <3>2. \E es \in Seq(V) :
            /\ es = Tail(items) /\ es # <<>> /\ Len(es) = Len(items) - 1 /\ es[1] = items[2]
            /\ \E rest \in Seq(V) : rest = Tail(es) /\ rest = SubSeq(items, 3, Len(items))
      BY <3>1, ItemsAfter
    <3> QED
      BY <3>1, <3>2, Zenon DEF Item
  <2>2. PICK rest \in Seq(V) : rest = Tail(es) /\ rest = SubSeq(expr.items, 3, Size)
    BY <2>1
  <2>3. PICK d : d = Item(2) /\ d = es[1]
    BY <2>1
  <2>4. PICK tail \in Tails : tail = TailOf(stack)
    BY <1>4
  <2>5. ASSUME NEW k \in Nat
        PROVE  Comes(k + 1) =
                IF Len(es) = 1 THEN Of(M(Job, k), FormTask(d, env, log, tail))
                ELSE Feed(M(Job, k), DoFrame(rest), Of(M(Job, k), FormTask(d, env, log, "inner")), tail)
    <3>1. Comes(k + 1) = Of(M(Job, k + 1), LastTask(es, env, log, tail))
      BY <1>1, <1>2, <1>6, <2>1, <2>4, FormedDo DEF Comes
    <3>2. PICK p : p = Job
      OBVIOUS
    <3>3. Of(M(p, k + 1), LastTask(es, env, log, tail)) =
             IF Len(es) = 1 THEN Of(M(p, k), FormTask(es[1], env, log, tail))
             ELSE Feed(M(p, k), DoFrame(Tail(es)), Of(M(p, k), FormTask(es[1], env, log, "inner")), tail)
      BY <1>3, LastUnfolds
    <3> QED
      BY <2>2, <2>3, <3>1, <3>2, <3>3
  <2>6. CASE Size = 2 /\ Run(Item(2), env, stack)
    <3>1. Len(es) = 1
      BY <2>1, <2>6
    <3>2. Run(d, env, stack)
      BY <2>3, <2>6
    <3>3. \A k \in Nat : Of(M(Job, k), FormTask(d, env, log, TailOf(stack))).tag # "fuel" =>
                Comes(k + 1) = Of(M(Job, k), FormTask(d, env, log, TailOf(stack)))
      BY <2>4, <2>5, <3>1
    <3> QED
      BY <1>1, <3>2, <3>3, EvalRuns
  <2>7. CASE Size > 2 /\ Run(Item(2), env, Push(stack, DoFrame(SubSeq(expr.items, 3, Size))))
    <3>1. Len(es) # 1
      BY <1>3, <2>1, <2>7
    <3>2. PICK fr : fr = DoFrame(rest)
      OBVIOUS
    <3>3. Run(d, env, Push(stack, fr)) /\ fr.op # "loop-target"
      BY <2>2, <2>3, <2>7, <3>2 DEF DoFrame
    <3>4. \A k \in Nat :
              Feed(M(Job, k), fr, Of(M(Job, k), FormTask(d, env, log, "inner")), TailOf(stack)).tag # "fuel" =>
                Comes(k + 1) =
                Feed(M(Job, k), fr, Of(M(Job, k), FormTask(d, env, log, "inner")), TailOf(stack))
      BY <2>4, <2>5, <3>1, <3>2
    <3> QED
      BY <1>1, <3>3, <3>4, EvalPushes
  <2> QED
    BY <1>1, <1>3, <1>6, <2>6, <2>7 DEF EvalDo
<1> QED
  BY <1>1, <1>3, <1>5, <1>6 DEF EvalDo

(* A call evaluated. *)
LEMMA EvalCallOnTrack == ASSUME NEW V, OnTrack(V), EvalCall PROVE Follows'
<1>1. StepCall /\ IsForm /\ IsList(expr) /\ (\A x \in SpecialForms : ~HasForm(expr, x))
      /\ Run(Item(1), env, Push(stack, CallFrame(NULL, <<>>, Tail(expr.items))))
  BY DEF EvalCall, IsForm, IsList, Item, HasForm
<1>2. PICK fr : fr = CallFrame(NULL, <<>>, Tail(expr.items))
  OBVIOUS
<1>3. PICK d : d = Item(1)
  OBVIOUS
<1>4. ASSUME NEW k \in Nat,
             Feed(M(Job, k), fr, Of(M(Job, k), FormTask(d, env, log, "inner")), TailOf(stack)).tag # "fuel"
      PROVE  Comes(k + 1) =
             Feed(M(Job, k), fr, Of(M(Job, k), FormTask(d, env, log, "inner")), TailOf(stack))
  <2>1. EvForm(M(Job, k), expr, env, log, TailOf(stack)) =
           Feed(M(Job, k), fr, Of(M(Job, k), FormTask(d, env, log, "inner")), TailOf(stack))
    BY <1>1, <1>2, <1>3, MReads, FormedCall DEF Item
  <2>2. More(M(Job, k), M(Job, k + 1))
    BY MMore
  <2> QED
    BY <1>4, <2>1, <2>2, FormMore DEF Comes
<1>5. fr.op # "loop-target" /\ Run(d, env, Push(stack, fr))
  BY <1>1, <1>2, <1>3 DEF CallFrame
<1> QED
  BY <1>1, <1>4, <1>5, EvalPushes

(* let and loop start with their first pair, or with their body. *)
LEMMA BinderHere ==
    ASSUME NEW V, OnTrack(V), NEW x \in {"let", "loop"}, Form(x)
    PROVE  /\ WellFormed(expr) <=> Binder
           /\ Binder => /\ Bindings \in Seq(V) /\ Bindings = expr.items[2].items
                        /\ Body = expr.items[3]
<1>1. HasForm(expr, x) /\ IsForm /\ \A y : HasForm(expr, y) => y = x
  BY FormHere
<1>2. WellFormed(expr) <=> Binder
  BY <1>1 DEF WellFormed, Binder, Size, Item
<1>3. Binder => Bindings \in Seq(V)
  BY <1>1, BinderItems DEF OnTrack, Whole
<1> QED
  BY <1>2, <1>3 DEF Bindings, Body, Item

(* A let evaluated. *)
LEMMA EvalLetOnTrack == ASSUME NEW V, OnTrack(V), EvalLet PROVE Follows'
<1>1. StepCall /\ Form("let") /\ HasForm(expr, "let") /\ "let" \in {"let", "loop"}
  BY FormHere DEF EvalLet
<1>2. /\ WellFormed(expr) <=> Binder
      /\ Binder => /\ Bindings \in Seq(V) /\ Bindings = expr.items[2].items
                   /\ Body = expr.items[3]
  BY <1>1, BinderHere
<1>3. CASE ~Binder /\ Fail("let")
  BY <1>1, <1>2, <1>3, EvalMisshapen
<1>4. ASSUME NEW k \in Nat, Binder
      PROVE  Comes(k) = IF Bindings # <<>> /\ Bindings[1].type # "symbol" THEN Error("let name", log)
                        ELSE EvBody(M(Job, k), Bindings, Body, env, log, TailOf(stack))
  <2>1. WellFormed(expr)
    BY <1>2, <1>4
  <2>2. LET ps == expr.items[2].items
        IN  EvForm(M(Job, k), expr, env, log, TailOf(stack)) =
              IF ps # <<>> /\ ps[1].type # "symbol" THEN Error("let name", log)
              ELSE EvBody(M(Job, k), ps, expr.items[3], env, log, TailOf(stack))
    BY <1>1, <2>1, FormedLet
  <2> QED
    BY <1>2, <1>4, <2>2 DEF Comes
<1>5. CASE Binder /\ Bindings = <<>> /\ Run(Body, env, stack)
  <2>1. PICK d : d = Body
    OBVIOUS
  <2>2. ASSUME NEW k \in Nat, Of(M(Job, k), FormTask(d, env, log, TailOf(stack))).tag # "fuel"
        PROVE  Comes(k + 1) = Of(M(Job, k), FormTask(d, env, log, TailOf(stack)))
    <3>1. Comes(k + 1) = EvBody(M(Job, k + 1), Bindings, Body, env, log, TailOf(stack))
      BY <1>4, <1>5
    <3>2. EvBody(M(Job, k + 1), Bindings, Body, env, log, TailOf(stack)) =
            Of(M(Job, k + 1), FormTask(d, env, log, TailOf(stack)))
      BY <1>5, <2>1 DEF EvBody, PairsOf, Ok
    <3>3. More(M(Job, k), M(Job, k + 1))
      BY MMore
    <3> QED
      BY <2>2, <3>1, <3>2, <3>3, MoreAt
  <2> QED
    BY <1>1, <1>5, <2>1, <2>2, EvalRuns
<1>6. CASE Binder /\ Bindings # <<>> /\ Bindings[1].type # "symbol" /\ Fail("let name")
  <2>1. \A k \in Nat : Comes(k) = Error("let name", log)
    BY <1>4, <1>6
  <2> QED
    BY <1>1, <1>6, <2>1, EvalFails
<1>7. CASE /\ Binder /\ Bindings # <<>> /\ Bindings[1].type = "symbol"
           /\ Run(Bindings[2], env, Push(stack, LetFrame(Bindings, Body, env)))
  <2>1. PICK d : d = Bindings[2]
    OBVIOUS
  <2>2. PICK ps \in Seq(V) : ps = Bindings /\ ps # <<>>
    BY <1>2, <1>7
  <2>3. PICK fr : fr = LetFrame(ps, Body, env)
    OBVIOUS
  <2>4. PICK p : p = Job
    OBVIOUS
  <2>5. Whole(V, env, log, stack)
    BY DEF OnTrack
  <2>6. ASSUME NEW k \in Nat,
               Feed(M(p, k), fr, Of(M(p, k), FormTask(d, env, log, "inner")), TailOf(stack)).tag # "fuel"
        PROVE  Comes(k + 1) = Feed(M(p, k), fr, Of(M(p, k), FormTask(d, env, log, "inner")), TailOf(stack))
    <3>1. Comes(k + 1) = EvBody(M(p, k + 1), ps, Body, env, log, TailOf(stack))
      BY <1>4, <1>7, <2>2, <2>4
    <3>2. EvBody(M(p, k + 1), ps, Body, env, log, TailOf(stack)) =
            Feed(M(p, k), LetFrame(ps, Body, env), Of(M(p, k), FormTask(ps[2], env, log, "inner")), TailOf(stack))
      <4>1. Feed(M(p, k), LetFrame(ps, Body, env), Of(M(p, k), FormTask(ps[2], env, log, "inner")), TailOf(stack)).tag # "fuel"
        BY <2>1, <2>2, <2>3, <2>6
      <4> QED
        BY <2>2, <2>5, <4>1, BodyUnfolds
    <3> QED
      BY <2>1, <2>2, <2>3, <3>1, <3>2
  <2>7. fr.op # "loop-target" /\ Run(d, env, Push(stack, fr))
    BY <1>7, <2>1, <2>2, <2>3 DEF LetFrame
  <2> QED
    BY <1>1, <2>4, <2>6, <2>7, EvalPushes
<1> QED
  BY <1>3, <1>5, <1>6, <1>7 DEF EvalLet

(* A loop evaluated. *)
LEMMA EvalLoopOnTrack == ASSUME NEW V, OnTrack(V), EvalLoop PROVE Follows'
<1>1. StepCall /\ Form("loop") /\ HasForm(expr, "loop") /\ "loop" \in {"let", "loop"}
  BY FormHere DEF EvalLoop
<1>2. /\ WellFormed(expr) <=> Binder
      /\ Binder => /\ Bindings \in Seq(V) /\ Bindings = expr.items[2].items
                   /\ Body = expr.items[3]
  BY <1>1, BinderHere
<1>3. CASE ~Binder /\ Fail("loop")
  BY <1>1, <1>2, <1>3, EvalMisshapen
<1>4. ASSUME NEW k \in Nat, Binder
      PROVE  Comes(k) = IF Bindings = <<>> THEN Of(M(Job, k), FormTask(Body, env, log, TailOf(stack)))
                        ELSE EvEntry(M(Job, k), Bindings, NamesOf(Bindings), Body, env, log)
  BY <1>1, <1>2, <1>4, MReads, FormedLoop DEF Comes
<1>5. CASE Binder /\ Bindings = <<>> /\ Run(Body, env, stack)
  <2>1. PICK d : d = Body
    OBVIOUS
  <2>2. ASSUME NEW k \in Nat, Of(M(Job, k), FormTask(d, env, log, TailOf(stack))).tag # "fuel"
        PROVE  Comes(k + 1) = Of(M(Job, k), FormTask(d, env, log, TailOf(stack)))
    <3>1. Comes(k + 1) = Of(M(Job, k + 1), FormTask(d, env, log, TailOf(stack)))
      BY <1>4, <1>5, <2>1
    <3>3. More(M(Job, k), M(Job, k + 1))
      BY MMore
    <3> QED
      BY <2>2, <3>1, <3>3, MoreAt
  <2> QED
    BY <1>1, <1>5, <2>1, <2>2, EvalRuns
<1>7. CASE /\ Binder /\ Bindings # <<>>
           /\ Run(Bindings[2], env, Push(stack, LoopFrame(Bindings, Body, env, Bindings)))
  <2>1. PICK d : d = Bindings[2]
    OBVIOUS
  <2>2. PICK ps \in Seq(V) : ps = Bindings /\ ps # <<>>
    BY <1>2, <1>7
  <2>3. PICK fr : fr = LoopFrame(ps, Body, env, ps)
    OBVIOUS
  <2>4. PICK p : p = Job
    OBVIOUS
  <2>5. Whole(V, env, log, stack)
    BY DEF OnTrack
  <2>6. ASSUME NEW k \in Nat,
               Feed(M(p, k), fr, Of(M(p, k), FormTask(d, env, log, "inner")), TailOf(stack)).tag # "fuel"
        PROVE  Comes(k + 1) = Feed(M(p, k), fr, Of(M(p, k), FormTask(d, env, log, "inner")), TailOf(stack))
    <3>1. Comes(k + 1) = EvEntry(M(p, k + 1), ps, NamesOf(ps), Body, env, log)
      BY <1>4, <1>7, <2>2, <2>4
    <3>2. EvEntry(M(p, k + 1), ps, NamesOf(ps), Body, env, log) =
            Feed(M(p, k), LoopFrame(ps, Body, env, ps), Of(M(p, k), FormTask(ps[2], env, log, "inner")), TailOf(stack))
      <4>1. Feed(M(p, k), LoopFrame(ps, Body, env, ps), Of(M(p, k), FormTask(ps[2], env, log, "inner")), TailOf(stack)).tag # "fuel"
        BY <2>1, <2>2, <2>3, <2>6
      <4> QED
        <5>1. PICK tail, orig, body, r, l, s : tail = TailOf(stack) /\ orig = ps /\ body = Body /\ r = env /\ l = log /\ s = stack
          OBVIOUS
        <5>2. Feed(M(p, k), LoopFrame(ps, body, r, orig), Of(M(p, k), FormTask(ps[2], r, l, "inner")), tail).tag # "fuel"
          BY <4>1, <5>1
        <5>3. EvEntry(M(p, k + 1), ps, NamesOf(orig), body, r, l) =
                Feed(M(p, k), LoopFrame(ps, body, r, orig), Of(M(p, k), FormTask(ps[2], r, l, "inner")), tail)
          <6>1. Whole(V, r, l, s)
              BY <2>5, <5>1
            <6>2. ps # <<>>
              BY <2>2
            <6> QED
              BY <5>2, <6>1, <6>2, EntryUnfolds
        <5> QED
          BY <5>1, <5>3
    <3> QED
      BY <2>1, <2>2, <2>3, <3>1, <3>2
  <2>7. fr.op # "loop-target" /\ Run(d, env, Push(stack, fr))
    BY <1>7, <2>1, <2>2, <2>3 DEF LoopFrame
  <2> QED
    BY <1>1, <2>4, <2>6, <2>7, EvalPushes
<1> QED
  BY <1>3, <1>5, <1>7 DEF EvalLoop

(* The jump below its loop leads to the next round. *)
LEMMA JumpLeads ==
    ASSUME NEW V, NEW s, NEW p, NEW n \in Nat, NEW g \in Nat, NEW D, NEW args, NEW l,
           NEW target, NEW rest, NEW E,
           s \in Stack(V), s # <<>>, target = s[Len(s)], rest = SubSeq(s, 1, Len(s) - 1),
           target.op = "loop-target", Leads(p, n, g, D, s), \A k \in Nat : D[k] = Jump(args, l),
           E = [k \in Nat |-> NextRound(M(p, k + g), NamesOf(target.rest), target.body, args, target.env, l)]
    PROVE  Leads(p, n, g, E, rest)
<1>1. s = Push(rest, target) /\ rest \in Stack(V)
  BY Topped
<1>2. rest \in Seq(ReadyFrame(V))
  BY <1>1 DEF Stack
<1> SUFFICES ASSUME NEW k \in Nat PROVE Told(p, n, k + g, E[k], rest)
  BY DEF Leads
<1>3. PICK c : c = Jump(args, l)
  OBVIOUS
<1>4. Told(p, n, k + g, c, Push(rest, target))
  BY <1>1, <1>3 DEF Leads
<1>5. Told(p, n, k + g, Feed(M(p, k + g), target, c, TailOf(rest)), rest)
  BY <1>2, <1>4, PoppedTold
<1>6. Feed(M(p, k + g), target, c, TailOf(rest)) =
        NextRound(M(p, k + g), NamesOf(target.rest), target.body, args, target.env, l)
  BY <1>3 DEF Feed, Jump
<1> QED
  BY <1>5, <1>6

(* The rest of one item is empty. *)
LEMMA OneItem == ASSUME NEW V, NEW items \in Seq(V), Len(items) = 1 PROVE Tail(items) = <<>>
<1>1. items # <<>>
  OBVIOUS
<1>2. Tail(items) \in Seq(V) /\ Len(Tail(items)) = Len(items) - 1
  BY <1>1
<1>3. PICK t : t = Tail(items)
  OBVIOUS
<1>4. t \in Seq(V) /\ Len(t) = 0
  BY <1>2, <1>3
<1>5. t = <<>>
  BY <1>4
<1> QED
  BY <1>3, <1>5

(* Half a natural number, rounded down, is one. *)
LEMMA HalfIsNat == ASSUME NEW m \in Nat PROVE m \div 2 \in Nat
  OBVIOUS

(* What handle_recur makes of the arguments is what their jump comes to. *)
LEMMA RecurOnTrack ==
    ASSUME NEW V, NEW s, NEW n \in Nat, NEW g \in Nat, NEW D, NEW args \in Seq(V),
           V \subseteq Universe, s \in Stack(V), n + g = 2 * steps' + 1,
           Leads(Job, n, g, D, s), \A k \in Nat : D[k] = EvJump(args, log, TailOf(s)),
           status = "running", program' = program, answers' = answers, HandleRecur(args, s)
    PROVE  Follows'
<1>1. PICK q : q = Job
  OBVIOUS
<1>2. CASE s = <<>> /\ Fail("recur outside loop")
  <2>1. D[0] = Error("recur outside loop", log)
    BY <1>2, TailIs DEF EvJump
  <2>2. ErrorTold(q, n + g, "recur outside loop", log)
    BY <1>1, <2>1, ToError
  <2> QED
    BY <1>1, <1>2, <2>2, FailFollows
<1>3. CASE s # <<>> /\ s[Len(s)].op # "loop-target" /\ Fail("recur not in tail position")
  <2>1. D[0] = Error("recur not in tail position", log)
    BY <1>3, TailIs DEF EvJump
  <2>2. ErrorTold(q, n + g, "recur not in tail position", log)
    BY <1>1, <2>1, ToError
  <2> QED
    BY <1>1, <1>3, <2>2, FailFollows
<1>4. CASE s # <<>> /\ s[Len(s)].op = "loop-target"
  <2>1. PICK target, rest : target = s[Len(s)] /\ rest = SubSeq(s, 1, Len(s) - 1)
    OBVIOUS
  <2>2. rest \in Stack(V) /\ target \in ReadyFrame(V)
    BY <1>4, <2>1, Topped
  <2>3. q = Job /\ \A k \in Nat : D[k] = Jump(args, log)
    BY <1>1, <1>4, TailIs DEF EvJump
  <2>4. PICK E : E = [k \in Nat |-> NextRound(M(q, k + g), NamesOf(target.rest), target.body, args, target.env, log)]
    OBVIOUS
  <2>5. Leads(q, n, g, E, rest)
    BY <1>4, <2>1, <2>3, <2>4, JumpLeads
  <2>6. CASE Len(args) # Len(target.rest) \div 2 /\ Fail("recur arity")
    <3>1. Len(NamesOf(target.rest)) = Len(target.rest) \div 2
      <4>1. target.rest \in Seq(V)
        BY <1>4, <2>1, <2>2, FrameFields DEF ReadyFrame
      <4>0. PICK m \in Nat : m = Len(target.rest)
        BY <4>1
      <4>h. m \div 2 \in Nat
        BY HalfIsNat
      <4>2. PICK h \in Nat : h = Len(target.rest) \div 2
        BY <4>0, <4>h
      <4>3. NamesOf(target.rest) = [i \in 1 .. h |-> target.rest[2 * i - 1]]
        BY <4>2 DEF NamesOf
      <4> QED
        BY <4>2, <4>3
    <3>2. E[0] = Error("recur arity", log)
      BY <2>4, <2>6, <3>1 DEF NextRound
    <3>3. ErrorTold(q, n + g, "recur arity", log)
      BY <2>2, <2>5, <3>2, ToError
    <3> QED
      BY <2>3, <2>6, <3>3, FailFollows
  <2>7. CASE Len(args) = Len(target.rest) \div 2 /\ Restart(target, args, rest)
    <3>1. PICK e : e = NewLoop(target, args)
      OBVIOUS
    <3>2. PICK tail : tail = TailOf(rest)
      OBVIOUS
    <3>4. PICK r, l : r = target.env /\ l = log
      OBVIOUS
    <3>3. ASSUME NEW k \in Nat, Of(M(q, k), FormTask(e, r, l, tail)).tag # "fuel"
          PROVE  E[k] = Of(M(q, k), FormTask(e, r, l, tail))
      <4>1. target \in FrameOver(V) /\ FrameReady(target) /\ target.op = "loop-target"
        BY <1>4, <2>1, <2>2 DEF ReadyFrame
      <4>2. Of(M(q, k), FormTask(e, r, l, tail)) =
              NextRound(M(q, k), NamesOf(target.rest), target.body, args, r, l)
        <5>1. AgainWith(V, target, args)
          BY <2>7, <4>1 DEF AgainWith
        <5>2. PICK around, body : around = NamesOf(target.rest) /\ body = target.body
          OBVIOUS
        <5>3. Of(M(q, k), FormTask(e, r, l, tail)) = NextRound(M(q, k), around, body, args, r, l)
          BY <3>1, <3>3, <3>4, <4>1, <5>1, <5>2, NewLoopMeans
        <5> QED
          BY <5>2, <5>3
      <4>3. More(M(q, k), M(q, k + g))
        BY MMore
      <4>4. E[k] = NextRound(M(q, k + g), NamesOf(target.rest), target.body, args, r, l)
        BY <2>4, <3>4
      <4>5. NextRound(M(q, k), NamesOf(target.rest), target.body, args, r, l).tag # "fuel"
        BY <3>1, <3>3, <4>2
      <4>6. NextRound(M(q, k + g), NamesOf(target.rest), target.body, args, r, l) =
              NextRound(M(q, k), NamesOf(target.rest), target.body, args, r, l)
        BY <4>3, <4>5, NextRoundMore
      <4> QED
        BY <3>1, <4>2, <4>4, <4>6
    <3>5. FormTold(q, n + g, e, r, log, rest)
      <4>1. \A k \in Nat : Of(M(q, k), FormTask(e, r, log, TailOf(rest))).tag # "fuel" =>
                E[k] = Of(M(q, k), FormTask(e, r, log, TailOf(rest)))
        BY <3>2, <3>3, <3>4
      <4> QED
        BY <2>2, <2>5, <4>1, ToForm
    <3>6. Run(e, r, rest)
      BY <2>7, <3>1, <3>4 DEF Restart
    <3> QED
      BY <2>3, <3>5, <3>6, RunFollows
  <2> QED
    BY <1>4, <2>1, <2>6, <2>7 DEF HandleRecur
<1> QED
  BY <1>2, <1>3, <1>4 DEF HandleRecur

(* A recur evaluated. *)
LEMMA EvalRecurOnTrack == ASSUME NEW V, OnTrack(V), EvalRecur PROVE Follows'
<1>1. StepCall /\ Form("recur") /\ HasForm(expr, "recur") /\ \A y : HasForm(expr, y) => y = "recur"
  BY FormHere DEF EvalRecur
<1>2. WellFormed(expr)
  BY <1>1 DEF WellFormed
<1>3. expr.items \in Seq(V) /\ Size = Len(expr.items) /\ Size \in Nat /\ Size > 0
      /\ Whole(V, env, log, stack)
  BY <1>1, FormHere, FormItems DEF OnTrack, Whole, Size
<1>4. /\ status = "running" /\ program' = program /\ answers' = answers
      /\ Pot \in Nat /\ Pot + 2 = 2 * steps' + 1
      /\ expr \in V /\ FormTold(Job, Pot, expr, env, log, stack)
  BY <1>1, EvalTold
<1>n. PICK none \in Seq(V) : none = <<>>
  <2>1. <<>> \in Seq(V)
    OBVIOUS
  <2> QED
    BY <2>1
<1>t. PICK after : after = Tail(expr.items)
  OBVIOUS
<1>5. ASSUME NEW k \in Nat
      PROVE  Comes(k) = JumpRest(M(Job, k), none, after, env, log, TailOf(stack))
  BY <1>1, <1>2, <1>n, <1>t, FormedRecur DEF Comes
<1>6. CASE Size = 1 /\ HandleRecur(<<>>, stack)
  <2>1. Tail(expr.items) = <<>>
    <3>1. PICK items \in Seq(V) : items = expr.items /\ Len(items) = 1
      BY <1>3, <1>6
    <3> QED
      BY <3>1, OneItem
  <2>3. PICK p : p = Job
    OBVIOUS
  <2>4. PICK n \in Nat : n = Pot
    BY <1>4
  <2>5. PICK D : D = Evaluation(p, expr, env, log, stack)
    OBVIOUS
  <2>6. Leads(p, n, 2, D, stack)
    BY <1>3, <1>4, <2>3, <2>4, <2>5, EvalLeads
  <2>7. ASSUME NEW k \in Nat PROVE D[k] = EvJump(none, log, TailOf(stack))
    <3>1. D[k] = Comes(k + 1)
      BY <2>3, <2>5 DEF Evaluation, Comes
    <3>2. Comes(k + 1) = JumpRest(M(Job, k + 1), none, after, env, log, TailOf(stack))
      BY <1>5
    <3>3. after = <<>>
      BY <1>t, <2>1
    <3> QED
      BY <3>1, <3>2, <3>3 DEF JumpRest, EachOf, Ok
  <2> QED
    <3>1. V \subseteq Universe /\ stack \in Stack(V) /\ n + 2 = 2 * steps' + 1 /\ HandleRecur(none, stack)
      BY <1>3, <1>4, <1>6, <1>n, <2>4 DEF Whole
    <3>2. Leads(Job, n, 2, D, stack)
      BY <2>3, <2>6
    <3> QED
      BY <1>4, <2>7, <3>1, <3>2, RecurOnTrack
<1>7. CASE Size > 1 /\ Run(Item(2), env, Push(stack, RecurFrame(<<>>, SubSeq(expr.items, 3, Size))))
  <2>1. PICK es \in Seq(V) :
            /\ es = Tail(expr.items) /\ es # <<>> /\ Len(es) = Size - 1 /\ es[1] = Item(2)
            /\ \E rest \in Seq(V) : rest = Tail(es) /\ rest = SubSeq(expr.items, 3, Size)
    <3>1. PICK items \in Seq(V) : items = expr.items /\ Len(items) = Size /\ Len(items) > 1
      BY <1>3, <1>7
    <3>2. \E es \in Seq(V) :
            /\ es = Tail(items) /\ es # <<>> /\ Len(es) = Len(items) - 1 /\ es[1] = items[2]
            /\ \E rest \in Seq(V) : rest = Tail(es) /\ rest = SubSeq(items, 3, Len(items))
      BY <3>1, ItemsAfter
    <3> QED
      BY <3>1, <3>2, Zenon DEF Item
  <2>2. PICK rest \in Seq(V) : rest = Tail(es) /\ rest = SubSeq(expr.items, 3, Size)
    BY <2>1
  <2>3. PICK d : d = Item(2) /\ d = es[1]
    BY <2>1
  <2>5. PICK fr : fr = RecurFrame(none, rest)
    OBVIOUS
  <2>6. PICK p, tail : p = Job /\ tail = TailOf(stack)
    OBVIOUS
  <2>7. ASSUME NEW k \in Nat,
               Feed(M(p, k), fr, Of(M(p, k), FormTask(d, env, log, "inner")), tail).tag # "fuel"
        PROVE  Comes(k + 1) = Feed(M(p, k), fr, Of(M(p, k), FormTask(d, env, log, "inner")), tail)
    <3>1. Comes(k + 1) = JumpRest(M(p, k + 1), none, es, env, log, tail)
      BY <1>5, <1>t, <2>1, <2>6
    <3>2. Feed(M(p, k), RecurFrame(none, Tail(es)), Of(M(p, k), FormTask(es[1], env, log, "inner")), tail).tag # "fuel"
      BY <2>2, <2>3, <2>5, <2>7
    <3>3. JumpRest(M(p, k + 1), none, es, env, log, tail) =
           Feed(M(p, k), RecurFrame(none, Tail(es)), Of(M(p, k), FormTask(es[1], env, log, "inner")), tail)
      <4>1. PICK r, l, s : r = env /\ l = log /\ s = stack
        OBVIOUS
      <4>2. Whole(V, r, l, s) /\ es # <<>>
        BY <1>3, <2>1, <4>1
      <4>3. Feed(M(p, k), RecurFrame(none, Tail(es)), Of(M(p, k), FormTask(es[1], r, l, "inner")), tail).tag # "fuel"
        BY <3>2, <4>1
      <4>4. JumpRest(M(p, k + 1), none, es, r, l, tail) =
              Feed(M(p, k), RecurFrame(none, Tail(es)), Of(M(p, k), FormTask(es[1], r, l, "inner")), tail)
        BY <4>2, <4>3, JumpUnfolds
      <4> QED
        BY <4>1, <4>4
    <3> QED
      BY <2>2, <2>3, <2>5, <3>1, <3>3
  <2>8. fr.op # "loop-target" /\ Run(d, env, Push(stack, fr))
    BY <1>7, <1>n, <2>2, <2>3, <2>5 DEF RecurFrame
  <2> QED
    BY <1>1, <2>6, <2>7, <2>8, EvalPushes
<1> QED
  BY <1>6, <1>7 DEF EvalRecur

(* Every call of step_eval keeps on track. *)
LEMMA EvalOnTrack == ASSUME NEW V, OnTrack(V), Eval PROVE Follows'
  BY EvalAtomOnTrack, EvalSymbolOnTrack, EvalQuoteOnTrack, EvalIfOnTrack, EvalDoOnTrack,
     EvalLetOnTrack, EvalFnOnTrack, EvalLoopOnTrack, EvalRecurOnTrack, EvalCallOnTrack
     DEF Eval
-----------------------------------------------------------------------------
(* deliver_value *)

(* What the frame on top makes of the value with k fuel. *)
Fed(k) == Feed(M(Job, k), Top, Ok(expr, env, log), TailOf(Below))

(* What a step that delivers starts from. *)
LEMMA DeliverTold ==
    ASSUME NEW V, NEW op, OnTrack(V), DeliverTo(op)
    PROVE  /\ status = "running" /\ program' = program /\ answers' = answers
           /\ Pot \in Nat /\ Pot = 2 * steps' /\ steps' \in Nat
           /\ expr \in V /\ Top \in FrameOver(V) /\ FrameReady(Top) /\ Top.op = op
           /\ Below \in Stack(V) /\ Whole(V, env, log, Below)
           /\ ValueTold(Job, Pot, expr, env, log, Push(Below, Top))
<1>1. steps \in Nat /\ MaxSteps \in Nat
  BY StepAssumption DEF OnTrack, TypeOK
<1>2. stack # <<>> /\ stack \in Stack(V) /\ status = "running" /\ ctl = "deliver"
  BY DEF OnTrack, StateOver, DeliverTo, Delivering
<1>3. stack = Push(Below, Top)
  BY <1>2, Topped DEF Top, Below
<1>4. ValueTold(Job, Pot, expr, env, log, Push(Below, Top))
  BY <1>2, <1>3 DEF OnTrack, Follows
<1>5. /\ expr \in V /\ Top \in FrameOver(V) /\ FrameReady(Top) /\ Top.op = op /\ Below \in Stack(V)
  BY Delivery DEF OnTrack
<1>6. Whole(V, env, log, Below)
  BY <1>5 DEF OnTrack, Whole
<1>7. steps' = steps /\ program' = program /\ answers' = answers
  BY DEF DeliverTo, Delivering
<1>8. Pot = 2 * steps
  <2>1. (IF ctl = "step" THEN 1 ELSE 0) = 0
    BY <1>2
  <2> QED
    BY <1>1, <2>1 DEF Pot
<1> QED
  BY <1>1, <1>2, <1>4, <1>5, <1>6, <1>7, <1>8

(* The value goes to a form, below the frame or above another one. *)
LEMMA DeliverRuns ==
    ASSUME NEW V, NEW op, NEW d, NEW r, OnTrack(V), DeliverTo(op), Run(d, r, Below),
           \A k \in Nat : Of(M(Job, k), FormTask(d, r, log, TailOf(Below))).tag # "fuel" =>
                Fed(k + 1) = Of(M(Job, k), FormTask(d, r, log, TailOf(Below)))
    PROVE  Follows'
<1>1. /\ status = "running" /\ program' = program /\ answers' = answers
      /\ Pot \in Nat /\ Pot + 1 = 2 * steps' + 1 /\ Below \in Stack(V)
      /\ ValueTold(Job, Pot, expr, env, log, Push(Below, Top))
  BY DeliverTold
<1>2. PICK n \in Nat : n = Pot
  BY <1>1
<1>3. PICK p, s : p = Job /\ s = Below
  OBVIOUS
<1>4. PICK D : D = Delivered(p, Top, expr, env, log, s)
  OBVIOUS
<1>5. Leads(p, n, 1, D, s)
  BY <1>1, <1>2, <1>3, <1>4, DeliverLeads
<1>6. \A k \in Nat : Of(M(p, k), FormTask(d, r, log, TailOf(s))).tag # "fuel" =>
            D[k] = Of(M(p, k), FormTask(d, r, log, TailOf(s)))
  BY <1>3, <1>4 DEF Delivered, Fed
<1>7. FormTold(p, n + 1, d, r, log, s)
  BY <1>1, <1>3, <1>5, <1>6, ToForm
<1> QED
  BY <1>1, <1>2, <1>3, <1>7, RunFollows

(* A step that pushes a frame for the next part follows the meaning. *)
LEMMA DeliverPushes ==
    ASSUME NEW V, NEW op, NEW d, NEW r, NEW fr, NEW tail, OnTrack(V), DeliverTo(op),
           Run(d, r, Push(Below, fr)), tail = IF fr.op = "loop-target" THEN "loop" ELSE "inner",
           \A k \in Nat :
              Feed(M(Job, k), fr, Of(M(Job, k), FormTask(d, r, log, tail)), TailOf(Below)).tag # "fuel" =>
                Fed(k + 1) =
                Feed(M(Job, k), fr, Of(M(Job, k), FormTask(d, r, log, tail)), TailOf(Below))
    PROVE  Follows'
<1>1. /\ status = "running" /\ program' = program /\ answers' = answers
      /\ Pot \in Nat /\ Pot + 1 = 2 * steps' + 1 /\ Below \in Stack(V)
      /\ ValueTold(Job, Pot, expr, env, log, Push(Below, Top))
  BY DeliverTold
<1>2. PICK n \in Nat : n = Pot
  BY <1>1
<1>3. PICK p, s : p = Job /\ s = Below
  OBVIOUS
<1>4. PICK D : D = Delivered(p, Top, expr, env, log, s)
  OBVIOUS
<1>5. Leads(p, n, 1, D, s)
  BY <1>1, <1>2, <1>3, <1>4, DeliverLeads
<1>6. Framed(p, D, fr, d, r, log, tail, s)
  BY <1>3, <1>4 DEF Delivered, Fed, Framed
<1>7. FormTold(p, n + 1, d, r, log, Push(s, fr))
  BY <1>1, <1>3, <1>5, <1>6, ToPushed
<1> QED
  BY <1>1, <1>2, <1>3, <1>7, RunFollows

(* The value leads to an error, to an abort, to an effect. *)
LEMMA DeliverToError ==
    ASSUME NEW V, NEW op, NEW kind, OnTrack(V), DeliverTo(op), Fed(1) = Error(kind, log)
    PROVE  ErrorTold(Job, Pot + 1, kind, log)
<1>1. Pot \in Nat /\ Below \in Stack(V) /\ ValueTold(Job, Pot, expr, env, log, Push(Below, Top))
  BY DeliverTold
<1>2. PICK n \in Nat : n = Pot
  BY <1>1
<1>3. PICK p, s : p = Job /\ s = Below
  OBVIOUS
<1>4. PICK D : D = Delivered(p, Top, expr, env, log, s)
  OBVIOUS
<1>5. Leads(p, n, 1, D, s)
  BY <1>1, <1>2, <1>3, <1>4, DeliverLeads
<1>6. D[0] = Error(kind, log)
  BY <1>3, <1>4 DEF Delivered, Fed
<1>7. ErrorTold(p, n + 1, kind, log)
  BY <1>1, <1>3, <1>5, <1>6, ToError
<1> QED
  BY <1>2, <1>3, <1>7

(* A step that fails on the value follows the meaning. *)
LEMMA DeliverFails ==
    ASSUME NEW V, NEW op, NEW kind, OnTrack(V), DeliverTo(op), Fed(1) = Error(kind, log), Fail(kind)
    PROVE  Follows'
<1>1. program' = program /\ answers' = answers /\ Pot \in Nat /\ Pot + 1 = 2 * steps' + 1
  BY DeliverTold
<1>2. ErrorTold(Job, Pot + 1, kind, log)
  BY DeliverToError
<1> QED
  BY <1>1, <1>2, FailFollows

(* A step that aborts follows the meaning. *)
LEMMA DeliverAborts ==
    ASSUME NEW V, NEW op, OnTrack(V), DeliverTo(op), Fed(1) = Error("aborted", log), Abort
    PROVE  Follows'
<1>1. program' = program /\ answers' = answers /\ Pot \in Nat /\ Pot + 1 = 2 * steps' + 1
  BY DeliverTold
<1>2. ErrorTold(Job, Pot + 1, "aborted", log)
  BY DeliverToError
<1> QED
  BY <1>1, <1>2, AbortFollows

(* A step that suspends on an effect follows the meaning. *)
LEMMA DeliverSuspends ==
    ASSUME NEW V, NEW op, NEW name, NEW args, NEW l, OnTrack(V), DeliverTo(op),
           Suspend(name, args, Below), l = Append(log, [name |-> name, args |-> args]),
           \A k \in Nat : Fed(k) = Of(M(Job, k), FormTask(answers[name], env, l, TailOf(Below)))
    PROVE  Follows'
<1>1. /\ status = "running" /\ program' = program /\ answers' = answers
      /\ Pot \in Nat /\ Pot + 1 = 2 * steps' + 1 /\ Below \in Stack(V)
      /\ ValueTold(Job, Pot, expr, env, log, Push(Below, Top))
  BY DeliverTold
<1>2. PICK n \in Nat : n = Pot
  BY <1>1
<1>3. PICK p, s, d : p = Job /\ s = Below /\ d = answers[name]
  OBVIOUS
<1>4. PICK D : D = Delivered(p, Top, expr, env, log, s)
  OBVIOUS
<1>5. Leads(p, n, 1, D, s)
  BY <1>1, <1>2, <1>3, <1>4, DeliverLeads
<1>6. ASSUME NEW k \in Nat, Of(M(p, k), FormTask(d, env, l, TailOf(s))).tag # "fuel"
      PROVE  D[k] = Of(M(p, k), FormTask(d, env, l, TailOf(s)))
  <2>1. D[k] = Of(M(p, k + 1), FormTask(d, env, l, TailOf(s)))
    BY <1>3, <1>4 DEF Delivered, Fed
  <2>2. More(M(p, k), M(p, k + 1))
    BY MMore
  <2> QED
    BY <1>6, <2>1, <2>2, MoreAt
<1>7. FormTold(p, n + 1, d, env, l, s)
  BY <1>1, <1>3, <1>5, <1>6, ToForm
<1>8. FormTold(Job, Pot + 1, answers[name], env, Append(log, [name |-> name, args |-> args]), Below)
  BY <1>2, <1>3, <1>7
<1> QED
  BY <1>1, <1>8, SuspendFollows

(* The value goes on as another one to the frame below. *)
LEMMA DeliverDelivers ==
    ASSUME NEW V, NEW op, NEW v, OnTrack(V), DeliverTo(op), Deliver(v, env, Below),
           \A k \in Nat : Fed(k) = Ok(v, env, log)
    PROVE  Follows'
<1>1. /\ status = "running" /\ program' = program /\ answers' = answers
      /\ Pot \in Nat /\ Pot = 2 * steps' /\ steps' \in Nat /\ Below \in Stack(V)
      /\ ValueTold(Job, Pot, expr, env, log, Push(Below, Top))
  BY DeliverTold
<1>2. PICK n \in Nat : n = Pot
  BY <1>1
<1>3. PICK p, s, c : p = Job /\ s = Below /\ c = Ok(expr, env, log)
  OBVIOUS
<1>4. ASSUME NEW k \in Nat PROVE Told(p, n, k, Ok(v, env, log), s)
  <2>1. s \in Seq(ReadyFrame(V))
    BY <1>1, <1>3 DEF Stack
  <2>2. Told(p, n, k, c, Push(s, Top))
    BY <1>1, <1>2, <1>3 DEF ValueTold
  <2>3. Told(p, n, k, Feed(M(p, k), Top, c, TailOf(s)), s)
    BY <2>1, <2>2, PoppedTold
  <2>4. Feed(M(p, k), Top, c, TailOf(s)) = Ok(v, env, log)
    BY <1>3 DEF Fed
  <2> QED
    BY <2>3, <2>4
<1>5. ValueTold(Job, Pot, v, env, log, Below)
  BY <1>2, <1>3, <1>4 DEF ValueTold
<1> QED
  BY <1>1, <1>5, DeliverFollows

(* No frame is left: the value is the result. *)
LEMMA DoneOnTrack == ASSUME NEW V, OnTrack(V), DeliverDone PROVE Follows'
<1>1. /\ status = "running" /\ ctl = "deliver" /\ stack = <<>> /\ program' = program /\ answers' = answers
      /\ steps' = steps /\ status' = "done" /\ ctl' = "step" /\ expr' = expr /\ env' = env /\ log' = log
  BY DEF DeliverDone, Delivering
<1>2. steps \in Nat /\ MaxSteps \in Nat
  BY StepAssumption DEF OnTrack, TypeOK
<1>3. Job' = Job /\ Pot' = Pot + 1 /\ Pot \in Nat
  BY <1>1, <1>2 DEF Job, Pot
<1>4. PICK n \in Nat : n = Pot
  BY <1>3
<1>5. PICK p, c : p = Job /\ c = Ok(expr, env, log)
  OBVIOUS
<1>6. Told(p, n, 0, c, <<>>)
  <2>1. ValueTold(Job, Pot, expr, env, log, <<>>)
    BY <1>1 DEF OnTrack, Follows
  <2> QED
    BY <1>4, <1>5, <2>1 DEF ValueTold
<1>7. Explains(M(p, 0), <<>>, c, c)
  <2>1. PICK R : R = [i \in {0} |-> c]
    OBVIOUS
  <2>2. R[0] = c /\ Len(<<>>) = 0
    BY <2>1
  <2> QED
    BY <2>2 DEF Explains, Feeds
<1>8. c.tag # "fuel"
  BY <1>5 DEF Ok
<1>9. Of(M(p, n), StartOf(p)) = c
  BY <1>6, <1>7, <1>8 DEF Told
<1>10. More(M(p, n), M(p, n + 1))
  BY MMore
<1>11. Of(M(p, n + 1), StartOf(p)) = c
  BY <1>8, <1>9, <1>10, MoreAt
<1>12. Of(M(Job, Pot), StartOf(Job))' = Ok(expr, env, log)'
  BY <1>1, <1>3, <1>4, <1>5, <1>11
<1> QED
  BY <1>1, <1>12 DEF Follows

(* What the frames make of a value, one by one. *)
LEMMA FedIs ==
    /\ \A k : Fed(k) = FeedValue(M(Job, k), Top, Ok(expr, env, log), TailOf(Below))
    /\ Ok(expr, env, log).val = expr /\ Ok(expr, env, log).env = env /\ Ok(expr, env, log).log = log
  BY DEF Fed, Feed, Ok

(* What the call frame makes of the value. *)
LEMMA FedCall ==
    ASSUME Top.op = "call", NEW k
    PROVE  Fed(k) = CallRest(M(Job, k), CallFunc, CallArgs, Top.rest, env, log, TailOf(Below))
<1>1. FuncOf(Top, expr) = CallFunc /\ ArgsOf(Top, expr) = CallArgs
  BY DEF FuncOf, ArgsOf, CallFunc, CallArgs
<1> QED
  BY <1>1, FedIs DEF FeedValue

(* What the if-branch frame makes of the value. *)
LEMMA FedIf ==
    ASSUME Top.op = "if-branch", NEW k
    PROVE  Fed(k) = Of(M(Job, k), FormTask(IF Falsy(expr) THEN Top.else ELSE Top.then, env, log, TailOf(Below)))
  BY FedIs DEF FeedValue

(* What the do-rest frame makes of the value. *)
LEMMA FedDo ==
    ASSUME Top.op = "do-rest", NEW k
    PROVE  Fed(k) = Of(M(Job, k), LastTask(Top.rest, env, log, TailOf(Below)))
  BY FedIs DEF FeedValue

(* What the let-binds frame makes of the value. *)
LEMMA FedLet ==
    ASSUME Top.op = "let-binds", NEW k
    PROVE  Fed(k) = EvBody(M(Job, k), RestBinds, Top.body, Extended, log, TailOf(Below))
  BY FedIs DEF FeedValue, LetRest, RestBinds, Extended

(* What the loop-binds frame makes of the value. *)
LEMMA FedLoop ==
    ASSUME Top.op = "loop-binds", NEW k
    PROVE  Fed(k) = EvEntry(M(Job, k), RestBinds, NamesOf(Top.orig), Top.body, Extended, log)
  BY FedIs DEF FeedValue, LoopRest, RestBinds, Extended

(* What the recur-args frame makes of the value. *)
LEMMA FedRecur ==
    ASSUME Top.op = "recur-args", NEW k
    PROVE  Fed(k) = JumpRest(M(Job, k), Append(Top.args, expr), Top.rest, env, log, TailOf(Below))
  BY FedIs DEF FeedValue

(* The loop-target frame passes the value on. *)
LEMMA FedTarget ==
    ASSUME Top.op = "loop-target", NEW k
    PROVE  Fed(k) = Ok(expr, env, log)
  BY FedIs DEF FeedValue

(* A value that leads to a form at once. *)
LEMMA DeliverRunsAs ==
    ASSUME NEW V, NEW op, NEW d, NEW r, OnTrack(V), DeliverTo(op), Run(d, r, Below),
           \A k \in Nat : Fed(k) = Of(M(Job, k), FormTask(d, r, log, TailOf(Below)))
    PROVE  Follows'
<1>1. ASSUME NEW k \in Nat, Of(M(Job, k), FormTask(d, r, log, TailOf(Below))).tag # "fuel"
      PROVE  Fed(k + 1) = Of(M(Job, k), FormTask(d, r, log, TailOf(Below)))
  <2>1. Fed(k + 1) = Of(M(Job, k + 1), FormTask(d, r, log, TailOf(Below)))
    OBVIOUS
  <2>2. More(M(Job, k), M(Job, k + 1))
    BY MMore
  <2> QED
    BY <1>1, <2>1, <2>2, MoreAt
<1> QED
  BY <1>1, DeliverRuns

(* A value delivered to an if. *)
LEMMA DeliverIfOnTrack == ASSUME NEW V, OnTrack(V), DeliverIf PROVE Follows'
<1>1. DeliverTo("if-branch") /\ Top.op = "if-branch"
  BY DEF DeliverIf, DeliverTo
<1>2. PICK d : d = IF Falsy(expr) THEN Top.else ELSE Top.then
  OBVIOUS
<1>3. Run(d, env, Below)
  BY <1>2 DEF DeliverIf
<1>4. \A k \in Nat : Fed(k) = Of(M(Job, k), FormTask(d, env, log, TailOf(Below)))
  BY <1>1, <1>2, FedIf
<1> QED
  BY <1>1, <1>3, <1>4, DeliverRunsAs

(* A value delivered to a loop: the loop ends with it. *)
LEMMA DeliverTargetOnTrack == ASSUME NEW V, OnTrack(V), DeliverTarget PROVE Follows'
<1>1. DeliverTo("loop-target") /\ Top.op = "loop-target" /\ Deliver(expr, env, Below)
  BY DEF DeliverTarget, DeliverTo
<1>2. \A k \in Nat : Fed(k) = Ok(expr, env, log)
  BY <1>1, FedTarget
<1>3. PICK v : v = expr
  OBVIOUS
<1> QED
  BY <1>1, <1>2, <1>3, DeliverDelivers

(* A value delivered to a do. *)
LEMMA DeliverDoOnTrack == ASSUME NEW V, OnTrack(V), DeliverDo PROVE Follows'
<1>1. DeliverTo("do-rest") /\ Top.op = "do-rest"
  BY DEF DeliverDo, DeliverTo
<1>2. Top \in FrameOver(V) /\ Below \in Stack(V) /\ Whole(V, env, log, Below)
  BY <1>1, DeliverTold
<1>3. PICK es \in Seq(V) : es = Top.rest
  BY <1>1, <1>2, FrameFields
<1>4. TailOf(Below) \in Tails
  <2>1. Below \in Seq(ReadyFrame(V))
    BY <1>2 DEF Stack
  <2> QED
    BY <2>1, PushedTail
<1>5. PICK tail \in Tails : tail = TailOf(Below)
  BY <1>4
<1>6. PICK d, rest : d = es[1] /\ rest = Tail(es)
  OBVIOUS
<1>7. ASSUME NEW k \in Nat
      PROVE  Fed(k + 1) =
                IF Len(es) = 1 THEN Of(M(Job, k), FormTask(d, env, log, tail))
                ELSE Feed(M(Job, k), DoFrame(rest), Of(M(Job, k), FormTask(d, env, log, "inner")), tail)
  <2>1. Fed(k + 1) = Of(M(Job, k + 1), LastTask(es, env, log, tail))
    BY <1>1, <1>3, <1>5, FedDo
  <2>2. PICK p, s : p = Job /\ s = Below
    OBVIOUS
  <2>3. Whole(V, env, log, s)
    BY <1>2, <2>2
  <2>4. Of(M(p, k + 1), LastTask(es, env, log, tail)) =
             IF Len(es) = 1 THEN Of(M(p, k), FormTask(es[1], env, log, tail))
             ELSE Feed(M(p, k), DoFrame(Tail(es)), Of(M(p, k), FormTask(es[1], env, log, "inner")), tail)
    BY <2>3, LastUnfolds
  <2> QED
    BY <1>6, <2>1, <2>2, <2>4
<1>8. CASE LastDo /\ Run(Top.rest[1], env, Below)
  <2>1. Len(es) = 1 /\ Run(d, env, Below)
    BY <1>3, <1>6, <1>8 DEF LastDo
  <2>2. \A k \in Nat : Of(M(Job, k), FormTask(d, env, log, TailOf(Below))).tag # "fuel" =>
                Fed(k + 1) = Of(M(Job, k), FormTask(d, env, log, TailOf(Below)))
    BY <1>5, <1>7, <2>1
  <2> QED
    BY <1>1, <2>1, <2>2, DeliverRuns
<1>9. CASE ~LastDo /\ Run(Top.rest[1], env, Push(Below, DoFrame(Tail(Top.rest))))
  <2>1. PICK fr : fr = DoFrame(rest)
    OBVIOUS
  <2>2. Len(es) # 1 /\ Run(d, env, Push(Below, fr)) /\ fr.op # "loop-target"
    BY <1>3, <1>6, <1>9, <2>1 DEF LastDo, DoFrame
  <2>3. PICK inner : inner = "inner"
    OBVIOUS
  <2>4. inner = IF fr.op = "loop-target" THEN "loop" ELSE "inner"
    BY <2>2, <2>3
  <2>5. \A k \in Nat :
              Feed(M(Job, k), fr, Of(M(Job, k), FormTask(d, env, log, inner)), TailOf(Below)).tag # "fuel" =>
                Fed(k + 1) =
                Feed(M(Job, k), fr, Of(M(Job, k), FormTask(d, env, log, inner)), TailOf(Below))
    BY <1>5, <1>7, <2>1, <2>2, <2>3
  <2> QED
    BY <1>1, <2>2, <2>4, <2>5, DeliverPushes
<1> QED
  BY <1>8, <1>9 DEF DeliverDo

(* The names of pairs are values. *)
LEMMA NamesOfPairs ==
    ASSUME NEW V, NEW ps \in Seq(V), Len(ps) % 2 = 0
    PROVE  NamesOf(ps) \in Seq(V)
<1>1. Len(ps) \in Nat /\ \A i \in 1 .. Len(ps) : ps[i] \in V
  OBVIOUS
<1>2. PICK h \in Nat : h = Len(ps) \div 2 /\ Len(ps) = 2 * h
  BY <1>1, EvenHalf
<1>3. NamesOf(ps) = [i \in 1 .. h |-> ps[2 * i - 1]]
  BY <1>2 DEF NamesOf
<1>4. \A i \in 1 .. h : 2 * i - 1 \in 1 .. Len(ps)
  BY <1>2
<1>5. NamesOf(ps) \in [1 .. h -> V]
  BY <1>1, <1>3, <1>4
<1> QED
  BY <1>2, <1>5

(* After the only pair there is none. *)
LEMMA NoPairs == ASSUME NEW V, NEW s \in Seq(V), Len(s) <= 2 PROVE SubSeq(s, 3, Len(s)) = <<>>
  OBVIOUS

(* What follows the first of several pairs. *)
LEMMA PairsAfter ==
    ASSUME NEW V, NEW s \in Seq(V), Len(s) > 2, Len(s) % 2 = 0
    PROVE  /\ SubSeq(s, 3, Len(s)) \in Seq(V) /\ SubSeq(s, 3, Len(s)) # <<>>
           /\ SubSeq(s, 3, Len(s))[2] = s[4]
<1>1. Len(s) \in Nat /\ Len(s) >= 4
  OBVIOUS
<1>2. SubSeq(s, 3, Len(s)) \in Seq(V) /\ Len(SubSeq(s, 3, Len(s))) = Len(s) - 2
  BY <1>1, RestOfSeq
<1>3. SubSeq(s, 3, Len(s))[2] = s[4]
  BY <1>1
<1>4. PICK t : t = SubSeq(s, 3, Len(s))
  OBVIOUS
<1>5. t \in Seq(V) /\ Len(t) # 0
  BY <1>1, <1>2, <1>4
<1>6. t # <<>>
  BY <1>5
<1> QED
  BY <1>2, <1>3, <1>4, <1>6

(* The pairs a let or a loop has left, and the env it goes on in. *)
LEMMA BindsLeft ==
    ASSUME NEW V, NEW op \in {"let-binds", "loop-binds"}, OnTrack(V), DeliverTo(op)
    PROVE  /\ Top.op = op /\ Below \in Stack(V) /\ Whole(V, Extended, log, Below)
           /\ Top.env \in EnvOver(V) /\ Top.body \in V /\ Tail(Extended) = Top.env
           /\ Len(Top.rest) <= 2 => RestBinds = <<>>
           /\ Len(Top.rest) > 2 =>
                RestBinds \in Seq(V) /\ RestBinds # <<>> /\ RestBinds[2] = Top.rest[4]
           /\ op = "loop-binds" => Top.orig \in Seq(V) /\ Len(Top.orig) % 2 = 0
<1>1. /\ expr \in V /\ Top \in FrameOver(V) /\ FrameReady(Top) /\ Top.op = op
      /\ Below \in Stack(V) /\ Whole(V, env, log, Below)
  BY DeliverTold
<1>2. /\ Top.rest \in Seq(V) /\ Top.body \in V /\ Top.env \in EnvOver(V)
      /\ Len(Top.rest) >= 2 /\ Len(Top.rest) % 2 = 0
  BY <1>1, FrameFields DEF FrameReady
<1>3. Extended \in EnvOver(V)
  BY <1>1, <1>2, BindScope, PushedEnv DEF Extended
<1>4. Whole(V, Extended, log, Below)
  BY <1>1, <1>3 DEF Whole
<1>5. Tail(Extended) = Top.env
  <2>1. PICK r \in Seq(Scope(V)) : r = Top.env
    BY <1>2 DEF EnvOver
  <2>2. PICK b \in Scope(V) : b = Bind(Top.rest[1], expr)
    BY <1>1, BindScope
  <2>3. Tail(<<b>> \o r) = r
    OBVIOUS
  <2> QED
    BY <2>1, <2>2, <2>3 DEF Extended, EnvPush
<1>6. PICK rest \in Seq(V) : rest = Top.rest /\ Len(rest) % 2 = 0
  BY <1>2
<1>7. Len(rest) <= 2 => RestBinds = <<>>
  BY <1>6, NoPairs DEF RestBinds
<1>8. Len(rest) > 2 => RestBinds \in Seq(V) /\ RestBinds # <<>> /\ RestBinds[2] = Top.rest[4]
  BY <1>6, PairsAfter DEF RestBinds
<1>9. op = "loop-binds" => Top.orig \in Seq(V) /\ Len(Top.orig) % 2 = 0
  BY <1>1, FrameFields DEF FrameReady
<1> QED
  BY <1>1, <1>2, <1>4, <1>5, <1>6, <1>7, <1>8, <1>9

(* A value delivered to a let. *)
LEMMA DeliverLetOnTrack == ASSUME NEW V, OnTrack(V), DeliverLet PROVE Follows'
<1>1. PICK op \in {"let-binds", "loop-binds"} : op = "let-binds" /\ DeliverTo(op)
  BY DEF DeliverLet
<1>2. /\ Top.op = op /\ Whole(V, Extended, log, Below)
      /\ Len(Top.rest) <= 2 => RestBinds = <<>>
      /\ Len(Top.rest) > 2 =>
                RestBinds \in Seq(V) /\ RestBinds # <<>> /\ RestBinds[2] = Top.rest[4]
  BY <1>1, BindsLeft
<1>3. CASE Len(Top.rest) <= 2 /\ Run(Top.body, Extended, Below)
  <2>1. PICK d, r : d = Top.body /\ r = Extended
    OBVIOUS
  <2>2. ASSUME NEW k \in Nat PROVE Fed(k) = Of(M(Job, k), FormTask(d, r, log, TailOf(Below)))
    <3>1. Fed(k) = EvBody(M(Job, k), <<>>, d, r, log, TailOf(Below))
      BY <1>1, <1>2, <1>3, <2>1, FedLet
    <3> QED
      BY <3>1 DEF EvBody, PairsOf, Ok
  <2>3. Run(d, r, Below)
    BY <1>3, <2>1
  <2> QED
    BY <1>1, <2>2, <2>3, DeliverRunsAs
<1>4. CASE /\ Len(Top.rest) > 2
           /\ Run(Top.rest[4], Extended, Push(Below, LetFrame(RestBinds, Top.body, Extended)))
  <2>1. PICK ps \in Seq(V) : ps = RestBinds /\ ps # <<>>
    BY <1>2, <1>4
  <2>2. PICK d, r, body, p, s, l, tail : d = ps[2] /\ r = Extended /\ body = Top.body /\ p = Job /\ s = Below
            /\ l = log /\ tail = TailOf(Below)
    OBVIOUS
  <2>3. PICK fr : fr = LetFrame(ps, body, r)
    OBVIOUS
  <2>4. PICK inner : inner = IF fr.op = "loop-target" THEN "loop" ELSE "inner"
    OBVIOUS
  <2>5. inner = "inner"
    BY <2>3, <2>4 DEF LetFrame
  <2>6. ASSUME NEW k \in Nat, Feed(M(p, k), fr, Of(M(p, k), FormTask(d, r, l, inner)), tail).tag # "fuel"
        PROVE  Fed(k + 1) = Feed(M(p, k), fr, Of(M(p, k), FormTask(d, r, l, inner)), tail)
    <3>1. Fed(k + 1) = EvBody(M(p, k + 1), ps, body, r, l, tail)
      BY <1>1, <1>2, <2>1, <2>2, FedLet
    <3>2. Whole(V, r, l, s)
      BY <1>2, <2>2
    <3>3. Feed(M(p, k), LetFrame(ps, body, r), Of(M(p, k), FormTask(ps[2], r, l, "inner")), tail).tag # "fuel"
      BY <2>2, <2>3, <2>5, <2>6
    <3>4. EvBody(M(p, k + 1), ps, body, r, l, tail) =
            Feed(M(p, k), LetFrame(ps, body, r), Of(M(p, k), FormTask(ps[2], r, l, "inner")), tail)
      BY <2>1, <3>2, <3>3, BodyUnfolds
    <3> QED
      BY <2>2, <2>3, <2>5, <3>1, <3>4
  <2>7. Run(d, r, Push(Below, fr))
    BY <1>2, <1>4, <2>1, <2>2, <2>3
  <2>8. \A k \in Nat :
              Feed(M(Job, k), fr, Of(M(Job, k), FormTask(d, r, log, inner)), TailOf(Below)).tag # "fuel" =>
                Fed(k + 1) = Feed(M(Job, k), fr, Of(M(Job, k), FormTask(d, r, log, inner)), TailOf(Below))
    BY <2>2, <2>6
  <2> QED
    BY <1>1, <2>4, <2>7, <2>8, DeliverPushes
<1> QED
  BY <1>3, <1>4 DEF DeliverLet

(* The rounds of a loop: the first one runs its body above a loop-target. *)
LEMMA RoundsUnfold ==
    ASSUME NEW p, NEW V, NEW r, NEW l, NEW s, NEW q, NEW body, NEW orig, NEW tail, NEW k \in Nat, NEW fr,
           Whole(V, q, l, s), r \in EnvOver(V), body \in V, orig \in Seq(V), Len(orig) % 2 = 0,
           fr = TargetFrame(orig, body, r)
    PROVE  Of(M(p, k + 1), RoundsTask(NamesOf(orig), body, q, r, l)) =
           Feed(M(p, k), fr, Of(M(p, k), FormTask(body, q, l, "loop")), tail)
<1>1. PICK names \in Seq(V) : names = NamesOf(orig)
  BY NamesOfPairs
<1>2. V \subseteq Universe /\ l \in Requests(V) /\ q \in EnvOver(V)
  BY DEF Whole
<1>3. RoundsTask(names, body, q, r, l) \in Tasks(Universe)
  BY <1>2, WholeTasks
<1>4. Of(M(p, k + 1), RoundsTask(names, body, q, r, l)) = Rounds(M(p, k), names, body, q, r, l)
  BY <1>3, Unfolded
<1>5. fr.op = "loop-target" /\ fr.rest = orig /\ fr.body = body /\ fr.env = r
  BY DEF TargetFrame
<1>6. PICK h : h = Of(M(p, k), FormTask(body, q, l, "loop"))
  OBVIOUS
<1>7. Feed(M(p, k), fr, h, tail) =
        IF h.tag # "recur" THEN h ELSE NextRound(M(p, k), names, body, h.args, r, h.log)
  BY <1>1, <1>5 DEF Feed, FeedValue
<1> QED
  BY <1>1, <1>4, <1>6, <1>7 DEF Rounds

(* A value delivered to the names of a loop. *)
LEMMA DeliverLoopOnTrack == ASSUME NEW V, OnTrack(V), DeliverLoop PROVE Follows'
<1>1. PICK op \in {"let-binds", "loop-binds"} : op = "loop-binds" /\ DeliverTo(op)
  BY DEF DeliverLoop
<1>2. /\ Top.op = op /\ Whole(V, Extended, log, Below)
      /\ Top.env \in EnvOver(V) /\ Top.body \in V /\ Tail(Extended) = Top.env
      /\ Len(Top.rest) <= 2 => RestBinds = <<>>
      /\ Len(Top.rest) > 2 =>
                RestBinds \in Seq(V) /\ RestBinds # <<>> /\ RestBinds[2] = Top.rest[4]
      /\ Top.orig \in Seq(V) /\ Len(Top.orig) % 2 = 0
  BY <1>1, BindsLeft
<1>3. PICK r, body, p, s, l, tail, orig, q :
            /\ r = Extended /\ body = Top.body /\ p = Job /\ s = Below
            /\ l = log /\ tail = TailOf(Below) /\ orig = Top.orig /\ q = Top.env
  OBVIOUS
<1>4. CASE Len(Top.rest) <= 2 /\ Run(Top.body, Extended, Push(Below, TargetFrame(Top.orig, Top.body, Top.env)))
  <2>1. PICK fr : fr = TargetFrame(orig, body, q)
    OBVIOUS
  <2>2. PICK inner : inner = IF fr.op = "loop-target" THEN "loop" ELSE "inner"
    OBVIOUS
  <2>3. inner = "loop"
    BY <2>1, <2>2 DEF TargetFrame
  <2>4. ASSUME NEW k \in Nat PROVE Fed(k + 1) = Feed(M(p, k), fr, Of(M(p, k), FormTask(body, r, l, inner)), tail)
    <3>1. Fed(k + 1) = EvEntry(M(p, k + 1), <<>>, NamesOf(orig), body, r, l)
      BY <1>1, <1>2, <1>3, <1>4, FedLoop
    <3>2. Fed(k + 1) = Of(M(p, k + 1), RoundsTask(NamesOf(orig), body, r, q, l))
      BY <1>2, <1>3, <3>1, MReads DEF EvEntry, PairsOf, Ok
    <3>3. /\ Whole(V, r, l, s) /\ q \in EnvOver(V) /\ body \in V /\ orig \in Seq(V) /\ Len(orig) % 2 = 0
          /\ fr = TargetFrame(orig, body, q)
      BY <1>2, <1>3, <2>1
    <3>4. Of(M(p, k + 1), RoundsTask(NamesOf(orig), body, r, q, l)) =
            Feed(M(p, k), fr, Of(M(p, k), FormTask(body, r, l, "loop")), tail)
      BY <3>3, RoundsUnfold
    <3> QED
      BY <2>3, <3>2, <3>4
  <2>5. Run(body, r, Push(Below, fr))
    BY <1>3, <1>4, <2>1
  <2>6. \A k \in Nat :
              Feed(M(Job, k), fr, Of(M(Job, k), FormTask(body, r, log, inner)), TailOf(Below)).tag # "fuel" =>
                Fed(k + 1) = Feed(M(Job, k), fr, Of(M(Job, k), FormTask(body, r, log, inner)), TailOf(Below))
    BY <1>3, <2>4
  <2> QED
    BY <1>1, <2>2, <2>5, <2>6, DeliverPushes
<1>5. CASE /\ Len(Top.rest) > 2
           /\ Run(Top.rest[4], Extended, Push(Below, LoopFrame(RestBinds, Top.body, Extended, Top.orig)))
  <2>1. PICK ps \in Seq(V) : ps = RestBinds /\ ps # <<>>
    BY <1>2, <1>5
  <2>2. PICK d : d = ps[2]
    OBVIOUS
  <2>3. PICK fr : fr = LoopFrame(ps, body, r, orig)
    OBVIOUS
  <2>4. PICK inner : inner = IF fr.op = "loop-target" THEN "loop" ELSE "inner"
    OBVIOUS
  <2>5. inner = "inner"
    BY <2>3, <2>4 DEF LoopFrame
  <2>6. ASSUME NEW k \in Nat, Feed(M(p, k), fr, Of(M(p, k), FormTask(d, r, l, inner)), tail).tag # "fuel"
        PROVE  Fed(k + 1) = Feed(M(p, k), fr, Of(M(p, k), FormTask(d, r, l, inner)), tail)
    <3>1. Fed(k + 1) = EvEntry(M(p, k + 1), ps, NamesOf(orig), body, r, l)
      BY <1>1, <1>2, <1>3, <2>1, FedLoop
    <3>2. Whole(V, r, l, s)
      BY <1>2, <1>3
    <3>3. Feed(M(p, k), LoopFrame(ps, body, r, orig), Of(M(p, k), FormTask(ps[2], r, l, "inner")), tail).tag # "fuel"
      BY <2>2, <2>3, <2>5, <2>6
    <3>4. EvEntry(M(p, k + 1), ps, NamesOf(orig), body, r, l) =
            Feed(M(p, k), LoopFrame(ps, body, r, orig), Of(M(p, k), FormTask(ps[2], r, l, "inner")), tail)
      BY <2>1, <3>2, <3>3, EntryUnfolds
    <3> QED
      BY <2>2, <2>3, <2>5, <3>1, <3>4
  <2>7. Run(d, r, Push(Below, fr))
    BY <1>2, <1>3, <1>5, <2>1, <2>2, <2>3
  <2>8. \A k \in Nat :
              Feed(M(Job, k), fr, Of(M(Job, k), FormTask(d, r, log, inner)), TailOf(Below)).tag # "fuel" =>
                Fed(k + 1) = Feed(M(Job, k), fr, Of(M(Job, k), FormTask(d, r, log, inner)), TailOf(Below))
    BY <1>3, <2>6
  <2> QED
    BY <1>1, <2>4, <2>7, <2>8, DeliverPushes
<1> QED
  BY <1>4, <1>5 DEF DeliverLoop

(* An argument delivered to a recur, which may start the loop again. *)
LEMMA DeliverRecurOnTrack == ASSUME NEW V, OnTrack(V), DeliverRecur PROVE Follows'
<1>1. PICK op : op = "recur-args" /\ DeliverTo(op)
  BY DEF DeliverRecur
<1>2. /\ status = "running" /\ program' = program /\ answers' = answers
      /\ Pot \in Nat /\ Pot + 1 = 2 * steps' + 1 /\ expr \in V
      /\ Top \in FrameOver(V) /\ Top.op = op /\ Below \in Stack(V) /\ Whole(V, env, log, Below)
      /\ ValueTold(Job, Pot, expr, env, log, Push(Below, Top))
  BY <1>1, DeliverTold
<1>3. PICK es \in Seq(V), vals \in Seq(V) : es = Top.rest /\ vals = Append(Top.args, expr)
  <2>1. Top.args \in Seq(V) /\ Top.rest \in Seq(V)
    BY <1>1, <1>2, FrameFields
  <2>2. Append(Top.args, expr) \in Seq(V)
    BY <1>2, <2>1
  <2> QED
    BY <2>1, <2>2
<1>4. PICK r, p, s, l, tail : r = env /\ p = Job /\ s = Below /\ l = log /\ tail = TailOf(Below)
  OBVIOUS
<1>5. \A k : Fed(k) = JumpRest(M(p, k), vals, es, r, l, tail)
  BY <1>1, <1>2, <1>3, <1>4, FedRecur
<1>6. CASE Top.rest = <<>> /\ HandleRecur(Append(Top.args, expr), Below)
  <2>1. PICK n \in Nat : n = Pot
    BY <1>2
  <2>2. PICK D : D = Delivered(p, Top, expr, env, log, s)
    OBVIOUS
  <2>3. Leads(p, n, 1, D, s)
    BY <1>2, <1>4, <2>1, <2>2, DeliverLeads
  <2>4. ASSUME NEW k \in Nat PROVE D[k] = EvJump(vals, log, TailOf(s))
    <3>1. D[k] = Fed(k + 1)
      BY <1>4, <2>2 DEF Delivered, Fed
    <3>2. D[k] = JumpRest(M(p, k + 1), vals, <<>>, r, l, tail)
      BY <1>3, <1>5, <1>6, <3>1
    <3> QED
      BY <1>4, <3>2 DEF JumpRest, EachOf, Ok
  <2>5. /\ V \subseteq Universe /\ s \in Stack(V) /\ n + 1 = 2 * steps' + 1 /\ HandleRecur(vals, s)
        /\ Leads(Job, n, 1, D, s)
    BY <1>2, <1>3, <1>4, <1>6, <2>1, <2>3 DEF Whole
  <2> QED
    BY <1>2, <2>4, <2>5, RecurOnTrack
<1>7. CASE /\ Top.rest # <<>>
           /\ Run(Top.rest[1], env, Push(Below, RecurFrame(Append(Top.args, expr), Tail(Top.rest))))
  <2>1. PICK d, fr : d = es[1] /\ fr = RecurFrame(vals, Tail(es))
    OBVIOUS
  <2>4. PICK inner : inner = IF fr.op = "loop-target" THEN "loop" ELSE "inner"
    OBVIOUS
  <2>5. inner = "inner"
    BY <2>1, <2>4 DEF RecurFrame
  <2>6. ASSUME NEW k \in Nat, Feed(M(p, k), fr, Of(M(p, k), FormTask(d, r, l, inner)), tail).tag # "fuel"
        PROVE  Fed(k + 1) = Feed(M(p, k), fr, Of(M(p, k), FormTask(d, r, l, inner)), tail)
    <3>1. Fed(k + 1) = JumpRest(M(p, k + 1), vals, es, r, l, tail)
      BY <1>5
    <3>2. Whole(V, r, l, s) /\ es # <<>>
      BY <1>2, <1>3, <1>4, <1>7
    <3>3. Feed(M(p, k), RecurFrame(vals, Tail(es)), Of(M(p, k), FormTask(es[1], r, l, "inner")), tail).tag # "fuel"
      BY <2>1, <2>5, <2>6
    <3>4. JumpRest(M(p, k + 1), vals, es, r, l, tail) =
            Feed(M(p, k), RecurFrame(vals, Tail(es)), Of(M(p, k), FormTask(es[1], r, l, "inner")), tail)
      BY <3>2, <3>3, JumpUnfolds
    <3> QED
      BY <2>1, <2>5, <3>1, <3>4
  <2>7. Run(d, r, Push(Below, fr))
    BY <1>3, <1>4, <1>7, <2>1
  <2>8. \A k \in Nat :
              Feed(M(Job, k), fr, Of(M(Job, k), FormTask(d, r, log, inner)), TailOf(Below)).tag # "fuel" =>
                Fed(k + 1) = Feed(M(Job, k), fr, Of(M(Job, k), FormTask(d, r, log, inner)), TailOf(Below))
    BY <1>4, <2>6
  <2> QED
    BY <1>1, <2>4, <2>7, <2>8, DeliverPushes
<1> QED
  BY <1>6, <1>7 DEF DeliverRecur

(* The function and the arguments that a call has. *)
LEMMA CallHas ==
    ASSUME NEW V, OnTrack(V), DeliverTo("call")
    PROVE  /\ Top.op = "call" /\ Whole(V, env, log, Below)
           /\ CallFunc \in V /\ CallFunc # NULL /\ CallArgs \in Seq(V) /\ Top.rest \in Seq(V)
<1>1. /\ expr \in V /\ Top \in FrameOver(V) /\ Top.op = "call" /\ Whole(V, env, log, Below)
  BY DeliverTold
<1>2. Top.func \in V \cup {NULL} /\ Top.args \in Seq(V) /\ Top.rest \in Seq(V)
  BY <1>1, FrameFields
<1>3. CallFunc \in V /\ CallArgs \in Seq(V)
  BY <1>1, <1>2 DEF CallFunc, CallArgs
<1>4. NULL \notin V
  BY <1>1, NullAssumption DEF Whole
<1> QED
  BY <1>1, <1>2, <1>3, <1>4

(* apply_fn, with all arguments there. *)
LEMMA ApplyOnTrack ==
    ASSUME NEW V, OnTrack(V), DeliverTo("call"), Top.rest = <<>>, Apply(CallFunc, CallArgs, Below)
    PROVE  Follows'
<1>0. PICK op : op = "call" /\ DeliverTo(op)
  OBVIOUS
<1>1. PICK fn, args, p, tail : fn = CallFunc /\ args = CallArgs /\ p = Job /\ tail = TailOf(Below)
  OBVIOUS
<1>2. ASSUME NEW k PROVE Fed(k) = EvApply(M(p, k), fn, args, env, log, tail)
  <2>1. Fed(k) = CallRest(M(p, k), fn, args, <<>>, env, log, tail)
    BY <1>1, CallHas, FedCall
  <2> QED
    BY <2>1 DEF CallRest, EachOf, Ok
<1>3. CASE fn.type = "builtin" /\ BuiltinFn(fn.name, args) \in Val /\ Deliver(BuiltinFn(fn.name, args), env, Below)
  <2>1. PICK v : v = BuiltinFn(fn.name, args)
    OBVIOUS
  <2>2. \A k \in Nat : Fed(k) = Ok(v, env, log)
    BY <1>2, <1>3, <2>1 DEF EvApply
  <2> QED
    BY <1>0, <1>3, <2>1, <2>2, DeliverDelivers
<1>4. CASE fn.type = "builtin" /\ BuiltinFn(fn.name, args) \notin Val /\ Fail("builtin")
  <2>1. Fed(1) = Error("builtin", log)
    BY <1>2, <1>4 DEF EvApply
  <2> QED
    BY <1>0, <1>4, <2>1, DeliverFails
<1>5. CASE fn.type = "effect" /\ Suspend(fn.name, args, Below)
  <2>1. PICK name : name = fn.name
    OBVIOUS
  <2>2. PICK l : l = Append(log, [name |-> name, args |-> args])
    OBVIOUS
  <2>3. \A k \in Nat : Fed(k) = Of(M(Job, k), FormTask(answers[name], env, l, TailOf(Below)))
    <3>1. ASSUME NEW k \in Nat PROVE M(p, k).answers = answers
      BY <1>1, MReads DEF Job
    <3> QED
      BY <1>1, <1>2, <1>5, <2>1, <2>2, <3>1 DEF EvApply
  <2> QED
    BY <1>0, <1>5, <2>1, <2>2, <2>3, DeliverSuspends
<1>6. CASE fn.type = "closure" /\ Len(args) # Len(fn.params) /\ Fail("arity")
  <2>1. Fed(1) = Error("arity", log)
    BY <1>2, <1>6 DEF EvApply
  <2> QED
    BY <1>0, <1>6, <2>1, DeliverFails
<1>7. CASE fn.type = "closure" /\ Len(args) = Len(fn.params) /\ Run(fn.body, CalledEnv(fn, args), Below)
  <2>1. PICK d, r : d = fn.body /\ r = EnvPush(BindAll(fn.params, args), fn.env)
    OBVIOUS
  <2>2. \A k \in Nat : Fed(k) = Of(M(Job, k), FormTask(d, r, log, TailOf(Below)))
    <3>1. ASSUME NEW k \in Nat PROVE M(p, k).lex = FALSE
      BY MReads
    <3> QED
      BY <1>1, <1>2, <1>7, <2>1, <3>1 DEF EvApply
  <2>3. Run(d, r, Below)
    BY <1>7, <2>1 DEF CalledEnv
  <2> QED
    BY <1>0, <2>2, <2>3, DeliverRunsAs
<1>8. CASE ApplyForged(fn)
  <2>1. Fed(1) = Error("aborted", log)
    BY <1>2, <1>8 DEF EvApply, ApplyForged, Callable
  <2> QED
    BY <1>0, <1>8, <2>1, DeliverAborts DEF ApplyForged
<1>9. CASE ~Callable(fn) /\ Fail("not callable")
  <2>1. Fed(1) = Error("not callable", log)
    BY <1>2, <1>9 DEF EvApply, Callable
  <2> QED
    BY <1>0, <1>9, <2>1, DeliverFails
<1> QED
  BY <1>1, <1>3, <1>4, <1>5, <1>6, <1>7, <1>8, <1>9 DEF Apply, ApplyBuiltin, ApplyClosure

(* A value delivered to a call, which may apply, suspend, abort or fail. *)
LEMMA DeliverCallOnTrack == ASSUME NEW V, OnTrack(V), DeliverCall PROVE Follows'
<1>1. PICK op : op = "call" /\ DeliverTo(op)
  BY DEF DeliverCall
<1>2. /\ Top.op = "call" /\ Whole(V, env, log, Below)
      /\ CallFunc \in V /\ CallFunc # NULL /\ CallArgs \in Seq(V) /\ Top.rest \in Seq(V)
  BY <1>1, CallHas
<1>3. CASE Top.rest = <<>> /\ Apply(CallFunc, CallArgs, Below)
  BY <1>1, <1>3, ApplyOnTrack
<1>4. CASE /\ Top.rest # <<>>
           /\ Run(Top.rest[1], env, Push(Below, CallFrame(CallFunc, CallArgs, Tail(Top.rest))))
  <2>1. PICK es \in Seq(V), vals \in Seq(V) : es = Top.rest /\ vals = CallArgs
    BY <1>2
  <2>2. PICK fn, r, p, s, l, tail : fn = CallFunc /\ r = env /\ p = Job /\ s = Below /\ l = log /\ tail = TailOf(Below)
    OBVIOUS
  <2>3. PICK d, fr : d = es[1] /\ fr = CallFrame(fn, vals, Tail(es))
    OBVIOUS
  <2>4. PICK inner : inner = IF fr.op = "loop-target" THEN "loop" ELSE "inner"
    OBVIOUS
  <2>5. inner = "inner"
    BY <2>3, <2>4 DEF CallFrame
  <2>6. ASSUME NEW k \in Nat, Feed(M(p, k), fr, Of(M(p, k), FormTask(d, r, l, inner)), tail).tag # "fuel"
        PROVE  Fed(k + 1) = Feed(M(p, k), fr, Of(M(p, k), FormTask(d, r, l, inner)), tail)
    <3>1. Fed(k + 1) = CallRest(M(p, k + 1), fn, vals, es, r, l, tail)
      BY <1>2, <2>1, <2>2, FedCall
    <3>2. Whole(V, r, l, s) /\ es # <<>> /\ fn # NULL
      BY <1>2, <1>4, <2>1, <2>2
    <3>3. Feed(M(p, k), CallFrame(fn, vals, Tail(es)), Of(M(p, k), FormTask(es[1], r, l, "inner")), tail).tag # "fuel"
      BY <2>3, <2>5, <2>6
    <3>4. CallRest(M(p, k + 1), fn, vals, es, r, l, tail) =
            Feed(M(p, k), CallFrame(fn, vals, Tail(es)), Of(M(p, k), FormTask(es[1], r, l, "inner")), tail)
      BY <3>2, <3>3, CallUnfolds
    <3> QED
      BY <2>3, <2>5, <3>1, <3>4
  <2>7. Run(d, r, Push(Below, fr))
    BY <1>4, <2>1, <2>2, <2>3
  <2>8. \A k \in Nat :
              Feed(M(Job, k), fr, Of(M(Job, k), FormTask(d, r, log, inner)), TailOf(Below)).tag # "fuel" =>
                Fed(k + 1) = Feed(M(Job, k), fr, Of(M(Job, k), FormTask(d, r, log, inner)), TailOf(Below))
    BY <2>2, <2>6
  <2> QED
    BY <1>1, <2>4, <2>7, <2>8, DeliverPushes
<1> QED
  BY <1>3, <1>4 DEF DeliverCall

(* Every call of deliver_value keeps on track. *)
LEMMA DeliverOnTrack == ASSUME NEW V, OnTrack(V), DeliverValue PROVE Follows'
  BY DoneOnTrack, DeliverCallOnTrack, DeliverIfOnTrack, DeliverDoOnTrack, DeliverLetOnTrack,
     DeliverLoopOnTrack, DeliverTargetOnTrack, DeliverRecurOnTrack
     DEF DeliverValue

(* The answer to an effect goes on where the call was. *)
LEMMA ResumeOnTrack == ASSUME NEW V, OnTrack(V), Resume PROVE Follows'
<1>1. /\ status = "suspended" /\ status' = "running" /\ expr' = answers[effect[1].name]
      /\ UNCHANGED <<program, answers, env, stack, ctl, steps, log>>
  BY DEF Resume
<1>2. ctl = "step"
  BY <1>1 DEF OnTrack, TypeOK
<1>3. FormTold(Job, Pot, answers[effect[1].name], env, log, stack)
  BY <1>1 DEF OnTrack, Follows
<1>4. Job' = Job /\ Pot' = Pot
  BY <1>1 DEF Job, Pot
<1>5. FormTold(Job, Pot, expr, env, log, stack)'
  BY <1>1, <1>3, <1>4
<1> QED
  BY <1>1, <1>2, <1>5 DEF Follows

(* Every step keeps the machine with the meaning of its program. *)
LEMMA NextOnTrack == ASSUME NEW V, OnTrack(V), [Next]_vars PROVE Follows'
<1>1. CASE StepSuspended
  BY <1>1 DEF StepSuspended, Follows
<1>2. CASE UNCHANGED vars
  BY <1>2 DEF vars, state, OnTrack, Follows, Pot, Job
<1> QED
  BY <1>1, <1>2, EvalOnTrack, DeliverOnTrack, ResumeOnTrack DEF Next, Stop

-----------------------------------------------------------------------------
(* What the steps so far can have made *)

(* Of more there is made more. *)
LEMMA MadeMore ==
    ASSUME NEW V, NEW W, V \subseteq W
    PROVE  Made(Val, V) \subseteq Made(Val, W)
<1>1. ASSUME NEW A, NEW B, A \subseteq B PROVE Lists(A) \subseteq Lists(B)
  BY <1>1 DEF Lists
<1>2. ASSUME NEW A, NEW B, A \subseteq B PROVE WithLists(A) \subseteq WithLists(B)
  BY <1>1, <1>2 DEF WithLists
<1>3. WithLists(V) \subseteq WithLists(W)
  BY <1>2
<1>4. WithLists(WithLists(V)) \subseteq WithLists(WithLists(W))
  BY <1>2, <1>3
<1>5. Lists(WithLists(WithLists(V))) \subseteq Lists(WithLists(WithLists(W)))
  BY <1>1, <1>4
<1>6. Closures(V) \subseteq Closures(W)
  <2>1. Scope(V) \subseteq Scope(W) /\ Seq(V) \subseteq Seq(W)
    BY DEF Scope
  <2>2. Env(V) \subseteq Env(W)
    BY <2>1 DEF Env
  <2> QED
    BY <2>1, <2>2 DEF Closures
<1> QED
  BY <1>5, <1>6 DEF Made

(* What was made once is there later. *)
LEMMA MadeLater ==
    ASSUME NEW m \in Nat, NEW n \in Nat, m <= n
    PROVE  MadeOf(Val, m) \subseteq MadeOf(Val, n)
<1> DEFINE Bad == {k \in Nat : ~ (MadeOf(Val, k) \subseteq MadeOf(Val, k + 1))}
           Worse == {k \in Nat : m <= k /\ ~ (MadeOf(Val, m) \subseteq MadeOf(Val, k))}
<1>1. MadeOf(Val, 0) \subseteq MadeOf(Val, 0 + 1)
  BY MadeOfIs DEF Made
<1>2. ASSUME NEW k \in Nat, MadeOf(Val, k) \subseteq MadeOf(Val, k + 1)
      PROVE  MadeOf(Val, k + 1) \subseteq MadeOf(Val, k + 1 + 1)
  <2>1. k + 1 \in Nat
    OBVIOUS
  <2>2. MadeOf(Val, k + 1) = Made(Val, MadeOf(Val, k)) /\ MadeOf(Val, k + 1 + 1) = Made(Val, MadeOf(Val, k + 1))
    BY <2>1, MadeOfIs
  <2> QED
    BY <1>2, <2>2, MadeMore
<1>3. Bad = {}
  <2> SUFFICES ASSUME Bad # {} PROVE FALSE
    OBVIOUS
  <2>1. Bad \in SUBSET Nat
    OBVIOUS
  <2> HIDE DEF Bad
  <2>2. PICK k \in Bad : \A j \in Bad : k <= j
    BY <2>1, LeastOfNaturals
  <2>3. k \in Nat /\ ~ (MadeOf(Val, k) \subseteq MadeOf(Val, k + 1))
    BY <2>2 DEF Bad
  <2>4. k # 0
    BY <1>1, <2>3
  <2>5. PICK j \in Nat : k = j + 1
    <3>1. k - 1 \in Nat /\ k = k - 1 + 1
      BY <2>3, <2>4
    <3> QED
      BY <3>1
  <2>6. j \notin Bad
    BY <2>2, <2>5
  <2>7. MadeOf(Val, j) \subseteq MadeOf(Val, j + 1)
    BY <2>6 DEF Bad
  <2> QED
    BY <1>2, <2>3, <2>5, <2>7
<1>4. Worse = {}
  <2> SUFFICES ASSUME Worse # {} PROVE FALSE
    OBVIOUS
  <2>1. Worse \in SUBSET Nat
    OBVIOUS
  <2> HIDE DEF Worse
  <2>2. PICK k \in Worse : \A j \in Worse : k <= j
    BY <2>1, LeastOfNaturals
  <2>3. k \in Nat /\ m <= k /\ ~ (MadeOf(Val, m) \subseteq MadeOf(Val, k))
    BY <2>2 DEF Worse
  <2>4. k # m
    BY <2>3
  <2>5. PICK j \in Nat : k = j + 1 /\ m <= j
    <3>1. k - 1 \in Nat /\ k = k - 1 + 1 /\ m <= k - 1
      BY <2>3, <2>4
    <3> QED
      BY <3>1
  <2>6. j \notin Worse
    BY <2>2, <2>5
  <2>7. MadeOf(Val, m) \subseteq MadeOf(Val, j)
    BY <2>5, <2>6 DEF Worse
  <2>8. MadeOf(Val, j) \subseteq MadeOf(Val, j + 1)
    BY <1>3
  <2> QED
    BY <2>3, <2>5, <2>7, <2>8
<1> QED
  BY <1>4

(* Every step spends at least as much as it makes. *)
LEMMA PotGrows ==
    ASSUME TypeOK, [Next]_vars
    PROVE  /\ Pot \in Nat /\ Pot' \in Nat /\ Pot <= Pot'
           /\ EvalFn \/ EvalRecur \/ DeliverRecur => Pot + 1 <= Pot'
<1>1. steps \in Nat /\ MaxSteps \in Nat
  BY StepAssumption DEF TypeOK
<1>2. CASE StepCall
  BY <1>1, <1>2 DEF StepCall, Pot
<1>3. CASE Delivering /\ ctl' \in {"step", "deliver"}
  <2>1. Pot = 2 * steps /\ steps' = steps
    BY <1>1, <1>3 DEF Delivering, Pot
  <2>2. Pot' = 2 * steps \/ Pot' = 2 * steps + 1
    BY <1>1, <1>3, <2>1 DEF Pot
  <2>3. DeliverRecur => ctl' = "step"
    BY DEF DeliverRecur, HandleRecur, Restart, Run, Fail
  <2>4. DeliverRecur => Pot' = 2 * steps + 1
    BY <1>1, <2>1, <2>3 DEF Pot
  <2>5. ~ EvalFn /\ ~ EvalRecur
    BY <1>3 DEF Delivering, EvalFn, EvalRecur, StepCall
  <2> QED
    BY <1>1, <2>1, <2>2, <2>4, <2>5
<1>4. CASE steps' = steps /\ ctl' = ctl /\ ~ (EvalFn \/ EvalRecur \/ DeliverRecur)
  BY <1>1, <1>4 DEF Pot
<1>5. ctl' \in {"step", "deliver"}
  BY TypeNext DEF TypeOK
<1>6. CASE Resume \/ StepSuspended \/ UNCHANGED vars
  <2>1. steps' = steps /\ ctl' = ctl
    BY <1>6 DEF Resume, StepSuspended, vars, state
  <2>2. CASE EvalFn \/ EvalRecur
    BY <1>2, <2>2 DEF EvalFn, EvalRecur
  <2>3. CASE DeliverRecur
    BY <1>3, <1>5, <2>3 DEF DeliverRecur, DeliverTo
  <2> QED
    BY <1>4, <2>1, <2>2, <2>3
<1>7. CASE Eval
  BY <1>2, <1>7 DEF Eval, EvalAtom, EvalSymbol, EvalEmptyList, EvalQuote, EvalIf, EvalDo, EvalLet, EvalFn,
                    EvalLoop, EvalRecur, EvalCall
<1>8. CASE DeliverValue
  BY <1>3, <1>5, <1>8 DEF DeliverValue, DeliverTo, DeliverDone, DeliverCall, DeliverIf, DeliverDo,
                    DeliverLet, DeliverLoop, DeliverTarget, DeliverRecur
<1> QED
  BY <1>6, <1>7, <1>8 DEF Next, Stop

(* The effects requested are those there were, and the one asked for now. *)
LEMMA LogNext ==
    ASSUME [Next]_vars
    PROVE  log' = log \/ (effect' # <<>> /\ log' = Append(log, effect'[1]))
<1>1. ASSUME NEW f, NEW args, NEW s, Suspend(f, args, s)
      PROVE  effect' # <<>> /\ log' = Append(log, effect'[1])
  BY <1>1 DEF Suspend
<1>2. \A e, r, s : Run(e, r, s) \/ Deliver(e, r, s) => log' = log
  BY DEF Run, Deliver
<1>3. \A kind : Fail(kind) => log' = log
  BY DEF Fail
<1>4. ASSUME NEW args, NEW s, HandleRecur(args, s) PROVE log' = log
  BY <1>2, <1>3, <1>4 DEF HandleRecur, Restart
<1>5. CASE Eval
  <2>1. EvalAtom \/ EvalSymbol \/ EvalEmptyList \/ EvalQuote \/ EvalIf \/ EvalDo => log' = log
    BY <1>2, <1>3 DEF EvalAtom, EvalSymbol, EvalEmptyList, EvalQuote, EvalIf, EvalDo
  <2>2. EvalLet \/ EvalFn \/ EvalLoop \/ EvalCall => log' = log
    BY <1>2, <1>3 DEF EvalLet, EvalFn, EvalLoop, EvalCall
  <2>3. EvalRecur => log' = log
    BY <1>2, <1>4 DEF EvalRecur
  <2> QED
    BY <1>5, <2>1, <2>2, <2>3 DEF Eval
<1>6. CASE DeliverValue
  <2>1. DeliverIf \/ DeliverDo \/ DeliverLet \/ DeliverLoop \/ DeliverTarget => log' = log
    BY <1>2 DEF DeliverIf, DeliverDo, DeliverLet, DeliverLoop, DeliverTarget
  <2>2. DeliverRecur => log' = log
    BY <1>2, <1>4 DEF DeliverRecur
  <2>3. DeliverDone => log' = log
    BY DEF DeliverDone
  <2>4. ASSUME NEW f, NEW args, NEW s, Apply(f, args, s)
        PROVE  log' = log \/ (effect' # <<>> /\ log' = Append(log, effect'[1]))
    <3>1. ApplyBuiltin(f, args, s) \/ ApplyClosure(f, args, s) => log' = log
      BY <1>2, <1>3 DEF ApplyBuiltin, ApplyClosure
    <3>2. ApplyForged(f) => log' = log
      BY DEF ApplyForged, Abort
    <3> QED
      BY <1>1, <1>3, <2>4, <3>1, <3>2 DEF Apply
  <2>5. DeliverCall => log' = log \/ (effect' # <<>> /\ log' = Append(log, effect'[1]))
    BY <1>2, <2>4 DEF DeliverCall
  <2> QED
    BY <1>6, <2>1, <2>2, <2>3, <2>5 DEF DeliverValue
<1>7. CASE Resume \/ StepSuspended \/ UNCHANGED vars
  BY <1>7 DEF Resume, StepSuspended, vars, state
<1> QED
  BY <1>5, <1>6, <1>7 DEF Next, Stop

(* What holds of every state: it follows the program, and is made of what  *)
(* the steps so far can have made.                                         *)
MeaningInv ==
    /\ TypeOK /\ Follows
    /\ \E V : /\ Closed(V) /\ StateOver(V) /\ log \in Requests(V)
              /\ V \subseteq MadeOf(Val, Pot)

(* The steps there are never go through more tasks than there is fuel for. *)
LEMMA PotBounded == ASSUME TypeOK PROVE Pot \in Nat /\ Fuel \in Nat /\ Pot <= Fuel
<1>1. steps \in 0 .. MaxSteps /\ MaxSteps \in Nat
  BY StepAssumption DEF TypeOK
<1> QED
  BY <1>1 DEF Pot, Fuel

(* What the steps so far can have made is in Universe. *)
LEMMA MadeInUniverse ==
    ASSUME TypeOK, NEW V, V \subseteq MadeOf(Val, Pot)
    PROVE  V \subseteq Universe
<1>1. PICK n \in Nat, m \in Nat : n = Pot /\ m = Fuel /\ n <= m
  BY PotBounded
<1>2. MadeOf(Val, n) \subseteq MadeOf(Val, m)
  BY <1>1, MadeLater
<1> QED
  BY <1>1, <1>2 DEF Universe

(* Before the first step the program is all there is to do. *)
LEMMA MeaningInit == Init => MeaningInv
<1> SUFFICES ASSUME Init PROVE MeaningInv
  OBVIOUS
<1>1. /\ status = "running" /\ ctl = "step" /\ steps = 0 /\ expr = program /\ env = <<Global>>
      /\ stack = <<>> /\ log = <<>> /\ effect = <<>> /\ error = "none"
  BY DEF Init
<1>2. TypeOK
  BY TypeInit
<1>3. Pot = 1
  BY <1>1 DEF Pot
<1>4. PICK p : p = Job
  OBVIOUS
<1>5. PICK s : s = <<>>
  OBVIOUS
<1>6. Len(s) = 0 /\ TailOf(s) = "top"
  BY <1>5 DEF TailOf, TailAt
<1>7. FormTask(program, <<Global>>, <<>>, TailOf(s)) = StartOf(p)
  BY <1>4, <1>6 DEF StartOf, Job
<1>8. ASSUME NEW k \in Nat PROVE Told(p, 1, k, Of(M(p, k), StartOf(p)), s)
  <2> SUFFICES ASSUME NEW res, res.tag # "fuel", Explains(M(p, k), s, Of(M(p, k), StartOf(p)), res)
               PROVE  Of(M(p, k + 1), StartOf(p)) = res
    BY DEF Told
  <2>1. res = Of(M(p, k), StartOf(p))
    BY <1>6 DEF Explains
  <2>2. More(M(p, k), M(p, k + 1))
    BY MMore
  <2> QED
    BY <2>1, <2>2, MoreAt
<1>9. FormTold(Job, Pot, expr, env, log, stack)
  <2>1. FormTold(p, 1, program, <<Global>>, <<>>, s)
    BY <1>7, <1>8 DEF FormTold
  <2> QED
    BY <1>1, <1>3, <1>4, <1>5, <2>1
<1>10. Follows
  BY <1>1, <1>9 DEF Follows
<1>11. log \in Requests(Val)
  BY <1>1 DEF Requests
<1>12. Val \subseteq MadeOf(Val, Pot)
  <2>1. MadeOf(Val, 0) = Val /\ MadeOf(Val, 0) \subseteq MadeOf(Val, 1)
    BY MadeOfIs, MadeLater
  <2> QED
    BY <1>3, <2>1
<1> QED
  BY <1>2, <1>10, <1>11, <1>12, InitOver, ClosedVal DEF MeaningInv

(* Two closed sets of values are one. *)
LEMMA JoinCloses ==
    ASSUME NEW V, NEW W, Closed(V), Closed(W)
    PROVE  Closed(V \cup W) /\ (StateOver(W)' => StateOver(V \cup W)')
<1> DEFINE U == V \cup W
<1>1. V \subseteq U /\ W \subseteq U
  OBVIOUS
<1> HIDE DEF U
<1>2. /\ EnvOver(V) \subseteq EnvOver(U) /\ EnvOver(W) \subseteq EnvOver(U)
      /\ Stack(W) \subseteq Stack(U) /\ Requests(W) \subseteq Requests(U)
      /\ Seq(V) \subseteq Seq(U) /\ Seq(W) \subseteq Seq(U)
  BY <1>1, EnvGrows, FrameGrows
<1>3. Closed(U)
  <2>1. Val \subseteq U
    BY <1>1 DEF Closed
  <2>2. ASSUME NEW v \in U
        PROVE  /\ v.type = "list" => v.items \in Seq(U)
               /\ v.type = "closure" => v.params \in Seq(U) /\ v.body \in U /\ v.env \in EnvOver(U)
               /\ v.type = "effect" => v.name \in Effect
               /\ v.type = "symbol" => v.name \in Name
    <3>1. CASE v \in V
      BY <1>1, <1>2, <3>1 DEF Closed
    <3>2. CASE v \in W
      BY <1>1, <1>2, <3>2 DEF Closed
    <3> QED
      BY <3>1, <3>2 DEF U
  <2> QED
    BY <2>1, <2>2 DEF Closed
<1>4. StateOver(W)' => StateOver(U)'
  BY <1>1, <1>2 DEF StateOver
<1> QED
  BY <1>3, <1>4 DEF U

(* Every step keeps what holds of every state. *)
LEMMA MeaningNext == MeaningInv /\ [Next]_vars => MeaningInv'
<1> SUFFICES ASSUME MeaningInv, [Next]_vars PROVE MeaningInv'
  OBVIOUS
<1>1. PICK V : Closed(V) /\ StateOver(V) /\ log \in Requests(V) /\ V \subseteq MadeOf(Val, Pot)
  BY DEF MeaningInv
<1>2. TypeOK /\ TypeOK'
  BY TypeNext DEF MeaningInv
<1>3. OnTrack(V)
  <2>1. V \subseteq Universe
    BY <1>1, <1>2, MadeInUniverse
  <2> QED
    BY <1>1, <2>1 DEF MeaningInv, OnTrack, Whole, StateOver
<1>4. Follows'
  BY <1>3, NextOnTrack
<1>5. PICK W : /\ Closed(W) /\ StateOver(W)' /\ OldOrMade(V, W)
               /\ W = V \/ EvalFn \/ EvalRecur \/ DeliverRecur
  BY <1>1, <1>2, ValuesNext
<1>6. PICK U : U = V \cup W
  OBVIOUS
<1>7. Closed(U) /\ StateOver(U)'
  BY <1>1, <1>5, <1>6, JoinCloses
<1>8. log' \in Requests(U)
  <2>1. Requests(V) \subseteq Requests(U)
    BY <1>6, FrameGrows
  <2>2. log \in Requests(U) /\ effect' \in Requests(U)
    BY <1>1, <1>7, <2>1 DEF StateOver
  <2>3. PICK R : R = [name : Effect, args : Seq(U)]
    OBVIOUS
  <2>4. log \in Seq(R) /\ effect' \in Seq(R)
    BY <2>2, <2>3 DEF Requests
  <2>5. CASE effect' # <<>> /\ log' = Append(log, effect'[1])
    <3>1. effect'[1] \in R
      BY <2>4, <2>5
    <3>2. log' \in Seq(R)
      BY <2>4, <2>5, <3>1
    <3> QED
      BY <2>3, <3>2 DEF Requests
  <2> QED
    BY <2>2, <2>5, LogNext
<1>9. U \subseteq MadeOf(Val, Pot')
  <2>1. PICK n \in Nat, m \in Nat : n = Pot /\ m = Pot' /\ n <= m /\ (W = V \/ n + 1 <= m)
    BY <1>2, <1>5, PotGrows
  <2>2. MadeOf(Val, n) \subseteq MadeOf(Val, m)
    BY <2>1, MadeLater
  <2>3. CASE W = V
    BY <1>1, <1>6, <2>1, <2>2, <2>3
  <2>4. CASE n + 1 <= m
    <3>1. n + 1 \in Nat /\ MadeOf(Val, n + 1) = Made(Val, MadeOf(Val, n))
      BY MadeOfIs
    <3>2. MadeOf(Val, n + 1) \subseteq MadeOf(Val, m)
      BY <2>4, <3>1, MadeLater
    <3>3. Made(Val, V) \subseteq Made(Val, MadeOf(Val, n))
      BY <1>1, <2>1, MadeMore
    <3>4. W \subseteq V \cup Made(Val, V)
      BY <1>5 DEF OldOrMade
    <3> QED
      BY <1>1, <1>6, <2>1, <2>2, <3>1, <3>2, <3>3, <3>4
  <2> QED
    BY <2>1, <2>3, <2>4
<1>10. (\E V1 : /\ Closed(V1) /\ StateOver(V1) /\ log \in Requests(V1)
                /\ V1 \subseteq MadeOf(Val, Pot))'
  BY <1>7, <1>8, <1>9
<1> QED
  BY <1>2, <1>4, <1>10 DEF MeaningInv

(* At the end there is no more to do than to report what the program means. *)
LEMMA MeaningFound == MeaningInv => MachineMeansForms
<1> SUFFICES ASSUME MeaningInv, Finished PROVE Outcome = Meaning(FALSE)
  BY DEF MachineMeansForms
<1>1. TypeOK /\ Follows /\ error # "suspended" /\ status \in {"done", "error", "aborted"}
  BY DEF MeaningInv, Finished
<1>2. PICK n \in Nat, m \in Nat : n = Pot /\ m = Fuel /\ n <= m
  BY <1>1, PotBounded
<1>3. PICK p, t : p = Job /\ t = StartOf(Job)
  OBVIOUS
<1>4. More(M(p, n), M(p, m))
  BY <1>2, MMore
<1>5. PICK h : h = Of(M(p, m), t)
  OBVIOUS
<1>6. Meaning(FALSE) = IF h.tag = "value" THEN <<"value", Seen(h.val), SeenLog(h.log)>>
                       ELSE <<"error", h.kind, SeenLog(h.log)>>
  <2>1. h = Of(Meanings(FALSE, answers, Fuel), FormTask(program, <<Global>>, <<>>, "top"))
    BY <1>2, <1>3, <1>5 DEF M, StartOf, Job
  <2> QED
    BY <2>1 DEF Meaning
<1>7. CASE status = "done"
  <2>1. Of(M(p, n), t) = Ok(expr, env, log)
    BY <1>1, <1>2, <1>3, <1>7 DEF Follows
  <2>2. h = Ok(expr, env, log)
    BY <1>4, <1>5, <2>1, MoreAt DEF Ok
  <2> QED
    BY <1>6, <1>7, <2>2 DEF Ok, Outcome
<1>8. ASSUME NEW kind, kind = (IF status = "aborted" THEN "aborted" ELSE error), status # "done"
      PROVE  Outcome = Meaning(FALSE)
  <2>1. ErrorTold(Job, Pot, kind, log)
    BY <1>1, <1>8 DEF Follows
  <2>2. Of(M(p, n), t) = Error(kind, log)
    BY <1>2, <1>3, <2>1 DEF ErrorTold
  <2>3. h = Error(kind, log)
    BY <1>4, <1>5, <2>2, MoreAt DEF Error
  <2> QED
    BY <1>6, <1>8, <2>3 DEF Error, Outcome
<1> QED
  BY <1>7, <1>8

(* However a program is nested, whatever it binds, loops over and calls,   *)
(* and however often it is suspended, the machine comes to the result or   *)
(* the error that its forms mean, read recursively with no stack at all,   *)
(* and to the same effects in the same order.                              *)
THEOREM MachineFollowsMeaning == Spec => []MachineMeansForms
<1>1. MeaningInv /\ UNCHANGED vars => MeaningInv'
  BY MeaningNext
<1> QED
  BY MeaningInit, MeaningNext, MeaningFound, PTL DEF Spec
=============================================================================
