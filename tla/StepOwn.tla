------------------------------- MODULE StepOwn ------------------------------
(***************************************************************************)
(* Who owns which value while step() runs (step.c).                        *)
(*                                                                         *)
(* ValHeap shows that a value lives as long as a reference to it is held   *)
(* somewhere; here is who holds them: every activation of a C function has *)
(* the variables whose reference it owns, borrows the rest from functions  *)
(* further out, and releases some before it returns.  The state, with the  *)
(* frames and values in it, is lent by the caller of step().  Of the       *)
(* program only its stack is kept, a frame being its :op and how much it   *)
(* still has to do; the expression to step, and what a value is, are any.  *)
(* Keywords made to be compared and released at once (step.c:595-605) are  *)
(* left out, and a frame with another :op, which step() never makes.       *)
(***************************************************************************)
EXTENDS Integers, Sequences, FiniteSets

CONSTANTS
    MaxItems,   \* bound: expressions in a form
    MaxFrames   \* bound: frames on the stack

ASSUME OwnAssumption == MaxItems \in Nat \ {0} /\ MaxFrames \in Nat

VARIABLES
    stack,   \* the program's stack in the state, its top last
    acts,    \* activations of C functions, the innermost last
    kept     \* variables whose function returned without releasing them

vars == <<stack, acts, kept>>

(* proc works on the lowest depth frames of the stack; what it was lent, a  *)
(* variable and the place of its owner in acts, what it owns and what it    *)
(* will have released at its end.                                           *)
Act(proc, depth, lent) ==
    [proc |-> proc, depth |-> depth, lent |-> lent, own |-> {}, frees |-> {}, ready |-> FALSE]

State == <<"state", 0>>

Init ==
    /\ stack = <<>>
    /\ acts = <<>>
    /\ kept = {}

-----------------------------------------------------------------------------
Top == acts[Len(acts)]
In(proc) == acts # <<>> /\ Top.proc = proc /\ ~Top.ready
Lowest(n) == SubSeq(stack, 1, n)

(* What a function lends: something of its own, and what it was lent.  The *)
(* function of a frame is in the stack that the frame was taken from, be   *)
(* it the state's or a rest_stack.                                         *)
Lend(own) == Top.lent \cup (own \X {Len(acts)})

(* The result is made; it only remains to release and return. *)
Make(own, frees, result) ==
    /\ Len(result) <= MaxFrames
    /\ stack' = result
    /\ acts' = [acts EXCEPT ![Len(acts)] = [@ EXCEPT !.own = own, !.frees = frees, !.ready = TRUE]]
    /\ UNCHANGED kept

(* The result is that of another function, called with what is owned. *)
CallOut(own, frees, callee) ==
    /\ acts' = Append([acts EXCEPT ![Len(acts)] = [@ EXCEPT !.own = own, !.frees = frees]], callee)
    /\ UNCHANGED <<stack, kept>>

(* An error ends the program: the next one starts with an empty stack. *)
Fail(own) == Make(own, own, <<>>)

Return ==
    /\ acts # <<>> /\ Top.ready
    /\ kept' = kept \cup (Top.own \ Top.frees)
    /\ acts' = [d \in 1..Len(acts) - 1 |-> [acts[d] EXCEPT !.ready = @ \/ d = Len(acts) - 1]]
    /\ UNCHANGED stack

-----------------------------------------------------------------------------
(* step, and step_eval which owns nothing when step calls it *)
Step ==
    /\ acts = <<>>
    /\ acts' = <<Act("step", Len(stack), {State})>>
    /\ UNCHANGED <<stack, kept>>

PushFrame(own, op, n) ==
    LET mine == own \cup {"frame", "new_stack"} IN Make(mine, mine, Append(stack, <<op, n>>))

EvalFailed == In("step") /\ Fail({})
EvalSame == In("step") /\ Make({}, {}, stack)        \* a form that becomes its body
EvalValue == In("step") /\ CallOut({}, {}, Act("deliver_value", Len(stack), Lend({})))
EvalFn ==
    LET mine == {"closure"}
    IN  In("step") /\ CallOut(mine, mine, Act("deliver_value", Len(stack), Lend(mine)))
EvalIf == In("step") /\ PushFrame({}, "if-branch", 1)
EvalDo == In("step") /\ \E n \in 1..MaxItems : PushFrame({"rest"}, "do-rest", n)
EvalLet == In("step") /\ \E n \in 1..MaxItems : PushFrame({"rest_binds"}, "let-binds", n)
EvalLoop == In("step") /\ \E n \in 1..MaxItems : PushFrame({}, "loop-binds", n)
EvalCall == In("step") /\ \E n \in 0..MaxItems : PushFrame({"empty", "rest"}, "call", n)
EvalRecur == In("step") /\ \E n \in 0..MaxItems : PushFrame({"recur_op", "empty", "rest"}, "recur-args", n)
EvalRecurNone ==
    LET mine == {"empty"} IN In("step") /\ CallOut(mine, mine, Act("handle_recur", Len(stack), Lend(mine)))

Eval ==
    \/ EvalFailed \/ EvalSame \/ EvalValue \/ EvalFn \/ EvalIf \/ EvalDo \/ EvalLet \/ EvalLoop
    \/ EvalCall \/ EvalRecur \/ EvalRecurNone

-----------------------------------------------------------------------------
(* deliver_value: rest_stack is made of what is below the frame.           *)
DeliverDone == In("deliver_value") /\ Top.depth = 0 /\ Make({}, {}, <<>>)

Delivering(op) == In("deliver_value") /\ Top.depth > 0 /\ stack[Top.depth][1] = op
Left == stack[Top.depth][2]
Below == Lowest(Top.depth - 1)

(* The frame goes on as <<op, n>>. *)
Renew(own, op, n) ==
    LET mine == own \cup {"rest_stack", "new_frame", "new_stack"}
    IN  Make(mine, mine, Append(Below, <<op, n>>))

CallWith(own, proc) ==
    LET mine == own \cup {"rest_stack"} IN CallOut(mine, mine, Act(proc, Top.depth - 1, Lend(mine)))

DeliverFunc ==
    /\ Delivering("call")
    /\ IF Left = 0 THEN CallWith({"empty_args"}, "apply_fn")
       ELSE Renew({"new_rest"}, "args", Left - 1)

DeliverArgEarly ==   \* faulty: rest_stack is released before the call
    /\ Delivering("args")
    /\ IF Left = 0
       THEN CallOut({"new_args"}, {"new_args"}, Act("apply_fn", Top.depth - 1, Lend({"new_args", "rest_stack"})))
       ELSE Renew({"new_args", "new_rest"}, "args", Left - 1)

DeliverArg ==
    /\ Delivering("args")
    /\ IF Left = 0 THEN CallWith({"new_args"}, "apply_fn")
       ELSE Renew({"new_args", "new_rest"}, "args", Left - 1)

DeliverIf == Delivering("if-branch") /\ Make({"rest_stack"}, {"rest_stack"}, Below)

DeliverDo ==
    /\ Delivering("do-rest")
    /\ IF Left = 1 THEN Make({"rest_stack"}, {"rest_stack"}, Below)
       ELSE Renew({"new_rest"}, "do-rest", Left - 1)

DeliverLetKept ==   \* faulty: new_env is not released with the last binding
    /\ Delivering("let-binds")
    /\ IF Left = 1 THEN Make({"scope", "new_env", "rest_stack"}, {"scope", "rest_stack"}, Below)
       ELSE Renew({"scope", "new_env", "next_bindings"}, "let-binds", Left - 1)

DeliverLet ==
    /\ Delivering("let-binds")
    /\ LET mine == {"scope", "new_env", "rest_stack"}
       IN  IF Left = 1 THEN Make(mine, mine, Below)
           ELSE Renew({"scope", "new_env", "next_bindings"}, "let-binds", Left - 1)

DeliverLoop ==
    /\ Delivering("loop-binds")
    /\ LET mine == {"scope", "new_env", "recur_target_op", "target_frame", "new_stack", "rest_stack"}
       IN  IF Left = 1 THEN Make(mine, mine, Append(Below, <<"loop-target", 1>>))
           ELSE Renew({"scope", "new_env", "next_bindings"}, "loop-binds", Left - 1)

DeliverTarget == Delivering("loop-target") /\ CallWith({}, "deliver_value")

(* The keyword of the new frame is in no variable that is released.        *)
DeliverRecur ==
    /\ Delivering("recur-args")
    /\ LET mine == {"new_args", "new_rest", "new_frame", "new_stack", "rest_stack"}
       IN  IF Left = 0 THEN CallWith({"new_args"}, "handle_recur")
           ELSE Make(mine \cup {"recur-args"}, mine, Append(Below, <<"recur-args", Left - 1>>))

Deliver ==
    \/ DeliverDone \/ DeliverFunc \/ DeliverArg \/ DeliverIf \/ DeliverDo \/ DeliverLet
    \/ DeliverLoop \/ DeliverTarget \/ DeliverRecur

-----------------------------------------------------------------------------
ApplyBuiltin ==
    /\ In("apply_fn")
    /\ LET mine == {"result"} IN CallOut(mine, mine, Act("deliver_value", Top.depth, Lend(mine)))
ApplyEffect ==
    LET mine == {"name_kw", "effect_desc", "nil"}
    IN  In("apply_fn") /\ Make(mine, mine, Lowest(Top.depth))
ApplyClosure ==
    LET mine == {"scope", "new_env"} IN In("apply_fn") /\ Make(mine, mine, Lowest(Top.depth))
ApplyFailed == In("apply_fn") /\ Fail({})      \* a builtin's error is itself the result

Apply == ApplyBuiltin \/ ApplyEffect \/ ApplyClosure \/ ApplyFailed

RecurFailed == In("handle_recur") /\ Fail({})
Restart ==
    /\ In("handle_recur")
    /\ Top.depth > 0 /\ stack[Top.depth][1] = "loop-target"
    /\ LET mine == {"quoted", "new_bindings", "loop_expr", "rest_stack"} IN Make(mine, mine, Below)

HandleRecur == RecurFailed \/ Restart

Next == Step \/ Eval \/ Deliver \/ Apply \/ HandleRecur \/ Return

Spec == Init /\ [][Next]_vars
=============================================================================
