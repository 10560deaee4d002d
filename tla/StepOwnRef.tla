----------------------------- MODULE StepOwnRef -----------------------------
(***************************************************************************)
(* What the functions of step.c owe each other: borrowed values stay alive *)
(* and owned ones are given back (README.md:27, val.md:71).       *)
(***************************************************************************)
EXTENDS StepOwn

Ops == {"call", "args", "if-branch", "do-rest", "let-binds", "loop-binds", "loop-target", "recur-args"}
Procs == {"step", "deliver_value", "apply_fn", "handle_recur"}
Variables ==
    {"closure", "frame", "new_stack", "rest", "rest_binds", "empty", "recur_op", "rest_stack", "new_frame",
     "empty_args", "new_args", "new_rest", "scope", "new_env", "next_bindings", "recur_target_op",
     "target_frame", "recur-args", "result", "name_kw", "effect_desc", "nil", "quoted", "new_bindings", "loop_expr"}

(* Every variable has its type.  A frame but those of calls and recurs is  *)
(* on the stack only while it has something to do (step.c:490, 525, 559).  *)
TypeOK ==
    /\ stack \in Seq(Ops \X (0..MaxItems))
    /\ \A i \in DOMAIN stack : stack[i][1] \notin {"call", "args", "recur-args"} => stack[i][2] > 0
    /\ \A d \in DOMAIN acts : /\ acts[d].proc \in Procs
                              /\ acts[d].depth \in 0..MaxFrames
                              /\ acts[d].own \cup acts[d].frees \subseteq Variables
                              /\ acts[d].ready => d = Len(acts)

(* While a function runs, all that it was lent, by its caller or through   *)
(* it, is still owned by the function that lent it, further out: the frame *)
(* taken off the stack with the function in it, the arguments and the stack*)
(* below stay alive through deliver_value, apply_fn and deliver_value      *)
(* again, however often they call each other (step.c:339-349, 427-430,     *)
(* 450-453, 598-600).                                                      *)
BorrowedIsOwned ==
    /\ TypeOK
    /\ \A d \in DOMAIN acts : \A b \in acts[d].lent :
          b = State \/ (b[2] \in 1..d - 1 /\ b[1] \in acts[b[2]].own)

(* Nothing is released that is not owned, and nothing that is owned is     *)
(* left when a function returns but the keyword of a recur with more       *)
(* arguments to come: every path through step.c, those of errors included, *)
(* balances (step.c:179-756).                                              *)
OnlyRecurKeeps ==
    /\ \A d \in DOMAIN acts : acts[d].frees \subseteq acts[d].own
    /\ kept \subseteq {"recur-args"}

(* "making refcounting complete and correct" (README.md:27): a step leaves *)
(* no reference that nobody will release.                                  *)
NothingKept == kept = {}
=============================================================================
