------------------------------ MODULE StepText ------------------------------
(***************************************************************************)
(* Where forms stand in the text of a program, and what the evaluator      *)
(* promises to a program by where its forms stand.                         *)
(***************************************************************************)
EXTENDS Step

CONSTANT Depth(_)   \* how deep lists are nested in a value

(* Values are finite: val_list makes a list of values there are (val.c).   *)
ASSUME DepthAssumption ==
    \A v \in Val :
        /\ Depth(v) \in Nat
        /\ v.type = "list" => \A i \in DOMAIN v.items : Depth(v.items[i]) < Depth(v)

-----------------------------------------------------------------------------
(* Forms *)

IsList(e) == e.type = "list" /\ e.items # <<>>
HasForm(e, x) == IsList(e) /\ e.items[1] = Sym(x)

WellFormed(e) ==
    LET n == Len(e.items)
        IsPairs == e.items[2].type = "list" /\ Len(e.items[2].items) % 2 = 0
        IsParams == /\ e.items[2].type = "list"
                    /\ \A i \in DOMAIN e.items[2].items :
                        e.items[2].items[i].type = "symbol"
    IN  CASE HasForm(e, "quote") -> n = 2
          [] HasForm(e, "if") -> n = 4
          [] HasForm(e, "do") -> n >= 2
          [] HasForm(e, "let") \/ HasForm(e, "loop") -> n = 3 /\ IsPairs
          [] HasForm(e, "fn") -> n = 3 /\ IsParams
          [] OTHER -> TRUE

IsBinder(e) == (HasForm(e, "let") \/ HasForm(e, "loop")) /\ WellFormed(e)
BindingCount(e) == IF IsBinder(e) THEN Len(e.items[2].items) \div 2 ELSE 0

(* The form makes a scope in which the name is bound. *)
Binds(e, y) ==
    \/ IsBinder(e) /\ \E j \in 1 .. BindingCount(e) : e.items[2].items[2 * j - 1] = Sym(y)
    \/ /\ HasForm(e, "fn") /\ WellFormed(e)
       /\ \E i \in DOMAIN e.items[2].items : e.items[2].items[i] = Sym(y)

-----------------------------------------------------------------------------
(* Where forms stand in a program *)

(* recur: in tail position of a loop's body.  tail: the last thing its     *)
(* function, or the program, does.  quiet: nothing is evaluated in the env *)
(* it leaves behind.                                                       *)
Place(recur, tail, quiet) == [recur |-> recur, tail |-> tail, quiet |-> quiet]
Inside == Place(FALSE, FALSE, FALSE)
BoundValue == Place(FALSE, FALSE, TRUE)
FnBody == Place(FALSE, TRUE, TRUE)
LoopBody(p) == Place(TRUE, FALSE, p.quiet)

At(e, p) == [form |-> e, place |-> p]

(* The items of a form that are evaluated, and where item i stands in a    *)
(* form that stands at p.                                                  *)
Evaluated(e) ==
    CASE HasForm(e, "quote") -> {}
      [] HasForm(e, "if") \/ HasForm(e, "do") -> 2 .. Len(e.items)
      [] HasForm(e, "let") \/ HasForm(e, "loop") \/ HasForm(e, "fn") -> {3}
      [] OTHER -> 1 .. Len(e.items)

ItemPlace(e, i, p) ==
    CASE HasForm(e, "if") -> IF i = 2 THEN Inside ELSE p
      [] HasForm(e, "do") -> IF i = Len(e.items) THEN p ELSE Inside
      [] HasForm(e, "let") -> p
      [] HasForm(e, "loop") -> LoopBody(p)
      [] HasForm(e, "fn") -> FnBody
      [] OTHER -> Inside

Parts(o) ==
    LET e == o.form
    IN  IF ~ IsList(e) \/ ~ WellFormed(e) THEN {}
        ELSE {At(e.items[i], ItemPlace(e, i, o.place)) : i \in Evaluated(e)}
             \cup {At(e.items[2].items[2 * j], BoundValue) : j \in 1 .. BindingCount(e)}

(* Every form of the program p that is evaluated, and where it stands. *)
WithParts(S) == S \cup UNION {Parts(o) : o \in S}

Occurrences(p) ==
    LET upto[k \in 0 .. Depth(p)] == IF k = 0 THEN {At(p, FnBody)} ELSE WithParts(upto[k - 1])
    IN  upto[Depth(p)]

NamesBound(p) == {y \in Name : \E o \in Occurrences(p) : Binds(o.form, y)}

(* A symbol that means the library's builtin or effect wherever it stands. *)
OfLibrary(p, e) == e.type = "symbol" /\ Global[e.name] # NULL /\ e.name \notin NamesBound(p)

(* A call of something that is not a builtin or effect of the library. *)
ClosureCall(p, e) ==
    /\ IsList(e)
    /\ \A x \in SpecialForms : ~HasForm(e, x)
    /\ ~ OfLibrary(p, e.items[1])

RecursPlaced(p) == \A o \in Occurrences(p) : HasForm(o.form, "recur") => o.place.recur
TailCalls(p) == \A o \in Occurrences(p) : ClosureCall(p, o.form) => o.place.tail
ScopesQuiet(p) ==
    \A o \in Occurrences(p) :
        BindingCount(o.form) > 0 \/ ClosureCall(p, o.form) => o.place.quiet
NoEmptyLoop(p) ==
    \A o \in Occurrences(p) : ~(HasForm(o.form, "loop") /\ BindingCount(o.form) = 0)

(* The answer to an effect is evaluated in place of the call; one that is  *)
(* a form would be a program of its own.                                   *)
Plain(ans) == \A x \in Effect : ~ IsList(ans[x])

-----------------------------------------------------------------------------
(* Properties *)

(* "Jump back to enclosing `loop`" (step.md:57): a recur in tail position  *)
(* of a loop finds it.                                                     *)
RecurReachesLoop ==
    error \in {"recur outside loop", "recur not in tail position"} => ~RecursPlaced(program)

(* Loops and tail calls run in constant stack: however long a program runs *)
(* whose closures are called in tail position only, the stack is no higher *)
(* than the text is deep (step.c:396-397, 595-601, 686-692).               *)
StackBounded ==
    Len(stack) > Depth(program) => ~ (TailCalls(program) /\ Plain(answers))
=============================================================================
