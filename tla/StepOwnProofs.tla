---------------------------- MODULE StepOwnProofs ---------------------------
(***************************************************************************)
(* Theorems about the ownership of values in step.c, for forms of any      *)
(* length and stacks of any depth.                                         *)
(***************************************************************************)
EXTENDS StepOwnRef, TLAPS

Frames == Ops \X (0..MaxItems)
Unfinished(s) == \A i \in DOMAIN s : s[i][1] \notin {"call", "args", "recur-args"} => s[i][2] > 0
Stacks == {s \in Seq(Frames) : Unfinished(s) /\ Len(s) <= MaxFrames}

Lendable == (Variables \cup {"state"}) \X Nat
Activations == [proc : Procs, depth : 0..MaxFrames, lent : SUBSET Lendable,
                own : SUBSET Variables, frees : SUBSET Variables, ready : BOOLEAN]

(* What an activation has made up its mind to release it owns, and that is *)
(* all it owns but for the keyword of recur.                               *)
Balanced(a) == a.frees \subseteq a.own /\ a.own \ a.frees \subseteq {"recur-args"}

(* In chain, the d-th activation's caller or one further out owns b.       *)
OwnedIn(chain, d, b) == b = State \/ (b[2] \in 1..d - 1 /\ b[1] \in chain[b[2]].own)

(* The stack is only replaced by a function that is about to return, after *)
(* which its callers return: until then an activation's depth is one of    *)
(* the stack's.                                                            *)
OwnInv ==
    /\ stack \in Stacks
    /\ acts \in Seq(Activations)
    /\ \A d \in DOMAIN acts : Balanced(acts[d])
    /\ \A d \in DOMAIN acts : acts[d].ready => d = Len(acts)
    /\ acts # <<>> /\ ~Top.ready => Top.depth <= Len(stack)
    /\ \A d \in DOMAIN acts : \A b \in acts[d].lent : OwnedIn(acts, d, b)
    /\ kept \subseteq {"recur-args"}

-----------------------------------------------------------------------------
(* The stacks that step.c makes *)

(* A frame on top of a stack; the caller says whether there is room.       *)
LEMMA Pushed ==
    ASSUME NEW s \in Stacks, NEW f \in Frames, Len(Append(s, f)) <= MaxFrames,
           f[1] \notin {"call", "args", "recur-args"} => f[2] > 0
    PROVE  Append(s, f) \in Stacks
<1>1. s \in Seq(Frames) /\ Unfinished(s)
  BY DEF Stacks
<1>2. Append(s, f) \in Seq(Frames)
  BY <1>1
<1>3. \A i \in DOMAIN Append(s, f) : \/ i \in DOMAIN s /\ Append(s, f)[i] = s[i]
                                     \/ Append(s, f)[i] = f
  BY <1>1
<1> QED
  BY <1>1, <1>2, <1>3 DEF Stacks, Unfinished

(* What lies below a place of the stack.                                   *)
LEMMA CutOff ==
    ASSUME NEW s \in Stacks, NEW n \in 0..Len(s)
    PROVE  SubSeq(s, 1, n) \in Stacks
<1>1. s \in Seq(Frames) /\ Unfinished(s) /\ Len(s) <= MaxFrames
  BY DEF Stacks
<1>2. /\ SubSeq(s, 1, n) \in Seq(Frames) /\ Len(SubSeq(s, 1, n)) = n
      /\ \A i \in 1..n : SubSeq(s, 1, n)[i] = s[i]
  BY <1>1
<1>3. Unfinished(SubSeq(s, 1, n))
  BY <1>1, <1>2 DEF Unfinished
<1> QED
  BY <1>1, <1>2, <1>3, OwnAssumption DEF Stacks

LEMMA EmptyStack == <<>> \in Stacks
  BY OwnAssumption DEF Stacks, Unfinished

(* A function that has its result releases what it says and returns.       *)
LEMMA MakeKeeps ==
    ASSUME OwnInv, acts # <<>>, NEW own \in SUBSET Variables, NEW frees \in SUBSET own,
           own \ frees \subseteq {"recur-args"}, NEW result,
           Len(result) <= MaxFrames => result \in Stacks, Make(own, frees, result)
    PROVE  OwnInv'
<1> DEFINE top == [acts[Len(acts)] EXCEPT !.own = own, !.frees = frees, !.ready = TRUE]
<1>1. acts' = [acts EXCEPT ![Len(acts)] = top] /\ stack' = result /\ kept' = kept
  BY DEF Make
<1>2a. Len(acts) \in DOMAIN acts /\ acts[Len(acts)] \in Activations
  BY DEF OwnInv
<1>2b. /\ top \in Activations
       /\ top.own = own /\ top.frees = frees /\ top.ready = TRUE
       /\ top.lent = acts[Len(acts)].lent
  BY <1>2a DEF Activations
<1>2. Len(acts) \in DOMAIN acts /\ top \in Activations /\ Balanced(top)
  BY <1>2a, <1>2b DEF Balanced
<1>3. acts' \in Seq(Activations) /\ Len(acts') = Len(acts)
  BY <1>1, <1>2 DEF OwnInv
<1>4. \A d \in DOMAIN acts' : acts'[d] = IF d = Len(acts) THEN top ELSE acts[d]
  BY <1>1, <1>2, <1>3 DEF OwnInv
<1>6. ASSUME NEW d \in DOMAIN acts', NEW b \in acts'[d].lent PROVE OwnedIn(acts', d, b)
  <2>1. /\ DOMAIN acts' = 1..Len(acts) /\ DOMAIN acts = 1..Len(acts) /\ Len(acts) \in Nat
        /\ d \in DOMAIN acts /\ d <= Len(acts) /\ b \in acts[d].lent
    <3>1. DOMAIN acts' = 1..Len(acts) /\ DOMAIN acts = 1..Len(acts) /\ Len(acts) \in Nat
      BY <1>3 DEF OwnInv
    <3>2. acts'[d].lent = acts[d].lent
      BY <1>2b, <1>4
    <3> QED
      BY <1>6, <3>1, <3>2
  <2>2. OwnedIn(acts, d, b)
    BY <2>1 DEF OwnInv
  <2>3. ASSUME b[2] \in 1..d - 1 PROVE acts'[b[2]] = acts[b[2]]
    <3>1. b[2] \in DOMAIN acts' /\ b[2] # Len(acts)
      BY <2>1, <2>3
    <3> QED
      BY <1>4, <3>1
  <2> QED
    BY <2>2, <2>3 DEF OwnedIn
<1> QED
  BY <1>1, <1>2, <1>2b, <1>3, <1>4, <1>6 DEF OwnInv, Top, Make

(* A function that calls another owns what it lends it.                    *)
LEMMA CallKeeps ==
    ASSUME OwnInv, acts # <<>>, ~Top.ready, NEW own \in SUBSET Variables,
           NEW proc \in Procs, NEW depth \in 0..Len(stack),
           CallOut(own, own, Act(proc, depth, Lend(own)))
    PROVE  OwnInv'
<1> DEFINE top == [acts[Len(acts)] EXCEPT !.own = own, !.frees = own]
           lent == Lend(own)
           callee == Act(proc, depth, lent)
<1>1. acts' = Append([acts EXCEPT ![Len(acts)] = top], callee) /\ UNCHANGED <<stack, kept>>
  BY DEF CallOut
<1>2a. Len(acts) \in DOMAIN acts /\ acts[Len(acts)] \in Activations
  BY DEF OwnInv
<1>2b. /\ top \in Activations
       /\ top.own = own /\ top.frees = own /\ top.ready = FALSE
       /\ top.lent = acts[Len(acts)].lent
       /\ top.depth \in 0..MaxFrames /\ top.depth = Top.depth
  BY <1>2a DEF Activations, Top
<1>2. Len(acts) \in DOMAIN acts /\ top \in Activations /\ Balanced(top)
  BY <1>2a, <1>2b DEF Balanced
<1>3l. lent \in SUBSET Lendable /\ \A b \in lent : b \in acts[Len(acts)].lent
                                                   \/ (b[1] \in own /\ b[2] = Len(acts))
  <2>1. acts[Len(acts)].lent \in SUBSET Lendable /\ Len(acts) \in Nat
    BY <1>2a DEF Activations, OwnInv
  <2> QED
    BY <2>1 DEF Lend, Top, Lendable
<1> HIDE DEF lent
<1>3a. callee \in Activations
  <2>1. depth \in 0..MaxFrames
    BY OwnAssumption DEF OwnInv, Stacks
  <2> QED
    BY <1>3l, <2>1 DEF Activations, Act
<1>3. callee \in Activations /\ Balanced(callee)
  BY <1>3a DEF Balanced, Act
<1>4. /\ acts' \in Seq(Activations) /\ Len(acts') = Len(acts) + 1
      /\ \A d \in DOMAIN acts' : acts'[d] = IF d = Len(acts) + 1 THEN callee
                                            ELSE IF d = Len(acts) THEN top ELSE acts[d]
  BY <1>1, <1>2, <1>3 DEF OwnInv
<1>6. callee.ready = FALSE /\ callee.lent = lent /\ callee.depth = depth
  BY DEF Act
<1>7. ASSUME NEW d \in DOMAIN acts', NEW b \in acts'[d].lent PROVE OwnedIn(acts', d, b)
  <2>1. /\ Len(acts) \in Nat \ {0} /\ DOMAIN acts' = 1..Len(acts) + 1 /\ DOMAIN acts = 1..Len(acts)
        /\ d \in 1..Len(acts) + 1
    BY <1>2a, <1>4 DEF OwnInv
  <2>2. ASSUME NEW e \in DOMAIN acts, e <= d, b \in acts[e].lent PROVE OwnedIn(acts', d, b)
    <3>1. OwnedIn(acts, e, b)
      BY <2>2 DEF OwnInv
    <3>2. ASSUME b[2] \in 1..e - 1 PROVE b[2] \in 1..d - 1 /\ acts'[b[2]] = acts[b[2]]
      <4>1. b[2] \in DOMAIN acts' /\ b[2] # Len(acts) /\ b[2] # Len(acts) + 1 /\ b[2] \in 1..d - 1
        BY <2>1, <2>2, <3>2
      <4> QED
        BY <1>4, <4>1
    <3> QED
      BY <3>1, <3>2 DEF OwnedIn
  <2>3. CASE d = Len(acts) + 1
    <3>1. acts'[d] = callee
      BY <1>4, <2>3
    <3>2. CASE b \in acts[Len(acts)].lent
      BY <1>2a, <2>1, <2>2, <2>3, <3>2
    <3>3. CASE b[1] \in own /\ b[2] = Len(acts)
      <4>1. acts'[Len(acts)] = top /\ Len(acts) \in 1..d - 1
        BY <1>4, <2>1, <2>3
      <4> QED
        BY <1>2b, <3>3, <4>1 DEF OwnedIn
    <3> QED
      BY <1>3l, <1>6, <3>1, <3>2, <3>3
  <2>4. CASE d # Len(acts) + 1
    <3>1. d \in DOMAIN acts
      BY <2>1, <2>4
    <3>2. acts'[d].lent = acts[d].lent
      BY <1>2b, <1>4, <2>4
    <3> QED
      BY <2>1, <2>2, <3>1, <3>2
  <2> QED
    BY <2>3, <2>4
<1>8. Top' = callee
  BY <1>4 DEF Top, OwnInv
<1>9. callee.depth <= Len(stack')
  BY <1>1, <1>2b, <1>6 DEF OwnInv, Stacks
<1>10. ASSUME NEW d \in DOMAIN acts', acts'[d].ready PROVE d = Len(acts')
  <2> SUFFICES ASSUME d # Len(acts) + 1 PROVE FALSE
    BY <1>4
  <2>1. d # Len(acts)
    BY <1>2b, <1>4, <1>10
  <2>2. d \in DOMAIN acts /\ acts[d].ready
    <3>1. d \in 1..Len(acts) + 1 /\ Len(acts) \in Nat
      BY <1>4 DEF OwnInv
    <3>2. acts'[d] = acts[d]
      BY <1>4, <2>1
    <3>3. DOMAIN acts = 1..Len(acts)
      BY DEF OwnInv
    <3> QED
      BY <1>10, <3>1, <3>2, <3>3
  <2> QED
    BY <2>1, <2>2 DEF OwnInv
<1>11. ASSUME NEW d \in DOMAIN acts' PROVE Balanced(acts'[d])
  <2>1. CASE d = Len(acts) + 1
    BY <1>3, <1>4, <2>1
  <2>2. CASE d = Len(acts)
    BY <1>2, <1>4, <2>2
  <2>3. CASE d # Len(acts) /\ d # Len(acts) + 1
    <3>1. d \in DOMAIN acts /\ acts'[d] = acts[d]
      BY <1>4, <2>3 DEF OwnInv
    <3> QED
      BY <3>1 DEF OwnInv
  <2> QED
    BY <2>1, <2>2, <2>3
<1> QED
  BY <1>1, <1>4, <1>7, <1>8, <1>9, <1>10, <1>11 DEF OwnInv

(* A caller goes on where its call was: only to release and return.        *)
LEMMA ReturnKeeps == ASSUME OwnInv, Return PROVE OwnInv'
<1>1. /\ Len(acts) \in Nat \ {0} /\ UNCHANGED stack
      /\ kept' = kept \cup (Top.own \ Top.frees)
      /\ acts' = [d \in 1..Len(acts) - 1 |-> [acts[d] EXCEPT !.ready = @ \/ d = Len(acts) - 1]]
  BY DEF OwnInv, Return
<1>2. Top.own \ Top.frees \subseteq {"recur-args"}
  BY <1>1 DEF OwnInv, Top, Balanced
<1>3. ASSUME NEW d \in 1..Len(acts) - 1
      PROVE  /\ d \in DOMAIN acts
             /\ acts'[d] \in Activations /\ Balanced(acts'[d])
             /\ acts'[d].own = acts[d].own /\ acts'[d].lent = acts[d].lent
             /\ acts'[d].ready <=> d = Len(acts) - 1
  <2>1. /\ d \in DOMAIN acts /\ acts[d] \in Activations /\ Balanced(acts[d])
        /\ acts[d].ready => d = Len(acts)
    BY <1>1 DEF OwnInv
  <2>2. acts'[d] = [acts[d] EXCEPT !.ready = acts[d].ready \/ d = Len(acts) - 1]
    BY <1>1
  <2>3. (acts[d].ready \/ d = Len(acts) - 1) \in BOOLEAN /\ d # Len(acts)
    BY <1>1
  <2>4. /\ acts'[d] \in Activations
        /\ acts'[d].own = acts[d].own /\ acts'[d].lent = acts[d].lent
        /\ acts'[d].frees = acts[d].frees
        /\ acts'[d].ready = (acts[d].ready \/ d = Len(acts) - 1)
    BY <2>1, <2>2, <2>3 DEF Activations
  <2> QED
    BY <2>1, <2>3, <2>4 DEF Balanced
<1>4. acts' \in Seq(Activations) /\ Len(acts') = Len(acts) - 1
  BY <1>1, <1>3
<1>5. ASSUME NEW d \in DOMAIN acts', NEW b \in acts'[d].lent PROVE OwnedIn(acts', d, b)
  <2>1. d \in 1..Len(acts) - 1 /\ d \in DOMAIN acts /\ b \in acts[d].lent
    BY <1>1, <1>3, <1>4
  <2>2. OwnedIn(acts, d, b)
    BY <2>1 DEF OwnInv
  <2>3. ASSUME b[2] \in 1..d - 1 PROVE acts'[b[2]].own = acts[b[2]].own
    <3>1. b[2] \in 1..Len(acts) - 1
      BY <1>1, <2>1, <2>3
    <3> QED
      BY <1>3, <3>1
  <2> QED
    BY <2>2, <2>3 DEF OwnedIn
<1>6. acts' # <<>> => Top'.ready
  BY <1>3, <1>4 DEF Top
<1> QED
  BY <1>1, <1>2, <1>3, <1>4, <1>5, <1>6 DEF OwnInv

-----------------------------------------------------------------------------
(* The functions of step.c *)

LEMMA StepKeeps == ASSUME OwnInv, Step PROVE OwnInv'
<1>1. Len(stack) \in 0..MaxFrames
  BY OwnAssumption DEF OwnInv, Stacks
<1>2. Act("step", Len(stack), {State}) \in Activations
  BY <1>1 DEF Act, Activations, Procs, Lendable, State
<1> DEFINE a == Act("step", Len(stack), {State})
<1>3. acts' = <<a>> /\ UNCHANGED <<stack, kept>>
  BY DEF Step
<1>4. a.depth = Len(stack) /\ a.lent = {State} /\ a.own = {} /\ a.frees = {} /\ a.ready = FALSE
  BY DEF Act
<1> HIDE DEF a
<1>5. acts' \in Seq(Activations) /\ DOMAIN acts' = {1} /\ acts'[1] = a /\ Len(acts') = 1
  BY <1>2, <1>3 DEF a
<1>6. Balanced(a) /\ \A b \in a.lent : OwnedIn(acts', 1, b)
  BY <1>4 DEF Balanced, OwnedIn
<1>7. Top'.depth <= Len(stack')
  BY <1>1, <1>3, <1>4, <1>5 DEF Top
<1> QED
  BY <1>3, <1>4, <1>5, <1>6, <1>7 DEF OwnInv

(* An error empties the stack.                                             *)
LEMMA FailKeeps ==
    ASSUME OwnInv, acts # <<>>, Fail({})
    PROVE  OwnInv'
  BY EmptyStack, MakeKeeps DEF Fail

(* step_eval pushes a frame with something to do, or none.                 *)
LEMMA PushKeeps ==
    ASSUME OwnInv, acts # <<>>, NEW own \in SUBSET Variables, NEW op \in Ops, NEW n \in 0..MaxItems,
           op \notin {"call", "args", "recur-args"} => n > 0, PushFrame(own, op, n)
    PROVE  OwnInv'
<1> DEFINE mine == own \cup {"frame", "new_stack"}
<1>1. Make(mine, mine, Append(stack, <<op, n>>))
  BY DEF PushFrame
<1>3. mine \in SUBSET Variables /\ mine \ mine = {}
  BY DEF Variables
<1>2. Len(Append(stack, <<op, n>>)) <= MaxFrames => Append(stack, <<op, n>>) \in Stacks
  BY Pushed DEF OwnInv, Frames
<1> QED
  BY <1>1, <1>2, <1>3, MakeKeeps

(* step_eval: it fails, it has a value to deliver, or it pushes a frame.    *)
LEMMA EvalKeeps == ASSUME OwnInv, Eval PROVE OwnInv'
<1>0. acts # <<>> /\ ~Top.ready
  BY DEF Eval, In, EvalFailed, EvalSame, EvalValue, EvalFn, EvalIf, EvalDo, EvalLet, EvalLoop,
         EvalCall, EvalRecur, EvalRecurNone
<1>n. stack \in Stacks /\ Len(stack) \in 0..Len(stack) /\ {} \in SUBSET Variables
  BY DEF OwnInv, Stacks
<1>i. 1 \in 1..MaxItems /\ \A n \in 1..MaxItems : n \in 0..MaxItems /\ n > 0
  BY OwnAssumption
<1>1. CASE EvalFailed
  BY <1>0, <1>1, FailKeeps DEF EvalFailed
<1>2. CASE EvalSame
  BY <1>0, <1>2, <1>n, MakeKeeps DEF EvalSame
<1>3. CASE EvalValue
  <2>1. CallOut({}, {}, Act("deliver_value", Len(stack), Lend({})))
    BY <1>3 DEF EvalValue
  <2> QED
    BY <1>0, <1>n, <2>1, CallKeeps DEF Procs
<1>4. CASE EvalFn
  BY <1>0, <1>4, <1>n, CallKeeps DEF EvalFn, Procs, Variables
<1>5. CASE EvalIf
  <2>1. PushFrame({}, "if-branch", 1)
    BY <1>5 DEF EvalIf
  <2>2. 1 \in 0..MaxItems /\ 1 > 0
    BY <1>i
  <2> QED
    BY <1>0, <1>n, <2>1, <2>2, PushKeeps DEF Ops
<1>6. CASE EvalDo
  <2>1. PICK n \in 1..MaxItems : PushFrame({"rest"}, "do-rest", n)
    BY <1>6 DEF EvalDo
  <2>2. n \in 0..MaxItems /\ n > 0
    BY <1>i
  <2> QED
    BY <1>0, <1>n, <2>1, <2>2, PushKeeps DEF Ops, Variables
<1>7. CASE EvalLet
  <2>1. PICK n \in 1..MaxItems : PushFrame({"rest_binds"}, "let-binds", n)
    BY <1>7 DEF EvalLet
  <2>2. n \in 0..MaxItems /\ n > 0
    BY <1>i
  <2> QED
    BY <1>0, <1>n, <2>1, <2>2, PushKeeps DEF Ops, Variables
<1>8. CASE EvalLoop
  <2>1. PICK n \in 1..MaxItems : PushFrame({}, "loop-binds", n)
    BY <1>8 DEF EvalLoop
  <2>2. n \in 0..MaxItems /\ n > 0
    BY <1>i
  <2> QED
    BY <1>0, <1>n, <2>1, <2>2, PushKeeps DEF Ops, Variables
<1>9. CASE EvalCall
  BY <1>0, <1>9, PushKeeps DEF EvalCall, Ops, Variables
<1>10. CASE EvalRecur
  BY <1>0, <1>10, PushKeeps DEF EvalRecur, Ops, Variables
<1>11. CASE EvalRecurNone
  BY <1>0, <1>11, <1>n, CallKeeps DEF EvalRecurNone, Procs, Variables
<1> QED
  BY <1>1, <1>2, <1>3, <1>4, <1>5, <1>6, <1>7, <1>8, <1>9, <1>10, <1>11 DEF Eval

(* deliver_value is called with a frame of the stack: it has what is below. *)
LEMMA Delivered ==
    ASSUME OwnInv, NEW op, Delivering(op)
    PROVE  /\ acts # <<>> /\ ~Top.ready
           /\ Below \in Stacks /\ Len(Below) = Top.depth - 1
           /\ Top.depth - 1 \in 0..Len(stack) /\ Len(Below) < MaxFrames
           /\ Left \in 0..MaxItems
           /\ op \notin {"call", "args", "recur-args"} => Left > 0
<1>1. acts # <<>> /\ ~Top.ready /\ Top.depth > 0 /\ stack[Top.depth][1] = op
  BY DEF Delivering, In
<1>2. Top.depth \in Nat /\ Top.depth \in 1..Len(stack) /\ Len(stack) \in Nat /\ Len(stack) <= MaxFrames
  <2>1. Len(acts) \in DOMAIN acts /\ acts[Len(acts)] \in Activations
    BY <1>1 DEF OwnInv
  <2> QED
    BY <1>1, <2>1 DEF OwnInv, Top, Activations, Stacks
<1>3. Top.depth - 1 \in 0..Len(stack)
  BY <1>2
<1>4. stack \in Seq(Frames) /\ Unfinished(stack) /\ stack \in Stacks
  BY DEF OwnInv, Stacks
<1>5. Below \in Stacks
  BY <1>3, <1>4, CutOff DEF Below, Lowest
<1>6. Len(Below) = Top.depth - 1
  BY <1>2, <1>3, <1>4 DEF Below, Lowest
<1>7. stack[Top.depth] \in Frames /\ Top.depth \in DOMAIN stack
  BY <1>2, <1>4
<1>8. Left \in 0..MaxItems
  BY <1>7 DEF Left, Frames
<1>9. op \notin {"call", "args", "recur-args"} => Left > 0
  BY <1>1, <1>4, <1>7 DEF Unfinished, Left
<1> QED
  BY <1>1, <1>2, <1>3, <1>5, <1>6, <1>8, <1>9, OwnAssumption

(* The frame it delivers to goes on with less to do.                       *)
LEMMA RenewKeeps ==
    ASSUME OwnInv, NEW op, Delivering(op), NEW own \in SUBSET Variables,
           NEW goes \in Ops, NEW n \in 0..MaxItems,
           goes \notin {"call", "args", "recur-args"} => n > 0, Renew(own, goes, n)
    PROVE  OwnInv'
<1> DEFINE mine == own \cup {"rest_stack", "new_frame", "new_stack"}
<1>1. Make(mine, mine, Append(Below, <<goes, n>>))
  BY DEF Renew
<1>2. mine \in SUBSET Variables /\ mine \ mine = {}
  BY DEF Variables
<1>3. Append(Below, <<goes, n>>) \in Stacks
  <2>1. Below \in Stacks /\ Len(Below) < MaxFrames /\ acts # <<>>
    BY Delivered
  <2>2. Len(Append(Below, <<goes, n>>)) <= MaxFrames
    BY <2>1, OwnAssumption DEF Stacks
  <2> QED
    BY <2>1, <2>2, Pushed DEF Frames
<1> QED
  BY <1>1, <1>2, <1>3, Delivered, MakeKeeps

(* The rest of the work is another function's, which is lent what is owned. *)
LEMMA CallWithKeeps ==
    ASSUME OwnInv, NEW op, Delivering(op), NEW own \in SUBSET Variables, NEW proc \in Procs,
           CallWith(own, proc)
    PROVE  OwnInv'
<1> DEFINE mine == own \cup {"rest_stack"}
<1>1. CallOut(mine, mine, Act(proc, Top.depth - 1, Lend(mine)))
  BY DEF CallWith
<1>2. mine \in SUBSET Variables
  BY DEF Variables
<1> QED
  BY <1>1, <1>2, Delivered, CallKeeps

(* deliver_value: the frame is done, it goes on, or another function does. *)
LEMMA DeliverKeeps == ASSUME OwnInv, Deliver PROVE OwnInv'
<1>0. ASSUME NEW op, Delivering(op), NEW own \in SUBSET Variables, Make(own, own, Below) PROVE OwnInv'
  BY <1>0, Delivered, MakeKeeps
<1>n. \A n \in 0..MaxItems : n # 0 => n - 1 \in 0..MaxItems
  BY OwnAssumption
<1>1. CASE DeliverDone
  BY <1>1, EmptyStack, MakeKeeps DEF DeliverDone, In
<1>2. CASE DeliverFunc
  <2>1. Delivering("call")
    BY <1>2 DEF DeliverFunc
  <2>2. CASE Left = 0
    BY <1>2, <2>1, <2>2, CallWithKeeps DEF DeliverFunc, Procs, Variables
  <2>3. CASE Left # 0
    <3>1. Renew({"new_rest"}, "args", Left - 1)
      BY <1>2, <2>3 DEF DeliverFunc
    <3>2. Left - 1 \in 0..MaxItems
      BY <1>n, <2>1, <2>3, Delivered
    <3> QED
      BY <2>1, <3>1, <3>2, RenewKeeps DEF Ops, Variables
  <2> QED
    BY <2>2, <2>3
<1>3. CASE DeliverArg
  <2>1. Delivering("args")
    BY <1>3 DEF DeliverArg
  <2>2. CASE Left = 0
    BY <1>3, <2>1, <2>2, CallWithKeeps DEF DeliverArg, Procs, Variables
  <2>3. CASE Left # 0
    <3>1. Renew({"new_args", "new_rest"}, "args", Left - 1)
      BY <1>3, <2>3 DEF DeliverArg
    <3>2. Left - 1 \in 0..MaxItems
      BY <1>n, <2>1, <2>3, Delivered
    <3> QED
      BY <2>1, <3>1, <3>2, RenewKeeps DEF Ops, Variables
  <2> QED
    BY <2>2, <2>3
<1>4. CASE DeliverIf
  BY <1>0, <1>4 DEF DeliverIf, Variables
<1>5. CASE DeliverDo
  <2>1. Delivering("do-rest")
    BY <1>5 DEF DeliverDo, Variables
  <2>2. CASE Left = 1
    BY <1>0, <1>5, <2>1, <2>2 DEF DeliverDo, Variables
  <2>3. CASE Left # 1
    <3>1. Renew({"new_rest"}, "do-rest", Left - 1)
      BY <1>5, <2>3 DEF DeliverDo, Variables
    <3>2. Left - 1 \in 0..MaxItems /\ Left - 1 > 0
      BY <2>1, <2>3, Delivered, OwnAssumption
    <3> QED
      BY <2>1, <3>1, <3>2, RenewKeeps DEF Ops, Variables
  <2> QED
    BY <2>2, <2>3
<1>6. CASE DeliverLet
  <2>1. Delivering("let-binds")
    BY <1>6 DEF DeliverLet, Variables
  <2>2. CASE Left = 1
    BY <1>0, <1>6, <2>1, <2>2 DEF DeliverLet, Variables
  <2>3. CASE Left # 1
    <3>1. Renew({"scope", "new_env", "next_bindings"}, "let-binds", Left - 1)
      BY <1>6, <2>3 DEF DeliverLet, Variables
    <3>2. Left - 1 \in 0..MaxItems /\ Left - 1 > 0
      BY <2>1, <2>3, Delivered, OwnAssumption
    <3> QED
      BY <2>1, <3>1, <3>2, RenewKeeps DEF Ops, Variables
  <2> QED
    BY <2>2, <2>3
<1>7. CASE DeliverLoop
  <2> DEFINE mine == {"scope", "new_env", "recur_target_op", "target_frame", "new_stack", "rest_stack"}
  <2>1. Delivering("loop-binds")
    BY <1>7 DEF DeliverLoop
  <2>2. CASE Left = 1
    <3>1. Make(mine, mine, Append(Below, <<"loop-target", 1>>))
      BY <1>7, <2>2 DEF DeliverLoop
    <3>2. Append(Below, <<"loop-target", 1>>) \in Stacks
      <4>1. Below \in Stacks /\ Len(Below) < MaxFrames
        BY <2>1, Delivered
      <4>2. Len(Append(Below, <<"loop-target", 1>>)) <= MaxFrames
        BY <4>1, OwnAssumption DEF Stacks
      <4>3. <<"loop-target", 1>> \in Frames
        BY OwnAssumption DEF Frames, Ops
      <4> QED
        BY <4>1, <4>2, <4>3, Pushed
    <3>3. mine \in SUBSET Variables /\ mine \ mine = {}
      BY DEF Variables
    <3> QED
      BY <2>1, <3>1, <3>2, <3>3, Delivered, MakeKeeps
  <2>3. CASE Left # 1
    <3>1. Renew({"scope", "new_env", "next_bindings"}, "loop-binds", Left - 1)
      BY <1>7, <2>3 DEF DeliverLoop
    <3>2. Left - 1 \in 0..MaxItems /\ Left - 1 > 0
      BY <2>1, <2>3, Delivered, OwnAssumption
    <3> QED
      BY <2>1, <3>1, <3>2, RenewKeeps DEF Ops, Variables
  <2> QED
    BY <2>2, <2>3
<1>8. CASE DeliverTarget
  BY <1>8, CallWithKeeps DEF DeliverTarget, Procs, Variables
<1>9. CASE DeliverRecur
  <2> DEFINE mine == {"new_args", "new_rest", "new_frame", "new_stack", "rest_stack"}
             goes == Append(Below, <<"recur-args", Left - 1>>)
  <2>1. Delivering("recur-args")
    BY <1>9 DEF DeliverRecur
  <2>2. CASE Left = 0
    BY <1>9, <2>1, <2>2, CallWithKeeps DEF DeliverRecur, Procs, Variables
  <2>3. CASE Left # 0
    <3>1. Make(mine \cup {"recur-args"}, mine, goes)
      BY <1>9, <2>3 DEF DeliverRecur
    <3>2. Left - 1 \in 0..MaxItems
      BY <1>n, <2>1, <2>3, Delivered
    <3>3. goes \in Stacks
      <4>1. Below \in Stacks /\ Len(Below) < MaxFrames
        BY <2>1, Delivered
      <4>2. Len(goes) <= MaxFrames
        BY <4>1, OwnAssumption DEF Stacks
      <4>3. <<"recur-args", Left - 1>> \in Frames
        BY <3>2 DEF Frames, Ops
      <4> QED
        BY <4>1, <4>2, <4>3, Pushed
    <3>4. /\ mine \cup {"recur-args"} \in SUBSET Variables
          /\ mine \in SUBSET (mine \cup {"recur-args"})
          /\ (mine \cup {"recur-args"}) \ mine \subseteq {"recur-args"}
      BY DEF Variables
    <3> QED
      BY <2>1, <3>1, <3>3, <3>4, Delivered, MakeKeeps
  <2> QED
    BY <2>2, <2>3
<1> QED
  BY <1>1, <1>2, <1>3, <1>4, <1>5, <1>6, <1>7, <1>8, <1>9 DEF Deliver

(* apply_fn works on the stack it was called with.                         *)
LEMMA ApplyKeeps == ASSUME OwnInv, Apply PROVE OwnInv'
<1>1. acts # <<>> /\ ~Top.ready
  BY DEF Apply, In, ApplyBuiltin, ApplyEffect, ApplyClosure, ApplyFailed
<1>2. Top.depth \in 0..Len(stack)
  <2>1. Len(acts) \in DOMAIN acts /\ acts[Len(acts)] \in Activations
    BY <1>1 DEF OwnInv
  <2> QED
    BY <1>1, <2>1, OwnAssumption DEF OwnInv, Top, Activations, Stacks
<1>3. Lowest(Top.depth) \in Stacks
  BY <1>2, CutOff DEF OwnInv, Lowest
<1>4. CASE ApplyBuiltin
  BY <1>1, <1>2, <1>4, CallKeeps DEF ApplyBuiltin, Procs, Variables
<1>5. CASE ApplyEffect
  BY <1>1, <1>3, <1>5, MakeKeeps DEF ApplyEffect, Variables
<1>6. CASE ApplyClosure
  BY <1>1, <1>3, <1>6, MakeKeeps DEF ApplyClosure, Variables
<1>7. CASE ApplyFailed
  BY <1>1, <1>7, FailKeeps DEF ApplyFailed
<1> QED
  BY <1>4, <1>5, <1>6, <1>7 DEF Apply

(* handle_recur goes back to the loop's frame, or fails.                   *)
LEMMA HandleRecurKeeps == ASSUME OwnInv, HandleRecur PROVE OwnInv'
<1>1. CASE RecurFailed
  BY <1>1, FailKeeps DEF RecurFailed, In
<1>2. CASE Restart
  <2> DEFINE mine == {"quoted", "new_bindings", "loop_expr", "rest_stack"}
  <2>1. acts # <<>> /\ ~Top.ready /\ Top.depth > 0 /\ Make(mine, mine, Below)
    BY <1>2 DEF Restart, In
  <2>2. Top.depth - 1 \in 0..Len(stack)
    <3>1. Len(acts) \in DOMAIN acts /\ acts[Len(acts)] \in Activations
      BY <2>1 DEF OwnInv
    <3> QED
      BY <2>1, <3>1, OwnAssumption DEF OwnInv, Top, Activations, Stacks
  <2>3. Below \in Stacks
    BY <2>2, CutOff DEF OwnInv, Below, Lowest
  <2>4. mine \in SUBSET Variables /\ mine \in SUBSET mine /\ mine \ mine = {}
    BY DEF Variables
  <2> QED
    BY <2>1, <2>3, <2>4, MakeKeeps
<1> QED
  BY <1>1, <1>2 DEF HandleRecur

-----------------------------------------------------------------------------
(* The invariant is inductive.                                             *)
LEMMA Ownership == Spec => []OwnInv
<1>1. Init => OwnInv
  BY EmptyStack DEF Init, OwnInv
<1>2. OwnInv /\ [Next]_vars => OwnInv'
  <2> SUFFICES ASSUME OwnInv, [Next]_vars PROVE OwnInv'
    OBVIOUS
  <2>1. CASE Step
    BY <2>1, StepKeeps
  <2>2. CASE Eval
    BY <2>2, EvalKeeps
  <2>3. CASE Deliver
    BY <2>3, DeliverKeeps
  <2>4. CASE Apply
    BY <2>4, ApplyKeeps
  <2>5. CASE HandleRecur
    BY <2>5, HandleRecurKeeps
  <2>6. CASE Return
    BY <2>6, ReturnKeeps
  <2>7. CASE UNCHANGED vars
    BY <2>7 DEF vars, OwnInv, Top
  <2> QED
    BY <2>1, <2>2, <2>3, <2>4, <2>5, <2>6, <2>7 DEF Next
<1> QED
  BY <1>1, <1>2, PTL DEF Spec

(* What a function of step.c borrows, from its caller or one further out,  *)
(* is owned there until it returns (step.c:339-349, 427-430, 450-453,      *)
(* 598-600).                                                               *)
THEOREM BorrowedStaysOwned == Spec => []BorrowedIsOwned
<1>1. OwnInv => BorrowedIsOwned
  <2> SUFFICES ASSUME OwnInv PROVE BorrowedIsOwned
    OBVIOUS
  <2>1. stack \in Seq(Ops \X (0..MaxItems)) /\ Unfinished(stack)
    BY DEF OwnInv, Stacks, Frames
  <2>2. ASSUME NEW d \in DOMAIN acts
        PROVE  /\ acts[d].proc \in Procs
               /\ acts[d].depth \in 0..MaxFrames
               /\ acts[d].own \cup acts[d].frees \subseteq Variables
               /\ acts[d].ready => d = Len(acts)
    <3>1. acts[d] \in Activations
      BY DEF OwnInv
    <3> QED
      BY <3>1 DEF OwnInv, Activations
  <2> QED
    BY <2>1, <2>2 DEF BorrowedIsOwned, TypeOK, OwnInv, OwnedIn, Unfinished
<1> QED
  BY <1>1, Ownership, PTL

(* Every path through step.c releases what it owns, once, but for the      *)
(* keyword of a recur (step.c:179-756).                                    *)
THEOREM PathsBalance == Spec => []OnlyRecurKeeps
<1>1. OwnInv => OnlyRecurKeeps
  BY DEF OwnInv, OnlyRecurKeeps, Balanced
<1> QED
  BY <1>1, Ownership, PTL
=============================================================================
