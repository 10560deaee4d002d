------------------------------ MODULE ParseRef ------------------------------
(***************************************************************************)
(* What the reader promises (parse.md, "How it works" and "Error cases"),  *)
(* stated over a grammar that knows nothing of activations.                *)
(***************************************************************************)
EXTENDS Parse

CONSTANT MaxRepair   \* tokens that some text goes on from

(* tok may return every short list: among the texts are those that it      *)
(* takes to close the brackets that MaxRepair tokens open, at most all of  *)
(* them, each with a bracket and, if it is a map's, a value.               *)
ASSUME RepairAssumption ==
    /\ Atoms # {}
    /\ MaxRepair \in Nat \ {0}
    /\ \A n \in 0..3 * MaxRepair - 1 : [1..n -> Brackets \cup Atoms] \subseteq Texts

(* The form that tokens i .. j of t are, none or one, given the sequences  *)
(* of forms that the tokens between them are.                              *)
Forms(t, i, j, inside) ==
    IF i = j THEN IF t[i] \in Atoms THEN {Atom(t[i])} ELSE {}
    ELSE IF t[i] = Paren /\ t[j] = ParenEnd THEN {ListOf(s) : s \in inside}
    ELSE IF t[i] = Brace /\ t[j] = BraceEnd
         THEN {MapOf(s) : s \in {r \in inside : Len(r) % 2 = 0}}
    ELSE {}

(* The sequences of forms that tokens i .. j of t are, given those that     *)
(* run has for later tokens.                                               *)
ReadOn(t, run, i, j) ==
    LET form(k) == Forms(t, i, k, run[i + 1][k - 1])
    IN  IF i > j THEN {<<>>}
        ELSE UNION {{<<f>> \o r : f \in form(k), r \in run[k + 1][j]} :
                       k \in {k \in i..j : form(k) # {}}}

(* The sequences of forms that tokens first .. last of t are, none or one. *)
Reads(t, first, last) ==
    LET run[i \in 1..Len(t) + 1] == [j \in 0..Len(t) |-> ReadOn(t, run, i, j)]
    IN  run[first][last]

Readings(t) == Reads(t, 1, Len(t))
WellFormed == UNION {IF Readings(t) = {} THEN {} ELSE {t} : t \in Texts}

Done == stage = "done"
Failed(says) == Done /\ error.says = says

-----------------------------------------------------------------------------
(* Every variable has its type, and the activations nest: the top level's  *)
(* loop is the outermost and every other one has an opening bracket of its *)
(* kind (parse.c:59, 103, 197).                                            *)
TypeOK ==
    /\ stage \in {"call", "parse", "done"}
    /\ text \in Seq(Brackets \cup Atoms)
    /\ pos \in 0..Len(text)
    /\ \A d \in DOMAIN frames :
          /\ (d = 1) <=> (frames[d].kind = "top")
          /\ frames[d].kind # "top" => frames[d].open \in 1..pos
          /\ frames[d].kind = "list" => text[frames[d].open] = Paren
          /\ frames[d].kind = "map" => text[frames[d].open] = Brace
    /\ stage = "parse" => frames # <<>>
    /\ error = NoError \/ error.at \in 0..pos + 1

(* A text that the grammar reads is answered by its only reading, and any  *)
(* other text by an error: brackets nest and maps pair their forms         *)
(* (parse.c:180-232; parse.md).                                            *)
AnswersTheReading ==
    Done /\ error.says # "tok" =>
        IF error = NoError THEN Readings(text) = {answer} ELSE Readings(text) = {}

Unexpected == {"unexpected", "unexpected '}' inside list", "unexpected ')' inside map"}

(* t begins with the first n tokens of the text. *)
BeginsSo(t, n) == \A i \in 1..n : i \in DOMAIN t \cap DOMAIN text /\ t[i] = text[i]

(* An error that points at a closing bracket points at a fault: no text    *)
(* that begins with the tokens up to it is well-formed, whatever follows   *)
(* (parse.c:84, 130, 187-188).                                             *)
NoTextGoesOn ==
    Done /\ error.says \in Unexpected => \A t \in WellFormed : ~ BeginsSo(t, error.at)

(* And at the first fault: some well-formed text begins with the tokens    *)
(* before it.  MaxRepair tokens can be completed within the texts checked. *)
SomeTextWentOn ==
    Done /\ error.says \in Unexpected /\ error.at - 1 \in 0..MaxRepair =>
        \E t \in WellFormed : BeginsSo(t, error.at - 1)

(* An error about an opening bracket points at the innermost one that was  *)
(* open: nothing that starts there is a form, what follows it is a run of  *)
(* whole forms, and for a map the two messages differ by the parity of     *)
(* that run (parse.c:65-69, 109-113, 140-154).                             *)
UnmatchedIsInnermost ==
    LET inside(last) == {Len(r) % 2 : r \in Reads(text, error.at + 1, last)}
    IN  /\ Failed("unmatched '('") =>
              text[error.at] = Paren /\ inside(Len(text)) # {}
        /\ Failed("unmatched '{'") =>
              text[error.at] = Brace /\ inside(Len(text)) = {0}
        /\ Failed("odd number of forms in map literal") =>
              text[error.at] = Brace /\ inside(pos) = {1}

ErrorsAreAtTheFault == NoTextGoesOn /\ SomeTextWentOn /\ UnmatchedIsInnermost

(* Whatever the way out, every reference taken on the way is released      *)
(* except the one to the answer (parse.md: "The caller owns the returned   *)
(* Val"; parse.c:66-98, 110-177, 218-231).                                 *)
NothingLeaks == TypeOK /\ (Done => owned = 1)
=============================================================================
