------------------------------- MODULE Parse --------------------------------
(***************************************************************************)
(* The reader (parse.c): a list of tokens becomes a list of forms.         *)
(*                                                                         *)
(* The C code descends recursively; frames holds its activations, the      *)
(* innermost last, each with the forms its local arrays hold.  A step is   *)
(* one turn of an activation's loop.  A token is a map of a type and a     *)
(* value, and stands for itself unless it is a bracket; its line and       *)
(* column are its index in the list.  owned counts the references the code *)
(* is answerable for: those in local variables and arrays, not those that  *)
(* values hold of each other.                                              *)
(***************************************************************************)
EXTENDS Integers, Sequences

CONSTANTS
    Atoms,    \* the tokens that stand for themselves
    Texts     \* the token lists tok may return

Bracket(type) == [type |-> type, value |-> "nil"]
Paren == Bracket("lparen")
ParenEnd == Bracket("rparen")
Brace == Bracket("lbrace")
BraceEnd == Bracket("rbrace")
Brackets == {Paren, ParenEnd, Brace, BraceEnd}

ASSUME TextsAssumption == Atoms \cap Brackets = {} /\ Texts \subseteq Seq(Brackets \cup Atoms)

VARIABLES
    stage,     \* "call", "parse" or "done"
    text,      \* the token list
    pos,       \* tokens consumed
    frames,    \* activations: [kind, open, items]
    error,     \* the error being returned, or NoError
    answer,    \* the forms returned
    owned      \* references held by the activations

vars == <<stage, text, pos, frames, error, answer, owned>>

NoError == [at |-> 0, says |-> ""]

Atom(t) == [atom |-> t]
ListOf(items) == [list |-> items]

(* val_map: of several values for a key the last stays. *)
MapOf(items) ==
    LET pairs == 1..(Len(items) \div 2)
        key(i) == items[2 * i - 1]
    IN  [map |-> {<<key(i), items[2 * i]>> :
                     i \in {i \in pairs : \A j \in pairs : j > i => key(j) # key(i)}}]

-----------------------------------------------------------------------------
Init ==
    /\ stage = "call"
    /\ text = <<>>
    /\ pos = 0
    /\ frames = <<>>
    /\ error = NoError
    /\ answer = <<>>
    /\ owned = 0

(* The top level's loop begins with the tokens of tok's list. *)
Begin(list) ==
    /\ stage = "call"
    /\ stage' = "parse"
    /\ text' = list
    /\ frames' = <<[kind |-> "top", open |-> 0, items |-> <<>>]>>
    /\ owned' = 1
    /\ UNCHANGED <<pos, error, answer>>

Tokenized == \E list \in Texts : Begin(list)

(* An error of tok is returned as it is. *)
TokFails ==
    /\ stage = "call"
    /\ stage' = "done"
    /\ error' = [at |-> 0, says |-> "tok"]
    /\ owned' = 1
    /\ UNCHANGED <<text, pos, frames, answer>>

-----------------------------------------------------------------------------
Top == frames[Len(frames)]
Outer == SubSeq(frames, 1, Len(frames) - 1)
In(kind) == Top.kind = kind
AtEnd == pos >= Len(text)
Token == text[pos + 1]

(* A turn of the innermost loop: no error is on its way up. *)
Turn == stage = "parse" /\ error = NoError
Sees(t) == Turn /\ ~ AtEnd /\ Token = t

(* A map's array holds a key whose value is not yet read. *)
KeyPending == In("map") /\ Len(Top.items) % 2 = 1

(* form is appended to the array of the innermost activation of fs. *)
Take(fs, form) == [fs EXCEPT ![Len(fs)].items = Append(@, form)]

ReadAtom ==
    /\ Turn
    /\ ~ AtEnd
    /\ Token \notin Brackets
    /\ pos' = pos + 1
    /\ frames' = Take(frames, Atom(Token))
    /\ owned' = owned + 1
    /\ UNCHANGED <<stage, text, error, answer>>

(* Faulty: the open token's place is off by one. *)
OpenBefore(t, kind) ==
    /\ Sees(t)
    /\ pos' = pos + 1
    /\ frames' = Append(frames, [kind |-> kind, open |-> pos, items |-> <<>>])
    /\ UNCHANGED <<stage, text, error, answer, owned>>

Open(t, kind) ==
    /\ Sees(t)
    /\ pos' = pos + 1
    /\ frames' = Append(frames, [kind |-> kind, open |-> pos + 1, items |-> <<>>])
    /\ UNCHANGED <<stage, text, error, answer, owned>>

OpenList == Open(Paren, "list")
OpenMap == Open(Brace, "map")

(* The bracket is consumed, the form built, and the array's references     *)
(* are released.                                                           *)
Close(form) ==
    /\ pos' = pos + 1
    /\ frames' = Take(Outer, form)
    /\ owned' = owned + 1 - Len(Top.items)
    /\ UNCHANGED <<stage, text, error, answer>>

CloseList == Sees(ParenEnd) /\ In("list") /\ Close(ListOf(Top.items))
CloseMapOdd == Sees(BraceEnd) /\ In("map") /\ Close(MapOf(Top.items))   \* faulty
CloseMap == Sees(BraceEnd) /\ In("map") /\ ~ KeyPending /\ Close(MapOf(Top.items))

(* An activation releases what its arrays hold and returns an error. *)
Abandon(at, says) ==
    /\ error' = [at |-> at, says |-> says]
    /\ frames' = Outer
    /\ owned' = owned + 1 - Len(Top.items)
    /\ UNCHANGED <<stage, text, pos, answer>>

EndInList == Turn /\ AtEnd /\ In("list") /\ Abandon(Top.open, "unmatched '('")
EndInMapFirst ==   \* faulty: whether or not a key is pending
    Turn /\ AtEnd /\ In("map") /\ Abandon(Top.open, "unmatched '{'")
EndInMap ==
    Turn /\ AtEnd /\ In("map") /\ ~ KeyPending /\ Abandon(Top.open, "unmatched '{'")

BraceInList == Sees(BraceEnd) /\ In("list") /\ Abandon(pos + 1, "unexpected '}' inside list")
ParenInMap ==
    Sees(ParenEnd) /\ In("map") /\ ~ KeyPending /\ Abandon(pos + 1, "unexpected ')' inside map")

OddMapKeyKept ==     \* faulty: the pending key is not released
    /\ Turn
    /\ KeyPending
    /\ ~ (~ AtEnd /\ Token # BraceEnd)
    /\ error' = [at |-> Top.open, says |-> "odd number of forms in map literal"]
    /\ frames' = Outer
    /\ owned' = owned + 1 - (Len(Top.items) - 1)
    /\ UNCHANGED <<stage, text, pos, answer>>

OddMap ==
    /\ Turn
    /\ KeyPending
    /\ ~ (~ AtEnd /\ Token # BraceEnd)   \* the end, or the closing brace
    /\ Abandon(Top.open, "odd number of forms in map literal")

(* parse_form finds a closing bracket its caller's loop did not look for: *)
(* any at the top level, ")" where a map's value should be.               *)
Stray ==
    /\ Turn
    /\ ~ AtEnd
    /\ \/ In("top") /\ Token \in {ParenEnd, BraceEnd}
       \/ KeyPending /\ Token = ParenEnd
    /\ pos' = pos + 1
    /\ error' = [at |-> pos + 1, says |-> "unexpected"]
    /\ owned' = owned + 1
    /\ UNCHANGED <<stage, text, frames, answer>>

(* The error passes an activation, which releases what it holds; the       *)
(* outermost releases the token list as well.                              *)
PassUp ==
    /\ stage = "parse"
    /\ error # NoError
    /\ frames' = Outer
    /\ stage' = IF In("top") THEN "done" ELSE "parse"
    /\ owned' = owned - Len(Top.items) - (IF In("top") THEN 1 ELSE 0)
    /\ UNCHANGED <<text, pos, error, answer>>

Return ==
    /\ Turn
    /\ AtEnd
    /\ In("top")
    /\ stage' = "done"
    /\ answer' = Top.items
    /\ frames' = Outer
    /\ owned' = owned + 1 - Len(Top.items) - 1
    /\ UNCHANGED <<text, pos, error>>

Next ==
    \/ Tokenized \/ TokFails
    \/ ReadAtom \/ OpenList \/ OpenMap \/ CloseList \/ CloseMap
    \/ EndInList \/ EndInMap \/ BraceInList \/ ParenInMap \/ OddMap \/ Stray
    \/ PassUp \/ Return

Spec == Init /\ [][Next]_vars
=============================================================================
