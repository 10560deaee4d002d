-------------------------------- MODULE Json --------------------------------
(***************************************************************************)
(* The JSON conversion (json.c).  A caller makes JSON of a value and reads *)
(* it back; the value may itself have been read from a text.               *)
(*                                                                         *)
(* frames holds the activations of val_to_cjson that wait for a child, and *)
(* now is what the innermost one does.  A JSON text is the tree that cJSON *)
(* parses it to; of cJSON there is what json.c sees of it.  A double is a  *)
(* number of halves, or NotFinite; a map is a function.  What recurs over  *)
(* trees in C is a function on the trees of Levels levels at most.         *)
(***************************************************************************)
EXTENDS Integers, SequencesExt

CONSTANTS
    Values,      \* values given to val_to_json, and those they are made of
    Depth(_),    \* how deep lists and maps are nested in a value
    Texts,       \* texts given to json_to_val
    Levels,      \* how deep a value or a text may be
    Char,        \* bytes of strings, "NUL" among them
    MaxSafe,     \* 2^53: whole doubles up to here are read as ints
    Fifteen,     \* doubles that cJSON prints as another, of 15 digits
    MaxNesting,  \* CJSON_NESTING_LIMIT
    NotFinite

Double == Int \cup {NotFinite}
Int64 == -1024 * MaxSafe .. 1024 * MaxSafe - 1
Unsupported == {"symbol", "keyword", "builtin", "effect", "error"}
NilVal == [type |-> "nil"]

ASSUME DoublesAssumption ==
    /\ MaxSafe \in Nat \ {0}
    /\ NotFinite \notin Int
    /\ DOMAIN Fifteen \subseteq Int /\ Fifteen \in [DOMAIN Fifteen -> Int]

(* Values that are no maps, when those in them are from V. *)
Unmapped(V) ==
    {NilVal} \cup [type : Unsupported]
    \cup [type : {"bool"}, is : BOOLEAN]
    \cup [type : {"int"}, n : Int64]
    \cup [type : {"float"}, double : Double]
    \cup [type : {"string"}, chars : Seq(Char)]
    \cup [type : {"list"}, items : Seq(V)]

IsMap(v, V) ==
    /\ v.type = "map" /\ v = [type |-> "map", of |-> v.of]
    /\ IsFiniteSet(DOMAIN v.of) /\ DOMAIN v.of \subseteq V
    /\ v.of \in [DOMAIN v.of -> V]

Kids(v) ==
    CASE v.type = "list" -> ToSet(v.items)
      [] v.type = "map" -> DOMAIN v.of \cup {v.of[k] : k \in DOMAIN v.of}
      [] OTHER -> {}

ASSUME ValuesAssumption ==
    \A v \in Values :
        /\ v \in Unmapped(Values) \/ IsMap(v, Values)
        /\ Depth(v) \in 0 .. Levels
        /\ v.type \in {"list", "map"} => Depth(v) > 0
        /\ \A w \in Kids(v) : Depth(w) < Depth(v)

(* What cJSON parses texts to, when at most n arrays and objects are       *)
(* inside each other; an item of an array has an empty name.               *)
Scalars ==
    [json : {"null"}] \cup [json : {"bool"}, is : BOOLEAN]
    \cup [json : {"number"}, double : Double] \cup [json : {"string"}, chars : Seq(Char)]
Branches(T) == [json : {"array", "object"}, items : Seq(Seq(Char) \X T)]
TreesTo(n) ==
    LET to[k \in Nat] == IF k = 0 THEN Scalars ELSE Scalars \cup Branches(to[k - 1])
    IN  to[n]
Trees == TreesTo(Levels)

ASSUME TextsAssumption == Levels \in Nat /\ MaxNesting \in Nat /\ Texts \subseteq Trees

VARIABLES
    source,   \* the text the value was read from, or NULL
    given,    \* the value val_to_json was given
    now,      \* [does] and the value entered or the tree returned
    frames,   \* activations: [type, todo, done], entries and trees made of them
    nodes,    \* cJSON nodes that exist
    text,     \* what val_to_json returned, or NULL
    back      \* its error, or what json_to_val made of the text

args == <<source, given>>
vars == <<source, given, now, frames, nodes, text, back>>

NULL == [json |-> "none"]
Error(says) == [type |-> "error", says |-> says]

-----------------------------------------------------------------------------
(* Beyond 2^53 whole doubles are 2 apart, beyond 2^54 they are 4 apart and *)
(* so on; of two that are as near the even multiple is taken.              *)
Spacing(n) ==
    Min({s \in {1, 2, 4, 8, 16, 32, 64, 128, 256, 512, 1024} : n \in -s * MaxSafe .. s * MaxSafe})
ToDouble(n) ==
    LET s == Spacing(n)
        up == 2 * (n % s) > s \/ (2 * (n % s) = s /\ (n \div s) % 2 = 1)
    IN  2 * s * (n \div s + (IF up THEN 1 ELSE 0))

CString(chars) ==
    LET nuls == {i \in DOMAIN chars : chars[i] = "NUL"}
    IN  IF nuls = {} THEN chars ELSE SubSeq(chars, 1, Min(nuls) - 1)

(* The node of a value without children, if there is one. *)
Leaf(v) ==
    CASE v.type = "nil" -> [json |-> "null"]
      [] v.type = "bool" -> [json |-> "bool", is |-> v.is]
      [] v.type = "int" -> [json |-> "number", double |-> ToDouble(v.n)]
      [] v.type = "float" -> [json |-> "number", double |-> v.double]
      [] v.type = "string" -> [json |-> "string", chars |-> CString(v.chars)]
      [] OTHER -> NULL

IsBranch(tree) == tree.json \in {"array", "object"}

(* Nodes of a tree, when sizes are those of the trees in it.               *)
SizeBy(sizes, tree) ==
    LET upto[i \in Nat] == IF i = 0 THEN 1 ELSE upto[i - 1] + sizes[tree.items[i][2]]
    IN  IF IsBranch(tree) THEN upto[Len(tree.items)] ELSE 1
size[tree \in Trees] == SizeBy(size, tree)

(* cJSON writes 15 digits of a number if they come close enough, and null  *)
(* for one that is not finite.                                             *)
PrintedBy(print, tree) ==
    CASE tree.json = "number" ->
            IF tree.double = NotFinite THEN [json |-> "null"]
            ELSE [tree EXCEPT !.double = IF @ \in DOMAIN Fifteen THEN Fifteen[@] ELSE @]
      [] IsBranch(tree) ->
            [tree EXCEPT !.items = [i \in DOMAIN @ |-> <<@[i][1], print[@[i][2]]>>]]
      [] OTHER -> tree
printed[tree \in Trees] == PrintedBy(printed, tree)

NumberTruncated(d) ==   \* faulty: what is not whole is read as an int too
    IF d # NotFinite /\ d \in -2 * MaxSafe..2 * MaxSafe
    THEN [type |-> "int", n |-> d \div 2]
    ELSE [type |-> "float", double |-> d]

Number(d) ==
    IF d # NotFinite /\ d % 2 = 0 /\ d \in -2 * MaxSafe..2 * MaxSafe
    THEN [type |-> "int", n |-> d \div 2]
    ELSE [type |-> "float", double |-> d]

String(chars) == [type |-> "string", chars |-> CString(chars)]

PlacesOf(k, pairs) == {i \in DOMAIN pairs : pairs[i][1] = k}

MapOfFirst(pairs) ==   \* faulty: the first of several values for a key stays
    [type |-> "map",
     of |-> [k \in {p[1] : p \in ToSet(pairs)} |-> pairs[Min(PlacesOf(k, pairs))][2]]]

(* val_map: of several values for a key the last stays. *)
MapOf(pairs) ==
    [type |-> "map",
     of |-> [k \in {p[1] : p \in ToSet(pairs)} |-> pairs[Max(PlacesOf(k, pairs))][2]]]

(* cjson_to_val, when convert does it for the items of item. *)
ConvertBy(convert, item) ==
    CASE item.json = "null" -> NilVal
      [] item.json = "bool" -> [type |-> "bool", is |-> item.is]
      [] item.json = "number" -> Number(item.double)
      [] item.json = "string" -> String(item.chars)
      [] item.json = "array" ->
            [type |-> "list", items |-> [i \in DOMAIN item.items |-> convert[item.items[i][2]]]]
      [] item.json = "object" ->
            MapOf([i \in DOMAIN item.items |->
                      <<String(item.items[i][1]), convert[item.items[i][2]]>>])
cjson_to_val[item \in Trees] == ConvertBy(cjson_to_val, item)

(* cJSON_ParseWithLength takes no text that is nested too deep. *)
JsonToVal(t) ==
    IF t \in TreesTo(MaxNesting) THEN cjson_to_val[t]
    ELSE Error("json_to_val: invalid JSON")

-----------------------------------------------------------------------------
Does(what) == now.does = what
Enter(v) == now' = [does |-> "enter", val |-> v]
Return(tree) == now' = [does |-> "return", tree |-> tree]
Go(what) == now' = [does |-> what]

Init ==
    /\ source = NULL /\ given = NilVal
    /\ now = [does |-> "call"]
    /\ frames = <<>>
    /\ nodes = 0
    /\ text = NULL /\ back = NilVal

(* val_to_json looks at the type of its argument before anything is made.  *)
ValToJson(v) ==
    /\ Does("call")
    /\ given' = v
    /\ IF v.type \in Unsupported
       THEN Go("done") /\ back' = Error("val_to_json: type not representable in JSON")
       ELSE Enter(v) /\ UNCHANGED back
    /\ UNCHANGED <<frames, nodes, text>>

CallVal == \E v \in Values : ValToJson(v) /\ UNCHANGED source
CallText == source' \in Texts /\ ValToJson(JsonToVal(source'))

Top == frames[Len(frames)]
Outer == SubSeq(frames, 1, Len(frames) - 1)

EnterLeaf ==
    /\ Does("enter")
    /\ now.val.type \notin {"list", "map"}
    /\ Return(Leaf(now.val))
    /\ nodes' = IF Leaf(now.val) = NULL THEN nodes ELSE nodes + 1
    /\ UNCHANGED <<args, frames, text, back>>

(* A list's items, a map's pairs: val_map_entry follows the slots, and     *)
(* their order may be any.                                                 *)
Entries(v) ==
    IF v.type = "list" THEN {[i \in DOMAIN v.items |-> <<NilVal, v.items[i]>>]}
    ELSE {[i \in DOMAIN keys |-> <<keys[i], v.of[keys[i]]>>] : keys \in SetToSeqs(DOMAIN v.of)}

EnterTree ==
    /\ Does("enter")
    /\ now.val.type \in {"list", "map"}
    /\ Go("loop")
    /\ nodes' = nodes + 1
    /\ \E entries \in Entries(now.val) :
          frames' = Append(frames, [type |-> now.val.type, todo |-> entries, done |-> <<>>])
    /\ UNCHANGED <<args, text, back>>

(* What an activation made so far. *)
Tree(frame) ==
    [json |-> IF frame.type = "map" THEN "object" ELSE "array", items |-> frame.done]

KeyRefused == Top.type = "map" /\ Head(Top.todo)[1].type # "string"

NextChild ==
    /\ Does("loop")
    /\ Top.todo # <<>>
    /\ ~ KeyRefused
    /\ Enter(Head(Top.todo)[2])
    /\ UNCHANGED <<args, frames, nodes, text, back>>

EndTree ==
    /\ Does("loop")
    /\ Top.todo = <<>>
    /\ Return(Tree(Top))
    /\ frames' = Outer
    /\ UNCHANGED <<args, nodes, text, back>>

(* cJSON_Delete takes all that was made, and NULL is returned.             *)
Abandon ==
    /\ Return(NULL)
    /\ frames' = Outer
    /\ nodes' = nodes - size[Tree(Top)]
    /\ UNCHANGED <<args, text, back>>

RefuseKey == Does("loop") /\ Top.todo # <<>> /\ KeyRefused /\ Abandon

Returned(something) ==
    Does("return") /\ frames # <<>> /\ (now.tree # NULL) = something
AddChild ==
    /\ Returned(TRUE)
    /\ Go("loop")
    /\ LET key == Head(Top.todo)[1]
           name == IF Top.type = "map" THEN CString(key.chars) ELSE <<>>
       IN  frames' = Append(Outer, [Top EXCEPT !.todo = Tail(@),
                                               !.done = Append(@, <<name, now.tree>>)])
    /\ UNCHANGED <<args, nodes, text, back>>

ChildFailedKept ==      \* faulty: the tree made so far is not deleted
    Returned(FALSE) /\ frames' = Outer /\ UNCHANGED <<args, now, nodes, text, back>>
ChildFailedSkipped ==   \* faulty: the child is left out
    /\ Returned(FALSE)
    /\ Go("loop")
    /\ frames' = Append(Outer, [Top EXCEPT !.todo = Tail(@)])
    /\ UNCHANGED <<args, nodes, text, back>>

ChildFailed == Returned(FALSE) /\ Abandon

(* The message depends on the type of the whole argument.                  *)
Failed ==
    /\ Does("return") /\ frames = <<>> /\ now.tree = NULL
    /\ Go("done")
    /\ back' = Error(IF given.type = "map" THEN "val_to_json: map keys must be strings"
                     ELSE "val_to_json: conversion failed")
    /\ UNCHANGED <<args, frames, nodes, text>>

(* cJSON prints nothing if the tree is too deep, and strlen is given NULL. *)
PrintTree ==
    /\ Does("return") /\ frames = <<>> /\ now.tree # NULL
    /\ nodes' = nodes - size[now.tree]
    /\ IF now.tree \notin TreesTo(MaxNesting) THEN Go("crashed") /\ UNCHANGED text
       ELSE Go("print") /\ text' = printed[now.tree]
    /\ UNCHANGED <<args, frames, back>>

ReadBack ==
    /\ Does("print")
    /\ Go("done")
    /\ back' = JsonToVal(text)
    /\ UNCHANGED <<args, frames, nodes, text>>

Next ==
    \/ CallVal \/ CallText
    \/ EnterLeaf \/ EnterTree \/ NextChild \/ EndTree \/ RefuseKey \/ AddChild
    \/ ChildFailed \/ Failed \/ PrintTree \/ ReadBack

Spec == Init /\ [][Next]_vars
=============================================================================
