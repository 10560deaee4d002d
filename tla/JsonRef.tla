------------------------------ MODULE JsonRef -------------------------------
(***************************************************************************)
(* What the conversion promises (json.md, json.h).                         *)
(***************************************************************************)
EXTENDS Json

(* v and all that it is made of. *)
Within(v) ==
    LET upto[n \in Nat] == IF n = 0 THEN {v} ELSE upto[n - 1] \cup UNION {Kids(w) : w \in upto[n - 1]}
    IN  upto[Levels]

StringKeys(v) == v.type = "map" => \A k \in DOMAIN v.of : k.type = "string"
Supported(v) == v.type \notin Unsupported /\ StringKeys(v)

(* Values that JSON and a double can hold: whole numbers are ints, of at   *)
(* most 2^53, cJSON prints the number exactly, and strings hold no NUL.    *)
Portable(v) ==
    CASE v.type = "int" -> v.n \in -MaxSafe..MaxSafe /\ 2 * v.n \notin DOMAIN Fifteen
      [] v.type = "float" -> /\ v.double # NotFinite
                             /\ v.double \notin DOMAIN Fifteen
                             /\ v.double % 2 = 0 => v.double \notin -2 * MaxSafe..2 * MaxSafe
      [] v.type = "string" -> "NUL" \notin ToSet(v.chars)
      [] OTHER -> TRUE

Fine(v) == \A w \in Within(v) : Supported(w) /\ Portable(w)

(* Two JSON texts mean the same: an object is a function of its names, the *)
(* last of equal ones counting.                                            *)
Lasting(items) ==
    {i \in DOMAIN items : \A j \in DOMAIN items : j > i => items[j][1] # items[i][1]}
MeaningBy(means, tree) ==
    CASE tree.json = "array" -> [i \in DOMAIN tree.items |-> means[tree.items[i][2]]]
      [] tree.json = "object" ->
            {<<tree.items[i][1], means[tree.items[i][2]]>> : i \in Lasting(tree.items)}
      [] OTHER -> <<tree>>
meaning[tree \in Trees] == MeaningBy(meaning, tree)

(* A text of numbers and strings that a Val can hold. *)
PlainBy(plainly, tree) ==
    CASE tree.json = "number" -> tree.double # NotFinite /\ tree.double \notin DOMAIN Fifteen
      [] tree.json = "string" -> "NUL" \notin ToSet(tree.chars)
      [] IsBranch(tree) ->
            \A i \in DOMAIN tree.items :
                "NUL" \notin ToSet(tree.items[i][1]) /\ plainly[tree.items[i][2]]
      [] OTHER -> TRUE
plain[tree \in Trees] == PlainBy(plain, tree)

Done == Does("done")

-----------------------------------------------------------------------------
(* Every variable has its type; an activation waits for a child that is    *)
(* still to do.                                                            *)
TypeOK ==
    /\ now.does \in {"call", "enter", "loop", "return", "print", "done", "crashed"}
    /\ nodes \in Nat
    /\ \A d \in DOMAIN frames :
          /\ frames[d].type \in {"list", "map"}
          /\ d < Len(frames) \/ now.does \in {"enter", "return"} => frames[d].todo # <<>>

(* A value that JSON can hold comes back equal, maps with their pairs in   *)
(* whatever order (json.c:9-68, 87-133; json.md "Round-trip guarantee").   *)
RoundTrips == Done /\ Fine(given) => back = given

(* A text whose numbers and strings a Val can hold is equivalent to what   *)
(* val_to_json makes of the value read from it.                            *)
TextRoundTrips ==
    Done /\ source # NULL /\ source \in TreesTo(MaxNesting) /\ plain[source]
        => meaning[text] = meaning[source]

(* val_to_json fails exactly for what holds, however deep, a value or a    *)
(* key that JSON cannot represent (json.c:87-146; json.md).                *)
FailsIffUnsupported ==
    Done => (text = NULL) = (\E w \in Within(given) : ~ Supported(w))

(* No cJSON node outlives the call, and none is freed twice, whatever the  *)
(* way out (json.c:107, 119, 125, 149).                                    *)
NodesFreed == TypeOK /\ (now.does \in {"print", "done", "crashed"} => nodes = 0)

(* json.md: "json_to_val(val_to_json(v)) produces a Val equal to v for all *)
(* supported types."                                                       *)
RoundTripGuarantee ==
    Done /\ (\A w \in Within(given) : Supported(w)) => back = given

(* json.h: the output is a text or a VAL_ERROR, for every Val.             *)
AlwaysAnswers == ~ Does("crashed")

(* json.c:144 says what is wrong: a key that is not a string.              *)
MapErrorsAreAboutKeys ==
    Done /\ text = NULL /\ back = Error("val_to_json: map keys must be strings")
        => \E w \in Within(given) : ~ StringKeys(w)
=============================================================================
