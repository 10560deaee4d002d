------------------------------ MODULE MCParse -------------------------------
(***************************************************************************)
(* Every list of at most MaxLen tokens over the four brackets and two      *)
(* atoms, which brings every error under two open brackets, and longer     *)
(* lists for what needs more tokens: a repeated key, atom or list, maps as *)
(* keys and values, deep nesting, and errors that unwind through it.       *)
(***************************************************************************)
EXTENDS ParseRef, SequencesExt, TLC

CONSTANT MaxLen

BracketOf == [c \in {"(", ")", "{", "}"} |->
    CASE c = "(" -> Paren [] c = ")" -> ParenEnd [] c = "{" -> Brace [] c = "}" -> BraceEnd]
AtomOf == [c \in {"a", "b"} |-> [type |-> "symbol", value |-> c]]
MCAtoms == {AtomOf[c] : c \in DOMAIN AtomOf}
TokensOf(list) == [k \in DOMAIN list |-> (BracketOf @@ AtomOf)[list[k]]]

Longer == {
    <<"{", "a", "a", "a", "b", "}">>,
    <<"{", "a", "a", "b", "a", "a", "b", "}">>,
    <<"{", "(", ")", "a", "(", ")", "b", "}">>,
    <<"{", "{", "a", "b", "}", "{", "}", "}">>,
    <<"(", "{", "a", "(", "b", "{", "}", ")", "}", ")">>,
    <<"(", "a", "{", "a", "(", "b", "a", "{", "a", ")">>,
    <<"(", "a", "{", "a", "(", "b", "a", "{", "a", "}">>,
    <<"(", "a", "{", "a", "b", "b", "(", "a", "b", "}">>,
    <<"a", "{", "a", "b", "b", "{", "a", "b", ")">>,
    <<"a", "{", "a", "b", "b", "{", "a", "b">>,
    <<"a", "b", "(", "(", "a", "(", "b", "a">>}

MCTexts == BoundedSeq(Brackets \cup Atoms, MaxLen) \cup {TokensOf(list) : list \in Longer}
=============================================================================
