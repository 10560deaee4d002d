------------------------------- MODULE Reader -------------------------------
(***************************************************************************)
(* Reading a text: parse (parse.c) calls tok (tok.c) and reads the tokens  *)
(* that it made.  Tok is the one component and P the other; parse knows a  *)
(* token by its index, and asks it for its place when an error needs one.  *)
(***************************************************************************)
EXTENDS TokRef

VARIABLES stage, text, next, frames, fault, answer, owned   \* of parse

P == INSTANCE Parse WITH
        Atoms <- {}, Texts <- {}, pos <- next, error <- fault   \* its tokens come from tok

tok == vars
parse == <<stage, text, next, frames, fault, answer, owned>>
reading == <<tok, parse>>

ReadInit == Init /\ P!Init

TokenOfText(token) ==   \* faulty: goes by the text of the token
    LET brackets == {c \in DOMAIN Delims :
                        IF token.type = "string" THEN token.value = <<c>>
                        ELSE Delims[c] = token.type}
    IN  IF brackets # {} THEN P!Bracket(Delims[CHOOSE c \in brackets : TRUE])
        ELSE [type |-> token.type, value |-> token.value]

(* What parse looks at of a token. *)
TokenOf(token) == [type |-> token.type, value |-> token.value]

Tokenize == stage = "call" /\ mode # "done" /\ Next /\ UNCHANGED parse

Tokenized ==
    /\ stage = "call" /\ mode = "done"
    /\ error = NoError
    /\ P!Begin([k \in DOMAIN tokens |-> TokenOf(tokens[k])])
    /\ UNCHANGED tok

TokFails ==
    /\ stage = "call" /\ mode = "done"
    /\ error # NoError
    /\ P!TokFails
    /\ UNCHANGED tok

Parse == stage = "parse" /\ P!Next /\ UNCHANGED tok

(* Where the error returned says it is (make_error_at). *)
PlaceSaid == IF error # NoError THEN error.at ELSE tokens[fault.at].at

ReadNext == Tokenize \/ Tokenized \/ TokFails \/ Parse

ReadSpec == ReadInit /\ [][ReadNext]_reading

(* Sequential code: a call of parse runs on until it returns. *)
ReadFairSpec == ReadSpec /\ WF_reading(ReadNext)
=============================================================================
