------------------------------ MODULE MCReader ------------------------------
(***************************************************************************)
(* Every text of at most MaxLen characters over one character of each kind *)
(* tok tells apart; every text of at most MaxDeep over those that strings  *)
(* and numbers are made of, and over brackets and what hides them or ends  *)
(* their line; and longer ones for what needs more characters: the         *)
(* reserved words, names and numbers at the width of tmp and beyond it,    *)
(* buffers that grow, maps, errors under several open brackets.            *)
(***************************************************************************)
EXTENDS ReaderRef

CONSTANTS MaxLen, MaxDeep

One == {"(", ")", "{", "}", "]", ",", "\"", "\\", ":", "-", ".", "1", "n", " ", "\n", ";", "@"}
InTokens == {"\"", "\\", "n", "-", ".", "1", "\n"}
Nesting == {"(", ")", "}", "\"", ";", "\n"}

Digit(n) == <<"0", "1", "2", "3">>[n + 1]
Longer == {
    <<"n", "i", "l", " ", "t", "r", "u", "e", "(", "f", "a", "l", "s", "e", "\n">>,
    <<"n", "i", "l", "s", "\n", ":", "n", "i", "l">>,
    <<"f", "a", "l", "s", "e", "s", " ", "t", "r", "u", "e", "f", "a", "l">>,
    <<":", "f", "a", "l", "s", "e", "s", ":", "'">>,
    <<"-", "0", "0", "1", "2", " ", "0", "1", "2", ".", "5">>,
    <<"1", ".", "2", "5", " ", "-", "1", ".", "2", "5">>,
    <<"0", "0", "0", "0", "1", "2", "\r", "1", "2", "3", "4", "5", ".", "5">>,
    <<"\"", "a", "\\", "t", "\n", "a", "a", "\\", "\\", "a", "\"", ")", "\n", "\n", "1">>,
    <<"{", "a", "}", "\n", ";", "\"", "[", "\n", "\t", "(", ")", "n", "[", "a">>,
    <<"{", ":", "n", "\n", "-", "1", ".", "1", ")">>,
    <<"(", "{", "\"", "(", "\"", "1", "\n", "{", "(", ";", "}", ")", "\n", ")", "n", ")", "}", "{", ")", "}">>,
    <<"(", "{", "n", "\"", "(", "\"", " ", "1", "\n", "(", ";", "}", "\n", ")", "n", "}", "}", ")">>,
    <<"(", "{", "n", "\"", "(", "\"", " ", "1", "\n", "(", ";", "}", "\n", ")", "}", ")">>,
    <<"n", "\n", "(", "{", "(", "n", ")", "{", "1", " ", "\"", "\n", "}", "\"", "\n", "}">>,
    <<"a", " ", "\"", "\n", "a", "\\", "a", "\"">>}
  \cup {<<"-", "1">> \o <<Digit(n)>> : n \in 0..3}
  \cup {<<"1", Digit(n), ".">> : n \in 0..3}

MCTexts == BoundedSeq(One, MaxLen) \cup BoundedSeq(InTokens, MaxDeep)
               \cup BoundedSeq(Nesting, MaxDeep) \cup Longer
=============================================================================
