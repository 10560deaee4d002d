-------------------------------- MODULE Tok ---------------------------------
(***************************************************************************)
(* The tokenizer (tok.c): a text becomes a list of tokens, or one error.   *)
(*                                                                         *)
(* A step reads one character, or notices that what was being read ended   *)
(* before it.  mode is where in the C code that is: in tok's loop, or in a *)
(* loop of one of the functions it calls.  The widths are parameters: the  *)
(* C code has MaxInt = 2^63 - 1, MaxDigits = 63, MaxName = 255, Room = 64. *)
(***************************************************************************)
EXTENDS Integers, SequencesExt

CONSTANTS
    Texts,       \* the texts to tokenize, as sequences of characters
    Letters,     \* the characters isalpha accepts
    MaxInt,      \* the largest int
    MaxDigits,   \* characters of a number that fit tok_number's tmp
    MaxName,     \* characters of a name that fit tok_symbol's tmp
    Room         \* the initial capacity of the string and token buffers

Reserved == {<<"n", "i", "l">>, <<"t", "r", "u", "e">>, <<"f", "a", "l", "s", "e">>}

ASSUME WidthAssumption ==
    /\ {MaxInt, MaxDigits, MaxName, Room} \subseteq Nat \ {0}
    /\ \A w \in Reserved : Len(w) < MaxName
    /\ Texts \subseteq Seq(STRING)

DigitValue == [c \in {"0", "1", "2", "3", "4", "5", "6", "7", "8", "9"} |->
    CASE c = "0" -> 0 [] c = "1" -> 1 [] c = "2" -> 2 [] c = "3" -> 3 [] c = "4" -> 4
      [] c = "5" -> 5 [] c = "6" -> 6 [] c = "7" -> 7 [] c = "8" -> 8 [] c = "9" -> 9]
Digits == DOMAIN DigitValue
Space == {" ", "\t", "\n", "\r"}
SymbolStart == Letters \cup {"+", "-", "*", "/", "!", "?", "_", "=", "<", ">", "&",
                             "%", ".", "#"}
SymbolCont == SymbolStart \cup Digits \cup {"'", ":"}
Escapes == [e \in {"\"", "\\", "n", "t"} |->
    CASE e = "n" -> "\n" [] e = "t" -> "\t" [] OTHER -> e]
Delims == [c \in {"(", ")", "{", "}"} |->
    CASE c = "(" -> "lparen" [] c = ")" -> "rparen" [] c = "{" -> "lbrace"
      [] OTHER -> "rbrace"]
Refusals == [c \in {"[", "]", ","} |-> IF c = "," THEN "commas" ELSE "brackets"]

ASSUME LettersAssumption ==
    /\ Letters \cap (Space \cup Digits \cup DOMAIN Delims \cup DOMAIN Refusals) = {}
    /\ Letters \cap {"\"", ";", ":", "\\"} = {}

VARIABLES
    mode,      \* "call", "between", "comment", "string", "escape", "number",
               \* "fraction", "symbol", "keyword" or "done"
    src,       \* the text
    pos,       \* characters consumed
    line, col, \* the place of the next character
    start,     \* the place of the token being read
    begin,     \* what was consumed when its text began
    negative,  \* it is a number after a minus
    buf, cap,  \* a string's bytes so far, and what the buffer holds
    tokens,    \* the tokens so far
    room,      \* what the token array holds
    error      \* the error returned, or NoError

vars == <<mode, src, pos, line, col, start, begin, negative, buf, cap, tokens, room, error>>
place == <<pos, line, col>>
scratch == <<start, begin, negative, buf, cap>>
result == <<tokens, room, error>>

At(l, c) == [line |-> l, col |-> c]
Here == At(line, col)
NoError == [at |-> At(0, 0), says |-> ""]
Nil == "nil"

Init ==
    /\ mode = "call"
    /\ src = <<>>
    /\ pos = 0 /\ line = 1 /\ col = 1
    /\ start = At(1, 1) /\ begin = 0 /\ negative = FALSE
    /\ buf = <<>> /\ cap = 0
    /\ tokens = <<>> /\ room = 0
    /\ error = NoError

Call ==
    /\ mode = "call"
    /\ mode' = "between"
    /\ src' \in Texts
    /\ room' = Room
    /\ UNCHANGED <<place, scratch, tokens, error>>

-----------------------------------------------------------------------------
AtEnd == pos >= Len(src)
Char == src[pos + 1]
Sees(S) == ~ AtEnd /\ Char \in S
ThenSees(S) == pos + 2 <= Len(src) /\ src[pos + 2] \in S

Advance ==
    /\ pos' = pos + 1
    /\ line' = IF Char = "\n" THEN line + 1 ELSE line
    /\ col' = IF Char = "\n" THEN 1 ELSE col + 1

(* A token is appended to the array, which grows when it is full, and the  *)
(* loop goes on; an error releases the tokens and is returned.             *)
Emit(type, value, at) ==
    /\ mode' = "between"
    /\ tokens' = Append(tokens, [type |-> type, value |-> value, at |-> at])
    /\ room' = IF Len(tokens) >= room THEN 2 * room ELSE room
    /\ UNCHANGED <<src, scratch, error>>

Fail(at, says) ==
    /\ mode' = "done"
    /\ tokens' = <<>>
    /\ error' = [at |-> at, says |-> says]
    /\ UNCHANGED <<src, scratch, room>>

(* A token's text begins, with skip characters of it not part of the text. *)
Start(reading, skip, neg) ==
    /\ mode' = reading
    /\ start' = Here
    /\ begin' = pos + skip
    /\ negative' = neg
    /\ UNCHANGED <<src, buf, cap, result>>

Go(next) == mode' = next /\ UNCHANGED <<src, scratch, result>>

-----------------------------------------------------------------------------
SkipSpace == mode = "between" /\ Sees(Space) /\ Advance /\ Go("between")
StartComment == mode = "between" /\ Sees({";"}) /\ Advance /\ Go("comment")
SkipCommentInPlace ==   \* faulty: the character is looked at and not consumed
    mode = "comment" /\ ~ AtEnd /\ Char # "\n" /\ UNCHANGED place /\ Go("comment")
SkipComment == mode = "comment" /\ ~ AtEnd /\ Char # "\n" /\ Advance /\ Go("comment")
EndComment ==
    mode = "comment" /\ ~ (~ AtEnd /\ Char # "\n") /\ Go("between") /\ UNCHANGED place
Finish == mode = "between" /\ AtEnd /\ Go("done") /\ UNCHANGED place

Delim == mode = "between" /\ Sees(DOMAIN Delims) /\ Advance /\ Emit(Delims[Char], Nil, Here)
Refuse == mode = "between" /\ Sees(DOMAIN Refusals) /\ Advance /\ Fail(Here, Refusals[Char])
Unexpected ==
    /\ mode = "between"
    /\ ~ AtEnd
    /\ Char \notin Space \cup Digits \cup SymbolStart \cup DOMAIN Delims
                     \cup DOMAIN Refusals \cup {";", "\"", ":"}
    /\ Advance
    /\ Fail(Here, "unexpected")

-----------------------------------------------------------------------------
(* Faulty: the buffer grows only once it has overflowed. *)
PutLate(c) ==
    /\ cap' = IF Len(buf) > cap THEN 2 * cap ELSE cap
    /\ buf' = Append(buf, c)

Put(c) ==
    /\ cap' = IF Len(buf) + 1 > cap THEN 2 * cap ELSE cap
    /\ buf' = Append(buf, c)

StartString ==
    /\ mode = "between"
    /\ Sees({"\""})
    /\ Advance
    /\ mode' = "string"
    /\ start' = Here
    /\ buf' = <<>>
    /\ cap' = Room
    /\ UNCHANGED <<src, begin, negative, result>>

StringChar ==
    /\ mode = "string"
    /\ ~ AtEnd
    /\ Char \notin {"\"", "\\"}
    /\ Advance
    /\ Put(Char)
    /\ UNCHANGED <<mode, src, start, begin, negative, result>>

Escape == mode = "string" /\ Sees({"\\"}) /\ Advance /\ Go("escape")

EscapedChar ==
    /\ mode = "escape"
    /\ Sees(DOMAIN Escapes)
    /\ Advance
    /\ Put(Escapes[Char])
    /\ mode' = "string"
    /\ UNCHANGED <<src, start, begin, negative, result>>

(* The place is worked out from where the character after it is. *)
BadEscape ==
    /\ mode = "escape"
    /\ ~ AtEnd
    /\ Char \notin DOMAIN Escapes
    /\ Advance
    /\ Fail(At(line', col' - 1), "invalid escape")

EndString == mode = "string" /\ Sees({"\""}) /\ Advance /\ Emit("string", buf, start)

UnterminatedEarly ==   \* faulty: the error is where the text ends
    /\ mode \in {"string", "escape"}
    /\ AtEnd
    /\ UNCHANGED place
    /\ Fail(Here, IF mode = "string" THEN "unterminated" ELSE "unterminated escape")

Unterminated ==
    /\ mode \in {"string", "escape"}
    /\ AtEnd
    /\ UNCHANGED place
    /\ Fail(start, IF mode = "string" THEN "unterminated" ELSE "unterminated escape")

-----------------------------------------------------------------------------
(* What tmp holds of the text from begin on. *)
Copied(width) == SubSeq(src, begin + 1, IF pos - begin > width THEN begin + width ELSE pos)

Written(digits) ==
    LET value[n \in 0..Len(digits)] ==
            IF n = 0 THEN 0 ELSE 10 * value[n - 1] + DigitValue[digits[n]]
    IN  value[Len(digits)]
StrToLL(digits) == IF Written(digits) > MaxInt THEN MaxInt ELSE Written(digits)

(* A decimal is its value in units of the last place of the longest one.   *)
Decimal(text) ==
    LET point == SelectInSeq(text, LAMBDA c : c = ".")
        whole == IF point = 0 THEN text ELSE SubSeq(text, 1, point - 1)
        part == IF point = 0 THEN <<>> ELSE SubSeq(text, point + 1, Len(text))
    IN  Written(whole \o part \o [k \in 1..MaxDigits - Len(part) |-> "0"])

Signed(n) == (IF negative THEN -1 ELSE 1) * n

(* The digit was consumed and is given back, with its column. *)
StartNumber ==
    mode = "between" /\ Sees(Digits) /\ Start("number", 0, FALSE) /\ UNCHANGED place
StartNegative ==
    mode = "between" /\ Sees({"-"}) /\ ThenSees(Digits) /\ Advance /\ Start("number", 1, TRUE)
ReadDigit ==
    mode \in {"number", "fraction"} /\ Sees(Digits) /\ Advance /\ Go(mode)
ReadPointAlone ==   \* faulty: what follows the point is not looked at
    mode = "number" /\ Sees({"."}) /\ Advance /\ Go("fraction")
ReadPoint ==
    mode = "number" /\ Sees({"."}) /\ ThenSees(Digits) /\ Advance /\ Go("fraction")
EndInt ==
    /\ mode = "number"
    /\ ~ Sees(Digits)
    /\ ~ (Sees({"."}) /\ ThenSees(Digits))
    /\ UNCHANGED place
    /\ Emit("int", Signed(StrToLL(Copied(MaxDigits))), start)
EndFloat ==
    /\ mode = "fraction"
    /\ ~ Sees(Digits)
    /\ UNCHANGED place
    /\ Emit("float", Signed(Decimal(Copied(MaxDigits))), start)

-----------------------------------------------------------------------------
StartSymbol ==
    /\ mode = "between"
    /\ Sees(SymbolStart)
    /\ ~ (Char = "-" /\ ThenSees(Digits))
    /\ Advance
    /\ Start("symbol", 0, FALSE)
StartKeyword ==
    mode = "between" /\ Sees({":"}) /\ ThenSees(Letters) /\ Advance /\ Start("keyword", 1, FALSE)
BareColon ==
    /\ mode = "between"
    /\ Sees({":"})
    /\ ~ ThenSees(Letters)
    /\ Advance
    /\ Fail(Here, "expected keyword name")
ReadName == mode \in {"symbol", "keyword"} /\ Sees(SymbolCont) /\ Advance /\ Go(mode)
EndSymbol ==
    /\ mode = "symbol"
    /\ ~ Sees(SymbolCont)
    /\ UNCHANGED place
    /\ LET name == Copied(MaxName)
       IN  Emit(IF name \in Reserved THEN "reserved" ELSE "symbol", name, start)
EndKeyword ==
    /\ mode = "keyword"
    /\ ~ Sees(SymbolCont)
    /\ UNCHANGED place
    /\ Emit("keyword", Copied(MaxName), start)

-----------------------------------------------------------------------------
Next ==
    \/ Call
    \/ SkipSpace \/ StartComment \/ SkipComment \/ EndComment \/ Finish
    \/ Delim \/ Refuse \/ Unexpected
    \/ StartString \/ StringChar \/ Escape \/ EscapedChar \/ BadEscape
    \/ EndString \/ Unterminated
    \/ StartNumber \/ StartNegative \/ ReadDigit \/ ReadPoint \/ EndInt \/ EndFloat
    \/ StartSymbol \/ StartKeyword \/ BareColon \/ ReadName \/ EndSymbol \/ EndKeyword

Spec == Init /\ [][Next]_vars
=============================================================================
