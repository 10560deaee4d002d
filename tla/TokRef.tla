------------------------------- MODULE TokRef -------------------------------
(***************************************************************************)
(* What the tokenizer promises (tok.md, LANGUAGE.md), stated over spans of *)
(* the whole text: which spans are tokens, and that the longest is taken.  *)
(***************************************************************************)
EXTENDS Tok

FirstOf(S) == CHOOSE i \in S : \A j \in S : i <= j
LastOf(S) == CHOOSE i \in S : \A j \in S : i >= j

(* The place of character i of t. *)
PlaceOf(t, i) ==
    LET newlines == {k \in 1..i - 1 : t[k] = "\n"}
    IN  At(1 + Cardinality(newlines), i - LastOf(newlines \cup {0}))

(* Character k of a string opened at i stands after an odd run of          *)
(* backslashes.                                                            *)
Escaped(t, i, k) ==
    \E m \in i + 1..k - 1 :
        /\ (k - m) % 2 = 1
        /\ \A n \in m..k - 1 : t[n] = "\\"
        /\ m - 1 = i \/ t[m - 1] # "\\"

BadEscapes(t, i, last) == {k \in i + 1..last : Escaped(t, i, k) /\ t[k] \notin DOMAIN Escapes}
Quotes(t, i, last) == {k \in i + 1..last : t[k] = "\"" /\ ~ Escaped(t, i, k)}

IsString(t, i, j) ==
    t[i] = "\"" /\ j > i /\ Quotes(t, i, j) = {j} /\ BadEscapes(t, i, j) = {}

AllDigits(t, i, j) == i <= j /\ \A k \in i..j : t[k] \in Digits
Unsigned(t, i) == IF t[i] = "-" THEN i + 1 ELSE i
IsInt(t, i, j) == AllDigits(t, Unsigned(t, i), j)
IsFloat(t, i, j) ==
    \E k \in i..j : t[k] = "." /\ AllDigits(t, Unsigned(t, i), k - 1) /\ AllDigits(t, k + 1, j)

IsName(t, i, j) ==
    /\ t[i] \in SymbolStart
    /\ \A k \in i + 1..j : t[k] \in SymbolCont
    /\ ~ (t[i] = "-" /\ j > i /\ t[i + 1] \in Digits)
IsKeyword(t, i, j) ==
    /\ t[i] = ":" /\ j > i
    /\ t[i + 1] \in Letters
    /\ \A k \in i + 2..j : t[k] \in SymbolCont

Kinds(t, i, j) ==
    UNION {IF IsString(t, i, j) THEN {"string"} ELSE {},
           IF IsInt(t, i, j) THEN {"int"} ELSE {},
           IF IsFloat(t, i, j) THEN {"float"} ELSE {},
           IF IsKeyword(t, i, j) THEN {"keyword"} ELSE {},
           IF IsName(t, i, j)
           THEN {IF SubSeq(t, i, j) \in Reserved THEN "reserved" ELSE "symbol"} ELSE {},
           IF i = j /\ t[i] \in DOMAIN Delims THEN {Delims[t[i]]} ELSE {}}

(* No token begins at i: what is wrong, and with which character.          *)
FaultAt(t, i) ==
    IF t[i] = "\""
    THEN IF BadEscapes(t, i, Len(t)) # {}
         THEN [char |-> FirstOf(BadEscapes(t, i, Len(t))), says |-> "invalid escape"]
         ELSE [char |-> i, says |-> IF Escaped(t, i, Len(t) + 1) THEN "unterminated escape"
                                                                 ELSE "unterminated"]
    ELSE [char |-> i, says |-> IF t[i] = ":" THEN "expected keyword name"
                               ELSE IF t[i] \in {"[", "]"} THEN "brackets"
                               ELSE IF t[i] = "," THEN "commas" ELSE "unexpected"]

NoFault == [char |-> 0, says |-> ""]

(* Where the line that character i is on ends. *)
LineEnd(t, i) == FirstOf({k \in i..Len(t) : t[k] = "\n"} \cup {Len(t) + 1})

(* Where tokens that begin at character i can end. *)
Ends(t, i) == {j \in i..Len(t) : Kinds(t, i, j) # {}}
LastEnd(t, i) == LastOf(Ends(t, i))

(* The spans of t's tokens in order from character i on, and the fault     *)
(* that ends them, if any.                                                 *)
From(t) ==
    LET from[i \in 1..Len(t) + 1] ==
            IF i > Len(t) THEN [spans |-> <<>>, fault |-> NoFault]
            ELSE IF t[i] \in Space THEN from[i + 1]
            ELSE IF t[i] = ";" THEN from[LineEnd(t, i)]
            ELSE IF Ends(t, i) = {} THEN [spans |-> <<>>, fault |-> FaultAt(t, i)]
            ELSE [spans |-> <<[i |-> i, j |-> LastEnd(t, i)]>> \o from[LastEnd(t, i) + 1].spans,
                  fault |-> from[LastEnd(t, i) + 1].fault]
    IN  from
Reading(t) == From(t)[1]

(* What a string stands for: its characters, but for the backslashes that  *)
(* escape others.                                                          *)
Inside(t, s) == {k \in s.i + 1..s.j - 1 : t[k] # "\\" \/ Escaped(t, s.i, k)}
Unescaped(t, i, k) == IF Escaped(t, i, k) THEN Escapes[t[k]] ELSE t[k]
Content(t, s) ==
    [n \in 1..Cardinality(Inside(t, s)) |->
        LET k == CHOOSE k \in Inside(t, s) : Cardinality({m \in Inside(t, s) : m <= k}) = n
        IN  Unescaped(t, s.i, k)]

(* What characters i .. j of t stand for.                                  *)
Sign(t, i) == IF t[i] = "-" THEN -1 ELSE 1
Number(t, s) == SubSeq(t, Unsigned(t, s.i), s.j)
TheKind(t, s) == CHOOSE k \in Kinds(t, s.i, s.j) : TRUE
Meaning(t, s) ==
    LET kind == TheKind(t, s)
        text == SubSeq(t, s.i, s.j)
    IN  CASE kind = "string" -> Content(t, s)
          [] kind = "int" -> Sign(t, s.i) * Written(Number(t, s))
          [] kind = "float" -> Sign(t, s.i) * Decimal(Number(t, s))
          [] kind = "keyword" -> Tail(text)
          [] kind \in {"symbol", "reserved"} -> text
          [] OTHER -> Nil

(* The span is within the widths the code provides for. *)
Fits(t, s) ==
    LET long == s.j - s.i + 1
    IN  CASE TheKind(t, s) = "int" ->
                /\ long <= MaxDigits + Unsigned(t, s.i) - s.i
                /\ Meaning(t, s) \in -MaxInt..MaxInt
          [] TheKind(t, s) = "float" -> long <= MaxDigits + Unsigned(t, s.i) - s.i
          [] TheKind(t, s) = "keyword" -> long <= MaxName + 1
          [] TheKind(t, s) = "symbol" -> long <= MaxName
          [] OTHER -> TRUE

Done == mode = "done"
Misplaced == error.says = "invalid escape" /\ error.at.col = 0

-----------------------------------------------------------------------------
(* Every variable has its type.                                            *)
TypeOK ==
    /\ mode \in {"call", "between", "comment", "string", "escape", "number", "fraction",
                 "symbol", "keyword", "done"}
    /\ pos \in 0..Len(src) /\ begin \in 0..Len(src)
    /\ {line, col, start.line, start.col} \subseteq Nat \ {0}
    /\ negative \in BOOLEAN
    /\ \A k \in DOMAIN tokens :
          tokens[k].type \in {"string", "int", "float", "symbol", "keyword", "reserved"}
                                 \cup {Delims[c] : c \in DOMAIN Delims}
    /\ error.says # "" => mode = "done"

(* The tokens made so far are the first ones of the text: each is the      *)
(* longest that begins where the one before it and the blanks after that   *)
(* ended, has the place of its first character and, unless it is longer or *)
(* larger than the code provides for, means what was written (tok.c:98-216 *)
(* and 235-304).                                                           *)
TokensAreText ==
    LET spans == Reading(src).spans
    IN  mode \in {"between", "done"} =>
          /\ Len(tokens) <= Len(spans)
          /\ mode = "done" /\ error = NoError => Len(tokens) = Len(spans)
          /\ \A k \in 1..Len(tokens) :
                /\ tokens[k].type = TheKind(src, spans[k])
                /\ tokens[k].at = PlaceOf(src, spans[k].i)
                /\ Fits(src, spans[k]) => tokens[k].value = Meaning(src, spans[k])

(* tok fails exactly on the texts that have a fault, for the first one,    *)
(* and says where: an error points at the character that is wrong, or at   *)
(* the opening quote (tok.c:258-291; tok.md "Error cases").  A newline     *)
(* after a backslash has its place in ErrorsArePlaced.                     *)
FaultsAreFound ==
    LET fault == Reading(src).fault
    IN  Done => /\ error.says = fault.says
                /\ error # NoError /\ ~ Misplaced => error.at = PlaceOf(src, fault.char)
                /\ Misplaced => src[fault.char] = "\n"

(* Nothing is written beyond the string's buffer or the array of tokens    *)
(* (tok.c:128-129, 302-303).                                               *)
BuffersFit == TypeOK /\ Len(buf) <= cap /\ Len(tokens) <= room

(* LANGUAGE.md:11 has 64-bit signed integers: a literal in that range is   *)
(* read as written.                                                        *)
IntsAreExact ==
    LET spans == Reading(src).spans
    IN  Done => \A k \in 1..Len(tokens) :
            tokens[k].type = "int" /\ Meaning(src, spans[k]) \in -MaxInt - 1..MaxInt
                => tokens[k].value = Meaning(src, spans[k])

(* tok.md: errors are prefixed with line and column, and columns count     *)
(* from one.                                                               *)
ErrorsArePlaced == error # NoError => error.at.col >= 1
=============================================================================
