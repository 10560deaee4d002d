---------------------------- MODULE ReaderProofs ----------------------------
(***************************************************************************)
(* The tokenizer, for every text and every width: its buffers are never    *)
(* overrun, and its tokens and its error are those of the text.  Then what *)
(* tok and parse promise together: brackets that are read nest, and errors *)
(* point at the brackets that do not.                                      *)
(***************************************************************************)
EXTENDS ReaderRef, FiniteSetTheorems, SequenceTheorems, WellFoundedInduction, TLAPS

(* A sequence of anything: the values of tokens have no common type.       *)
IsSeq(s) == \E S : s \in Seq(S)

Types == {"string", "int", "float", "symbol", "keyword", "reserved"} \cup {Delims[c] : c \in DOMAIN Delims}

(* Both buffers can grow by doubling once there is one to grow.            *)
Roomy ==
    /\ cap \in Nat /\ room \in Nat
    /\ mode \in {"string", "escape"} => cap > 0
    /\ mode # "call" => room > 0

(* Nothing has been read when tok is called.                               *)
Fresh == mode = "call" => pos = 0 /\ begin = 0 /\ tokens = <<>>

TokInv ==
    /\ Fresh
    /\ src \in Seq(STRING)
    /\ IsSeq(buf) /\ IsSeq(tokens)
    /\ Roomy
    /\ BuffersFit

-----------------------------------------------------------------------------
(* Sequences *)

LEMMA EmptyIsSeq == IsSeq(<<>>) /\ Len(<<>>) = 0
<1>1. <<>> \in Seq({})
  OBVIOUS
<1> QED
  BY <1>1 DEF IsSeq

LEMMA AppendIsSeq ==
    ASSUME NEW s, IsSeq(s), NEW x
    PROVE  /\ IsSeq(Append(s, x))
           /\ Len(s) \in Nat /\ Len(Append(s, x)) = Len(s) + 1
           /\ \A k \in DOMAIN Append(s, x) : (k \in DOMAIN s /\ Append(s, x)[k] = s[k]) \/ Append(s, x)[k] = x
<1>1. PICK S : s \in Seq(S)
  BY DEF IsSeq
<1> DEFINE T == S \cup {x}
<1>2. s \in Seq(T) /\ x \in T
  BY <1>1
<1> HIDE DEF T
<1>3. Append(s, x) \in Seq(T)
  BY <1>2
<1>4. Len(s) \in Nat /\ Len(Append(s, x)) = Len(s) + 1
  BY <1>2
<1>5. \A k \in DOMAIN Append(s, x) : (k \in DOMAIN s /\ Append(s, x)[k] = s[k]) \/ Append(s, x)[k] = x
  BY <1>2
<1> QED
  BY <1>3, <1>4, <1>5 DEF IsSeq

-----------------------------------------------------------------------------
(* Numbers *)

LEMMA LeastNatural ==
    ASSUME NEW S \in SUBSET Nat, S # {}
    PROVE  \E n \in S : \A k \in S : n <= k
<1> DEFINE R == {ss \in Nat \X Nat : ss[1] < ss[2]}
<1>1. IsWellFoundedOn(R, Nat)
  BY NatLessThanWellFounded DEF OpToRel
<1>2. PICK n \in S : \A k \in S : <<k, n>> \notin R
  <2> HIDE DEF R
  <2> QED
    BY <1>1, WFMin
<1>3. ASSUME NEW k \in S PROVE n <= k
  <2>1. k \in Nat /\ n \in Nat /\ <<k, n>> \notin R
    BY <1>2
  <2>2. ~ (k < n)
    BY <2>1
  <2> QED
    BY <2>1, <2>2
<1> QED
  BY <1>3

-----------------------------------------------------------------------------
(* What each helper keeps *)

(* The place is within the text.                                           *)
LEMMA Within ==
    ASSUME TokInv
    PROVE  pos \in Nat /\ Len(src) \in Nat /\ pos <= Len(src)
<1>1. src \in Seq(STRING) /\ pos \in 0..Len(src)
  BY DEF TokInv, BuffersFit, TypeOK
<1>2. Len(src) \in Nat
  BY <1>1
<1> QED
  BY <1>1, <1>2

(* A character is consumed: the place stays within the text.               *)
LEMMA AdvanceKeeps ==
    ASSUME TokInv, ~ AtEnd, Advance
    PROVE  /\ pos \in Nat /\ pos' = pos + 1 /\ pos' \in 0..Len(src)
           /\ {line', col'} \subseteq Nat \ {0}
<1>1. Len(src) \in Nat
  BY Within
<1>2. pos \in Nat /\ pos < Len(src)
  BY Within DEF AtEnd
<1>3. /\ line \in Nat /\ col \in Nat /\ line # 0 /\ col # 0
  BY DEF TokInv, BuffersFit, TypeOK
<1>4. line' \in {line, line + 1} /\ col' \in {1, col + 1} /\ pos' = pos + 1
  BY DEF Advance
<1> QED
  BY <1>1, <1>2, <1>3, <1>4

(* What is common to all that has happened since the call.                 *)
Placed == /\ pos' \in 0..Len(src)
          /\ {line', col'} \subseteq Nat \ {0}

LEMMA PlaceStays ==
    ASSUME TokInv, UNCHANGED place
    PROVE  Placed
  BY DEF TokInv, BuffersFit, TypeOK, place, Placed

LEMMA AdvancePlaces ==
    ASSUME TokInv, ~ AtEnd, Advance
    PROVE  Placed
  BY AdvanceKeeps DEF Placed

LEMMA EmitKeeps ==
    ASSUME TokInv, mode \notin {"call", "done"}, Placed, NEW type \in Types, NEW value, NEW at, Emit(type, value, at)
    PROVE  TokInv'
<1> DEFINE token == [type |-> type, value |-> value, at |-> at]
<1>1. /\ mode' = "between" /\ tokens' = Append(tokens, token)
      /\ room' = IF Len(tokens) >= room THEN 2 * room ELSE room
      /\ UNCHANGED <<src, start, begin, negative, buf, cap, error>>
  BY DEF Emit, scratch
<1>2. token.type \in Types
  OBVIOUS
<1> HIDE DEF token
<1>3. /\ IsSeq(tokens') /\ Len(tokens) \in Nat /\ Len(tokens') = Len(tokens) + 1
      /\ \A k \in DOMAIN tokens' : (k \in DOMAIN tokens /\ tokens'[k] = tokens[k]) \/ tokens'[k] = token
  BY <1>1, AppendIsSeq DEF TokInv
<1>4. room' \in Nat /\ room' > 0 /\ Len(tokens') <= room'
  BY <1>1, <1>3 DEF TokInv, Fresh, Roomy, BuffersFit
<1>5. \A k \in DOMAIN tokens' : tokens'[k].type \in Types
  BY <1>2, <1>3 DEF TokInv, BuffersFit, TypeOK, Types
<1>6. error.says = ""
  BY DEF TokInv, BuffersFit, TypeOK
<1> QED
  BY <1>1, <1>3, <1>4, <1>5, <1>6 DEF TokInv, Fresh, Roomy, BuffersFit, TypeOK, Types, Placed

LEMMA FailKeeps ==
    ASSUME TokInv, Placed, mode # "call", NEW at, NEW says, Fail(at, says)
    PROVE  TokInv'
<1>1. mode' = "done" /\ tokens' = <<>> /\ UNCHANGED <<src, start, begin, negative, buf, cap, room>>
  BY DEF Fail, scratch
<1>2. IsSeq(tokens') /\ Len(tokens') = 0 /\ DOMAIN tokens' = {}
  BY <1>1, EmptyIsSeq
<1>3. Len(tokens') <= room
  BY <1>2 DEF TokInv, Roomy
<1> QED
  BY <1>1, <1>2, <1>3 DEF TokInv, Fresh, Roomy, BuffersFit, TypeOK, Placed

LEMMA GoKeeps ==
    ASSUME TokInv, Placed, mode \notin {"call", "done"},
           NEW goal \in {"between", "comment", "string", "escape", "number", "fraction", "symbol", "keyword", "done"},
           goal \in {"string", "escape"} => mode \in {"string", "escape"},
           Go(goal)
    PROVE  TokInv'
  BY DEF Go, scratch, result, TokInv, Fresh, Roomy, BuffersFit, TypeOK, Placed

LEMMA StartKeeps ==
    ASSUME TokInv, Placed, mode = "between",
           NEW kind \in {"number", "symbol", "keyword"}, NEW skip, NEW neg \in BOOLEAN,
           pos + skip \in 0..Len(src), Start(kind, skip, neg)
    PROVE  TokInv'
<1>1. /\ mode' = kind /\ start' = Here /\ begin' = pos + skip /\ negative' = neg
      /\ UNCHANGED <<src, buf, cap, tokens, room, error>>
  BY DEF Start, result
<1>2. {start'.line, start'.col} \subseteq Nat \ {0}
  BY <1>1 DEF Here, At, TokInv, BuffersFit, TypeOK
<1> QED
  BY <1>1, <1>2 DEF TokInv, Fresh, Roomy, BuffersFit, TypeOK, Placed

(* A byte is put after the buffer has grown, if it had to.                 *)
LEMMA PutKeeps ==
    ASSUME TokInv, Placed, mode \in {"string", "escape"}, mode' = "string", NEW c, Put(c),
           UNCHANGED <<src, start, begin, negative, tokens, room, error>>
    PROVE  TokInv'
<1>1. buf' = Append(buf, c) /\ cap' = IF Len(buf) + 1 > cap THEN 2 * cap ELSE cap
  BY DEF Put
<1>2. IsSeq(buf') /\ Len(buf) \in Nat /\ Len(buf') = Len(buf) + 1
  BY <1>1, AppendIsSeq DEF TokInv
<1>3. cap' \in Nat /\ cap' > 0 /\ Len(buf') <= cap'
  BY <1>1, <1>2 DEF TokInv, Fresh, Roomy, BuffersFit
<1> QED
  BY <1>2, <1>3 DEF TokInv, Fresh, Roomy, BuffersFit, TypeOK, Placed

-----------------------------------------------------------------------------
(* The steps *)

LEMMA CallKeeps ==
    ASSUME TokInv, Call
    PROVE  TokInv'
<1>1. /\ mode' = "between" /\ src' \in Seq(STRING) /\ room' = Room /\ pos' = 0 /\ begin' = 0
      /\ UNCHANGED <<line, col, start, negative, buf, cap, tokens, error>>
  BY WidthAssumption DEF Call, scratch, place, TokInv, Fresh
<1>2. pos' \in 0..Len(src') /\ begin' \in 0..Len(src')
  <2>1. Len(src') \in Nat
    BY <1>1
  <2> QED
    BY <1>1, <2>1
<1>3. room' \in Nat /\ room' > 0 /\ Len(tokens') <= room'
  <2>1. tokens = <<>>
    BY DEF Call, TokInv, Fresh
  <2> QED
    BY <1>1, <2>1, EmptyIsSeq, WidthAssumption
<1>4. error.says = ""
  BY DEF Call, TokInv, BuffersFit, TypeOK
<1> QED
  BY <1>1, <1>2, <1>3, <1>4 DEF TokInv, Fresh, Roomy, BuffersFit, TypeOK

LEMMA BlanksKeep ==
    ASSUME TokInv, SkipSpace \/ StartComment \/ SkipComment \/ EndComment \/ Finish
    PROVE  TokInv'
<1>1. Placed
  BY AdvancePlaces, PlaceStays DEF SkipSpace, StartComment, SkipComment, EndComment, Finish, Sees
<1>2. mode \in {"between", "comment"} /\ \E goal \in {"between", "comment", "done"} : Go(goal)
  BY DEF SkipSpace, StartComment, SkipComment, EndComment, Finish
<1> QED
  BY <1>1, <1>2, GoKeeps

LEMMA FailuresKeep ==
    ASSUME TokInv, Refuse \/ Unexpected \/ BadEscape \/ Unterminated \/ BareColon
    PROVE  TokInv'
<1>1. Placed
  BY AdvancePlaces, PlaceStays DEF Refuse, Unexpected, BadEscape, Unterminated, BareColon, Sees
<1>2. mode # "call" /\ \E at, says : Fail(at, says)
  BY DEF Refuse, Unexpected, BadEscape, Unterminated, BareColon
<1> QED
  BY <1>1, <1>2, FailKeeps

LEMMA TokensKeep ==
    ASSUME TokInv, Delim \/ EndString \/ EndInt \/ EndFloat \/ EndSymbol \/ EndKeyword
    PROVE  TokInv'
<1>1. Placed
  BY AdvancePlaces, PlaceStays DEF Delim, EndString, EndInt, EndFloat, EndSymbol, EndKeyword, Sees
<1>2. mode \notin {"call", "done"} /\ \E type, value, at : type \in Types /\ Emit(type, value, at)
  BY DEF Delim, EndString, EndInt, EndFloat, EndSymbol, EndKeyword, Sees, Types
<1> QED
  BY <1>1, <1>2, EmitKeeps

LEMMA StringsKeep ==
    ASSUME TokInv, StartString \/ StringChar \/ Escape \/ EscapedChar
    PROVE  TokInv'
<1>1. Placed
  BY AdvancePlaces DEF StartString, StringChar, Escape, EscapedChar, Sees
<1>2. CASE StartString
  <2>1. /\ mode' = "string" /\ start' = Here /\ buf' = <<>> /\ cap' = Room /\ mode = "between"
        /\ UNCHANGED <<src, begin, negative, tokens, room, error>>
    BY <1>2 DEF StartString, result
  <2>2. {start'.line, start'.col} \subseteq Nat \ {0}
    BY <2>1 DEF Here, At, TokInv, BuffersFit, TypeOK
  <2>3. cap' \in Nat /\ cap' > 0 /\ IsSeq(buf') /\ Len(buf') <= cap'
    BY <2>1, EmptyIsSeq, WidthAssumption
  <2> QED
    BY <1>1, <2>1, <2>2, <2>3 DEF TokInv, Fresh, Roomy, BuffersFit, TypeOK, Placed
<1>3. CASE StringChar
  BY <1>1, <1>3, PutKeeps DEF StringChar, result
<1>4. CASE Escape
  BY <1>1, <1>4, GoKeeps DEF Escape
<1>5. CASE EscapedChar
  BY <1>1, <1>5, PutKeeps DEF EscapedChar, result
<1> QED
  BY <1>2, <1>3, <1>4, <1>5

LEMMA TextsKeep ==
    ASSUME TokInv, StartNumber \/ StartNegative \/ ReadDigit \/ ReadPoint
                       \/ StartSymbol \/ StartKeyword \/ ReadName
    PROVE  TokInv'
<1>1. Placed
  BY AdvancePlaces, PlaceStays
     DEF StartNumber, StartNegative, ReadDigit, ReadPoint, StartSymbol, StartKeyword, ReadName, Sees
<1>2. pos \in Nat /\ Len(src) \in Nat /\ pos <= Len(src)
  BY Within
<1>3. CASE StartNumber \/ StartSymbol
  <2>1. pos + 0 \in 0..Len(src)
    BY <1>2
  <2> QED
    BY <1>1, <1>3, <2>1, StartKeeps DEF StartNumber, StartSymbol
<1>4. CASE StartNegative \/ StartKeyword
  <2>1. pos + 1 \in 0..Len(src)
    <3>1. pos + 2 <= Len(src)
      BY <1>4 DEF StartNegative, StartKeyword, ThenSees
    <3> QED
      BY <1>2, <3>1
  <2> QED
    BY <1>1, <1>4, <2>1, StartKeeps DEF StartNegative, StartKeyword
<1>5. CASE ReadDigit \/ ReadPoint \/ ReadName
  <2>1. mode \in {"number", "fraction", "symbol", "keyword"}
        /\ \E goal \in {"number", "fraction", "symbol", "keyword"} : Go(goal)
    BY <1>5 DEF ReadDigit, ReadPoint, ReadName
  <2> QED
    BY <1>1, <2>1, GoKeeps
<1> QED
  BY <1>3, <1>4, <1>5

LEMMA TokInit ==
    ASSUME Init
    PROVE  TokInv
<1>1. <<>> \in Seq(STRING) /\ Len(<<>>) = 0 /\ DOMAIN <<>> = {}
  OBVIOUS
<1>2. start.line = 1 /\ start.col = 1 /\ error.says = ""
  <2>1. start = [line |-> 1, col |-> 1] /\ error = [at |-> At(0, 0), says |-> ""]
    BY Zenon DEF Init, At, NoError
  <2>2. start.line = 1 /\ start.col = 1
    BY <2>1
  <2>3. error.says = ""
    BY <2>1
  <2> QED
    BY <2>2, <2>3
<1>3. src = <<>> /\ buf = <<>> /\ tokens = <<>>
  BY DEF Init
<1>4. 0..Len(src) = {0}
  BY <1>1, <1>3
<1>5. IsSeq(buf) /\ IsSeq(tokens) /\ src \in Seq(STRING)
  BY <1>1, <1>3, EmptyIsSeq
<1>6. pos \in 0..Len(src) /\ begin \in 0..Len(src) /\ mode = "call"
  BY <1>4 DEF Init
<1>7. DOMAIN tokens = {} /\ Len(buf) = 0 /\ Len(tokens) = 0
  BY <1>1, <1>3
<1> QED
  <2>1. {line, col, start.line, start.col} \subseteq Nat \ {0}
    <3>1. line = 1 /\ col = 1
      BY DEF Init
    <3>2. \A a, b, c, d : a = 1 /\ b = 1 /\ c = 1 /\ d = 1 => {a, b, c, d} \subseteq Nat \ {0}
      OBVIOUS
    <3> QED
      BY <1>2, <3>1, <3>2
  <2>2. TypeOK
    BY <1>2, <1>6, <1>7, <2>1 DEF Init, TypeOK
  <2>3. Fresh /\ Roomy
    BY <1>3, <1>6 DEF Init, Fresh, Roomy
  <2>4. cap = 0 /\ room = 0
    BY DEF Init
  <2> QED
    BY <1>5, <1>7, <2>2, <2>3, <2>4 DEF TokInv, BuffersFit

LEMMA TokNext ==
    ASSUME TokInv, [Next]_vars
    PROVE  TokInv'
<1>1. CASE UNCHANGED vars
  BY <1>1 DEF vars, TokInv, Fresh, Roomy, BuffersFit, TypeOK
<1> QED
  BY <1>1, CallKeeps, BlanksKeep, FailuresKeep, TokensKeep, StringsKeep, TextsKeep DEF Next

-----------------------------------------------------------------------------
(* Nothing is written beyond the string's buffer or the array of tokens,   *)
(* whatever the text and however small the buffers begin (tok.c:128-129,   *)
(* 302-303).                                                               *)
THEOREM NoOverrun == Spec => []BuffersFit
<1>1. TokInv => BuffersFit
  BY DEF TokInv
<1> QED
  BY <1>1, TokInit, TokNext, PTL DEF Spec

-----------------------------------------------------------------------------
(* Places *)

Newline == "\n"
Newlines(t, n) == {k \in 1..n : t[k] = Newline}
LastLine(t, n) == LastOf(Newlines(t, n) \cup {0})

(* The lexer is at the place of the next character.                        *)
Located ==
    /\ Here = PlaceOf(src, pos + 1)
    /\ LastLine(src, pos) \in 0..pos

LEMMA PlaceIs ==
    ASSUME NEW t, NEW n \in Nat, NEW i, i = n + 1
    PROVE  PlaceOf(t, i) = At(1 + Cardinality(Newlines(t, n)), i - LastLine(t, n))
<1>1. i - 1 = n
  OBVIOUS
<1> QED
  BY <1>1, Zenon DEF PlaceOf, Newlines, LastLine, Newline

LEMMA LastIs ==
    ASSUME NEW S \in SUBSET Int, NEW n \in S, \A j \in S : n >= j
    PROVE  LastOf(S) = n
<1>1. \A m \in S : (\A j \in S : m >= j) => m = n
  OBVIOUS
<1> QED
  BY <1>1 DEF LastOf

LEMMA FirstPlace ==
    ASSUME NEW t
    PROVE  PlaceOf(t, 1) = At(1, 1) /\ LastLine(t, 0) = 0
<1>1. Newlines(t, 0) = {}
  BY DEF Newlines
<1>2. LastLine(t, 0) = 0
  <2>1. Newlines(t, 0) \cup {0} = {0}
    BY <1>1
  <2>2. LastOf({0}) = 0
    BY LastIs
  <2> QED
    BY <2>1, <2>2 DEF LastLine
<1>3. PlaceOf(t, 1) = At(1 + 0, 1 - 0)
  <2>1. PlaceOf(t, 1) = At(1 + Cardinality(Newlines(t, 0)), 1 - LastLine(t, 0))
    BY PlaceIs
  <2> QED
    BY <1>1, <1>2, <2>1, FS_EmptySet, Zenon
<1> QED
  BY <1>2, <1>3

LEMMA HereAdvances ==
    ASSUME NEW t, NEW n \in Nat, NEW m, m = n + 1, NEW k, k = m + 1,
           LastLine(t, n) \in 0..n, NEW l, NEW c,
           At(l, c) = PlaceOf(t, n + 1)
    PROVE  /\ t[m] = Newline => At(l + 1, 1) = PlaceOf(t, k) /\ LastLine(t, m) = m
           /\ t[m] # Newline => /\ At(l, c + 1) = PlaceOf(t, k)
                                    /\ LastLine(t, m) = LastLine(t, n)
<1>1. l = 1 + Cardinality(Newlines(t, n)) /\ c = n + 1 - LastLine(t, n)
  <2>1. At(l, c) = At(1 + Cardinality(Newlines(t, n)), n + 1 - LastLine(t, n))
    BY PlaceIs
  <2> QED
    BY <2>1 DEF At
<1>2. IsFiniteSet(Newlines(t, n)) /\ Cardinality(Newlines(t, n)) \in Nat
  <2>1. IsFiniteSet(1..n) /\ Newlines(t, n) \in SUBSET (1..n)
    BY FS_Interval DEF Newlines
  <2> QED
    BY <2>1, FS_Subset, FS_CardinalityType
<1>3. PlaceOf(t, k) = At(1 + Cardinality(Newlines(t, m)), k - LastLine(t, m))
  BY PlaceIs
<1>4. CASE t[m] = Newline
  <2>1. Newlines(t, m) = Newlines(t, n) \cup {m} /\ m \notin Newlines(t, n)
    BY <1>4 DEF Newlines
  <2>2. Cardinality(Newlines(t, m)) = Cardinality(Newlines(t, n)) + 1
    BY <1>2, <2>1, FS_AddElement
  <2>3. LastLine(t, m) = m
    <3> DEFINE S == Newlines(t, m) \cup {0}
    <3>1. S \in SUBSET Int /\ m \in S /\ \A j \in S : m >= j
      BY <2>1 DEF Newlines
    <3> HIDE DEF S
    <3>2. LastOf(S) = m
      BY <3>1, LastIs
    <3> QED
      BY <3>2 DEF LastLine, S
  <2>4. 1 + Cardinality(Newlines(t, m)) = l + 1 /\ k - LastLine(t, m) = 1
    BY <1>1, <1>2, <2>2, <2>3
  <2> QED
    BY <1>3, <1>4, <2>3, <2>4
<1>5. CASE t[m] # Newline
  <2>1. Newlines(t, m) = Newlines(t, n)
    BY <1>5 DEF Newlines
  <2>2. LastLine(t, m) = LastLine(t, n)
    BY <2>1 DEF LastLine
  <2>3. k - LastLine(t, m) = c + 1
    BY <1>1, <2>2
  <2> QED
    BY <1>1, <1>3, <1>5, <2>1, <2>2, <2>3
<1> QED
  BY <1>4, <1>5

LEMMA LocatedNext ==
    ASSUME TokInv, Located, ~ AtEnd, Advance, UNCHANGED src
    PROVE  Located'
<1>1. pos' = pos + 1 /\ (Char = Newline => line' = line + 1 /\ col' = 1)
      /\ (Char # Newline => line' = line /\ col' = col + 1)
  BY Zenon DEF Advance, Newline
<1>2. pos \in Nat /\ pos' = pos + 1
  BY <1>1, Within
<1>3. PICK m, k : m = pos + 1 /\ k = m + 1
  OBVIOUS
<1>4. LastLine(src, pos) \in 0..pos /\ At(line, col) = PlaceOf(src, m) /\ Char = src[m]
  BY <1>3 DEF Located, Here, Char
<1>5. /\ Char = Newline => At(line + 1, 1) = PlaceOf(src, k) /\ LastLine(src, m) = m
      /\ Char # Newline => At(line, col + 1) = PlaceOf(src, k) /\ LastLine(src, m) = LastLine(src, pos)
  BY <1>2, <1>3, <1>4, HereAdvances
<1>6. LastLine(src, m) \in 0..m
  BY <1>2, <1>3, <1>4, <1>5
<1>7. At(line', col') = PlaceOf(src, k)
  BY <1>1, <1>5
<1> QED
  BY <1>2, <1>3, <1>6, <1>7 DEF Located, Here

LEMMA LocatedInit == Init => Located
<1>1. ASSUME Init PROVE pos = 0 /\ Here = At(1, 1)
  BY <1>1 DEF Init, Here
<1>2. \A t : PlaceOf(t, 1) = At(1, 1) /\ LastLine(t, 0) = 0
  BY FirstPlace
<1>3. 0 + 1 = 1 /\ 0 \in 0..0
  OBVIOUS
<1> QED
  BY <1>1, <1>2, <1>3 DEF Located

LEMMA LocatedStays ==
    ASSUME TokInv, Located, [Next]_vars
    PROVE  Located'
<1>1. CASE Call
  <2>1. pos = 0 /\ UNCHANGED <<pos, line, col>>
    BY <1>1 DEF Call, place, TokInv, Fresh
  <2>2. \A t : PlaceOf(t, 1) = At(1, 1) /\ LastLine(t, 0) = 0
    BY FirstPlace
  <2>3. 0 + 1 = 1 /\ 0 \in 0..0
    OBVIOUS
  <2> QED
    BY <2>1, <2>2, <2>3 DEF Located, Here
<1>2. CASE UNCHANGED <<src, place>>
  BY <1>2 DEF Located, Here, place
<1>3. CASE ~ AtEnd /\ Advance /\ UNCHANGED src
  BY <1>3, LocatedNext
<1>4. ASSUME SkipSpace \/ StartComment \/ SkipComment \/ EndComment \/ Finish \/ Delim \/ Refuse \/ Unexpected
      PROVE  Located'
  BY <1>2, <1>3, <1>4 DEF SkipSpace, StartComment, SkipComment, EndComment, Finish, Delim, Refuse,
                          Unexpected, Sees, Go, Emit, Fail
<1>5. ASSUME StartString \/ StringChar \/ Escape \/ EscapedChar \/ BadEscape \/ EndString \/ Unterminated
      PROVE  Located'
  BY <1>2, <1>3, <1>5 DEF StartString, StringChar, Escape, EscapedChar, BadEscape, EndString,
                          Unterminated, Sees, Go, Emit, Fail
<1>6. ASSUME StartNumber \/ StartNegative \/ ReadDigit \/ ReadPoint \/ EndInt \/ EndFloat
      PROVE  Located'
  BY <1>2, <1>3, <1>6 DEF StartNumber, StartNegative, ReadDigit, ReadPoint, EndInt, EndFloat,
                          Sees, Go, Emit, Start
<1>7. ASSUME StartSymbol \/ StartKeyword \/ BareColon \/ ReadName \/ EndSymbol \/ EndKeyword
      PROVE  Located'
  BY <1>2, <1>3, <1>7 DEF StartSymbol, StartKeyword, BareColon, ReadName, EndSymbol, EndKeyword,
                          Sees, Go, Emit, Fail, Start
<1>8. CASE UNCHANGED vars
  BY <1>2, <1>8 DEF vars, place
<1> QED
  BY <1>1, <1>4, <1>5, <1>6, <1>7, <1>8 DEF Next


-----------------------------------------------------------------------------
(* Characters *)

Quote == "\""
Backslash == "\\"
Minus == "-"
Point == "."
Colon == ":"
Semicolon == ";"

(* The kinds of character are apart.                                       *)
LEMMA CharactersDiffer ==
    /\ Quote # Backslash /\ Quote # Minus /\ Quote # Colon /\ Quote # Semicolon /\ Colon # Minus
    /\ Colon # Semicolon /\ Minus # Semicolon /\ Point # Minus /\ Newline # Semicolon
  BY Zenon DEF Quote, Backslash, Minus, Point, Colon, Semicolon, Newline

LEMMA DigitsAre == Digits = {"0", "1", "2", "3", "4", "5", "6", "7", "8", "9"}
  BY Zenon DEF Digits, DigitValue

LEMMA DelimsAre == DOMAIN Delims = {"(", ")", "{", "}"}
  BY Zenon DEF Delims

LEMMA RefusalsAre == DOMAIN Refusals = {"[", "]", ","}
  BY Zenon DEF Refusals

LEMMA NoDigit ==
    /\ Minus \notin Digits /\ Point \notin Digits /\ Quote \notin Digits /\ Colon \notin Digits
    /\ Semicolon \notin Digits
  BY DigitsAre, Zenon DEF Minus, Point, Quote, Colon, Semicolon

LEMMA NoLetter ==
    /\ Quote \notin Letters /\ Colon \notin Letters /\ Semicolon \notin Letters
    /\ \A c \in Digits \cup Space \cup DOMAIN Delims \cup DOMAIN Refusals : c \notin Letters
  <1>1. Letters \cap (Space \cup Digits \cup DOMAIN Delims \cup DOMAIN Refusals) = {}
        /\ Letters \cap {"\"", ";", ":", "\\"} = {}
    BY LettersAssumption, Zenon
  <1> QED
    BY <1>1, Zenon DEF Quote, Colon, Semicolon

LEMMA NoDelim ==
    /\ \A c \in Digits \cup Space \cup DOMAIN Refusals : c \notin DOMAIN Delims
    /\ Quote \notin DOMAIN Delims /\ Colon \notin DOMAIN Delims /\ Semicolon \notin DOMAIN Delims
    /\ Minus \notin DOMAIN Delims
  BY DigitsAre, DelimsAre, RefusalsAre, Zenon DEF Space, Quote, Colon, Semicolon, Minus

Signs == {"+", "-", "*", "/", "!", "?", "_", "=", "<", ">", "&", "%", ".", "#"}

LEMMA NoMark ==
    /\ \A c \in Digits \cup Space \cup DOMAIN Delims \cup DOMAIN Refusals : c \notin Signs
    /\ Quote \notin Signs /\ Colon \notin Signs /\ Semicolon \notin Signs
  BY DigitsAre, DelimsAre, RefusalsAre, Zenon DEF Space, Quote, Colon, Semicolon, Signs

LEMMA NoName ==
    /\ \A c \in Digits \cup Space \cup DOMAIN Delims \cup DOMAIN Refusals : c \notin SymbolStart
    /\ Quote \notin SymbolStart /\ Colon \notin SymbolStart /\ Semicolon \notin SymbolStart
    /\ Minus \in SymbolStart
  <1>1. SymbolStart = Letters \cup Signs
    BY Zenon DEF SymbolStart, Signs
  <1>2. Minus \in Signs
    BY Zenon DEF Minus, Signs
  <1> QED
    BY <1>1, <1>2, NoMark, NoLetter, Zenon

LEMMA NoSpace ==
    /\ \A c \in Digits \cup DOMAIN Refusals : c \notin Space
    /\ Quote \notin Space /\ Colon \notin Space /\ Semicolon \notin Space /\ Minus \notin Space
    /\ Newline \in Space
  BY DigitsAre, RefusalsAre, Zenon DEF Space, Quote, Colon, Semicolon, Minus, Newline

LEMMA NoRefusal ==
    /\ \A c \in Digits : c \notin DOMAIN Refusals
    /\ Quote \notin DOMAIN Refusals /\ Colon \notin DOMAIN Refusals /\ Semicolon \notin DOMAIN Refusals
    /\ Minus \notin DOMAIN Refusals
  BY DigitsAre, RefusalsAre, Zenon DEF Quote, Colon, Semicolon, Minus

LEMMA NamesGoOn == Letters \subseteq SymbolCont /\ SymbolStart \subseteq SymbolCont
  BY Zenon DEF SymbolCont, SymbolStart

-----------------------------------------------------------------------------
(* Least and greatest *)

LEMMA FirstIs ==
    ASSUME NEW S \in SUBSET Int, NEW n \in S, \A j \in S : n <= j
    PROVE  FirstOf(S) = n
<1>1. \A m \in S : (\A j \in S : m <= j) => m = n
  OBVIOUS
<1> QED
  BY <1>1 DEF FirstOf

LEMMA FirstExists ==
    ASSUME NEW S \in SUBSET Nat, S # {}
    PROVE  FirstOf(S) \in S /\ \A j \in S : FirstOf(S) <= j
<1>1. PICK n \in S : \A j \in S : n <= j
  BY LeastNatural
<1> QED
  BY <1>1 DEF FirstOf

LEMMA LastExists ==
    ASSUME NEW n \in Nat, NEW S \in SUBSET (0..n), S # {}
    PROVE  LastOf(S) \in S /\ \A j \in S : LastOf(S) >= j
<1> DEFINE D == {n - j : j \in S}
<1>1. D \in SUBSET Nat /\ D # {}
  <2>1. \A j \in S : n - j \in Nat /\ n - j \in D
    OBVIOUS
  <2> QED
    BY <2>1
<1>2. PICK d \in D : \A e \in D : d <= e
  BY <1>1, LeastNatural
<1>3. PICK m \in S : d = n - m
  OBVIOUS
<1>4. ASSUME NEW j \in S PROVE m >= j
  <2>1. n - j \in D
    OBVIOUS
  <2>2. d <= n - j
    BY <1>2, <2>1
  <2> QED
    BY <1>3, <2>2
<1> QED
  BY <1>4 DEF LastOf

-----------------------------------------------------------------------------
(* Lines *)

LEMMA LineEndIs ==
    ASSUME NEW t, NEW n \in Nat, Len(t) = n, NEW i \in 1..n + 1, NEW j, j = i + 1
    PROVE  /\ LineEnd(t, i) \in i..n + 1
           /\ i = n + 1 => LineEnd(t, i) = i
           /\ i <= n /\ t[i] = Newline => LineEnd(t, i) = i
           /\ i <= n /\ t[i] # Newline => LineEnd(t, i) = LineEnd(t, j) /\ LineEnd(t, i) # i
<1> DEFINE S(x) == {k \in x..n : t[k] = Newline} \cup {n + 1}
<1>1. \A x : LineEnd(t, x) = FirstOf(S(x))
  BY Zenon DEF LineEnd, Newline
<1>2. S(i) \in SUBSET Nat /\ S(i) # {} /\ S(i) \subseteq i..n + 1
  OBVIOUS
<1>3. FirstOf(S(i)) \in S(i) /\ \A k \in S(i) : FirstOf(S(i)) <= k
  BY <1>2, FirstExists
<1>4. LineEnd(t, i) \in i..n + 1
  BY <1>1, <1>2, <1>3
<1>5. ASSUME i = n + 1 \/ t[i] = Newline PROVE LineEnd(t, i) = i
  <2>1. i \in S(i) /\ S(i) \in SUBSET Int /\ \A k \in S(i) : i <= k
    BY <1>5
  <2> HIDE DEF S
  <2> QED
    BY <1>1, <2>1, FirstIs
<1>6. ASSUME i <= n, t[i] # Newline PROVE LineEnd(t, i) = LineEnd(t, j) /\ LineEnd(t, i) # i
  <2>1. S(i) = S(j) /\ i \notin S(i)
    BY <1>6
  <2> HIDE DEF S
  <2> QED
    BY <1>1, <1>3, <2>1
<1> QED
  BY <1>4, <1>5, <1>6

-----------------------------------------------------------------------------
(* Escapes *)

(* A run of backslashes that begins at m, in a string opened at i, and     *)
(* ends before k.                                                          *)
Run(t, i, m, k) ==
    /\ m \in i + 1..k - 1
    /\ \A n \in m..k - 1 : t[n] = Backslash
    /\ m - 1 = i \/ t[m - 1] # Backslash

LEMMA EscapedIs ==
    ASSUME NEW t, NEW i, NEW k
    PROVE  Escaped(t, i, k) <=> \E m : Run(t, i, m, k) /\ (k - m) % 2 = 1
  BY Zenon DEF Escaped, Run, Backslash

LEMMA NoneEscapedFirst ==
    ASSUME NEW t, NEW i \in Int, NEW k, k = i + 1
    PROVE  ~ Escaped(t, i, k)
<1>1. \A m : ~ Run(t, i, m, k)
  BY DEF Run
<1> QED
  BY <1>1, EscapedIs

LEMMA OneRun ==
    ASSUME NEW t, NEW i \in Int, NEW k \in Int, NEW m, NEW n, Run(t, i, m, k), Run(t, i, n, k)
    PROVE  m = n
<1>1. m \in i + 1..k - 1 /\ n \in i + 1..k - 1
  BY DEF Run
<1>2. ASSUME m < n PROVE FALSE
  <2>1. n - 1 \in m..k - 1 /\ n - 1 # i
    BY <1>1, <1>2
  <2> QED
    BY <2>1 DEF Run
<1>3. ASSUME n < m PROVE FALSE
  <2>1. m - 1 \in n..k - 1 /\ m - 1 # i
    BY <1>1, <1>3
  <2> QED
    BY <2>1 DEF Run
<1> QED
  BY <1>1, <1>2, <1>3

LEMMA RunExists ==
    ASSUME NEW t, NEW i \in Nat, NEW k \in Int, k > i + 1, t[k - 1] = Backslash
    PROVE  \E m : Run(t, i, m, k)
<1> DEFINE S == {m \in i + 1..k - 1 : \A n \in m..k - 1 : t[n] = Backslash}
<1>1. S \in SUBSET Nat /\ k - 1 \in S
  OBVIOUS
<1>2. PICK m \in S : \A n \in S : m <= n
  BY <1>1, LeastNatural
<1>3. ASSUME m - 1 # i, t[m - 1] = Backslash PROVE FALSE
  <2>1. m - 1 \in i + 1..k - 1
    BY <1>2, <1>3
  <2>2. \A n \in m - 1..k - 1 : n = m - 1 \/ n \in m..k - 1
    BY <1>2
  <2>3. m - 1 \in S
    BY <1>2, <1>3, <2>1, <2>2
  <2> QED
    BY <1>2, <2>3
<1> QED
  BY <1>2, <1>3 DEF Run

(* Escaped is what alternates along a run.                                 *)
LEMMA EscapedNext ==
    ASSUME NEW t, NEW i \in Nat, NEW k \in Int, k > i, NEW l, l = k + 1
    PROVE  Escaped(t, i, l) <=> (t[k] = Backslash /\ ~ Escaped(t, i, k))
<1>1. ASSUME NEW m, Run(t, i, m, l), m # k PROVE Run(t, i, m, k)
  BY <1>1 DEF Run
<1>2. ASSUME NEW m, Run(t, i, m, k), t[k] = Backslash PROVE Run(t, i, m, l)
  <2>1. \A n \in m..l - 1 : n = k \/ n \in m..k - 1
    BY <1>2 DEF Run
  <2> QED
    BY <1>2, <2>1 DEF Run
<1>3. ASSUME NEW m, Run(t, i, m, l) PROVE m \in Int /\ m <= k /\ t[k] = Backslash
  BY <1>3 DEF Run
<1>4. ASSUME Escaped(t, i, l), Escaped(t, i, k) PROVE FALSE
  <2>1. PICK m : Run(t, i, m, l) /\ (l - m) % 2 = 1
    BY <1>4, EscapedIs
  <2>2. PICK n : Run(t, i, n, k) /\ (k - n) % 2 = 1
    BY <1>4, EscapedIs
  <2>3. Run(t, i, n, l)
    BY <1>2, <1>3, <2>1, <2>2
  <2>4. m = n /\ m \in Int
    BY <1>3, <2>1, <2>3, OneRun
  <2> QED
    BY <2>1, <2>2, <2>4
<1>5. ASSUME Escaped(t, i, l) PROVE t[k] = Backslash
  BY <1>3, <1>5, EscapedIs
<1>6. ASSUME t[k] = Backslash, ~ Escaped(t, i, k) PROVE Escaped(t, i, l)
  <2>1. l > i + 1 /\ l - 1 = k /\ l \in Int
    OBVIOUS
  <2>2. PICK m : Run(t, i, m, l)
    BY <1>6, <2>1, RunExists
  <2>3. m \in Int /\ m <= k
    BY <1>3, <2>2
  <2>4. CASE m = k
    BY <2>1, <2>2, <2>4, EscapedIs
  <2>5. CASE m # k
    <3>1. Run(t, i, m, k)
      BY <1>1, <2>2, <2>5
    <3>2. (k - m) % 2 # 1
      BY <1>6, <3>1, EscapedIs
    <3>3. (l - m) % 2 = 1
      BY <2>3, <3>2
    <3> QED
      BY <2>2, <3>3, EscapedIs
  <2> QED
    BY <2>4, <2>5
<1> QED
  BY <1>4, <1>5, <1>6

-----------------------------------------------------------------------------
(* The reading of a text *)

(* What begins at character i, and what is read beyond it.                 *)
Blank(t, i) == t[i] \in Space \/ t[i] = Semicolon
Beyond(t, i) == IF t[i] \in Space THEN i + 1
                ELSE IF t[i] = Semicolon THEN LineEnd(t, i) ELSE LastEnd(t, i) + 1
Nothing == [spans |-> <<>>, fault |-> NoFault]
Faulty(t, i) == [spans |-> <<>>, fault |-> FaultAt(t, i)]
Longer(t, i, rest) == [spans |-> <<[i |-> i, j |-> LastEnd(t, i)]>> \o rest.spans,
                       fault |-> rest.fault]
Row(t, f, i) ==
    IF i > Len(t) THEN Nothing
    ELSE IF Blank(t, i) THEN f[Beyond(t, i)]
    ELSE IF Ends(t, i) = {} THEN Faulty(t, i) ELSE Longer(t, i, f[Beyond(t, i)])

IsFrom(t, f) == f = [i \in 1..Len(t) + 1 |-> Row(t, f, i)]

LEMMA FromIs ==
    ASSUME NEW t
    PROVE  From(t) = CHOOSE f : IsFrom(t, f)
<1> DEFINE body(f, i) ==
            IF i > Len(t) THEN [spans |-> <<>>, fault |-> NoFault]
            ELSE IF t[i] \in Space THEN f[i + 1]
            ELSE IF t[i] = ";" THEN f[LineEnd(t, i)]
            ELSE IF Ends(t, i) = {} THEN [spans |-> <<>>, fault |-> FaultAt(t, i)]
            ELSE [spans |-> <<[i |-> i, j |-> LastEnd(t, i)]>> \o f[LastEnd(t, i) + 1].spans,
                  fault |-> f[LastEnd(t, i) + 1].fault]
<1>1. ASSUME NEW f, NEW i PROVE body(f, i) = Row(t, f, i)
  <2>1. CASE i > Len(t)
    BY <2>1, Zenon DEF Row, Nothing
  <2>2. CASE ~ (i > Len(t)) /\ t[i] \in Space
    BY <2>2, Zenon DEF Row, Blank, Beyond
  <2>3. CASE ~ (i > Len(t)) /\ t[i] \notin Space /\ t[i] = ";"
    BY <2>3, Zenon DEF Row, Blank, Beyond, Semicolon
  <2>4. CASE ~ (i > Len(t)) /\ t[i] \notin Space /\ t[i] # ";"
    BY <2>4, Zenon DEF Row, Blank, Beyond, Semicolon, Faulty, Longer
  <2> QED
    BY <2>1, <2>2, <2>3, <2>4
<1>2. From(t) = CHOOSE f : f = [i \in 1..Len(t) + 1 |-> body(f, i)]
  BY Zenon DEF From
<1> HIDE DEF body
<1>3. \A f : [i \in 1..Len(t) + 1 |-> body(f, i)] = [i \in 1..Len(t) + 1 |-> Row(t, f, i)]
  BY <1>1, Zenon
<1>4. \A f : (f = [i \in 1..Len(t) + 1 |-> body(f, i)]) <=> IsFrom(t, f)
  BY <1>3, Zenon DEF IsFrom
<1> QED
  BY <1>2, <1>4

(* What is read beyond what begins at a character comes after it.          *)
LEMMA BeyondIs ==
    ASSUME NEW t, NEW n \in Nat, Len(t) = n, NEW i \in 1..n, Blank(t, i) \/ Ends(t, i) # {}
    PROVE  /\ Beyond(t, i) \in i + 1..n + 1
           /\ ~ Blank(t, i) => LastEnd(t, i) \in i..n
<1>1. CASE t[i] \in Space
  BY <1>1 DEF Beyond, Blank
<1>2. CASE t[i] \notin Space /\ t[i] = Semicolon
  <2>1. t[i] # Newline
    BY <1>2, NoSpace
  <2>2. PICK j : j = i + 1
    OBVIOUS
  <2>3. LineEnd(t, i) \in i..n + 1 /\ LineEnd(t, i) # i
    BY <2>1, <2>2, LineEndIs
  <2> QED
    BY <1>2, <2>3 DEF Beyond, Blank
<1>3. CASE ~ Blank(t, i)
  <2>1. Ends(t, i) \in SUBSET (i..n) /\ Ends(t, i) # {}
    BY <1>3 DEF Ends
  <2>2. Ends(t, i) \in SUBSET (0..n)
    BY <2>1
  <2>3. LastEnd(t, i) \in Ends(t, i)
    BY <2>1, <2>2, LastExists DEF LastEnd
  <2> QED
    BY <1>3, <2>1, <2>3 DEF Beyond, Blank
<1> QED
  BY <1>1, <1>2, <1>3 DEF Blank

LEMMA RowDepends ==
    ASSUME NEW t, NEW n \in Nat, Len(t) = n, NEW i \in 1..n + 1, NEW f, NEW g,
           \A j \in i + 1..n + 1 : f[j] = g[j]
    PROVE  Row(t, f, i) = Row(t, g, i)
<1>1. CASE i > n
  BY <1>1 DEF Row
<1>2. CASE i \in 1..n /\ (Blank(t, i) \/ Ends(t, i) # {})
  <2>1. f[Beyond(t, i)] = g[Beyond(t, i)]
    BY <1>2, BeyondIs
  <2> QED
    BY <2>1 DEF Row
<1>3. CASE i \in 1..n /\ ~ (Blank(t, i) \/ Ends(t, i) # {})
  BY <1>3 DEF Row
<1> QED
  BY <1>1, <1>2, <1>3

(* The recursion of From has a solution, found from the text's end on.     *)
LEMMA FromExists ==
    ASSUME NEW t, NEW n \in Nat, Len(t) = n
    PROVE  \E f : IsFrom(t, f)
<1> DEFINE Solves(f, d) == \A i \in 1..n + 1 : i > n + 1 - d => f[i] = Row(t, f, i)
           Unsolved == {d \in Nat : ~ \E f : Solves(f, d)}
<1>1. \E f : Solves(f, 0)
  <2>1. \A i \in 1..n + 1 : ~ (i > n + 1 - 0)
    OBVIOUS
  <2> QED
    BY <2>1
<1>2. ASSUME NEW d \in Nat, NEW f, Solves(f, d) PROVE \E g : Solves(g, d + 1)
  <2> DEFINE g == [i \in 1..n + 1 |-> Row(t, f, i)]
  <2>1. \A i \in 1..n + 1 : g[i] = Row(t, f, i)
    OBVIOUS
  <2>2. \A i \in 1..n + 1 : i > n + 1 - d => f[i] = Row(t, f, i)
    BY <1>2
  <2> HIDE DEF g
  <2>3. ASSUME NEW i \in 1..n + 1, i > n + 1 - (d + 1) PROVE g[i] = Row(t, g, i)
    <3>1. \A j \in i + 1..n + 1 : j \in 1..n + 1 /\ j > n + 1 - d
      BY <2>3
    <3>2. \A j \in i + 1..n + 1 : f[j] = g[j]
      BY <2>1, <2>2, <3>1
    <3>3. Row(t, f, i) = Row(t, g, i)
      BY <3>2, RowDepends
    <3> QED
      BY <2>1, <3>3
  <2> QED
    BY <2>3
<1>3. Unsolved = {}
  <2> SUFFICES ASSUME Unsolved # {} PROVE FALSE
    OBVIOUS
  <2>1. Unsolved \in SUBSET Nat
    OBVIOUS
  <2> HIDE DEF Solves, Unsolved
  <2>2. PICK d \in Unsolved : \A m \in Unsolved : d <= m
    BY <2>1, LeastNatural
  <2>3. d \in Nat /\ ~ \E f : Solves(f, d)
    BY <2>2 DEF Unsolved
  <2>4. d # 0
    BY <1>1, <2>3
  <2>5. d - 1 \in Nat /\ d - 1 + 1 = d /\ d - 1 \notin Unsolved
    BY <2>2, <2>3, <2>4
  <2>6. PICK f : Solves(f, d - 1)
    BY <2>5 DEF Unsolved
  <2> QED
    BY <1>2, <2>3, <2>5, <2>6
<1>4. PICK f : Solves(f, n + 1)
  <2> HIDE DEF Solves, Unsolved
  <2>1. n + 1 \in Nat /\ n + 1 \notin Unsolved
    BY <1>3
  <2> QED
    BY <2>1 DEF Unsolved
<1> DEFINE g == [i \in 1..n + 1 |-> f[i]]
<1>5. \A i \in 1..n + 1 : f[i] = Row(t, f, i)
  <2>1. \A i \in 1..n + 1 : i > n + 1 - (n + 1)
    OBVIOUS
  <2> QED
    BY <1>4, <2>1
<1>6. ASSUME NEW i \in 1..n + 1 PROVE Row(t, f, i) = Row(t, g, i)
  <2>1. \A j \in i + 1..n + 1 : j \in 1..n + 1
    OBVIOUS
  <2>2. \A j \in i + 1..n + 1 : f[j] = g[j]
    BY <2>1
  <2> HIDE DEF g
  <2> QED
    BY <2>2, RowDepends
<1>7. g = [i \in 1..n + 1 |-> Row(t, g, i)]
  <2>1. g = [i \in 1..n + 1 |-> Row(t, f, i)]
    BY <1>5
  <2> HIDE DEF g
  <2> QED
    BY <1>6, <2>1
<1> HIDE DEF g
<1> QED
  BY <1>7 DEF IsFrom

Spans == [i : Nat, j : Nat]

LEMMA FromRow ==
    ASSUME NEW t, NEW n \in Nat, Len(t) = n, NEW i \in 1..n + 1
    PROVE  From(t)[i] = Row(t, From(t), i)
<1> DEFINE f == From(t)
<1>1. IsFrom(t, f)
  BY FromIs, FromExists
<1> HIDE DEF f
<1>2. f = [k \in 1..n + 1 |-> Row(t, f, k)]
  BY <1>1 DEF IsFrom
<1> QED
  BY <1>2 DEF f

LEMMA FromTyped ==
    ASSUME NEW t, NEW n \in Nat, Len(t) = n, NEW i \in 1..n + 1
    PROVE  From(t)[i].spans \in Seq(Spans)
<1> DEFINE f == From(t)
           Bad == {d \in 0..n : f[n + 1 - d].spans \notin Seq(Spans)}
<1>1. \A k \in 1..n + 1 : f[k] = Row(t, f, k)
  BY FromRow
<1> HIDE DEF f
<1>2. Bad = {}
  <2> SUFFICES ASSUME Bad # {} PROVE FALSE
    OBVIOUS
  <2>1. Bad \in SUBSET Nat
    OBVIOUS
  <2>2. PICK d \in Bad : \A e \in Bad : d <= e
    <3> HIDE DEF Bad
    <3> QED
      BY <2>1, LeastNatural
  <2>3. PICK k : k = n + 1 - d
    OBVIOUS
  <2>4. k \in 1..n + 1 /\ f[k].spans \notin Seq(Spans)
    BY <2>2, <2>3
  <2>5. ASSUME NEW j \in k + 1..n + 1 PROVE f[j].spans \in Seq(Spans)
    <3>1. PICK e : e = n + 1 - j
      OBVIOUS
    <3>2. e \in 0..n /\ j = n + 1 - e /\ ~ (d <= e)
      BY <2>2, <2>3, <3>1
    <3> QED
      BY <2>2, <3>2
  <2>6. <<>> \in Seq(Spans)
    OBVIOUS
  <2>7. CASE k > n \/ (~ Blank(t, k) /\ Ends(t, k) = {})
    <3>1. f[k] = Nothing \/ f[k] = Faulty(t, k)
      BY <1>1, <2>4, <2>7 DEF Row
    <3>2. Nothing.spans = <<>> /\ Faulty(t, k).spans = <<>>
      <4>1. Nothing = [spans |-> <<>>, fault |-> NoFault]
        BY Zenon DEF Nothing
      <4>2. Faulty(t, k) = [spans |-> <<>>, fault |-> FaultAt(t, k)]
        BY Zenon DEF Faulty
      <4> QED
        BY <4>1, <4>2
    <3> QED
      BY <2>4, <2>6, <3>1, <3>2
  <2>8. CASE k <= n /\ (Blank(t, k) \/ Ends(t, k) # {})
    <3>1. k \in 1..n
      BY <2>4, <2>8
    <3>2. PICK j : j = Beyond(t, k)
      OBVIOUS
    <3>3. j \in k + 1..n + 1 /\ (~ Blank(t, k) => LastEnd(t, k) \in k..n)
      BY <2>8, <3>1, <3>2, BeyondIs
    <3>4. f[j].spans \in Seq(Spans)
      BY <2>5, <3>3
    <3>5. CASE Blank(t, k)
      <4>1. f[k] = f[j]
        BY <1>1, <2>4, <2>8, <3>2, <3>5 DEF Row
      <4> QED
        BY <2>4, <3>4, <4>1
    <3>6. CASE ~ Blank(t, k)
      <4>1. f[k] = Longer(t, k, f[j])
        BY <1>1, <2>4, <2>8, <3>2, <3>6 DEF Row
      <4>2. [i |-> k, j |-> LastEnd(t, k)] \in Spans
        BY <3>1, <3>3, <3>6 DEF Spans
      <4>3. \A x \in Spans, s \in Seq(Spans) : <<x>> \o s \in Seq(Spans)
        OBVIOUS
      <4>4. f[k].spans = <<[i |-> k, j |-> LastEnd(t, k)]>> \o f[j].spans
        BY <4>1 DEF Longer
      <4> QED
        BY <2>4, <3>4, <4>2, <4>3, <4>4
    <3> QED
      BY <3>5, <3>6
  <2> QED
    BY <2>4, <2>7, <2>8
<1>3. PICK d : d = n + 1 - i
  OBVIOUS
<1>4. d \in 0..n /\ i = n + 1 - d
  BY <1>3
<1> QED
  BY <1>2, <1>4 DEF f

-----------------------------------------------------------------------------
(* How far a list of tokens reads *)

Means(t, token, s) ==
    /\ token.type = TheKind(t, s)
    /\ token.at = PlaceOf(t, s.i)
    /\ Fits(t, s) => token.value = Meaning(t, s)

(* The tokens are what t's reading has before character i.                 *)
ReadTo(t, toks, i) ==
    /\ i \in 1..Len(t) + 1
    /\ Reading(t).fault = From(t)[i].fault
    /\ Len(Reading(t).spans) = Len(toks) + Len(From(t)[i].spans)
    /\ \A k \in 1..Len(From(t)[i].spans) : Reading(t).spans[Len(toks) + k] = From(t)[i].spans[k]
    /\ \A k \in 1..Len(toks) : Means(t, toks[k], Reading(t).spans[k])

LEMMA ReadNothing ==
    ASSUME NEW t, Len(t) \in Nat
    PROVE  ReadTo(t, <<>>, 1)
<1>1. 1 \in 1..Len(t) + 1 /\ Len(<<>>) = 0
  OBVIOUS
<1>2. From(t)[1].spans \in Seq(Spans)
  BY <1>1, FromTyped
<1>3. Len(From(t)[1].spans) \in Nat
  BY <1>2
<1> QED
  BY <1>1, <1>3 DEF ReadTo, Reading

LEMMA ReadBlank ==
    ASSUME NEW t, Len(t) \in Nat, NEW toks, NEW i, i <= Len(t), Blank(t, i), ReadTo(t, toks, i)
    PROVE  ReadTo(t, toks, Beyond(t, i))
<1>1. i \in 1..Len(t) /\ i \in 1..Len(t) + 1
  BY DEF ReadTo
<1>2. Beyond(t, i) \in 1..Len(t) + 1
  BY <1>1, BeyondIs
<1>3. From(t)[i] = From(t)[Beyond(t, i)]
  BY <1>1, FromRow DEF Row
<1> QED
  BY <1>2, <1>3 DEF ReadTo

LEMMA ReadToken ==
    ASSUME NEW t, Len(t) \in Nat, NEW toks, IsSeq(toks), NEW i, i <= Len(t), ~ Blank(t, i),
           NEW j, LastEnd(t, i) = j, Ends(t, i) # {}, ReadTo(t, toks, i),
           NEW token, Means(t, token, [i |-> i, j |-> j])
    PROVE  ReadTo(t, Append(toks, token), j + 1)
<1> DEFINE s == [i |-> i, j |-> j]
           more == Append(toks, token)
           rest == From(t)[j + 1]
<1>1. i \in 1..Len(t) /\ i \in 1..Len(t) + 1
  BY DEF ReadTo
<1>2. Beyond(t, i) = j + 1 /\ j + 1 \in 1..Len(t) + 1 /\ j \in Nat
  <2>1. j \in i..Len(t)
    BY <1>1, BeyondIs
  <2> QED
    BY <1>1, <2>1 DEF Beyond, Blank
<1>3. From(t)[i] = Longer(t, i, rest)
  BY <1>1, <1>2, FromRow DEF Row
<1>4. From(t)[i].fault = rest.fault /\ From(t)[i].spans = <<s>> \o rest.spans
  BY <1>3 DEF Longer
<1>5. rest.spans \in Seq(Spans) /\ s \in Spans
  BY <1>1, <1>2, FromTyped DEF Spans
<1>6. /\ Len(toks) \in Nat /\ Len(more) = Len(toks) + 1
      /\ \A k \in DOMAIN more : (k \in DOMAIN toks /\ more[k] = toks[k]) \/ more[k] = token
  BY AppendIsSeq
<1>7. \A k \in 1..Len(more) : IF k = Len(more) THEN more[k] = token ELSE k \in 1..Len(toks) /\ more[k] = toks[k]
  <2>1. PICK S : toks \in Seq(S)
    BY DEF IsSeq
  <2> DEFINE T == S \cup {token}
  <2>2. toks \in Seq(T) /\ token \in T
    BY <2>1
  <2> HIDE DEF T
  <2> QED
    BY <2>2
<1> HIDE DEF s, more, rest
<1>8. PICK w : w = Reading(t).spans
  OBVIOUS
<1>9. PICK q : q = <<s>> \o rest.spans
  OBVIOUS
<1>10. /\ Len(rest.spans) \in Nat /\ Len(q) = 1 + Len(rest.spans) /\ q[1] = s
       /\ \A k \in 1..Len(rest.spans) : q[k + 1] = rest.spans[k]
  BY <1>5, <1>9
<1>11. /\ Len(w) = Len(toks) + Len(q)
       /\ \A k \in 1..Len(q) : w[Len(toks) + k] = q[k]
       /\ \A k \in 1..Len(toks) : Means(t, toks[k], w[k])
  BY <1>4, <1>8, <1>9 DEF ReadTo
<1>12. Len(w) = Len(more) + Len(rest.spans)
  <2>1. PICK a, b : a = Len(toks) /\ b = Len(rest.spans)
    OBVIOUS
  <2>2. a \in Nat /\ b \in Nat /\ Len(more) = a + 1 /\ Len(q) = 1 + b /\ Len(w) = a + Len(q)
    BY <1>6, <1>10, <1>11, <2>1, Zenon
  <2>3. a + (1 + b) = (a + 1) + b
    BY <2>2
  <2> QED
    BY <2>1, <2>2, <2>3, Zenon
<1>13. ASSUME NEW k \in 1..Len(rest.spans) PROVE w[Len(more) + k] = rest.spans[k]
  <2>1. k + 1 \in 1..Len(q) /\ Len(toks) + (k + 1) = Len(more) + k
    BY <1>6, <1>10
  <2>2. w[Len(toks) + (k + 1)] = q[k + 1]
    BY <1>11, <2>1
  <2> QED
    BY <1>10, <2>1, <2>2
<1>14. ASSUME NEW k \in 1..Len(more) PROVE Means(t, more[k], w[k])
  <2>1. CASE k = Len(more)
    <3>1. 1 \in 1..Len(q) /\ Len(toks) + 1 = k
      BY <1>6, <1>10, <2>1
    <3>2. w[k] = s
      BY <1>10, <1>11, <3>1
    <3> QED
      BY <1>7, <2>1, <3>2 DEF s
  <2>2. CASE k # Len(more)
    BY <1>7, <1>11, <2>2
  <2> QED
    BY <2>1, <2>2
<1>15. Reading(t).fault = rest.fault
  BY <1>4 DEF ReadTo
<1> QED
  BY <1>2, <1>8, <1>12, <1>13, <1>14, <1>15 DEF ReadTo, more, rest

LEMMA ReadFault ==
    ASSUME NEW t, Len(t) \in Nat, NEW toks, NEW i, i <= Len(t), ~ Blank(t, i), Ends(t, i) = {},
           ReadTo(t, toks, i)
    PROVE  Reading(t).fault = FaultAt(t, i)
<1>1. i \in 1..Len(t) /\ i \in 1..Len(t) + 1
  BY DEF ReadTo
<1>2. From(t)[i] = Faulty(t, i)
  BY <1>1, FromRow DEF Row
<1> QED
  BY <1>2 DEF ReadTo, Faulty

LEMMA ReadAll ==
    ASSUME NEW t, Len(t) \in Nat, NEW toks, IsSeq(toks), ReadTo(t, toks, Len(t) + 1)
    PROVE  Reading(t).fault = NoFault /\ Len(Reading(t).spans) = Len(toks)
<1>1. Len(t) + 1 \in 1..Len(t) + 1 /\ Len(t) + 1 > Len(t)
  OBVIOUS
<1>2. From(t)[Len(t) + 1] = Nothing
  BY <1>1, FromRow DEF Row
<1>3. Len(<<>>) = 0 /\ Len(toks) \in Nat
  BY AppendIsSeq
<1> QED
  BY <1>2, <1>3 DEF ReadTo, Nothing


-----------------------------------------------------------------------------
(* The kinds of token that begin with a character *)

LEMMA KindsHave ==
    ASSUME NEW t, NEW i, NEW j, NEW k
    PROVE  k \in Kinds(t, i, j) <=>
              \/ k = "string" /\ IsString(t, i, j)
              \/ k = "int" /\ IsInt(t, i, j)
              \/ k = "float" /\ IsFloat(t, i, j)
              \/ k = "keyword" /\ IsKeyword(t, i, j)
              \/ k = "reserved" /\ IsName(t, i, j) /\ SubSeq(t, i, j) \in Reserved
              \/ k = "symbol" /\ IsName(t, i, j) /\ SubSeq(t, i, j) \notin Reserved
              \/ k = Delims[t[i]] /\ i = j /\ t[i] \in DOMAIN Delims
  BY Zenon DEF Kinds

LEMMA StringIs ==
    ASSUME NEW t, NEW i, NEW j
    PROVE  IsString(t, i, j) <=> t[i] = Quote /\ j > i /\ Quotes(t, i, j) = {j} /\ BadEscapes(t, i, j) = {}
  BY Zenon DEF IsString, Quote

LEMMA QuotesAre ==
    ASSUME NEW t, NEW i, NEW j
    PROVE  Quotes(t, i, j) = {k \in i + 1..j : t[k] = Quote /\ ~ Escaped(t, i, k)}
  BY Zenon DEF Quotes, Quote

LEMMA UnsignedIs ==
    ASSUME NEW t, NEW i
    PROVE  Unsigned(t, i) = IF t[i] = Minus THEN i + 1 ELSE i
  BY Zenon DEF Unsigned, Minus

LEMMA FloatIs ==
    ASSUME NEW t, NEW i, NEW j
    PROVE  IsFloat(t, i, j) <=>
              \E k \in i..j : t[k] = Point /\ AllDigits(t, Unsigned(t, i), k - 1) /\ AllDigits(t, k + 1, j)
  BY Zenon DEF IsFloat, Point

LEMMA NameIs ==
    ASSUME NEW t, NEW i, NEW j
    PROVE  IsName(t, i, j) <=> /\ t[i] \in SymbolStart
                               /\ \A k \in i + 1..j : t[k] \in SymbolCont
                               /\ ~ (t[i] = Minus /\ j > i /\ t[i + 1] \in Digits)
  BY Zenon DEF IsName, Minus

LEMMA KeywordIs ==
    ASSUME NEW t, NEW i, NEW j
    PROVE  IsKeyword(t, i, j) <=> /\ t[i] = Colon /\ j > i /\ t[i + 1] \in Letters
                                  /\ \A k \in i + 2..j : t[k] \in SymbolCont
  BY Zenon DEF IsKeyword, Colon

(* A number begins with a digit, or with a minus before one.               *)
LEMMA NumbersBegin ==
    ASSUME NEW t, NEW i \in Int, NEW j \in Int, IsInt(t, i, j) \/ IsFloat(t, i, j)
    PROVE  /\ Unsigned(t, i) <= j /\ t[Unsigned(t, i)] \in Digits
           /\ (t[i] \in Digits /\ Unsigned(t, i) = i)
                \/ (t[i] = Minus /\ t[i + 1] \in Digits /\ i + 1 <= j /\ Unsigned(t, i) = i + 1)
<1>1. PICK u : u = Unsigned(t, i)
  OBVIOUS
<1>2. u \in {i, i + 1} /\ (u = i => t[i] # Minus) /\ (u = i + 1 => t[i] = Minus)
  BY <1>1, UnsignedIs
<1>3. \E k \in Int : k <= j /\ AllDigits(t, u, k)
  <2>1. CASE IsInt(t, i, j)
    BY <1>1, <2>1 DEF IsInt
  <2>2. CASE IsFloat(t, i, j)
    <3>1. PICK k \in i..j : AllDigits(t, u, k - 1)
      BY <1>1, <2>2, FloatIs
    <3> QED
      BY <3>1
  <2> QED
    BY <2>1, <2>2
<1>4. u <= j /\ t[u] \in Digits
  BY <1>2, <1>3 DEF AllDigits
<1> QED
  BY <1>1, <1>2, <1>4

LEMMA QuoteBegins ==
    ASSUME NEW t, NEW i \in Int, NEW j \in Int, t[i] = Quote, NEW k
    PROVE  k \in Kinds(t, i, j) <=> k = "string" /\ IsString(t, i, j)
<1>1. ~ IsInt(t, i, j) /\ ~ IsFloat(t, i, j)
  BY NumbersBegin, NoDigit, CharactersDiffer
<1>2. ~ IsKeyword(t, i, j) /\ ~ IsName(t, i, j)
  BY KeywordIs, NameIs, NoName, CharactersDiffer
<1>3. t[i] \notin DOMAIN Delims
  BY NoDelim
<1> QED
  BY <1>1, <1>2, <1>3, KindsHave, Zenon

LEMMA ColonBegins ==
    ASSUME NEW t, NEW i \in Int, NEW j \in Int, t[i] = Colon, NEW k
    PROVE  k \in Kinds(t, i, j) <=> k = "keyword" /\ IsKeyword(t, i, j)
<1>1. ~ IsInt(t, i, j) /\ ~ IsFloat(t, i, j)
  BY NumbersBegin, NoDigit, CharactersDiffer
<1>2. ~ IsString(t, i, j) /\ ~ IsName(t, i, j)
  BY StringIs, NameIs, NoName, CharactersDiffer
<1>3. t[i] \notin DOMAIN Delims
  BY NoDelim
<1> QED
  BY <1>1, <1>2, <1>3, KindsHave, Zenon

LEMMA DelimBegins ==
    ASSUME NEW t, NEW i \in Int, NEW j \in Int, t[i] \in DOMAIN Delims, NEW k
    PROVE  k \in Kinds(t, i, j) <=> k = Delims[t[i]] /\ i = j
<1>1. ~ IsInt(t, i, j) /\ ~ IsFloat(t, i, j)
  BY NumbersBegin, NoDelim
<1>2. ~ IsString(t, i, j) /\ ~ IsName(t, i, j) /\ ~ IsKeyword(t, i, j)
  BY StringIs, NameIs, KeywordIs, NoName, NoDelim
<1> QED
  BY <1>1, <1>2, KindsHave, Zenon

LEMMA NothingBegins ==
    ASSUME NEW t, NEW i \in Int, NEW j \in Int,
           t[i] \notin SymbolStart \cup Digits \cup DOMAIN Delims \cup {Quote, Colon}
    PROVE  Kinds(t, i, j) = {}
<1>1. ~ IsInt(t, i, j) /\ ~ IsFloat(t, i, j)
  BY NumbersBegin, NoName
<1>2. ~ IsString(t, i, j) /\ ~ IsName(t, i, j) /\ ~ IsKeyword(t, i, j)
  BY StringIs, NameIs, KeywordIs
<1>3. \A k : k \notin Kinds(t, i, j)
  BY <1>1, <1>2, KindsHave, Zenon
<1> QED
  BY <1>3

LEMMA NumberBegins ==
    ASSUME NEW t, NEW i \in Int, NEW j \in Int, Unsigned(t, i) <= j, t[Unsigned(t, i)] \in Digits, NEW k
    PROVE  k \in Kinds(t, i, j) <=> (k = "int" /\ IsInt(t, i, j)) \/ (k = "float" /\ IsFloat(t, i, j))
<1>1. (t[i] \in Digits /\ Unsigned(t, i) = i)
         \/ (t[i] = Minus /\ t[i + 1] \in Digits /\ i + 1 <= j)
  BY UnsignedIs, NoDigit
<1>2. ~ IsString(t, i, j) /\ ~ IsName(t, i, j) /\ ~ IsKeyword(t, i, j)
  BY <1>1, StringIs, NameIs, KeywordIs, NoName, NoDigit, CharactersDiffer
<1>3. t[i] \notin DOMAIN Delims
  BY <1>1, NoDelim
<1> QED
  BY <1>2, <1>3, KindsHave, Zenon

LEMMA NameBegins ==
    ASSUME NEW t, NEW i \in Int, NEW j \in Int, t[i] \in SymbolStart,
           ~ (t[i] = Minus /\ i + 1 <= j /\ t[i + 1] \in Digits), NEW k
    PROVE  k \in Kinds(t, i, j) <=>
              /\ k = IF SubSeq(t, i, j) \in Reserved THEN "reserved" ELSE "symbol"
              /\ IsName(t, i, j)
<1>1. ~ IsInt(t, i, j) /\ ~ IsFloat(t, i, j)
  BY NumbersBegin, NoName
<1>2. ~ IsString(t, i, j) /\ ~ IsKeyword(t, i, j) /\ t[i] \notin DOMAIN Delims
  BY StringIs, KeywordIs, NoName
<1> QED
  BY <1>1, <1>2, KindsHave, Zenon

-----------------------------------------------------------------------------
(* The longest token is taken *)

LEMMA LastEndIs ==
    ASSUME NEW t, NEW i \in Nat, Len(t) \in Nat, NEW j \in i..Len(t), Kinds(t, i, j) # {},
           \A l \in j + 1..Len(t) : Kinds(t, i, l) = {}
    PROVE  Ends(t, i) # {} /\ LastEnd(t, i) = j
<1>1. j \in Ends(t, i) /\ Ends(t, i) \in SUBSET Int
  BY DEF Ends
<1>2. ASSUME NEW l \in Ends(t, i) PROVE j >= l
  <2>1. l \in i..Len(t) /\ Kinds(t, i, l) # {}
    BY DEF Ends
  <2> QED
    BY <2>1
<1> QED
  BY <1>1, <1>2, LastIs DEF LastEnd

LEMMA TheKindIs ==
    ASSUME NEW t, NEW i, NEW j, NEW kind, \A k : k \in Kinds(t, i, j) <=> k = kind
    PROVE  TheKind(t, [i |-> i, j |-> j]) = kind /\ Kinds(t, i, j) # {}
<1> DEFINE s == [i |-> i, j |-> j]
<1>1. Kinds(t, i, j) = {kind} /\ s.i = i /\ s.j = j
  BY Zenon
<1> QED
  BY <1>1 DEF TheKind


LEMMA SubSeqIs ==
    ASSUME NEW t \in Seq(STRING), NEW i \in 1..Len(t) + 1, NEW j \in i - 1..Len(t)
    PROVE  /\ SubSeq(t, i, j) \in Seq(STRING) /\ Len(SubSeq(t, i, j)) = j - i + 1
           /\ \A n \in 1..j - i + 1 : SubSeq(t, i, j)[n] = t[i + n - 1]
  OBVIOUS

(* What a name's buffer holds of it, and whether that is a reserved word.  *)
LEMMA CopiedName ==
    ASSUME NEW t \in Seq(STRING), NEW i \in 1..Len(t), NEW j \in i..Len(t), NEW name,
           name = SubSeq(t, i, IF j - (i - 1) > MaxName THEN i - 1 + MaxName ELSE j)
    PROVE  /\ name \in Reserved <=> SubSeq(t, i, j) \in Reserved
           /\ j - i + 1 <= MaxName \/ name \in Reserved => name = SubSeq(t, i, j)
<1>1. MaxName \in Nat \ {0} /\ \A w \in Reserved : Len(w) < MaxName
  BY WidthAssumption
<1>2. CASE j - (i - 1) > MaxName
  <2>1. PICK e : e = i - 1 + MaxName
    OBVIOUS
  <2>2. e \in i - 1..Len(t) /\ i \in 1..Len(t) + 1 /\ e - i + 1 = MaxName /\ j - i + 1 > MaxName /\ j \in i - 1..Len(t)
    BY <1>1, <1>2, <2>1
  <2>3. name = SubSeq(t, i, e)
    BY <1>2, <2>1
  <2>4. Len(name) = MaxName /\ Len(SubSeq(t, i, j)) > MaxName
    BY <2>2, <2>3, SubSeqIs
  <2>5. name \notin Reserved /\ SubSeq(t, i, j) \notin Reserved
    <3>1. PICK whole : whole = SubSeq(t, i, j)
      OBVIOUS
    <3>2. name \in Seq(STRING) /\ whole \in Seq(STRING) /\ Len(name) = MaxName /\ Len(whole) > MaxName
      BY <2>2, <2>3, <2>4, <3>1, SubSeqIs
    <3>3. ~ (Len(name) < MaxName) /\ ~ (Len(whole) < MaxName)
      BY <1>1, <3>2
    <3> QED
      BY <1>1, <3>1, <3>3, Zenon
  <2> QED
    BY <1>1, <1>2, <2>2, <2>5
<1>3. CASE ~ (j - (i - 1) > MaxName)
  BY <1>3
<1> QED
  BY <1>2, <1>3

LEMMA NameMeans ==
    ASSUME NEW t \in Seq(STRING), NEW i \in 1..Len(t), NEW j \in i..Len(t), IsName(t, i, j),
           ~ (t[i] = Minus /\ i + 1 <= Len(t) /\ t[i + 1] \in Digits),
           j + 1 <= Len(t) => t[j + 1] \notin SymbolCont,
           NEW name, name = SubSeq(t, i, IF j - (i - 1) > MaxName THEN i - 1 + MaxName ELSE j),
           NEW token, token.type = IF name \in Reserved THEN "reserved" ELSE "symbol",
           token.value = name, token.at = PlaceOf(t, i)
    PROVE  Ends(t, i) # {} /\ LastEnd(t, i) = j /\ Means(t, token, [i |-> i, j |-> j])
<1> DEFINE s == [i |-> i, j |-> j]
           kind == IF SubSeq(t, i, j) \in Reserved THEN "reserved" ELSE "symbol"
<1>1. t[i] \in SymbolStart /\ Len(t) \in Nat /\ i \in Nat
  BY NameIs
<1>2. \A l \in i..Len(t) : \A k :
         k \in Kinds(t, i, l) <=> /\ k = IF SubSeq(t, i, l) \in Reserved THEN "reserved" ELSE "symbol"
                                  /\ IsName(t, i, l)
  BY <1>1, NameBegins
<1>3. \A k : k \in Kinds(t, i, j) <=> k = kind
  BY <1>2
<1>4. TheKind(t, s) = kind /\ Kinds(t, i, j) # {}
  <2> HIDE DEF kind
  <2> QED
    BY <1>3, TheKindIs, Zenon
<1>5. ASSUME NEW l \in j + 1..Len(t) PROVE Kinds(t, i, l) = {}
  <2>1. j + 1 \in i + 1..l /\ t[j + 1] \notin SymbolCont /\ l \in i..Len(t)
    OBVIOUS
  <2>2. ~ IsName(t, i, l)
    BY <2>1, NameIs
  <2> QED
    BY <1>2, <2>1, <2>2
<1>6. Ends(t, i) # {} /\ LastEnd(t, i) = j
  BY <1>1, <1>4, <1>5, LastEndIs
<1>7. /\ name \in Reserved <=> SubSeq(t, i, j) \in Reserved
      /\ j - i + 1 <= MaxName \/ name \in Reserved => name = SubSeq(t, i, j)
  BY CopiedName
<1>8. s.i = i /\ s.j = j
  OBVIOUS
<1> HIDE DEF s
<1>9. Meaning(t, s) = SubSeq(t, i, j)
  BY <1>4, <1>8 DEF Meaning
<1>10. Fits(t, s) => name = SubSeq(t, i, j)
  <2>1. CASE kind = "symbol"
    <3>1. TheKind(t, s) = "symbol"
      BY <1>4, <2>1
    <3>2. Fits(t, s) => s.j - s.i + 1 <= MaxName
      BY <3>1 DEF Fits
    <3> QED
      BY <1>7, <1>8, <3>2
  <2>2. CASE kind = "reserved"
    BY <1>7, <2>2
  <2> QED
    BY <2>1, <2>2
<1>11. Means(t, token, s)
  BY <1>4, <1>7, <1>8, <1>9, <1>10 DEF Means
<1> QED
  BY <1>6, <1>11 DEF s


-----------------------------------------------------------------------------
(* Numbers are written in digits *)

LEMMA DigitValues == \A c \in Digits : DigitValue[c] \in 0..9
<1>1. ASSUME NEW c \in Digits PROVE DigitValue[c] \in 0..9
  BY <1>1, DigitsAre DEF DigitValue
<1> QED
  BY <1>1

ValueRow(d, f, n) == IF n = 0 THEN 0 ELSE 10 * f[n - 1] + DigitValue[d[n]]
IsValue(d, f) == f = [n \in 0..Len(d) |-> ValueRow(d, f, n)]

LEMMA ValueExists ==
    ASSUME NEW d, NEW m \in Nat, Len(d) = m
    PROVE  \E f : IsValue(d, f)
<1> DEFINE Solves(f, k) == \A n \in 0..m : n < k => f[n] = ValueRow(d, f, n)
           Unsolved == {k \in Nat : ~ \E f : Solves(f, k)}
<1>1. ASSUME NEW f, NEW g, NEW n \in 0..m, n # 0 => f[n - 1] = g[n - 1]
      PROVE  ValueRow(d, f, n) = ValueRow(d, g, n)
  BY <1>1 DEF ValueRow
<1>2. \E f : Solves(f, 0)
  <2>1. \A n \in 0..m : ~ (n < 0)
    OBVIOUS
  <2> QED
    BY <2>1
<1>3. ASSUME NEW k \in Nat, NEW f, Solves(f, k) PROVE \E g : Solves(g, k + 1)
  <2> DEFINE g == [n \in 0..m |-> ValueRow(d, f, n)]
  <2>1. \A n \in 0..m : g[n] = ValueRow(d, f, n)
    OBVIOUS
  <2>2. \A n \in 0..m : n < k => f[n] = ValueRow(d, f, n)
    BY <1>3
  <2> HIDE DEF g
  <2>3. ASSUME NEW n \in 0..m, n < k + 1 PROVE g[n] = ValueRow(d, g, n)
    <3>1. n # 0 => n - 1 \in 0..m /\ n - 1 < k
      BY <2>3
    <3>2. n # 0 => f[n - 1] = g[n - 1]
      BY <2>1, <2>2, <3>1
    <3> QED
      BY <1>1, <2>1, <3>2
  <2> QED
    BY <2>3
<1>4. Unsolved = {}
  <2> SUFFICES ASSUME Unsolved # {} PROVE FALSE
    OBVIOUS
  <2>1. Unsolved \in SUBSET Nat
    OBVIOUS
  <2> HIDE DEF Solves, Unsolved
  <2>2. PICK k \in Unsolved : \A e \in Unsolved : k <= e
    BY <2>1, LeastNatural
  <2>3. k \in Nat /\ ~ \E f : Solves(f, k)
    BY <2>2 DEF Unsolved
  <2>4. k # 0
    BY <1>2, <2>3
  <2>5. k - 1 \in Nat /\ k - 1 + 1 = k /\ k - 1 \notin Unsolved
    BY <2>2, <2>3, <2>4
  <2>6. PICK f : Solves(f, k - 1)
    BY <2>5 DEF Unsolved
  <2> QED
    BY <1>3, <2>3, <2>5, <2>6
<1>5. PICK f : Solves(f, m + 1)
  <2> HIDE DEF Solves, Unsolved
  <2>1. m + 1 \in Nat /\ m + 1 \notin Unsolved
    BY <1>4
  <2> QED
    BY <2>1 DEF Unsolved
<1> DEFINE g == [n \in 0..m |-> f[n]]
<1>6. \A n \in 0..m : f[n] = ValueRow(d, f, n)
  <2>1. \A n \in 0..m : n < m + 1
    OBVIOUS
  <2> QED
    BY <1>5, <2>1
<1>7. \A n \in 0..m : ValueRow(d, f, n) = ValueRow(d, g, n)
  <2>1. \A n \in 0..m : g[n] = f[n]
    OBVIOUS
  <2>2. \A n \in 0..m : n # 0 => n - 1 \in 0..m
    OBVIOUS
  <2> HIDE DEF g
  <2> QED
    BY <1>1, <2>1, <2>2
<1>8. g = [n \in 0..m |-> ValueRow(d, g, n)]
  <2>1. g = [n \in 0..m |-> ValueRow(d, f, n)]
    BY <1>6
  <2> HIDE DEF g
  <2> QED
    BY <1>7, <2>1
<1> HIDE DEF g
<1> QED
  BY <1>8 DEF IsValue

LEMMA WrittenIsNatural ==
    ASSUME NEW d, NEW m \in Nat, Len(d) = m, \A n \in 1..m : d[n] \in Digits
    PROVE  Written(d) \in Nat
<1> DEFINE f == CHOOSE f : IsValue(d, f)
<1>1. Written(d) = f[m]
  <2>1. Written(d) = (CHOOSE g : g = [n \in 0..Len(d) |-> ValueRow(d, g, n)])[Len(d)]
    BY Zenon DEF Written, ValueRow
  <2> QED
    BY <2>1, Zenon DEF IsValue
<1>2. IsValue(d, f)
  BY ValueExists
<1> HIDE DEF f
<1>3. \A n \in 0..m : f[n] = ValueRow(d, f, n)
  BY <1>2 DEF IsValue
<1> DEFINE Bad == {n \in 0..m : f[n] \notin Nat}
<1>4. Bad = {}
  <2> SUFFICES ASSUME Bad # {} PROVE FALSE
    OBVIOUS
  <2>1. Bad \in SUBSET Nat
    OBVIOUS
  <2>2. PICK n \in Bad : \A e \in Bad : n <= e
    <3> HIDE DEF Bad
    <3> QED
      BY <2>1, LeastNatural
  <2>3. n \in 0..m /\ f[n] \notin Nat
    BY <2>2
  <2>4. n # 0
    <3>1. 0 \in Nat
      OBVIOUS
    <3> QED
      BY <1>3, <2>3, <3>1 DEF ValueRow
  <2>5. PICK p : p = n - 1
    OBVIOUS
  <2>6. p \in 0..m /\ ~ (n <= p) /\ n \in 1..m
    BY <2>3, <2>4, <2>5
  <2>7. f[p] \in Nat
    BY <2>2, <2>6
  <2>8. PICK v : v = DigitValue[d[n]]
    OBVIOUS
  <2>9. v \in 0..9
    BY <2>6, <2>8, DigitValues
  <2>10. f[n] = 10 * f[p] + v
    BY <1>3, <2>3, <2>4, <2>5, <2>8 DEF ValueRow
  <2>11. 10 * f[p] + v \in Nat
    BY <2>7, <2>9
  <2> QED
    BY <2>3, <2>10, <2>11
<1>5. m \in 0..m
  OBVIOUS
<1> QED
  BY <1>1, <1>4, <1>5


LEMMA SignIs ==
    ASSUME NEW t, NEW i
    PROVE  Sign(t, i) = IF t[i] = Minus THEN -1 ELSE 1
  BY Zenon DEF Sign, Minus

(* What a number's buffer holds of it, when it is not too long.            *)
LEMMA CopiedNumber ==
    ASSUME NEW t \in Seq(STRING), NEW i \in 1..Len(t), NEW u \in {i, i + 1}, u = Unsigned(t, i),
           NEW j \in u..Len(t), NEW copy,
           copy = SubSeq(t, u, IF j - (u - 1) > MaxDigits THEN u - 1 + MaxDigits ELSE j)
    PROVE  j - i + 1 <= MaxDigits + u - i => copy = Number(t, [i |-> i, j |-> j])
<1>1. MaxDigits \in Nat
  BY WidthAssumption
<1>2. Number(t, [i |-> i, j |-> j]) = SubSeq(t, u, j)
  BY DEF Number
<1>3. j - i + 1 <= MaxDigits + u - i => ~ (j - (u - 1) > MaxDigits)
  BY <1>1
<1> QED
  BY <1>2, <1>3

LEMMA NumberEnds ==
    ASSUME NEW t \in Seq(STRING), NEW i \in 1..Len(t), NEW u \in {i, i + 1}, u = Unsigned(t, i),
           NEW j \in u..Len(t), t[u] \in Digits,
           NEW kind, (kind = "int" /\ IsInt(t, i, j) /\ ~ IsFloat(t, i, j))
                        \/ (kind = "float" /\ IsFloat(t, i, j) /\ ~ IsInt(t, i, j)),
           \A l \in j + 1..Len(t) : ~ IsInt(t, i, l) /\ ~ IsFloat(t, i, l)
    PROVE  /\ Ends(t, i) # {} /\ LastEnd(t, i) = j
           /\ TheKind(t, [i |-> i, j |-> j]) = kind
<1>1. i \in Nat /\ u \in Nat /\ Len(t) \in Nat /\ i <= u /\ j \in i..Len(t)
  OBVIOUS
<1>2. \A l \in u..Len(t) : \A k :
         k \in Kinds(t, i, l) <=> (k = "int" /\ IsInt(t, i, l)) \/ (k = "float" /\ IsFloat(t, i, l))
  BY <1>1, NumberBegins
<1>3. \A k : k \in Kinds(t, i, j) <=> k = kind
  <2>1. ASSUME NEW k PROVE k \in Kinds(t, i, j) <=> k = kind
    <3>1. k \in Kinds(t, i, j) <=> (k = "int" /\ IsInt(t, i, j)) \/ (k = "float" /\ IsFloat(t, i, j))
      BY <1>2
    <3> QED
      BY <3>1, Zenon
  <2> QED
    BY <2>1
<1>4. TheKind(t, [i |-> i, j |-> j]) = kind /\ Kinds(t, i, j) # {}
  BY <1>3, TheKindIs, Zenon
<1>5. ASSUME NEW l \in j + 1..Len(t) PROVE Kinds(t, i, l) = {}
  <2>1. l \in u..Len(t)
    BY <1>1
  <2>2. \A k : k \notin Kinds(t, i, l)
    BY <1>2, <2>1
  <2> QED
    BY <2>2
<1> QED
  BY <1>1, <1>4, <1>5, LastEndIs

LEMMA DigitsHaveValue ==
    ASSUME NEW t \in Seq(STRING), NEW u \in 1..Len(t), NEW j \in u..Len(t),
           \A k \in u..j : t[k] \in Digits
    PROVE  Written(SubSeq(t, u, j)) \in Nat
<1>1. PICK m : m = j - u + 1
  OBVIOUS
<1>2. m \in Nat /\ u \in 1..Len(t) + 1 /\ j \in u - 1..Len(t)
  BY <1>1
<1>3. \A n \in 1..m : u + n - 1 \in u..j
  BY <1>1
<1>4. PICK d : d = SubSeq(t, u, j)
  OBVIOUS
<1>5. Len(d) = m /\ \A n \in 1..m : d[n] = t[u + n - 1]
  BY <1>1, <1>2, <1>4, SubSeqIs, Zenon
<1>6. \A n \in 1..m : d[n] \in Digits
  BY <1>3, <1>5, Zenon
<1> QED
  BY <1>2, <1>4, <1>5, <1>6, WrittenIsNatural, Zenon

LEMMA IntMeans ==
    ASSUME NEW t \in Seq(STRING), NEW i \in 1..Len(t), NEW u \in {i, i + 1}, u = Unsigned(t, i),
           NEW j \in u..Len(t), AllDigits(t, u, j),
           j + 1 <= Len(t) => t[j + 1] \notin Digits,
           ~ (j + 1 <= Len(t) /\ t[j + 1] = Point /\ j + 2 <= Len(t) /\ t[j + 2] \in Digits),
           NEW copy, copy = SubSeq(t, u, IF j - (u - 1) > MaxDigits THEN u - 1 + MaxDigits ELSE j),
           NEW token, token.type = "int", token.at = PlaceOf(t, i),
           token.value = (IF t[i] = Minus THEN -1 ELSE 1) * StrToLL(copy)
    PROVE  Ends(t, i) # {} /\ LastEnd(t, i) = j /\ Means(t, token, [i |-> i, j |-> j])
<1> DEFINE s == [i |-> i, j |-> j]
<1>1. i \in Nat /\ u \in Nat /\ Len(t) \in Nat /\ i <= u /\ \A k \in u..j : t[k] \in Digits
  BY DEF AllDigits
<1>2. IsInt(t, i, j) /\ t[u] \in Digits
  BY <1>1 DEF IsInt, AllDigits
<1>3. ASSUME NEW l \in j..Len(t), IsFloat(t, i, l) PROVE FALSE
  <2>1. PICK k \in i..l : t[k] = Point /\ AllDigits(t, u, k - 1) /\ AllDigits(t, k + 1, l)
    BY <1>3, FloatIs
  <2>2. u <= k - 1 /\ k + 1 <= l /\ t[k + 1] \in Digits /\ \A m \in u..k - 1 : t[m] \in Digits
    BY <1>1, <2>1 DEF AllDigits
  <2>3. k > j
    BY <1>1, <2>1, <2>2, NoDigit
  <2>4. ~ (j + 1 \in u..k - 1)
    BY <2>2, <2>3
  <2>5. k = j + 1
    BY <1>1, <2>2, <2>3, <2>4
  <2> QED
    BY <2>1, <2>2, <2>5
<1>4. ASSUME NEW l \in j + 1..Len(t) PROVE ~ IsInt(t, i, l)
  <2>1. j + 1 \in u..l /\ j + 1 <= Len(t)
    OBVIOUS
  <2> QED
    BY <2>1 DEF IsInt, AllDigits
<1>5. Ends(t, i) # {} /\ LastEnd(t, i) = j /\ TheKind(t, s) = "int"
  <2>1. ~ IsFloat(t, i, j) /\ \A l \in j + 1..Len(t) : ~ IsInt(t, i, l) /\ ~ IsFloat(t, i, l)
    BY <1>3, <1>4
  <2> QED
    BY <1>2, <2>1, NumberEnds
<1>6. PICK e, w : e = Number(t, s) /\ w = Written(e)
  OBVIOUS
<1>7. w \in Nat
  <2>1. e = SubSeq(t, u, j)
    BY <1>6 DEF Number
  <2>2. u \in 1..Len(t) /\ j \in u..Len(t)
    BY <1>1
  <2>3. Written(SubSeq(t, u, j)) \in Nat
    BY <1>1, <2>2, DigitsHaveValue, Zenon
  <2> QED
    BY <1>6, <2>1, <2>3, Zenon
<1>8. s.i = i /\ s.j = j
  OBVIOUS
<1>9. PICK g : g = (IF t[i] = Minus THEN -1 ELSE 1)
  OBVIOUS
<1>10. Sign(t, i) = g /\ g \in {-1, 1} /\ token.value = g * StrToLL(copy)
  BY <1>9, SignIs
<1>11. j - i + 1 <= MaxDigits + u - i => copy = e
  BY <1>6, CopiedNumber
<1> HIDE DEF s
<1>12. Meaning(t, s) = g * w
  BY <1>5, <1>6, <1>8, <1>10 DEF Meaning
<1>13. Fits(t, s) => j - i + 1 <= MaxDigits + u - i /\ Meaning(t, s) \in -MaxInt..MaxInt
  BY <1>5, <1>8 DEF Fits
<1>14. Fits(t, s) => token.value = Meaning(t, s)
  <2> SUFFICES ASSUME Fits(t, s) PROVE token.value = g * w
    BY <1>12
  <2>1. copy = e /\ g * w \in -MaxInt..MaxInt /\ MaxInt \in Nat
    BY <1>11, <1>12, <1>13, WidthAssumption
  <2>2. ~ (w > MaxInt)
    BY <1>7, <1>10, <2>1
  <2>3. StrToLL(copy) = w
    BY <1>6, <2>1, <2>2 DEF StrToLL
  <2> QED
    BY <1>10, <2>3
<1> QED
  BY <1>5, <1>8, <1>14 DEF Means, s

LEMMA FloatMeans ==
    ASSUME NEW t \in Seq(STRING), NEW i \in 1..Len(t), NEW u \in {i, i + 1}, u = Unsigned(t, i),
           NEW j \in u..Len(t), NEW k \in u + 1..j - 1,
           AllDigits(t, u, k - 1), t[k] = Point, AllDigits(t, k + 1, j),
           j + 1 <= Len(t) => t[j + 1] \notin Digits,
           NEW copy, copy = SubSeq(t, u, IF j - (u - 1) > MaxDigits THEN u - 1 + MaxDigits ELSE j),
           NEW token, token.type = "float", token.at = PlaceOf(t, i),
           token.value = (IF t[i] = Minus THEN -1 ELSE 1) * Decimal(copy)
    PROVE  Ends(t, i) # {} /\ LastEnd(t, i) = j /\ Means(t, token, [i |-> i, j |-> j])
<1> DEFINE s == [i |-> i, j |-> j]
<1>1. /\ i \in Nat /\ u \in Nat /\ Len(t) \in Nat /\ i <= u /\ k \in i..j
      /\ \A m \in u..k - 1 : t[m] \in Digits
  BY DEF AllDigits
<1>2. IsFloat(t, i, j) /\ t[u] \in Digits
  <2>1. IsFloat(t, i, j)
    BY <1>1, FloatIs
  <2> QED
    BY <1>1, <2>1
<1>3. ASSUME NEW l \in j..Len(t) PROVE ~ IsInt(t, i, l)
  <2>1. k \in u..l
    BY <1>1
  <2> QED
    BY <2>1, NoDigit DEF IsInt, AllDigits
<1>4. ASSUME NEW l \in j + 1..Len(t), IsFloat(t, i, l) PROVE FALSE
  <2>1. PICK m \in i..l : t[m] = Point /\ AllDigits(t, u, m - 1) /\ AllDigits(t, m + 1, l)
    BY <1>4, FloatIs
  <2>2. /\ u <= m - 1 /\ m + 1 <= l /\ m \in Int
        /\ \A n \in u..m - 1 : t[n] \in Digits
        /\ \A n \in m + 1..l : t[n] \in Digits
    <3>1. m \in Int
      BY <1>1
    <3>2. /\ u <= m - 1 /\ \A n \in u..m - 1 : t[n] \in Digits
          /\ m + 1 <= l /\ \A n \in m + 1..l : t[n] \in Digits
      BY <2>1, Zenon DEF AllDigits
    <3> QED
      BY <3>1, <3>2
  <2>3. ~ (k \in u..m - 1) /\ ~ (m \in u..k - 1)
    BY <1>1, <2>1, <2>2, NoDigit
  <2>4. m = k
    BY <1>1, <2>2, <2>3
  <2>5. j + 1 \in m + 1..l /\ j + 1 <= Len(t)
    BY <1>1, <2>4
  <2> QED
    BY <2>2, <2>5
<1>5. Ends(t, i) # {} /\ LastEnd(t, i) = j /\ TheKind(t, s) = "float"
  <2>1. ~ IsInt(t, i, j) /\ \A l \in j + 1..Len(t) : ~ IsInt(t, i, l) /\ ~ IsFloat(t, i, l)
    BY <1>3, <1>4
  <2> QED
    BY <1>2, <2>1, NumberEnds
<1>6. PICK e : e = Number(t, s)
  OBVIOUS
<1>8. s.i = i /\ s.j = j
  OBVIOUS
<1>10. token.value = Sign(t, i) * Decimal(copy)
  BY SignIs
<1>11. j - i + 1 <= MaxDigits + u - i => copy = e
  BY <1>6, CopiedNumber
<1> HIDE DEF s
<1>12. Meaning(t, s) = Sign(t, i) * Decimal(e)
  BY <1>5, <1>6, <1>8 DEF Meaning
<1>13. Fits(t, s) => j - i + 1 <= MaxDigits + u - i
  BY <1>5, <1>8 DEF Fits
<1>14. Fits(t, s) => token.value = Meaning(t, s)
  BY <1>10, <1>11, <1>12, <1>13, Zenon
<1> QED
  BY <1>5, <1>8, <1>14 DEF Means, s


LEMMA KeywordMeans ==
    ASSUME NEW t \in Seq(STRING), NEW i \in 1..Len(t), NEW j \in i..Len(t), IsKeyword(t, i, j),
           j + 1 <= Len(t) => t[j + 1] \notin SymbolCont,
           NEW name, name = SubSeq(t, i + 1, IF j - i > MaxName THEN i + MaxName ELSE j),
           NEW token, token.type = "keyword", token.at = PlaceOf(t, i), token.value = name
    PROVE  Ends(t, i) # {} /\ LastEnd(t, i) = j /\ Means(t, token, [i |-> i, j |-> j])
<1> DEFINE s == [i |-> i, j |-> j]
<1>1. i \in Nat /\ Len(t) \in Nat /\ t[i] = Colon /\ MaxName \in Nat
  <2>1. t[i] = Colon
    BY KeywordIs
  <2>2. MaxName \in Nat
    BY WidthAssumption
  <2> QED
    BY <2>1, <2>2
<1>2. \A l \in i..Len(t) : \A k : k \in Kinds(t, i, l) <=> k = "keyword" /\ IsKeyword(t, i, l)
  BY <1>1, ColonBegins
<1>3. \A k : k \in Kinds(t, i, j) <=> k = "keyword"
  BY <1>2
<1>4. TheKind(t, s) = "keyword" /\ Kinds(t, i, j) # {}
  BY <1>3, TheKindIs, Zenon
<1>5. ASSUME NEW l \in j + 1..Len(t) PROVE Kinds(t, i, l) = {}
  <2>1. l \in i..Len(t) /\ j > i
    BY KeywordIs
  <2>2. j + 1 \in i + 2..l /\ t[j + 1] \notin SymbolCont
    BY <2>1
  <2>3. ~ IsKeyword(t, i, l)
    BY <2>2, KeywordIs
  <2>4. \A k : k \notin Kinds(t, i, l)
    BY <1>2, <2>1, <2>3
  <2> QED
    BY <2>4
<1>6. Ends(t, i) # {} /\ LastEnd(t, i) = j
  BY <1>1, <1>4, <1>5, LastEndIs
<1>7. s.i = i /\ s.j = j
  OBVIOUS
<1> HIDE DEF s
<1>8. Meaning(t, s) = SubSeq(t, i + 1, j)
  <2>1. Meaning(t, s) = Tail(SubSeq(t, i, j))
    BY <1>4, <1>7 DEF Meaning
  <2>2. Tail(SubSeq(t, i, j)) = SubSeq(t, i + 1, j)
    BY <1>1
  <2> QED
    BY <2>1, <2>2
<1>9. Fits(t, s) => name = SubSeq(t, i + 1, j)
  <2>1. Fits(t, s) => j - i + 1 <= MaxName + 1
    BY <1>4, <1>7 DEF Fits
  <2>2. j - i + 1 <= MaxName + 1 => ~ (j - i > MaxName)
    BY <1>1
  <2> QED
    BY <2>1, <2>2
<1> QED
  BY <1>4, <1>6, <1>7, <1>8, <1>9 DEF Means, s

LEMMA DelimTypesAre == \A c \in DOMAIN Delims : Delims[c] \in {"lparen", "rparen", "lbrace", "rbrace"}
  BY Zenon DEF Delims

LEMMA DelimMeans ==
    ASSUME NEW t \in Seq(STRING), NEW i \in 1..Len(t), t[i] \in DOMAIN Delims,
           NEW token, token.type = Delims[t[i]], token.at = PlaceOf(t, i), token.value = Nil
    PROVE  Ends(t, i) # {} /\ LastEnd(t, i) = i /\ Means(t, token, [i |-> i, j |-> i])
<1> DEFINE s == [i |-> i, j |-> i]
<1>0. PICK kind : kind = Delims[t[i]]
  OBVIOUS
<1>1. i \in Nat /\ Len(t) \in Nat /\ i \in i..Len(t)
  OBVIOUS
<1>2. \A l \in i..Len(t) : \A k : k \in Kinds(t, i, l) <=> k = kind /\ i = l
  BY <1>0, <1>1, DelimBegins
<1>3. \A k : k \in Kinds(t, i, i) <=> k = kind
  BY <1>1, <1>2
<1>4. TheKind(t, s) = kind /\ Kinds(t, i, i) # {}
  BY <1>3, TheKindIs, Zenon
<1>5. ASSUME NEW l \in i + 1..Len(t) PROVE Kinds(t, i, l) = {}
  <2>1. l \in i..Len(t) /\ i # l
    BY <1>1
  <2>2. \A k : k \notin Kinds(t, i, l)
    BY <1>2, <2>1
  <2> QED
    BY <2>2
<1>6. Ends(t, i) # {} /\ LastEnd(t, i) = i
  BY <1>1, <1>4, <1>5, LastEndIs
<1>7. s.i = i /\ s.j = i /\ kind \in {"lparen", "rparen", "lbrace", "rbrace"}
  BY <1>0, DelimTypesAre
<1> HIDE DEF s
<1>8. Meaning(t, s) = Nil
  BY <1>4, <1>7 DEF Meaning
<1> QED
  BY <1>0, <1>4, <1>6, <1>7, <1>8 DEF Means, s

-----------------------------------------------------------------------------
(* Strings *)

In(t, i, p) == {k \in i + 1..p : t[k] # Backslash \/ Escaped(t, i, k)}
Rank(S, k) == Cardinality({m \in S : m <= k})

(* A string opened at i goes on beyond p.                                  *)
StringTo(t, i, p) ==
    /\ p \in i..Len(t) /\ t[i] = Quote
    /\ Quotes(t, i, p) = {} /\ BadEscapes(t, i, p) = {}

(* The buffer holds what the string's characters up to p stand for.        *)
Holds(t, i, p, b) ==
    /\ IsSeq(b) /\ Len(b) = Cardinality(In(t, i, p))
    /\ \A k \in In(t, i, p) : b[Rank(In(t, i, p), k)] = Unescaped(t, i, k)
    /\ \A n \in 1..Len(b) : \E k \in In(t, i, p) : Rank(In(t, i, p), k) = n

LEMMA BadEscapesAre ==
    ASSUME NEW t, NEW i, NEW p
    PROVE  BadEscapes(t, i, p) = {k \in i + 1..p : Escaped(t, i, k) /\ t[k] \notin DOMAIN Escapes}
  BY Zenon DEF BadEscapes

LEMMA AppendAt ==
    ASSUME NEW b, IsSeq(b), NEW x, NEW m, m = Len(b) + 1
    PROVE  /\ IsSeq(Append(b, x)) /\ Len(Append(b, x)) = m /\ Append(b, x)[m] = x
           /\ \A n \in 1..Len(b) : Append(b, x)[n] = b[n]
<1>1. PICK S : b \in Seq(S)
  BY DEF IsSeq
<1> DEFINE T == S \cup {x}
<1>2. b \in Seq(T) /\ x \in T
  BY <1>1
<1> HIDE DEF T
<1>3. Append(b, x) \in Seq(T)
  BY <1>2
<1> QED
  BY <1>2, <1>3 DEF IsSeq

LEMMA InIsFinite ==
    ASSUME NEW t, NEW i \in Nat, NEW p \in Nat
    PROVE  IsFiniteSet(In(t, i, p)) /\ Cardinality(In(t, i, p)) \in Nat
<1>1. In(t, i, p) \in SUBSET (i + 1..p) /\ IsFiniteSet(i + 1..p)
  BY FS_Interval DEF In
<1> QED
  BY <1>1, FS_Subset, FS_CardinalityType

LEMMA HoldsMore ==
    ASSUME NEW t, NEW i \in Nat, NEW p \in Nat, p >= i, NEW q, q = p + 1, NEW b, Holds(t, i, p, b),
           q \in In(t, i, q), NEW x, x = Unescaped(t, i, q)
    PROVE  Holds(t, i, q, Append(b, x))
<1>1. PICK S, T : S = In(t, i, p) /\ T = In(t, i, q)
  OBVIOUS
<1>2. T = S \cup {q} /\ q \notin S /\ \A k \in S : k \in Int /\ k <= p
  BY <1>1 DEF In
<1>3. IsFiniteSet(S) /\ Cardinality(S) \in Nat
  BY <1>1, InIsFinite
<1>4. Cardinality(T) = Cardinality(S) + 1
  BY <1>2, <1>3, FS_AddElement
<1>5. PICK m : m = Cardinality(T)
  OBVIOUS
<1>6. /\ IsSeq(b) /\ Len(b) = Cardinality(S)
      /\ \A k \in S : b[Rank(S, k)] = Unescaped(t, i, k)
      /\ \A n \in 1..Len(b) : \E k \in S : Rank(S, k) = n
  BY <1>1 DEF Holds
<1>7. PICK c : c = Append(b, x)
  OBVIOUS
<1>8. m = Len(b) + 1
  BY <1>4, <1>5, <1>6
<1>8a. IsSeq(c) /\ Len(c) = m /\ c[m] = x /\ \A n \in 1..Len(b) : c[n] = b[n]
  BY <1>6, <1>7, <1>8, AppendAt
<1>9. Rank(T, q) = m
  <2>1. {k \in T : k <= q} = T
    BY <1>2
  <2> QED
    BY <1>5, <2>1 DEF Rank
<1>10. ASSUME NEW k \in S PROVE Rank(T, k) = Rank(S, k) /\ Rank(S, k) \in 1..Len(b)
  <2> DEFINE R == {n \in S : n <= k}
  <2>1. {n \in T : n <= k} = R
    BY <1>2
  <2>2. R \in SUBSET S /\ k \in R
    BY <1>2
  <2>3. Rank(T, k) = Cardinality(R) /\ Rank(S, k) = Cardinality(R)
    BY <2>1 DEF Rank
  <2> HIDE DEF R
  <2>4. IsFiniteSet(R) /\ Cardinality(R) \in Nat /\ Cardinality(R) <= Cardinality(S)
    BY <1>3, <2>2, FS_Subset, FS_CardinalityType
  <2>5. Cardinality(R) # 0
    BY <2>2, <2>4, FS_EmptySet
  <2> QED
    BY <1>3, <1>6, <2>3, <2>4, <2>5
<1>11. ASSUME NEW k \in T PROVE c[Rank(T, k)] = Unescaped(t, i, k)
  BY <1>2, <1>6, <1>8a, <1>9, <1>10
<1>12. ASSUME NEW n \in 1..Len(c) PROVE \E k \in T : Rank(T, k) = n
  <2>1. CASE n = m
    BY <1>2, <1>9, <2>1
  <2>2. CASE n # m
    <3>1. n \in 1..Len(b)
      BY <1>3, <1>6, <1>8, <1>8a, <2>2
    <3>2. PICK k \in S : Rank(S, k) = n
      BY <1>6, <3>1
    <3> QED
      BY <1>2, <1>10, <3>2
  <2> QED
    BY <2>1, <2>2
<1> QED
  BY <1>1, <1>5, <1>7, <1>8a, <1>11, <1>12 DEF Holds


LEMMA HoldsSame ==
    ASSUME NEW t, NEW i \in Nat, NEW p \in Nat, NEW q, q = p + 1, NEW b, Holds(t, i, p, b),
           q \notin In(t, i, q)
    PROVE  Holds(t, i, q, b)
<1>1. In(t, i, q) = In(t, i, p)
  BY DEF In
<1> QED
  BY <1>1 DEF Holds

LEMMA HoldsNothing ==
    ASSUME NEW t, NEW i \in Nat
    PROVE  Holds(t, i, i, <<>>)
<1>1. In(t, i, i) = {}
  BY DEF In
<1>2. IsSeq(<<>>) /\ Len(<<>>) = 0 /\ Cardinality({}) = 0
  BY EmptyIsSeq, FS_EmptySet
<1> QED
  BY <1>1, <1>2 DEF Holds

LEMMA StringBegins ==
    ASSUME NEW t, Len(t) \in Nat, NEW i \in 1..Len(t), t[i] = Quote
    PROVE  StringTo(t, i, i) /\ ~ Escaped(t, i, i + 1)
<1>1. \A k : k \notin i + 1..i
  OBVIOUS
<1>2. Quotes(t, i, i) = {} /\ BadEscapes(t, i, i) = {}
  BY <1>1, QuotesAre, BadEscapesAre
<1> QED
  BY <1>2, NoneEscapedFirst DEF StringTo

LEMMA QuoteEscapes == Quote \in DOMAIN Escapes /\ Backslash \in DOMAIN Escapes
  BY Zenon DEF Quote, Backslash, Escapes

(* The next character is not the quote that ends the string.               *)
LEMMA StringGoesOn ==
    ASSUME NEW t, Len(t) \in Nat, NEW i \in Nat, NEW p, StringTo(t, i, p), NEW q, q = p + 1, q <= Len(t),
           Escaped(t, i, q) \/ t[q] # Quote, Escaped(t, i, q) => t[q] \in DOMAIN Escapes
    PROVE  /\ StringTo(t, i, q)
           /\ Escaped(t, i, q + 1) <=> t[q] = Backslash /\ ~ Escaped(t, i, q)
<1>1. p \in i..Len(t) /\ q \in i..Len(t) /\ q > i /\ q \in Int
  BY DEF StringTo
<1>2. Quotes(t, i, q) = {}
  <2>1. \A k \in i + 1..q : k = q \/ k \in i + 1..p
    BY <1>1
  <2> QED
    BY <2>1, QuotesAre DEF StringTo
<1>3. BadEscapes(t, i, q) = {}
  <2>1. \A k \in i + 1..q : k = q \/ k \in i + 1..p
    BY <1>1
  <2> QED
    BY <2>1, BadEscapesAre DEF StringTo
<1>4. Escaped(t, i, q + 1) <=> t[q] = Backslash /\ ~ Escaped(t, i, q)
  BY <1>1, EscapedNext
<1> QED
  BY <1>1, <1>2, <1>3, <1>4 DEF StringTo

Ranked(S, n) == CHOOSE k \in S : Cardinality({m \in S : m <= k}) = n
Told(t, i, S) == [n \in 1..Cardinality(S) |-> Unescaped(t, i, Ranked(S, n))]

LEMMA ContentIs ==
    ASSUME NEW t, NEW i \in Nat, NEW p \in Nat, NEW b, Holds(t, i, p, b), NEW s, s.i = i, s.j - 1 = p
    PROVE  Content(t, s) = b
<1>1. PICK S : S = In(t, i, p)
  OBVIOUS
<1>2. Inside(t, s) = S
  <2>1. Inside(t, s) = {k \in s.i + 1..s.j - 1 : t[k] # Backslash \/ Escaped(t, s.i, k)}
    BY Zenon DEF Inside, Backslash
  <2> QED
    BY <1>1, <2>1 DEF In
<1>3. Content(t, s) = Told(t, i, S)
  <2>1. Content(t, s) = Told(t, s.i, Inside(t, s))
    BY Zenon DEF Content, Told, Ranked
  <2> QED
    BY <1>2, <2>1
<1>4. /\ IsSeq(b) /\ Len(b) = Cardinality(S)
      /\ \A k \in S : b[Rank(S, k)] = Unescaped(t, i, k)
      /\ \A n \in 1..Len(b) : \E k \in S : Rank(S, k) = n
  BY <1>1 DEF Holds
<1>5. ASSUME NEW n \in 1..Len(b) PROVE b[n] = Unescaped(t, i, Ranked(S, n))
  <2>1. \E k \in S : Cardinality({m \in S : m <= k}) = n
    BY <1>4 DEF Rank
  <2>2. Ranked(S, n) \in S /\ Cardinality({m \in S : m <= Ranked(S, n)}) = n
    BY <2>1, Zenon DEF Ranked
  <2>3. Rank(S, Ranked(S, n)) = n
    BY <2>2, Zenon DEF Rank
  <2> QED
    BY <1>4, <2>2, <2>3
<1>6. b = [n \in 1..Len(b) |-> b[n]]
  <2>1. PICK T : b \in Seq(T)
    BY <1>4 DEF IsSeq
  <2> QED
    BY <2>1
<1> QED
  BY <1>3, <1>4, <1>5, <1>6 DEF Told

LEMMA StringMeans ==
    ASSUME NEW t \in Seq(STRING), NEW i \in 1..Len(t), NEW p, StringTo(t, i, p), NEW j, j = p + 1, j <= Len(t),
           ~ Escaped(t, i, j), t[j] = Quote, NEW b, Holds(t, i, p, b),
           NEW token, token.type = "string", token.at = PlaceOf(t, i), token.value = b
    PROVE  Ends(t, i) # {} /\ LastEnd(t, i) = j /\ Means(t, token, [i |-> i, j |-> j])
<1> DEFINE s == [i |-> i, j |-> j]
<1>1. /\ i \in Nat /\ Len(t) \in Nat /\ p \in i..Len(t) /\ j \in i..Len(t) /\ p \in Nat
      /\ t[i] = Quote /\ Quotes(t, i, p) = {} /\ BadEscapes(t, i, p) = {}
  BY DEF StringTo
<1>2. j \in i + 1..j /\ \A k \in i + 1..j : k = j \/ k \in i + 1..p
  BY <1>1
<1>3. Quotes(t, i, j) = {j}
  <2>1. \A k : k \in Quotes(t, i, j) <=> k = j
    BY <1>1, <1>2, QuotesAre
  <2> QED
    BY <2>1, Zenon
<1>4. BadEscapes(t, i, j) = {}
  BY <1>1, <1>2, BadEscapesAre
<1>5. IsString(t, i, j)
  BY <1>1, <1>3, <1>4, StringIs
<1>6. \A l \in i..Len(t) : \A k : k \in Kinds(t, i, l) <=> k = "string" /\ IsString(t, i, l)
  BY <1>1, QuoteBegins
<1>7. \A k : k \in Kinds(t, i, j) <=> k = "string"
  BY <1>1, <1>5, <1>6
<1>8. TheKind(t, s) = "string" /\ Kinds(t, i, j) # {}
  BY <1>7, TheKindIs, Zenon
<1>9. ASSUME NEW l \in j + 1..Len(t) PROVE Kinds(t, i, l) = {}
  <2>1. l \in i..Len(t) /\ j \in i + 1..l /\ l # j
    BY <1>1
  <2>2. j \in Quotes(t, i, l)
    BY <2>1, QuotesAre
  <2>3. ~ IsString(t, i, l)
    BY <2>1, <2>2, StringIs
  <2>4. \A k : k \notin Kinds(t, i, l)
    BY <1>6, <2>1, <2>3
  <2> QED
    BY <2>4
<1>10. Ends(t, i) # {} /\ LastEnd(t, i) = j
  BY <1>1, <1>8, <1>9, LastEndIs
<1>11. s.i = i /\ s.j = j /\ s.j - 1 = p
  BY <1>1
<1> HIDE DEF s
<1>12. Meaning(t, s) = b
  <2>1. Content(t, s) = b
    BY <1>1, <1>11, ContentIs
  <2> QED
    BY <1>8, <2>1 DEF Meaning
<1> QED
  BY <1>8, <1>10, <1>11, <1>12 DEF Means, s


-----------------------------------------------------------------------------
(* Where no token begins *)

Comma == ","
Brackets == {"[", "]"}

LEMMA FaultIs ==
    ASSUME NEW t, NEW i
    PROVE  FaultAt(t, i) =
              IF t[i] = Quote
              THEN IF BadEscapes(t, i, Len(t)) # {}
                   THEN [char |-> FirstOf(BadEscapes(t, i, Len(t))), says |-> "invalid escape"]
                   ELSE [char |-> i, says |-> IF Escaped(t, i, Len(t) + 1) THEN "unterminated escape"
                                                                          ELSE "unterminated"]
              ELSE [char |-> i, says |-> IF t[i] = Colon THEN "expected keyword name"
                                         ELSE IF t[i] \in Brackets THEN "brackets"
                                         ELSE IF t[i] = Comma THEN "commas" ELSE "unexpected"]
  BY Zenon DEF FaultAt, Quote, Colon, Brackets, Comma

LEMMA RefusalsSay ==
    /\ DOMAIN Refusals = Brackets \cup {Comma} /\ Comma \notin Brackets
    /\ \A c \in Brackets : Refusals[c] = "brackets"
    /\ Refusals[Comma] = "commas"
<1>1. "," \notin {"[", "]"}
  BY Zenon
<1> QED
  BY <1>1, Zenon DEF Refusals, Brackets, Comma

LEMMA NoEnds ==
    ASSUME NEW t, NEW i, \A j \in i..Len(t) : \A k : k \notin Kinds(t, i, j)
    PROVE  Ends(t, i) = {}
<1>1. \A j \in i..Len(t) : Kinds(t, i, j) = {}
  OBVIOUS
<1> QED
  BY <1>1 DEF Ends

LEMMA RefusedFault ==
    ASSUME NEW t, Len(t) \in Nat, NEW i \in 1..Len(t), t[i] \in DOMAIN Refusals
    PROVE  Ends(t, i) = {} /\ FaultAt(t, i) = [char |-> i, says |-> Refusals[t[i]]]
<1>1. t[i] \notin SymbolStart \cup Digits \cup DOMAIN Delims \cup {Quote, Colon}
  BY NoName, NoDelim, NoRefusal
<1>2. \A j \in i..Len(t) : Kinds(t, i, j) = {}
  BY <1>1, NothingBegins
<1>3. Ends(t, i) = {}
  BY <1>2 DEF Ends
<1>4. t[i] # Quote /\ t[i] # Colon
  BY <1>1
<1>5. CASE t[i] \in Brackets
  BY <1>3, <1>4, <1>5, FaultIs, RefusalsSay, Zenon
<1>6. CASE t[i] = Comma
  BY <1>3, <1>4, <1>6, FaultIs, RefusalsSay, Zenon
<1> QED
  BY <1>5, <1>6, RefusalsSay

LEMMA UnexpectedFault ==
    ASSUME NEW t, Len(t) \in Nat, NEW i \in 1..Len(t),
           t[i] \notin SymbolStart \cup Digits \cup DOMAIN Delims \cup DOMAIN Refusals \cup {Quote, Colon}
    PROVE  Ends(t, i) = {} /\ FaultAt(t, i) = [char |-> i, says |-> "unexpected"]
<1>1. t[i] \notin SymbolStart \cup Digits \cup DOMAIN Delims \cup {Quote, Colon}
  OBVIOUS
<1>2. \A j \in i..Len(t) : Kinds(t, i, j) = {}
  BY <1>1, NothingBegins
<1>3. Ends(t, i) = {}
  BY <1>2 DEF Ends
<1>4. t[i] # Quote /\ t[i] # Colon /\ t[i] \notin Brackets /\ t[i] # Comma
  BY RefusalsSay
<1> QED
  BY <1>3, <1>4, FaultIs, Zenon

LEMMA ColonFault ==
    ASSUME NEW t, Len(t) \in Nat, NEW i \in 1..Len(t), t[i] = Colon,
           ~ (i + 1 <= Len(t) /\ t[i + 1] \in Letters)
    PROVE  Ends(t, i) = {} /\ FaultAt(t, i) = [char |-> i, says |-> "expected keyword name"]
<1>1. ASSUME NEW j \in i..Len(t) PROVE \A k : k \notin Kinds(t, i, j)
  <2>1. ~ IsKeyword(t, i, j)
    BY KeywordIs
  <2> QED
    BY <2>1, ColonBegins
<1>2. Ends(t, i) = {}
  BY <1>1, NoEnds
<1>3. t[i] # Quote
  BY CharactersDiffer
<1> QED
  BY <1>2, <1>3, FaultIs, Zenon

LEMMA EscapeFault ==
    ASSUME NEW t, Len(t) \in Nat, NEW i \in 1..Len(t), NEW p, StringTo(t, i, p), NEW q, q = p + 1, q <= Len(t),
           Escaped(t, i, q), t[q] \notin DOMAIN Escapes
    PROVE  Ends(t, i) = {} /\ FaultAt(t, i) = [char |-> q, says |-> "invalid escape"]
<1>1. /\ i \in Nat /\ p \in i..Len(t) /\ q \in i + 1..Len(t) /\ q \in Nat
      /\ t[i] = Quote /\ Quotes(t, i, p) = {} /\ BadEscapes(t, i, p) = {}
  BY DEF StringTo
<1>2. ASSUME NEW j \in i..Len(t), IsString(t, i, j) PROVE FALSE
  <2>1. j > i /\ j \in Quotes(t, i, j) /\ BadEscapes(t, i, j) = {}
    BY <1>2, StringIs
  <2>2. t[j] = Quote /\ ~ Escaped(t, i, j)
    BY <2>1, QuotesAre
  <2>3. ~ (j \in i + 1..p)
    BY <1>1, <2>2, QuotesAre
  <2>4. q \in i + 1..j
    BY <1>1, <2>1, <2>3
  <2> QED
    BY <2>1, <2>4, BadEscapesAre
<1>3. \A j \in i..Len(t) : \A k : k \notin Kinds(t, i, j)
  BY <1>1, <1>2, QuoteBegins
<1>4. Ends(t, i) = {}
  BY <1>3, NoEnds
<1> DEFINE S == BadEscapes(t, i, Len(t))
<1>5. FirstOf(S) = q /\ S # {}
  <2>1. S \in SUBSET Int /\ q \in S
    BY <1>1, BadEscapesAre
  <2>2. ASSUME NEW k \in S PROVE q <= k
    <3>1. k \in i + 1..Len(t) /\ Escaped(t, i, k) /\ t[k] \notin DOMAIN Escapes
      BY BadEscapesAre
    <3>2. ~ (k \in i + 1..p)
      BY <1>1, <3>1, BadEscapesAre
    <3> QED
      BY <1>1, <3>1, <3>2
  <2> HIDE DEF S
  <2> QED
    BY <2>1, <2>2, FirstIs
<1> QED
  BY <1>1, <1>4, <1>5, FaultIs, Zenon

LEMMA UnterminatedFault ==
    ASSUME NEW t, Len(t) \in Nat, NEW i \in 1..Len(t), NEW p, p = Len(t), StringTo(t, i, p),
           NEW q, q = p + 1
    PROVE  /\ Ends(t, i) = {}
           /\ FaultAt(t, i) = [char |-> i, says |-> IF Escaped(t, i, q) THEN "unterminated escape"
                                                                      ELSE "unterminated"]
<1>1. i \in Nat /\ t[i] = Quote /\ Quotes(t, i, Len(t)) = {} /\ BadEscapes(t, i, Len(t)) = {}
  BY DEF StringTo
<1>2. ASSUME NEW j \in i..Len(t), IsString(t, i, j) PROVE FALSE
  <2>1. j > i /\ j \in Quotes(t, i, j)
    BY <1>2, StringIs
  <2>2. t[j] = Quote /\ ~ Escaped(t, i, j)
    BY <2>1, QuotesAre
  <2>3. j \in i + 1..Len(t)
    BY <1>1, <2>1
  <2> QED
    BY <1>1, <2>2, <2>3, QuotesAre
<1>3. \A j \in i..Len(t) : \A k : k \notin Kinds(t, i, j)
  BY <1>1, <1>2, QuoteBegins
<1>4. Ends(t, i) = {}
  BY <1>3, NoEnds
<1>5. FaultAt(t, i) = [char |-> i, says |-> IF Escaped(t, i, Len(t) + 1) THEN "unterminated escape"
                                                                          ELSE "unterminated"]
  BY <1>1, FaultIs, Zenon
<1> QED
  BY <1>4, <1>5


-----------------------------------------------------------------------------
(* The invariant: the tokens so far, and what is being read, are the text's *)

(* What is being read began with character i, which is no blank.           *)
Began(i) ==
    /\ i \in 1..Len(src) /\ ~ Blank(src, i)
    /\ ReadTo(src, tokens, i) /\ start = PlaceOf(src, i)

StringSoFar ==
    \E i : /\ Began(i) /\ StringTo(src, i, pos) /\ Holds(src, i, pos, buf)
           /\ Escaped(src, i, pos + 1) <=> mode = "escape"

NumberSoFar ==
    \E i : /\ Began(i)
           /\ begin + 1 = Unsigned(src, i) /\ (negative <=> src[i] = Minus)
           /\ begin <= pos /\ begin + 1 <= Len(src) /\ src[begin + 1] \in Digits

WholeSoFar == \A k \in begin + 1..pos : src[k] \in Digits
FractionSoFar ==
    \E k \in begin + 2..pos :
        /\ AllDigits(src, begin + 1, k - 1) /\ src[k] = Point
        /\ k + 1 <= Len(src) /\ src[k + 1] \in Digits
        /\ \A m \in k + 1..pos : src[m] \in Digits

SymbolSoFar ==
    \E i : /\ Began(i) /\ i = begin + 1 /\ i <= pos /\ IsName(src, i, pos)
           /\ ~ (src[i] = Minus /\ i + 1 <= Len(src) /\ src[i + 1] \in Digits)

KeywordSoFar ==
    \E i : /\ Began(i) /\ i = begin /\ i <= pos /\ src[i] = Colon
           /\ i + 1 <= Len(src) /\ src[i + 1] \in Letters
           /\ \A k \in i + 1..pos : src[k] \in SymbolCont

Ended ==
    /\ error.says = Reading(src).fault.says
    /\ error # NoError /\ ~ Misplaced => error.at = PlaceOf(src, Reading(src).fault.char)
    /\ Misplaced => src[Reading(src).fault.char] = Newline
    /\ IF error = NoError THEN ReadTo(src, tokens, Len(src) + 1) ELSE tokens = <<>>

SoFar ==
    /\ mode # "done" => error = NoError
    /\ mode = "between" => ReadTo(src, tokens, pos + 1)
    /\ mode = "comment" => ReadTo(src, tokens, LineEnd(src, pos + 1))
    /\ mode \in {"string", "escape"} => StringSoFar
    /\ mode = "number" => NumberSoFar /\ WholeSoFar
    /\ mode = "fraction" => NumberSoFar /\ FractionSoFar
    /\ mode = "symbol" => SymbolSoFar
    /\ mode = "keyword" => KeywordSoFar
    /\ mode = "done" => Ended

TextInv == TokInv /\ Located /\ SoFar

-----------------------------------------------------------------------------
(* Where a step is *)

LEMMA Sizes ==
    ASSUME TokInv
    PROVE  pos \in Nat /\ Len(src) \in Nat /\ pos <= Len(src) /\ src \in Seq(STRING) /\ IsSeq(tokens)
  BY Within DEF TokInv

(* The next character is number i.                                         *)
LEMMA Consumed ==
    ASSUME TokInv, Located, ~ AtEnd
    PROVE  \E i : /\ i = pos + 1 /\ i \in 1..Len(src) /\ i \in Nat /\ Char = src[i] /\ Here = PlaceOf(src, i)
                  /\ i <= Len(src) /\ (Advance => pos' = i)
<1>1. pos \in Nat /\ Len(src) \in Nat /\ pos < Len(src)
  BY Sizes DEF AtEnd
<1>2. Advance => pos' = pos + 1
  BY DEF Advance
<1> QED
  BY <1>1, <1>2 DEF Char, Located

LEMMA TextCall ==
    ASSUME TextInv, Call
    PROVE  SoFar'
<1>1. /\ mode = "call" /\ mode' = "between" /\ pos' = pos /\ tokens' = tokens /\ error' = error
      /\ pos = 0 /\ tokens = <<>>
  BY DEF Call, place, TextInv, TokInv, Fresh
<1>2. TokInv'
  BY CallKeeps DEF TextInv
<1>3. Len(src') \in Nat
  BY <1>2 DEF TokInv
<1>4. ReadTo(src', <<>>, 1)
  BY <1>3, ReadNothing
<1>5. ReadTo(src', tokens', pos' + 1)
  BY <1>1, <1>4
<1> QED
  BY <1>1, <1>5 DEF SoFar, TextInv

(* Blanks *)
LEMMA TextBlanks ==
    ASSUME TextInv, SkipSpace \/ StartComment \/ SkipComment \/ EndComment
    PROVE  SoFar'
<1>1. /\ TokInv /\ Located /\ error = NoError /\ mode \in {"between", "comment"}
      /\ mode = "between" => ReadTo(src, tokens, pos + 1)
      /\ mode = "comment" => ReadTo(src, tokens, LineEnd(src, pos + 1))
  BY DEF TextInv, SoFar, SkipSpace, StartComment, SkipComment, EndComment
<1>2. pos \in Nat /\ Len(src) \in Nat /\ pos <= Len(src)
  BY <1>1, Sizes
<1>3. ASSUME NEW goal, Go(goal) PROVE UNCHANGED <<src, tokens, error>> /\ mode' = goal
  BY <1>3 DEF Go, result
<1>4. CASE SkipSpace
  <2>1. mode = "between" /\ ~ AtEnd /\ Char \in Space /\ Advance /\ Go("between")
    BY <1>4 DEF SkipSpace, Sees
  <2>2. PICK i : i = pos + 1 /\ i \in 1..Len(src) /\ Char = src[i] /\ pos' = i
    BY <1>1, <2>1, Consumed
  <2>3. ReadTo(src, tokens, Beyond(src, i))
    BY <1>1, <1>2, <2>1, <2>2, ReadBlank DEF Blank
  <2>4. Beyond(src, i) = pos' + 1
    BY <2>1, <2>2 DEF Beyond
  <2>5. ReadTo(src', tokens', pos' + 1) /\ mode' = "between" /\ error' = NoError
    BY <1>1, <1>3, <2>1, <2>3, <2>4
  <2> QED
    BY <2>5 DEF SoFar
<1>5. CASE StartComment
  <2>1. mode = "between" /\ ~ AtEnd /\ Char = Semicolon /\ Advance /\ Go("comment")
    BY <1>5, Zenon DEF StartComment, Sees, Semicolon
  <2>2. PICK i : i = pos + 1 /\ i \in 1..Len(src) /\ Char = src[i] /\ pos' = i
    BY <1>1, <2>1, Consumed
  <2>3. ReadTo(src, tokens, Beyond(src, i))
    BY <1>1, <1>2, <2>1, <2>2, ReadBlank DEF Blank
  <2>4. PICK j : j = i + 1
    OBVIOUS
  <2>5. Beyond(src, i) = LineEnd(src, j)
    <3>1. src[i] # Newline /\ src[i] \notin Space
      BY <2>1, <2>2, NoSpace, CharactersDiffer
    <3>2. LineEnd(src, i) = LineEnd(src, j)
      BY <1>2, <2>2, <2>4, <3>1, LineEndIs
    <3> QED
      BY <2>1, <2>2, <3>1, <3>2 DEF Beyond
  <2>6. ReadTo(src', tokens', LineEnd(src', pos' + 1)) /\ mode' = "comment" /\ error' = NoError
    BY <1>1, <1>3, <2>1, <2>2, <2>3, <2>4, <2>5
  <2> QED
    BY <2>6 DEF SoFar
<1>6. CASE SkipComment
  <2>1. mode = "comment" /\ ~ AtEnd /\ Char # Newline /\ Advance /\ Go("comment")
    BY <1>6, Zenon DEF SkipComment, Newline
  <2>2. PICK i : i = pos + 1 /\ i \in 1..Len(src) /\ Char = src[i] /\ pos' = i
    BY <1>1, <2>1, Consumed
  <2>3. PICK j : j = i + 1
    OBVIOUS
  <2>4. LineEnd(src, i) = LineEnd(src, j)
    BY <1>2, <2>1, <2>2, <2>3, LineEndIs
  <2>5. ReadTo(src', tokens', LineEnd(src', pos' + 1)) /\ mode' = "comment" /\ error' = NoError
    BY <1>1, <1>3, <2>1, <2>2, <2>3, <2>4
  <2> QED
    BY <2>5 DEF SoFar
<1>7. CASE EndComment
  <2>1. mode = "comment" /\ (AtEnd \/ Char = Newline) /\ pos' = pos /\ Go("between")
    BY <1>7, Zenon DEF EndComment, Newline, place
  <2>2. PICK i, j : i = pos + 1 /\ j = i + 1
    OBVIOUS
  <2>3. i \in 1..Len(src) + 1 /\ (i = Len(src) + 1 \/ (i <= Len(src) /\ src[i] = Newline))
    BY <1>2, <2>1, <2>2 DEF AtEnd, Char
  <2>4. LineEnd(src, i) = i
    BY <1>2, <2>2, <2>3, LineEndIs
  <2>5. ReadTo(src', tokens', pos' + 1) /\ mode' = "between" /\ error' = NoError
    BY <1>1, <1>3, <2>1, <2>2, <2>4
  <2> QED
    BY <2>5 DEF SoFar
<1> QED
  BY <1>4, <1>5, <1>6, <1>7


(* Ends *)
LEMMA TextFinish ==
    ASSUME TextInv, Finish
    PROVE  SoFar'
<1>1. /\ TokInv /\ error = NoError /\ ReadTo(src, tokens, pos + 1) /\ AtEnd
      /\ mode' = "done" /\ UNCHANGED <<src, tokens, error>>
  BY DEF TextInv, SoFar, Finish, Go, result
<1>2. Len(src) \in Nat /\ IsSeq(tokens) /\ ReadTo(src, tokens, Len(src) + 1)
  <2>1. pos = Len(src) /\ Len(src) \in Nat /\ IsSeq(tokens)
    BY <1>1, Sizes DEF AtEnd
  <2> QED
    BY <1>1, <2>1
<1>3. Reading(src).fault = NoFault
  BY <1>2, ReadAll
<1>4. error.says = "" /\ Reading(src).fault.says = ""
  <2>1. NoError = [at |-> At(0, 0), says |-> ""] /\ NoFault = [char |-> 0, says |-> ""]
    BY Zenon DEF NoError, NoFault
  <2>2. NoError.says = "" /\ NoFault.says = ""
    BY <2>1
  <2> QED
    BY <1>1, <1>3, <2>2
<1>5. Ended'
  <2>1. ~ Misplaced'
    BY <1>1, <1>4 DEF Misplaced
  <2> QED
    BY <1>1, <1>2, <1>4, <2>1 DEF Ended
<1> QED
  BY <1>1, <1>5 DEF SoFar

(* An error is the text's fault. *)
LEMMA FailEnds ==
    ASSUME NEW at, NEW says, Fail(at, says), says # "", NEW i,
           Reading(src).fault = [char |-> i, says |-> says],
           IF says = "invalid escape" /\ at.col = 0 THEN src[i] = Newline ELSE at = PlaceOf(src, i)
    PROVE  SoFar'
<1>1. mode' = "done" /\ tokens' = <<>> /\ error' = [at |-> at, says |-> says] /\ src' = src
  BY DEF Fail
<1>2. error'.at = at /\ error'.says = says
  BY <1>1
<1>3. Reading(src).fault.char = i /\ Reading(src).fault.says = says
  <2>1. PICK f : f = [char |-> i, says |-> says]
    OBVIOUS
  <2>2. f.char = i /\ f.says = says
    BY <2>1
  <2> QED
    BY <2>1, <2>2, Zenon
<1>4. error' # NoError
  <2>1. NoError = [at |-> At(0, 0), says |-> ""]
    BY Zenon DEF NoError
  <2>2. NoError.says = ""
    BY <2>1
  <2> QED
    BY <1>2, <2>2
<1>5. Misplaced' <=> says = "invalid escape" /\ at.col = 0
  BY <1>2 DEF Misplaced
<1>6. Ended'
  BY <1>1, <1>2, <1>3, <1>4, <1>5 DEF Ended
<1> QED
  BY <1>1, <1>6 DEF SoFar

LEMMA TextRefusals ==
    ASSUME TextInv, Refuse \/ Unexpected \/ BareColon
    PROVE  SoFar'
<1>1. /\ TokInv /\ Located /\ ~ AtEnd /\ ReadTo(src, tokens, pos + 1)
  BY DEF TextInv, SoFar, Refuse, Unexpected, BareColon, Sees
<1>2. pos \in Nat /\ Len(src) \in Nat
  BY <1>1, Sizes
<1>3. PICK i : /\ i = pos + 1 /\ i \in 1..Len(src) /\ i <= Len(src) /\ i \in Nat
               /\ Char = src[i] /\ Here = PlaceOf(src, i)
  BY <1>1, Consumed
<1>4. ASSUME NEW says, says # "", says # "invalid escape", ~ Blank(src, i), Ends(src, i) = {}, Fail(Here, says),
             FaultAt(src, i) = [char |-> i, says |-> says]
      PROVE  SoFar'
  <2>1. Reading(src).fault = FaultAt(src, i)
    BY <1>1, <1>2, <1>3, <1>4, ReadFault
  <2> QED
    BY <1>3, <1>4, <2>1, FailEnds
<1>5. CASE Refuse
  <2>1. Char \in DOMAIN Refusals /\ Fail(Here, Refusals[Char])
    BY <1>5 DEF Refuse, Sees
  <2>2. ~ Blank(src, i)
    BY <1>3, <2>1, NoSpace, NoRefusal DEF Blank
  <2>3. Refusals[Char] \in {"brackets", "commas"}
    BY <2>1, RefusalsSay
  <2> QED
    BY <1>2, <1>3, <1>4, <2>1, <2>2, <2>3, RefusedFault
<1>6. CASE Unexpected
  <2>1. Char \notin Space \cup Digits \cup SymbolStart \cup DOMAIN Delims
                       \cup DOMAIN Refusals \cup {Semicolon, Quote, Colon}
        /\ Fail(Here, "unexpected")
    BY <1>6, Zenon DEF Unexpected, Semicolon, Quote, Colon
  <2>2. ~ Blank(src, i)
    BY <1>3, <2>1 DEF Blank
  <2>3. Ends(src, i) = {} /\ FaultAt(src, i) = [char |-> i, says |-> "unexpected"]
    BY <1>2, <1>3, <2>1, UnexpectedFault
  <2> QED
    BY <1>4, <2>1, <2>2, <2>3
<1>7. CASE BareColon
  <2>1. Char = Colon /\ ~ ThenSees(Letters) /\ Fail(Here, "expected keyword name")
    BY <1>7, Zenon DEF BareColon, Sees, Colon
  <2>2. ~ Blank(src, i)
    BY <1>3, <2>1, NoSpace, CharactersDiffer DEF Blank
  <2>3. ~ (i + 1 <= Len(src) /\ src[i + 1] \in Letters)
    <3>1. pos + 2 = i + 1
      BY <1>2, <1>3
    <3> QED
      BY <2>1, <3>1 DEF ThenSees
  <2>4. Ends(src, i) = {} /\ FaultAt(src, i) = [char |-> i, says |-> "expected keyword name"]
    BY <1>2, <1>3, <2>1, <2>3, ColonFault
  <2> QED
    BY <1>4, <2>1, <2>2, <2>4
<1> QED
  BY <1>5, <1>6, <1>7

LEMMA TextBadStrings ==
    ASSUME TextInv, BadEscape \/ Unterminated
    PROVE  SoFar'
<1>1. TokInv /\ Located /\ mode \in {"string", "escape"} /\ StringSoFar
  BY DEF TextInv, SoFar, BadEscape, Unterminated
<1>2. pos \in Nat /\ Len(src) \in Nat /\ pos <= Len(src)
  BY <1>1, Sizes
<1>3. PICK i : /\ Began(i) /\ StringTo(src, i, pos)
               /\ Escaped(src, i, pos + 1) <=> mode = "escape"
  BY <1>1 DEF StringSoFar
<1>4. /\ i \in 1..Len(src) /\ i <= Len(src) /\ ~ Blank(src, i) /\ ReadTo(src, tokens, i) /\ start = PlaceOf(src, i)
  BY <1>3 DEF Began
<1>5. CASE BadEscape
  <2>1. mode = "escape" /\ ~ AtEnd /\ Char \notin DOMAIN Escapes /\ Advance
        /\ Fail(At(line', col' - 1), "invalid escape")
    BY <1>5 DEF BadEscape
  <2>2. PICK q : /\ q = pos + 1 /\ q \in 1..Len(src) /\ q <= Len(src)
                 /\ Char = src[q] /\ Here = PlaceOf(src, q)
    BY <1>1, <2>1, Consumed
  <2>3. Ends(src, i) = {} /\ FaultAt(src, i) = [char |-> q, says |-> "invalid escape"]
    BY <1>2, <1>3, <1>4, <2>1, <2>2, EscapeFault
  <2>4. Reading(src).fault = [char |-> q, says |-> "invalid escape"]
    BY <1>2, <1>4, <2>3, ReadFault
  <2>5. PICK at : at = At(line', col' - 1)
    OBVIOUS
  <2>6. at.col = col' - 1
    BY <2>5 DEF At
  <2>7. col \in Nat \ {0}
    BY <1>1 DEF TokInv, BuffersFit, TypeOK
  <2>8. CASE Char = Newline
    <3>1. col' = 1
      BY <2>1, <2>8, Zenon DEF Advance, Newline
    <3>2. at.col = 0 /\ src[q] = Newline
      BY <2>2, <2>6, <2>8, <3>1
    <3> QED
      BY <2>1, <2>4, <2>5, <3>2, FailEnds
  <2>9. CASE Char # Newline
    <3>1. col' = col + 1 /\ line' = line
      BY <2>1, <2>9, Zenon DEF Advance, Newline
    <3>2. at.col # 0 /\ at = PlaceOf(src, q)
      BY <2>2, <2>5, <2>6, <2>7, <3>1 DEF Here
    <3> QED
      BY <2>1, <2>4, <2>5, <3>2, FailEnds
  <2> QED
    BY <2>8, <2>9
<1>6. CASE Unterminated
  <2>1. PICK says : says = IF mode = "string" THEN "unterminated" ELSE "unterminated escape"
    OBVIOUS
  <2>2. AtEnd /\ Fail(start, says)
    BY <1>6, <2>1 DEF Unterminated
  <2>3. PICK q : q = pos + 1 /\ pos = Len(src)
    BY <1>2, <2>2 DEF AtEnd
  <2>4. /\ Ends(src, i) = {}
        /\ FaultAt(src, i) = [char |-> i, says |-> IF Escaped(src, i, q) THEN "unterminated escape"
                                                                        ELSE "unterminated"]
    BY <1>2, <1>3, <1>4, <2>3, UnterminatedFault
  <2>5. says = IF Escaped(src, i, q) THEN "unterminated escape" ELSE "unterminated"
    BY <1>1, <1>3, <2>1, <2>3
  <2>6. Reading(src).fault = [char |-> i, says |-> says]
    BY <1>2, <1>4, <2>4, <2>5, ReadFault
  <2>7. says # "" /\ says # "invalid escape"
    BY <2>1
  <2> QED
    BY <1>4, <2>2, <2>6, <2>7, FailEnds
<1> QED
  BY <1>5, <1>6


(* Beginnings *)
LEMMA BeganNow ==
    ASSUME TextInv, mode = "between", NEW i, i = pos + 1, i \in 1..Len(src), ~ Blank(src, i),
           Here = PlaceOf(src, i), start' = Here, UNCHANGED <<src, tokens>>
    PROVE  Began(i)'
<1>1. ReadTo(src, tokens, i)
  BY DEF TextInv, SoFar
<1> QED
  BY <1>1 DEF Began

LEMMA BeganStays ==
    ASSUME NEW i, Began(i), UNCHANGED <<src, tokens, start>>
    PROVE  Began(i)'
  BY DEF Began

LEMMA TextStarts ==
    ASSUME TextInv, StartString \/ StartNumber \/ StartNegative \/ StartSymbol \/ StartKeyword
    PROVE  SoFar'
<1>1. TokInv /\ Located /\ mode = "between" /\ ~ AtEnd /\ error = NoError /\ UNCHANGED <<src, tokens, error>>
      /\ start' = Here
  BY DEF TextInv, SoFar, StartString, StartNumber, StartNegative, StartSymbol, StartKeyword, Sees, Start, result
<1>2. pos \in Nat /\ Len(src) \in Nat
  BY <1>1, Sizes
<1>3. PICK i : /\ i = pos + 1 /\ i \in 1..Len(src) /\ i <= Len(src) /\ i \in Nat
               /\ Char = src[i] /\ Here = PlaceOf(src, i) /\ (Advance => pos' = i)
  BY <1>1, Consumed
<1>4. ASSUME ~ Blank(src, i) PROVE Began(i)'
  BY <1>1, <1>3, <1>4, BeganNow
<1>5. error' = NoError
  BY <1>1
<1>6. CASE StartString
  <2>1. Char = Quote /\ Advance /\ mode' = "string" /\ buf' = <<>>
    BY <1>6, Zenon DEF StartString, Sees, Quote
  <2>2. Began(i)'
    BY <1>3, <1>4, <2>1, NoSpace, CharactersDiffer DEF Blank
  <2>3. StringTo(src, i, i) /\ ~ Escaped(src, i, i + 1)
    BY <1>2, <1>3, <2>1, StringBegins
  <2>4. Holds(src, i, i, <<>>)
    BY <1>3, HoldsNothing
  <2>5. StringSoFar'
    BY <1>1, <1>3, <2>1, <2>2, <2>3, <2>4 DEF StringSoFar
  <2> QED
    BY <1>5, <2>1, <2>5 DEF SoFar
<1>7. CASE StartNumber
  <2>1. Char \in Digits /\ mode' = "number" /\ begin' = pos + 0 /\ negative' = FALSE /\ pos' = pos
    BY <1>7 DEF StartNumber, Sees, Start, place
  <2>2. Began(i)' /\ src[i] # Minus
    BY <1>3, <1>4, <2>1, NoSpace, NoDigit DEF Blank
  <2>3. begin' = pos /\ begin' + 1 = i /\ begin' <= pos' /\ Unsigned(src, i) = i
    BY <1>2, <1>3, <2>1, <2>2, UnsignedIs
  <2>4. NumberSoFar'
    BY <1>1, <1>3, <2>1, <2>2, <2>3 DEF NumberSoFar
  <2>5. WholeSoFar'
    BY <1>2, <2>1, <2>3 DEF WholeSoFar
  <2> QED
    BY <1>5, <2>1, <2>4, <2>5 DEF SoFar
<1>8. CASE StartNegative
  <2>1. Char = Minus /\ ThenSees(Digits) /\ Advance /\ mode' = "number" /\ begin' = pos + 1 /\ negative' = TRUE
    BY <1>8, Zenon DEF StartNegative, Sees, Start, Minus
  <2>2. Began(i)' /\ src[i] = Minus
    BY <1>3, <1>4, <2>1, NoSpace, CharactersDiffer DEF Blank
  <2>3. PICK u : u = i + 1
    OBVIOUS
  <2>4. u = pos + 2
    BY <1>2, <1>3, <2>3
  <2>5. begin' = i /\ begin' + 1 = u /\ Unsigned(src, i) = u /\ pos' = i
    BY <1>3, <2>1, <2>2, <2>3, UnsignedIs
  <2>6. u <= Len(src) /\ src[u] \in Digits
    BY <2>1, <2>4 DEF ThenSees
  <2>7. NumberSoFar'
    BY <1>1, <1>3, <2>1, <2>2, <2>5, <2>6 DEF NumberSoFar
  <2>8. WholeSoFar'
    BY <1>3, <2>3, <2>5 DEF WholeSoFar
  <2> QED
    BY <1>5, <2>1, <2>7, <2>8 DEF SoFar
<1>9. CASE StartSymbol
  <2>1. Char \in SymbolStart /\ ~ (Char = Minus /\ ThenSees(Digits)) /\ Advance
        /\ mode' = "symbol" /\ begin' = pos + 0
    BY <1>9, Zenon DEF StartSymbol, Sees, Start, Minus
  <2>2. ~ Blank(src, i)
    BY <1>3, <2>1, NoName DEF Blank
  <2>3. Began(i)' /\ begin' + 1 = i /\ pos' = i
    BY <1>2, <1>3, <1>4, <2>1, <2>2
  <2>4. ~ (src[i] = Minus /\ i + 1 <= Len(src) /\ src[i + 1] \in Digits)
    <3>1. pos + 2 = i + 1
      BY <1>2, <1>3
    <3> QED
      BY <1>3, <2>1, <3>1 DEF ThenSees
  <2>5. IsName(src, i, i)
    <3>1. \A k : k \notin i + 1..i
      BY <1>3
    <3>2. ~ (i > i)
      BY <1>3
    <3> QED
      BY <1>3, <2>1, <3>1, <3>2, NameIs
  <2>6. SymbolSoFar'
    BY <1>1, <1>3, <2>3, <2>4, <2>5 DEF SymbolSoFar
  <2> QED
    BY <1>5, <2>1, <2>6 DEF SoFar
<1>10. CASE StartKeyword
  <2>1. Char = Colon /\ ThenSees(Letters) /\ Advance /\ mode' = "keyword" /\ begin' = pos + 1
    BY <1>10, Zenon DEF StartKeyword, Sees, Start, Colon
  <2>2. Began(i)'
    BY <1>3, <1>4, <2>1, NoSpace, CharactersDiffer DEF Blank
  <2>3. i + 1 <= Len(src) /\ src[i + 1] \in Letters
    <3>1. pos + 2 = i + 1
      BY <1>2, <1>3
    <3> QED
      BY <2>1, <3>1 DEF ThenSees
  <2>4. begin' = i /\ pos' = i /\ \A k : k \notin i + 1..i
    BY <1>2, <1>3, <2>1
  <2>5. KeywordSoFar'
    <3>1. src' = src /\ src[i] = Colon /\ i <= pos' /\ i = begin'
      BY <1>1, <1>3, <2>1, <2>4
    <3>2. \A k \in i + 1..pos' : src'[k] \in SymbolCont
      BY <2>4
    <3> QED
      BY <2>2, <2>3, <3>1, <3>2 DEF KeywordSoFar
  <2> QED
    BY <1>5, <2>1, <2>5 DEF SoFar
<1> QED
  BY <1>6, <1>7, <1>8, <1>9, <1>10


(* What goes on *)
LEMMA TextStrings ==
    ASSUME TextInv, StringChar \/ Escape \/ EscapedChar
    PROVE  SoFar'
<1>1. /\ TokInv /\ Located /\ mode \in {"string", "escape"} /\ ~ AtEnd /\ Advance /\ error = NoError
      /\ UNCHANGED <<src, tokens, error, start>> /\ StringSoFar
  BY DEF TextInv, SoFar, StringChar, Escape, EscapedChar, Sees, Go, result, scratch
<1>2. pos \in Nat /\ Len(src) \in Nat
  BY <1>1, Sizes
<1>3. PICK i : /\ Began(i) /\ StringTo(src, i, pos) /\ Holds(src, i, pos, buf)
               /\ Escaped(src, i, pos + 1) <=> mode = "escape"
  BY <1>1 DEF StringSoFar
<1>4. i \in Nat /\ pos >= i /\ Began(i)'
  <2>1. i \in Nat /\ pos >= i
    BY <1>2, <1>3 DEF StringTo, Began
  <2> QED
    BY <1>1, <1>3, <2>1, BeganStays
<1>5. PICK q : /\ q = pos + 1 /\ q \in 1..Len(src) /\ q <= Len(src) /\ q \in Nat
               /\ Char = src[q] /\ pos' = q
  BY <1>1, Consumed
<1>6. q \in i + 1..q
  BY <1>2, <1>4, <1>5
<1>7. In(src, i, q) = {k \in i + 1..q : src[k] # Backslash \/ Escaped(src, i, k)}
  BY DEF In
<1>8. ASSUME mode' \in {"string", "escape"}, StringTo(src, i, q), Holds(src, i, q, buf'),
             Escaped(src, i, q + 1) <=> mode' = "escape"
      PROVE  SoFar'
  <2>1. StringSoFar'
    BY <1>1, <1>4, <1>5, <1>8 DEF StringSoFar
  <2> QED
    BY <1>1, <1>8, <2>1 DEF SoFar
<1>9. CASE StringChar
  <2>1. mode = "string" /\ mode' = "string" /\ Char \notin {Quote, Backslash} /\ Put(Char)
    BY <1>9, Zenon DEF StringChar, Quote, Backslash
  <2>2. buf' = Append(buf, src[q]) /\ ~ Escaped(src, i, q)
    BY <1>3, <1>5, <2>1 DEF Put
  <2>3. StringTo(src, i, q) /\ ~ Escaped(src, i, q + 1)
    BY <1>2, <1>3, <1>4, <1>5, <2>1, <2>2, StringGoesOn
  <2>4. q \in In(src, i, q) /\ src[q] = Unescaped(src, i, q)
    BY <1>5, <1>6, <1>7, <2>1, <2>2 DEF Unescaped
  <2>5. Holds(src, i, q, buf')
    BY <1>2, <1>3, <1>4, <1>5, <2>2, <2>4, HoldsMore
  <2> QED
    BY <1>8, <2>1, <2>3, <2>5
<1>10. CASE Escape
  <2>1. mode = "string" /\ mode' = "escape" /\ Char = Backslash /\ buf' = buf
    BY <1>10, Zenon DEF Escape, Sees, Go, scratch, Backslash
  <2>2. ~ Escaped(src, i, q) /\ src[q] = Backslash /\ Backslash # Quote
    BY <1>3, <1>5, <2>1, CharactersDiffer
  <2>3. StringTo(src, i, q) /\ Escaped(src, i, q + 1)
    BY <1>2, <1>3, <1>4, <1>5, <2>2, StringGoesOn
  <2>4. q \notin In(src, i, q)
    BY <1>7, <2>2
  <2>5. Holds(src, i, q, buf')
    BY <1>2, <1>3, <1>4, <1>5, <2>1, <2>4, HoldsSame
  <2> QED
    BY <1>8, <2>1, <2>3, <2>5
<1>11. CASE EscapedChar
  <2>1. mode = "escape" /\ mode' = "string" /\ Char \in DOMAIN Escapes /\ Put(Escapes[Char])
    BY <1>11 DEF EscapedChar, Sees
  <2>2. buf' = Append(buf, Escapes[src[q]]) /\ Escaped(src, i, q)
    BY <1>3, <1>5, <2>1 DEF Put
  <2>3. StringTo(src, i, q) /\ ~ Escaped(src, i, q + 1)
    BY <1>2, <1>3, <1>4, <1>5, <2>1, <2>2, StringGoesOn
  <2>4. q \in In(src, i, q) /\ Escapes[src[q]] = Unescaped(src, i, q)
    BY <1>6, <1>7, <2>2 DEF Unescaped
  <2>5. Holds(src, i, q, buf')
    BY <1>2, <1>3, <1>4, <1>5, <2>2, <2>4, HoldsMore
  <2> QED
    BY <1>8, <2>1, <2>3, <2>5
<1> QED
  BY <1>9, <1>10, <1>11

LEMMA TextNumbers ==
    ASSUME TextInv, ReadDigit \/ ReadPoint
    PROVE  SoFar'
<1>1. /\ TokInv /\ Located /\ mode \in {"number", "fraction"} /\ ~ AtEnd /\ Advance /\ error = NoError
      /\ UNCHANGED <<src, tokens, error, start, begin, negative>> /\ NumberSoFar
      /\ mode = "number" => WholeSoFar
      /\ mode = "fraction" => FractionSoFar
  BY DEF TextInv, SoFar, ReadDigit, ReadPoint, Sees, Go, result, scratch
<1>2. pos \in Nat /\ Len(src) \in Nat /\ begin \in Nat
  <2>1. pos \in Nat /\ Len(src) \in Nat
    BY <1>1, Sizes
  <2>2. begin \in 0..Len(src)
    BY <1>1 DEF TokInv, BuffersFit, TypeOK
  <2> QED
    BY <2>1, <2>2
<1>3. PICK i : /\ Began(i) /\ begin + 1 = Unsigned(src, i) /\ (negative <=> src[i] = Minus)
               /\ begin <= pos /\ begin + 1 <= Len(src) /\ src[begin + 1] \in Digits
  BY <1>1 DEF NumberSoFar
<1>4. PICK q : /\ q = pos + 1 /\ q \in 1..Len(src) /\ q <= Len(src) /\ q \in Nat
               /\ Char = src[q] /\ pos' = q
  BY <1>1, Consumed
<1>5. NumberSoFar'
  <2>1. begin <= q
    BY <1>2, <1>3, <1>4
  <2> QED
    BY <1>1, <1>3, <1>4, <2>1, BeganStays DEF NumberSoFar
<1>6. CASE ReadDigit
  <2>1. src[q] \in Digits /\ mode' = mode
    BY <1>4, <1>6 DEF ReadDigit, Sees, Go
  <2>2. CASE mode = "number"
    <3>1. \A k \in begin + 1..q : k = q \/ k \in begin + 1..pos
      BY <1>2, <1>4
    <3>2. WholeSoFar'
      BY <1>1, <1>4, <2>1, <2>2, <3>1 DEF WholeSoFar
    <3> QED
      BY <1>1, <1>5, <2>1, <2>2, <3>2 DEF SoFar
  <2>3. CASE mode = "fraction"
    <3>1. PICK k \in begin + 2..pos :
              /\ AllDigits(src, begin + 1, k - 1) /\ src[k] = Point
              /\ k + 1 <= Len(src) /\ src[k + 1] \in Digits
              /\ \A m \in k + 1..pos : src[m] \in Digits
      BY <1>1, <2>3 DEF FractionSoFar
    <3>2. k \in begin + 2..q /\ \A m \in k + 1..q : m = q \/ m \in k + 1..pos
      BY <1>2, <1>4
    <3>3. FractionSoFar'
      BY <1>1, <1>4, <2>1, <3>1, <3>2 DEF FractionSoFar
    <3> QED
      BY <1>1, <1>5, <2>1, <2>3, <3>3 DEF SoFar
  <2> QED
    BY <1>1, <2>2, <2>3
<1>7. CASE ReadPoint
  <2>1. mode = "number" /\ mode' = "fraction" /\ Char = Point /\ ThenSees(Digits)
    BY <1>7, Zenon DEF ReadPoint, Sees, Go, Point
  <2>2. \A k \in begin + 1..pos : src[k] \in Digits
    BY <1>1, <2>1 DEF WholeSoFar
  <2>3. begin + 1 <= pos
    <3>1. ASSUME begin = pos PROVE FALSE
      BY <1>3, <1>4, <2>1, <3>1, NoDigit
    <3> QED
      BY <1>2, <1>3, <3>1
  <2>4. AllDigits(src, begin + 1, q - 1) /\ q \in begin + 2..q
    <3>1. q - 1 = pos
      BY <1>2, <1>4
    <3> QED
      BY <1>2, <1>4, <2>2, <2>3, <3>1 DEF AllDigits
  <2>5. q + 1 <= Len(src) /\ src[q + 1] \in Digits
    <3>1. pos + 2 = q + 1
      BY <1>2, <1>4
    <3> QED
      BY <2>1, <3>1 DEF ThenSees
  <2>6. \A m : m \notin q + 1..q
    BY <1>4
  <2>7. FractionSoFar'
    BY <1>1, <1>4, <2>1, <2>4, <2>5, <2>6 DEF FractionSoFar
  <2> QED
    BY <1>1, <1>5, <2>1, <2>7 DEF SoFar
<1> QED
  BY <1>6, <1>7

LEMMA TextNames ==
    ASSUME TextInv, ReadName
    PROVE  SoFar'
<1>1. /\ TokInv /\ Located /\ mode \in {"symbol", "keyword"} /\ ~ AtEnd /\ Advance /\ error = NoError
      /\ UNCHANGED <<src, tokens, error, start, begin>> /\ mode' = mode /\ Char \in SymbolCont
  BY DEF TextInv, SoFar, ReadName, Sees, Go, result, scratch
<1>2. pos \in Nat /\ Len(src) \in Nat
  BY <1>1, Sizes
<1>3. PICK q : /\ q = pos + 1 /\ q \in 1..Len(src) /\ q <= Len(src) /\ q \in Nat
               /\ Char = src[q] /\ pos' = q
  BY <1>1, Consumed
<1>4. CASE mode = "symbol"
  <2>1. PICK i : /\ Began(i) /\ i = begin + 1 /\ i <= pos /\ IsName(src, i, pos)
                 /\ ~ (src[i] = Minus /\ i + 1 <= Len(src) /\ src[i + 1] \in Digits)
    BY <1>4 DEF TextInv, SoFar, SymbolSoFar
  <2>2. i \in Nat /\ i + 1 <= q /\ \A k \in i + 1..q : k = q \/ k \in i + 1..pos
    BY <1>2, <1>3, <2>1 DEF Began
  <2>3. IsName(src, i, q)
    <3>1. src[i] \in SymbolStart /\ \A k \in i + 1..pos : src[k] \in SymbolCont
      BY <2>1, NameIs
    <3>2. \A k \in i + 1..q : src[k] \in SymbolCont
      BY <1>1, <1>3, <2>2, <3>1
    <3>3. ~ (src[i] = Minus /\ src[i + 1] \in Digits)
      BY <1>2, <1>3, <2>1, <2>2
    <3> QED
      BY <3>1, <3>2, <3>3, NameIs
  <2>4. SymbolSoFar'
    <3>1. i <= q
      BY <1>3, <2>2
    <3> QED
      BY <1>1, <1>3, <2>1, <2>3, <3>1, BeganStays DEF SymbolSoFar
  <2> QED
    BY <1>1, <1>4, <2>4 DEF SoFar
<1>5. CASE mode = "keyword"
  <2>1. PICK i : /\ Began(i) /\ i = begin /\ i <= pos /\ src[i] = Colon
                 /\ i + 1 <= Len(src) /\ src[i + 1] \in Letters
                 /\ \A k \in i + 1..pos : src[k] \in SymbolCont
    BY <1>5 DEF TextInv, SoFar, KeywordSoFar
  <2>2. i \in Nat /\ i <= q /\ \A k \in i + 1..q : k = q \/ k \in i + 1..pos
    BY <1>2, <1>3, <2>1 DEF Began
  <2>3. \A k \in i + 1..q : src[k] \in SymbolCont
    BY <1>1, <1>3, <2>1, <2>2
  <2>4. KeywordSoFar'
    BY <1>1, <1>3, <2>1, <2>2, <2>3, BeganStays DEF KeywordSoFar
  <2> QED
    BY <1>1, <1>5, <2>4 DEF SoFar
<1> QED
  BY <1>1, <1>4, <1>5


(* A token ends *)
LEMMA EmitReads ==
    ASSUME TokInv, error = NoError, NEW i, i \in 1..Len(src), ~ Blank(src, i), ReadTo(src, tokens, i),
           NEW type, NEW value, NEW at, Emit(type, value, at), NEW j, pos' = j,
           NEW token, token = [type |-> type, value |-> value, at |-> at],
           Ends(src, i) # {} /\ LastEnd(src, i) = j /\ Means(src, token, [i |-> i, j |-> j])
    PROVE  SoFar'
<1>1. /\ mode' = "between" /\ tokens' = Append(tokens, token)
      /\ UNCHANGED <<src, error>>
  BY DEF Emit
<1>2. Len(src) \in Nat /\ i <= Len(src) /\ IsSeq(tokens)
  BY Sizes
<1>3. ReadTo(src, Append(tokens, token), j + 1)
  BY <1>2, ReadToken
<1>4. ReadTo(src', tokens', pos' + 1)
  BY <1>1, <1>3
<1> QED
  BY <1>1, <1>4 DEF SoFar

LEMMA TextDelim ==
    ASSUME TextInv, Delim
    PROVE  SoFar'
<1>1. /\ TokInv /\ Located /\ ~ AtEnd /\ error = NoError /\ ReadTo(src, tokens, pos + 1)
      /\ Char \in DOMAIN Delims /\ Advance /\ Emit(Delims[Char], Nil, Here)
  BY DEF TextInv, SoFar, Delim, Sees
<1>2. PICK i : /\ i = pos + 1 /\ i \in 1..Len(src) /\ Char = src[i] /\ Here = PlaceOf(src, i) /\ pos' = i
  BY <1>1, Consumed
<1>3. ~ Blank(src, i)
  BY <1>1, <1>2, NoDelim DEF Blank
<1>4. PICK token : token = [type |-> Delims[Char], value |-> Nil, at |-> Here]
  OBVIOUS
<1>5. token.type = Delims[src[i]] /\ token.value = Nil /\ token.at = PlaceOf(src, i)
  BY <1>2, <1>4
<1>6. Ends(src, i) # {} /\ LastEnd(src, i) = i /\ Means(src, token, [i |-> i, j |-> i])
  BY <1>1, <1>2, <1>5, Sizes, DelimMeans
<1> QED
  BY <1>1, <1>2, <1>3, <1>4, <1>6, EmitReads

LEMMA TextEndString ==
    ASSUME TextInv, EndString
    PROVE  SoFar'
<1>1. /\ TokInv /\ Located /\ ~ AtEnd /\ error = NoError /\ StringSoFar /\ mode = "string"
      /\ Char = Quote /\ Advance /\ Emit("string", buf, start)
  BY Zenon DEF TextInv, SoFar, EndString, Sees, Quote
<1>2. PICK i : /\ Began(i) /\ StringTo(src, i, pos) /\ Holds(src, i, pos, buf)
               /\ Escaped(src, i, pos + 1) <=> mode = "escape"
  BY <1>1 DEF StringSoFar
<1>3. i \in 1..Len(src) /\ ~ Blank(src, i) /\ ReadTo(src, tokens, i) /\ start = PlaceOf(src, i)
  BY <1>2 DEF Began
<1>4. PICK j : /\ j = pos + 1 /\ j <= Len(src) /\ Char = src[j] /\ pos' = j
  BY <1>1, Consumed
<1>5. ~ Escaped(src, i, j)
  BY <1>1, <1>2, <1>4
<1>6. PICK token : token = [type |-> "string", value |-> buf, at |-> start]
  OBVIOUS
<1>7. token.type = "string" /\ token.value = buf /\ token.at = PlaceOf(src, i)
  BY <1>3, <1>6
<1>8. Ends(src, i) # {} /\ LastEnd(src, i) = j /\ Means(src, token, [i |-> i, j |-> j])
  <2>1. src \in Seq(STRING) /\ src[j] = Quote
    BY <1>1, <1>4, Sizes
  <2> QED
    BY <1>2, <1>3, <1>4, <1>5, <1>7, <2>1, StringMeans
<1> QED
  BY <1>1, <1>3, <1>4, <1>6, <1>8, EmitReads

LEMMA TextEndNumbers ==
    ASSUME TextInv, EndInt \/ EndFloat
    PROVE  SoFar'
<1>1. /\ TokInv /\ error = NoError /\ NumberSoFar /\ ~ Sees(Digits) /\ pos' = pos
      /\ mode = "number" => WholeSoFar
      /\ mode = "fraction" => FractionSoFar
  BY DEF TextInv, SoFar, EndInt, EndFloat, place
<1>2. pos \in Nat /\ Len(src) \in Nat /\ pos <= Len(src) /\ src \in Seq(STRING)
  BY <1>1, Sizes
<1>3. PICK i : /\ Began(i) /\ begin + 1 = Unsigned(src, i) /\ (negative <=> src[i] = Minus)
               /\ begin <= pos /\ begin + 1 <= Len(src) /\ src[begin + 1] \in Digits
  BY <1>1 DEF NumberSoFar
<1>4. i \in 1..Len(src) /\ ~ Blank(src, i) /\ ReadTo(src, tokens, i) /\ start = PlaceOf(src, i)
  BY <1>3 DEF Began
<1>5. PICK u, j : u = begin + 1 /\ j = pos
  OBVIOUS
<1>6. begin \in Nat
  <2>1. begin \in 0..Len(src)
    BY <1>1 DEF TokInv, BuffersFit, TypeOK
  <2> QED
    BY <1>2, <2>1
<1>7. j + 1 <= Len(src) => src[j + 1] \notin Digits
  BY <1>1, <1>2, <1>5 DEF Sees, AtEnd, Char
<1>8. u \in {i, i + 1} /\ u = Unsigned(src, i) /\ j \in u..Len(src) /\ src[u] \in Digits
  <2>1. u \in {i, i + 1} /\ u = Unsigned(src, i)
    BY <1>3, <1>5, UnsignedIs
  <2>2. begin # pos
    BY <1>3, <1>5, <1>7
  <2> QED
    BY <1>2, <1>3, <1>5, <1>6, <2>1, <2>2
<1>9. \A width : Copied(width) = SubSeq(src, u, IF j - (u - 1) > width THEN u - 1 + width ELSE j)
  <2>1. u - 1 = begin
    BY <1>5, <1>6
  <2> QED
    BY <1>5, <2>1 DEF Copied
<1>10. PICK copy : copy = Copied(MaxDigits)
  OBVIOUS
<1>11. copy = SubSeq(src, u, IF j - (u - 1) > MaxDigits THEN u - 1 + MaxDigits ELSE j)
  BY <1>9, <1>10
<1>12. \A n : Signed(n) = (IF src[i] = Minus THEN -1 ELSE 1) * n
  BY <1>3 DEF Signed
<1>13. CASE EndInt
  <2>1. PICK value : value = Signed(StrToLL(copy))
    OBVIOUS
  <2>2. mode = "number" /\ ~ (Sees({Point}) /\ ThenSees(Digits)) /\ Emit("int", value, start)
    BY <1>10, <1>13, <2>1, Zenon DEF EndInt, Point
  <2>3. PICK token : token = [type |-> "int", value |-> value, at |-> start]
    OBVIOUS
  <2>4. /\ token.type = "int" /\ token.at = PlaceOf(src, i)
        /\ token.value = (IF src[i] = Minus THEN -1 ELSE 1) * StrToLL(copy)
    BY <1>4, <1>12, <2>1, <2>3
  <2>5. AllDigits(src, u, j)
    <3>1. \A k \in u..j : src[k] \in Digits
      BY <1>1, <1>5, <2>2 DEF WholeSoFar
    <3> QED
      BY <1>8, <3>1 DEF AllDigits
  <2>6. ~ (j + 1 <= Len(src) /\ src[j + 1] = Point /\ j + 2 <= Len(src) /\ src[j + 2] \in Digits)
    BY <1>2, <1>5, <2>2 DEF Sees, ThenSees, AtEnd, Char
  <2>7. Ends(src, i) # {} /\ LastEnd(src, i) = j /\ Means(src, token, [i |-> i, j |-> j])
    BY <1>2, <1>4, <1>7, <1>8, <1>11, <2>4, <2>5, <2>6, IntMeans
  <2> QED
    BY <1>1, <1>4, <1>5, <2>2, <2>3, <2>7, EmitReads
<1>14. CASE EndFloat
  <2>1. PICK value : value = Signed(Decimal(copy))
    OBVIOUS
  <2>2. mode = "fraction" /\ Emit("float", value, start)
    BY <1>10, <1>14, <2>1, Zenon DEF EndFloat
  <2>3. PICK token : token = [type |-> "float", value |-> value, at |-> start]
    OBVIOUS
  <2>4. /\ token.type = "float" /\ token.at = PlaceOf(src, i)
        /\ token.value = (IF src[i] = Minus THEN -1 ELSE 1) * Decimal(copy)
    BY <1>4, <1>12, <2>1, <2>3
  <2>5. PICK k \in begin + 2..pos :
            /\ AllDigits(src, begin + 1, k - 1) /\ src[k] = Point
            /\ k + 1 <= Len(src) /\ src[k + 1] \in Digits
            /\ \A m \in k + 1..pos : src[m] \in Digits
    BY <1>1, <2>2 DEF FractionSoFar
  <2>6. k # j
    BY <1>5, <1>7, <2>5
  <2>7. k \in u + 1..j - 1
    BY <1>2, <1>5, <1>6, <2>5, <2>6
  <2>8. AllDigits(src, u, k - 1) /\ AllDigits(src, k + 1, j)
    BY <1>2, <1>5, <2>5, <2>7 DEF AllDigits
  <2>9. Ends(src, i) # {} /\ LastEnd(src, i) = j /\ Means(src, token, [i |-> i, j |-> j])
    BY <1>2, <1>4, <1>7, <1>8, <1>11, <2>4, <2>5, <2>7, <2>8, FloatMeans
  <2> QED
    BY <1>1, <1>4, <1>5, <2>2, <2>3, <2>9, EmitReads
<1> QED
  BY <1>13, <1>14

LEMMA TextEndNames ==
    ASSUME TextInv, EndSymbol \/ EndKeyword
    PROVE  SoFar'
<1>1. TokInv /\ error = NoError /\ ~ Sees(SymbolCont) /\ pos' = pos
  BY DEF TextInv, SoFar, EndSymbol, EndKeyword, place
<1>2. pos \in Nat /\ Len(src) \in Nat /\ pos <= Len(src) /\ src \in Seq(STRING)
  BY <1>1, Sizes
<1>3. PICK j : j = pos
  OBVIOUS
<1>4. j + 1 <= Len(src) => src[j + 1] \notin SymbolCont
  BY <1>1, <1>2, <1>3 DEF Sees, AtEnd, Char
<1>5. PICK name : name = Copied(MaxName)
  OBVIOUS
<1>6. CASE EndSymbol
  <2>1. PICK i : /\ Began(i) /\ i = begin + 1 /\ i <= pos /\ IsName(src, i, pos)
                 /\ ~ (src[i] = Minus /\ i + 1 <= Len(src) /\ src[i + 1] \in Digits)
    BY <1>6 DEF TextInv, SoFar, SymbolSoFar, EndSymbol
  <2>2. i \in 1..Len(src) /\ ~ Blank(src, i) /\ ReadTo(src, tokens, i) /\ start = PlaceOf(src, i)
    BY <2>1 DEF Began
  <2>3. PICK type : type = IF name \in Reserved THEN "reserved" ELSE "symbol"
    OBVIOUS
  <2>4. Emit(type, name, start)
    BY <1>5, <1>6, <2>3 DEF EndSymbol
  <2>5. PICK token : token = [type |-> type, value |-> name, at |-> start]
    OBVIOUS
  <2>6. token.type = (IF name \in Reserved THEN "reserved" ELSE "symbol") /\ token.value = name
        /\ token.at = PlaceOf(src, i)
    BY <2>2, <2>3, <2>5
  <2>7. name = SubSeq(src, i, IF j - (i - 1) > MaxName THEN i - 1 + MaxName ELSE j)
    <3>1. begin \in Nat
      <4>1. begin \in 0..Len(src)
        BY <1>1 DEF TokInv, BuffersFit, TypeOK
      <4> QED
        BY <1>2, <4>1
    <3>2. i - 1 = begin
      BY <2>1, <3>1
    <3> QED
      BY <1>3, <1>5, <2>1, <3>2 DEF Copied
  <2>8. j \in i..Len(src)
    BY <1>2, <1>3, <2>1, <2>2
  <2>9. Ends(src, i) # {} /\ LastEnd(src, i) = j /\ Means(src, token, [i |-> i, j |-> j])
    BY <1>2, <1>3, <1>4, <2>1, <2>2, <2>6, <2>7, <2>8, NameMeans
  <2> QED
    BY <1>1, <1>3, <2>2, <2>4, <2>5, <2>9, EmitReads
<1>7. CASE EndKeyword
  <2>1. PICK i : /\ Began(i) /\ i = begin /\ i <= pos /\ src[i] = Colon
                 /\ i + 1 <= Len(src) /\ src[i + 1] \in Letters
                 /\ \A k \in i + 1..pos : src[k] \in SymbolCont
    BY <1>7 DEF TextInv, SoFar, KeywordSoFar, EndKeyword
  <2>2. i \in 1..Len(src) /\ ~ Blank(src, i) /\ ReadTo(src, tokens, i) /\ start = PlaceOf(src, i)
    BY <2>1 DEF Began
  <2>3. Emit("keyword", name, start)
    BY <1>5, <1>7 DEF EndKeyword
  <2>4. PICK token : token = [type |-> "keyword", value |-> name, at |-> start]
    OBVIOUS
  <2>5. token.type = "keyword" /\ token.value = name /\ token.at = PlaceOf(src, i)
    BY <2>2, <2>4
  <2>6. name = SubSeq(src, i + 1, IF j - i > MaxName THEN i + MaxName ELSE j)
    BY <1>3, <1>5, <2>1 DEF Copied
  <2>7. j # i
    BY <1>4, <2>1, NamesGoOn
  <2>8. j \in i..Len(src) /\ j > i
    BY <1>2, <1>3, <2>1, <2>2, <2>7
  <2>9. IsKeyword(src, i, j)
    <3>1. \A k \in i + 2..j : k \in i + 1..pos
      BY <1>2, <1>3, <2>2
    <3> QED
      BY <2>1, <2>8, <3>1, KeywordIs
  <2>10. Ends(src, i) # {} /\ LastEnd(src, i) = j /\ Means(src, token, [i |-> i, j |-> j])
    BY <1>2, <1>4, <2>2, <2>5, <2>6, <2>8, <2>9, KeywordMeans
  <2> QED
    BY <1>1, <1>3, <2>2, <2>3, <2>4, <2>10, EmitReads
<1> QED
  BY <1>6, <1>7

-----------------------------------------------------------------------------
(* What the tokens are *)

LEMMA TextInit == Init => TextInv
<1> SUFFICES ASSUME Init PROVE TextInv
  OBVIOUS
<1>1. mode = "call" /\ error = NoError
  BY DEF Init
<1>2. SoFar
  BY <1>1 DEF SoFar
<1> QED
  BY <1>2, TokInit, LocatedInit DEF TextInv

LEMMA TextNext ==
    ASSUME TextInv, [Next]_vars
    PROVE  TextInv'
<1>1. TokInv' /\ Located'
  BY TokNext, LocatedStays DEF TextInv
<1>2. CASE UNCHANGED vars
  <2>1. UNCHANGED <<mode, src, pos, begin, negative, buf, start, tokens, error>>
    BY <1>2 DEF vars
  <2>2. \A i : Began(i)' <=> Began(i)
    BY <2>1 DEF Began
  <2>3. StringSoFar' <=> StringSoFar
    BY <2>1, <2>2 DEF StringSoFar
  <2>4. (NumberSoFar' <=> NumberSoFar) /\ (WholeSoFar' <=> WholeSoFar) /\ (FractionSoFar' <=> FractionSoFar)
    BY <2>1, <2>2 DEF NumberSoFar, WholeSoFar, FractionSoFar
  <2>5. (SymbolSoFar' <=> SymbolSoFar) /\ (KeywordSoFar' <=> KeywordSoFar)
    BY <2>1, <2>2 DEF SymbolSoFar, KeywordSoFar
  <2>6. Ended' <=> Ended
    BY <2>1 DEF Ended, Misplaced
  <2>7. SoFar'
    BY <2>1, <2>3, <2>4, <2>5, <2>6 DEF TextInv, SoFar
  <2> QED
    BY <1>1, <2>7 DEF TextInv
<1>3. CASE Next
  <2>1. SoFar'
    BY <1>3, TextCall, TextBlanks, TextFinish, TextRefusals, TextBadStrings, TextStarts, TextStrings,
       TextNumbers, TextNames, TextDelim, TextEndString, TextEndNumbers, TextEndNames DEF Next
  <2> QED
    BY <1>1, <2>1 DEF TextInv
<1> QED
  BY <1>2, <1>3

LEMMA TextsAreRead ==
    ASSUME TextInv
    PROVE  TokensAreText /\ FaultsAreFound
<1>1. Len(src) \in Nat /\ IsSeq(tokens) /\ Len(tokens) \in Nat
  BY Sizes, AppendIsSeq DEF TextInv
<1>2. Reading(src).spans \in Seq(Spans)
  <2>1. 1 \in 1..Len(src) + 1
    BY <1>1
  <2> QED
    BY <1>1, <2>1, FromTyped DEF Reading
<1>3. Len(Reading(src).spans) \in Nat
  BY <1>2
<1>4. ASSUME NEW i, ReadTo(src, tokens, i)
      PROVE  /\ Len(tokens) <= Len(Reading(src).spans)
             /\ \A k \in 1..Len(tokens) : Means(src, tokens[k], Reading(src).spans[k])
  <2>1. From(src)[i].spans \in Seq(Spans)
    BY <1>1, <1>4, FromTyped DEF ReadTo
  <2>2. Len(From(src)[i].spans) \in Nat
    BY <2>1
  <2> QED
    BY <1>1, <1>4, <2>2 DEF ReadTo
<1>5. CASE mode = "between"
  <2>1. ReadTo(src, tokens, pos + 1)
    BY <1>5 DEF TextInv, SoFar
  <2> QED
    BY <1>4, <1>5, <2>1 DEF TokensAreText, FaultsAreFound, Done, Means
<1>6. CASE mode = "done"
  <2>1. Ended
    BY <1>6 DEF TextInv, SoFar
  <2>2. FaultsAreFound
    BY <2>1, Zenon DEF Ended, FaultsAreFound, Newline
  <2>3. CASE error = NoError
    <3>1. ReadTo(src, tokens, Len(src) + 1)
      BY <2>1, <2>3 DEF Ended
    <3>2. Len(Reading(src).spans) = Len(tokens)
      BY <1>1, <3>1, ReadAll
    <3> QED
      BY <1>4, <2>2, <3>1, <3>2 DEF TokensAreText, Means
  <2>4. CASE error # NoError
    <3>1. tokens = <<>>
      BY <2>1, <2>4 DEF Ended
    <3>2. Len(tokens) = 0 /\ \A k : k \notin 1..Len(tokens)
      BY <3>1
    <3> QED
      BY <1>3, <2>2, <2>4, <3>2 DEF TokensAreText
  <2> QED
    BY <2>3, <2>4
<1>7. CASE mode \notin {"between", "done"}
  BY <1>7 DEF TokensAreText, FaultsAreFound, Done
<1> QED
  BY <1>5, <1>6, <1>7

(* Once tok is done, its tokens are those of the text: blanks and comments *)
(* apart, each is the longest token its first character can begin, with    *)
(* the value the text gives it (tok.c:98-216, 235-304).                    *)
THEOREM TokensAreTheText == Spec => []TokensAreText
<1>1. TextInv => TokensAreText
  BY TextsAreRead
<1> QED
  BY <1>1, TextInit, TextNext, PTL DEF Spec

(* tok fails exactly on the texts that have a fault, with the message of   *)
(* the first one and the place of the character that is wrong, but for a   *)
(* newline after a backslash (tok.c:98-149, 235-304).                      *)
THEOREM FaultsAreTheTexts == Spec => []FaultsAreFound
<1>1. TextInv => FaultsAreFound
  BY TextsAreRead
<1> QED
  BY <1>1, TextInit, TextNext, PTL DEF Spec

-----------------------------------------------------------------------------
(* The scan *)

IsScan(t, f) == f = [n \in 0..Len(t) |-> IF n = 0 THEN Unread ELSE Further(t, f[n - 1], n)]

(* The recursion of Scans has a solution, which is what Scans is.          *)
LEMMA ScanExists ==
    ASSUME NEW t, Len(t) \in Nat
    PROVE  \E f : IsScan(t, f)
<1> DEFINE row(f, n) == IF n = 0 THEN Unread ELSE Further(t, f[n - 1], n)
           Solves(f, d) == \A n \in 0..Len(t) : n < d => f[n] = row(f, n)
           Unsolved == {d \in Nat : ~ \E f : Solves(f, d)}
<1>1. ASSUME NEW f, NEW g, NEW n \in 0..Len(t), n # 0 => f[n - 1] = g[n - 1]
      PROVE  row(f, n) = row(g, n)
  BY <1>1
<1>2. \E f : Solves(f, 0)
  <2>1. \A n \in 0..Len(t) : ~ (n < 0)
    OBVIOUS
  <2> QED
    BY <2>1
<1>3. ASSUME NEW d \in Nat, NEW f, Solves(f, d) PROVE \E g : Solves(g, d + 1)
  <2> DEFINE g == [n \in 0..Len(t) |-> row(f, n)]
  <2>1. \A n \in 0..Len(t) : g[n] = row(f, n)
    OBVIOUS
  <2>2. \A n \in 0..Len(t) : n < d => f[n] = row(f, n)
    BY <1>3
  <2> HIDE DEF row, g
  <2>3. ASSUME NEW n \in 0..Len(t), n < d + 1 PROVE g[n] = row(g, n)
    <3>1. n # 0 => n - 1 \in 0..Len(t) /\ n - 1 < d
      BY <2>3
    <3>2. n # 0 => f[n - 1] = g[n - 1]
      BY <2>1, <2>2, <3>1
    <3> QED
      BY <1>1, <2>1, <3>2
  <2> QED
    BY <2>3
<1>4. Unsolved = {}
  <2> SUFFICES ASSUME Unsolved # {} PROVE FALSE
    OBVIOUS
  <2>1. Unsolved \in SUBSET Nat
    OBVIOUS
  <2> HIDE DEF Solves, Unsolved
  <2>2. PICK d \in Unsolved : \A m \in Unsolved : d <= m
    BY <2>1, LeastNatural
  <2>3. d \in Nat /\ ~ \E f : Solves(f, d)
    BY <2>2 DEF Unsolved
  <2>4. d # 0
    BY <1>2, <2>3
  <2>5. d - 1 \in Nat /\ d - 1 + 1 = d /\ d - 1 \notin Unsolved
    BY <2>2, <2>3, <2>4
  <2>6. PICK f : Solves(f, d - 1)
    BY <2>5 DEF Unsolved
  <2> QED
    BY <1>3, <2>3, <2>5, <2>6
<1>5. PICK f : Solves(f, Len(t) + 1)
  <2> HIDE DEF Solves, Unsolved
  <2>1. Len(t) + 1 \in Nat /\ Len(t) + 1 \notin Unsolved
    BY <1>4
  <2> QED
    BY <2>1 DEF Unsolved
<1> DEFINE g == [n \in 0..Len(t) |-> f[n]]
<1>6. \A n \in 0..Len(t) : f[n] = row(f, n)
  <2>1. \A n \in 0..Len(t) : n < Len(t) + 1
    OBVIOUS
  <2> QED
    BY <1>5, <2>1
<1>7. \A n \in 0..Len(t) : row(f, n) = row(g, n)
  <2>1. \A n \in 0..Len(t) : g[n] = f[n]
    OBVIOUS
  <2>2. \A n \in 0..Len(t) : n # 0 => n - 1 \in 0..Len(t)
    OBVIOUS
  <2> HIDE DEF row, g
  <2> QED
    BY <1>1, <2>1, <2>2
<1>8. g = [n \in 0..Len(t) |-> row(g, n)]
  <2> HIDE DEF row
  <2>1. g = [n \in 0..Len(t) |-> row(f, n)]
    BY <1>6
  <2> HIDE DEF g
  <2> QED
    BY <1>7, <2>1
<1> HIDE DEF g
<1> QED
  BY <1>8 DEF IsScan

LEMMA ScansAre ==
    ASSUME NEW t, Len(t) \in Nat
    PROVE  /\ Scans(t)[0] = Unread
           /\ \A n \in 1..Len(t) : Scans(t)[n] = Further(t, Scans(t)[n - 1], n)
<1> DEFINE f == CHOOSE f : IsScan(t, f)
<1>1. Scans(t) = f
  BY Zenon DEF Scans, IsScan
<1>2. IsScan(t, f)
  BY ScanExists
<1> HIDE DEF f
<1> DEFINE G(n) == IF n = 0 THEN Unread ELSE Further(t, f[n - 1], n)
<1>3. \A n \in 0..Len(t) : f[n] = G(n)
  <2>1. f = [n \in 0..Len(t) |-> G(n)]
    BY <1>2 DEF IsScan
  <2> HIDE DEF G
  <2> QED
    BY <2>1
<1>4. f[0] = Unread
  BY <1>3
<1>5. ASSUME NEW n \in 1..Len(t) PROVE f[n] = Further(t, f[n - 1], n)
  BY <1>3
<1> QED
  BY <1>1, <1>4, <1>5

-----------------------------------------------------------------------------
(* What a character does to the scan *)

LParen == "("
RParen == ")"
LBrace == "{"
RBrace == "}"

LEMMA BracketChars ==
    /\ Openers = {LParen, LBrace} /\ DOMAIN Opening = {RParen, RBrace}
    /\ DOMAIN Delims = {LParen, RParen, LBrace, RBrace}
    /\ LParen # RParen /\ LParen # LBrace /\ LParen # RBrace
    /\ RParen # LBrace /\ RParen # RBrace /\ LBrace # RBrace
<1>1. /\ Openers = {LParen, LBrace} /\ DOMAIN Opening = {RParen, RBrace}
      /\ DOMAIN Delims = {LParen, RParen, LBrace, RBrace}
  BY Zenon DEF Openers, Opening, Delims, LParen, RParen, LBrace, RBrace
<1>2. /\ LParen # RParen /\ LParen # LBrace /\ LParen # RBrace
      /\ RParen # LBrace /\ RParen # RBrace /\ LBrace # RBrace
  BY Zenon DEF LParen, RParen, LBrace, RBrace
<1> QED
  BY <1>1, <1>2

LEMMA BracketsMatch ==
    /\ Opening[RParen] = LParen /\ Opening[RBrace] = LBrace
    /\ Delims[LParen] = "lparen" /\ Delims[RParen] = "rparen"
    /\ Delims[LBrace] = "lbrace" /\ Delims[RBrace] = "rbrace"
<1>1. Opening[RParen] = LParen /\ Opening[RBrace] = LBrace
  BY Zenon, BracketChars DEF Opening, LParen, RParen, LBrace, RBrace
<1>2. Delims[LParen] = "lparen"
  BY Zenon, BracketChars DEF Delims, LParen, RParen, LBrace, RBrace
<1>3. Delims[RParen] = "rparen"
  BY Zenon, BracketChars DEF Delims, LParen, RParen, LBrace, RBrace
<1>4. Delims[LBrace] = "lbrace"
  BY Zenon, BracketChars DEF Delims, LParen, RParen, LBrace, RBrace
<1>5. Delims[RBrace] = "rbrace"
  BY Zenon, BracketChars DEF Delims, LParen, RParen, LBrace, RBrace
<1> QED
  BY <1>1, <1>2, <1>3, <1>4, <1>5

LEMMA FollowsAre ==
    ASSUME NEW c
    PROVE  /\ Follows("code", c) = IF c = Quote THEN "string" ELSE IF c = Semicolon THEN "comment" ELSE "code"
           /\ Follows("comment", c) = IF c = Newline THEN "code" ELSE "comment"
           /\ Follows("string", c) = IF c = Backslash THEN "escape" ELSE IF c = Quote THEN "code" ELSE "string"
           /\ Follows("escape", c) = "string"
  BY Zenon DEF Follows, Quote, Semicolon, Newline, Backslash

LEMMA FurtherIs ==
    ASSUME NEW t, NEW b, NEW n, NEW f, f = Further(t, b, n)
    PROVE  /\ f.in = Follows(b.in, t[n])
           /\ ~ (b.in = "code" /\ t[n] \in DOMAIN Delims) \/ b.broken # 0
                 => f.open = b.open /\ f.broken = b.broken
           /\ b.in = "code" /\ b.broken = 0 /\ t[n] \in Openers
                 => f.open = Append(b.open, n) /\ f.broken = 0
           /\ b.in = "code" /\ b.broken = 0 /\ t[n] \in DOMAIN Opening =>
                 IF b.open # <<>> /\ t[b.open[Len(b.open)]] = Opening[t[n]]
                 THEN f.open = SubSeq(b.open, 1, Len(b.open) - 1) /\ f.broken = 0
                 ELSE f.open = b.open /\ f.broken = n
<1>1. PICK c : c = t[n]
  OBVIOUS
<1>2. c \in DOMAIN Opening => Opening[c] \in {LParen, LBrace} /\ c \notin Openers
  BY BracketChars, BracketsMatch
<1>3. "none" \notin {LParen, LBrace}
  BY Zenon DEF LParen, LBrace
<1>4. c \in DOMAIN Delims <=> c \in Openers \/ c \in DOMAIN Opening
  BY BracketChars
<1> DEFINE counts == b.in = "code" /\ b.broken = 0
           innermost == IF b.open = <<>> THEN "none" ELSE t[b.open[Len(b.open)]]
           closes == counts /\ c \in DOMAIN Opening
           fits == innermost = Opening[c]
<1>5. /\ f.in = Follows(b.in, c)
      /\ f.open = IF counts /\ c \in Openers THEN Append(b.open, n)
                  ELSE IF closes /\ fits THEN SubSeq(b.open, 1, Len(b.open) - 1) ELSE b.open
      /\ f.broken = IF closes /\ ~ fits THEN n ELSE b.broken
  BY <1>1 DEF Further
<1>6. c \in DOMAIN Opening => (fits <=> b.open # <<>> /\ t[b.open[Len(b.open)]] = Opening[c])
  BY <1>2, <1>3
<1> HIDE DEF fits
<1> QED
  BY <1>1, <1>2, <1>4, <1>5, <1>6

(* Where nothing counts as a bracket, or one was wrong before, the scan    *)
(* learns nothing about brackets.                                          *)
Marked(t, n) == Scans(t)[n - 1].in = "code" /\ t[n] \in DOMAIN Delims

LEMMA QuietScan ==
    ASSUME NEW t, Len(t) \in Nat, NEW a \in 0..Len(t), NEW b \in a..Len(t),
           Scans(t)[a].broken # 0 \/ \A n \in a + 1..b : ~ Marked(t, n)
    PROVE  Scans(t)[b].open = Scans(t)[a].open /\ Scans(t)[b].broken = Scans(t)[a].broken
<1> DEFINE same(n) == Scans(t)[n].open = Scans(t)[a].open /\ Scans(t)[n].broken = Scans(t)[a].broken
           Bad == {n \in a..b : ~ same(n)}
<1>1. Bad = {}
  <2> SUFFICES ASSUME Bad # {} PROVE FALSE
    OBVIOUS
  <2>1. Bad \in SUBSET Nat
    OBVIOUS
  <2> HIDE DEF Bad
  <2>2. PICK n \in Bad : \A m \in Bad : n <= m
    BY <2>1, LeastNatural
  <2>3. n \in a..b /\ ~ same(n)
    BY <2>2 DEF Bad
  <2>4. n # a
    BY <2>3
  <2>5. n \in a + 1..b /\ n \in 1..Len(t) /\ n - 1 \in a..b /\ n - 1 < n
    BY <2>3, <2>4
  <2>6. same(n - 1)
    BY <2>2, <2>5 DEF Bad
  <2>7. Scans(t)[n] = Further(t, Scans(t)[n - 1], n)
    BY <2>5, ScansAre
  <2>8. \/ Scans(t)[n - 1].broken # 0
        \/ ~ (Scans(t)[n - 1].in = "code" /\ t[n] \in DOMAIN Delims)
    BY <2>5, <2>6 DEF Marked
  <2>9. same(n)
    BY <2>6, <2>7, <2>8, FurtherIs
  <2> QED
    BY <2>3, <2>9
<1> QED
  <2>1. b \in a..b
    OBVIOUS
  <2> QED
    BY <1>1, <2>1

LEMMA ScanGoesOn ==
    ASSUME TokInv, ~ AtEnd
    PROVE  /\ pos \in Nat /\ pos + 1 \in 1..Len(src) /\ Char = src[pos + 1]
           /\ Scans(src)[pos + 1].in = Follows(Scans(src)[pos].in, Char)
           /\ Marked(src, pos + 1) <=> Scans(src)[pos].in = "code" /\ Char \in DOMAIN Delims
<1>1. pos \in Nat /\ Len(src) \in Nat /\ pos + 1 \in 1..Len(src) /\ pos + 1 - 1 = pos
  BY Within DEF AtEnd
<1>2. PICK n : n = pos + 1
  OBVIOUS
<1>3. n \in 1..Len(src) /\ n - 1 = pos
  BY <1>1, <1>2
<1>4. Scans(src)[n] = Further(src, Scans(src)[pos], n)
  BY <1>1, <1>3, ScansAre
<1>5. Scans(src)[n].in = Follows(Scans(src)[pos].in, src[n])
  BY <1>4, FurtherIs
<1> QED
  BY <1>1, <1>2, <1>3, <1>5 DEF Char, Marked

-----------------------------------------------------------------------------
(* Which characters are in the way of which *)

LEMMA SymbolsArePlain ==
    SymbolCont \cap (DOMAIN Delims \cup {Quote, Semicolon, Newline, Backslash}) = {}
<1>1. Newline \in Space
  BY Zenon DEF Newline, Space
<1>2. Letters \cap (DOMAIN Delims \cup {Quote, Semicolon, Newline, Backslash}) = {}
  <2>1. Letters \cap {Quote, Semicolon, Backslash} = {}
    BY LettersAssumption, Zenon DEF Quote, Semicolon, Backslash
  <2> QED
    BY <1>1, <2>1, LettersAssumption
<1>3. \A c \in Digits : c \notin DOMAIN Delims /\ c \notin {Quote, Semicolon, Newline, Backslash}
  BY Zenon DEF Digits, DigitValue, Delims, Quote, Semicolon, Newline, Backslash
<1>4. \A c \in {"+", "-", "*", "/", "!", "?", "_", "=", "<", ">", "&", "%", ".", "#", "'", ":"} :
         c \notin DOMAIN Delims /\ c \notin {Quote, Semicolon, Newline, Backslash}
  BY Zenon DEF Delims, Quote, Semicolon, Newline, Backslash
<1>5. SymbolCont = Letters \cup Digits
         \cup {"+", "-", "*", "/", "!", "?", "_", "=", "<", ">", "&", "%", ".", "#", "'", ":"}
  BY Zenon DEF SymbolCont, SymbolStart
<1>6. ASSUME NEW c \in SymbolCont
      PROVE  c \notin DOMAIN Delims /\ c \notin {Quote, Semicolon, Newline, Backslash}
  <2> DEFINE Others == {"+", "-", "*", "/", "!", "?", "_", "=", "<", ">", "&", "%", ".", "#", "'", ":"}
  <2>1. c \in Letters \cup Digits \cup Others
    BY <1>5
  <2>2. \A d \in Others : d \notin DOMAIN Delims /\ d \notin {Quote, Semicolon, Newline, Backslash}
    BY <1>4
  <2> HIDE DEF Others
  <2> QED
    BY <1>2, <1>3, <2>1, <2>2
<1> QED
  BY <1>6

LEMMA SpecialChars ==
    /\ Space \cap (DOMAIN Delims \cup {Quote, Semicolon}) = {}
    /\ DOMAIN Delims \cap {Quote, Semicolon, Newline} = {}
    /\ Quote # Semicolon /\ Quote # Newline /\ Semicolon # Newline /\ Quote # Backslash
    /\ {".", "-", ":"} \subseteq SymbolCont /\ Digits \cup SymbolStart \subseteq SymbolCont
<1>1. \A c \in Space : c \notin DOMAIN Delims /\ c # Quote /\ c # Semicolon
  BY Zenon DEF Space, Delims, Quote, Semicolon
<1>2. \A c \in DOMAIN Delims : c # Quote /\ c # Semicolon /\ c # Newline
  BY Zenon DEF Delims, Quote, Semicolon, Newline
<1>3. Quote # Semicolon /\ Quote # Newline /\ Semicolon # Newline /\ Quote # Backslash
  BY Zenon DEF Quote, Semicolon, Newline, Backslash
<1>4. {".", "-", ":"} \subseteq SymbolCont /\ Digits \cup SymbolStart \subseteq SymbolCont
  BY Zenon DEF SymbolCont, SymbolStart
<1> QED
  BY <1>1, <1>2, <1>3, <1>4

-----------------------------------------------------------------------------
(* Tokens and the characters they begin with *)

DelimTypes == {"lparen", "rparen", "lbrace", "rbrace"}

(* idx has the first character of each token: among them are all brackets  *)
(* that count so far, and those are the tokens that are brackets.          *)
Marks(idx) ==
    /\ idx \in [1..Len(tokens) -> 1..pos]
    /\ \A k, m \in 1..Len(tokens) : k < m => idx[k] < idx[m]
    /\ \A k \in 1..Len(tokens) : tokens[k].at = PlaceOf(src, idx[k])
    /\ \A k \in 1..Len(tokens) : tokens[k].type \in DelimTypes =>
          /\ Marked(src, idx[k])
          /\ tokens[k].type = Delims[src[idx[k]]] /\ tokens[k].value = Nil
    /\ \A n \in 1..pos : Marked(src, n) =>
          \E k \in 1..Len(tokens) : idx[k] = n /\ tokens[k].type \in DelimTypes

LEMMA MarksStay ==
    ASSUME NEW idx, Marks(idx), UNCHANGED <<pos, src, tokens>>
    PROVE  Marks(idx)'
  BY DEF Marks

LEMMA MarksPass ==
    ASSUME NEW idx, Marks(idx), pos \in Nat, pos' = pos + 1, UNCHANGED <<src, tokens>>,
           ~ Marked(src, pos + 1)
    PROVE  Marks(idx)'
<1>1. /\ idx \in [1..Len(tokens) -> 1..pos + 1]
      /\ \A n \in 1..pos + 1 : n \in 1..pos \/ n = pos + 1
  BY DEF Marks
<1>2. \A n \in 1..pos + 1 : Marked(src, n) => n \in 1..pos
  BY <1>1
<1> QED
  BY <1>1, <1>2 DEF Marks

LEMMA MarksAdd ==
    ASSUME TokInv, NEW idx, Marks(idx), NEW token, tokens' = Append(tokens, token), UNCHANGED src,
           pos \in Nat, pos' \in {pos, pos + 1},
           NEW first \in 1..pos', \A k \in 1..Len(tokens) : idx[k] < first,
           token.at = PlaceOf(src, first),
           token.type \in DelimTypes =>
               Marked(src, first) /\ token.type = Delims[src[first]] /\ token.value = Nil,
           pos' = pos + 1 /\ Marked(src, pos + 1) => first = pos + 1 /\ token.type \in DelimTypes
    PROVE  \E more : Marks(more)'
<1>1. PICK n : n = Len(tokens)
  OBVIOUS
<1>2. /\ n \in Nat /\ Len(tokens') = n + 1
      /\ \A k \in 1..n : tokens'[k] = tokens[k]
      /\ tokens'[n + 1] = token
  <2>1. PICK S : tokens \in Seq(S)
    BY DEF TokInv, IsSeq
  <2> DEFINE T == S \cup {token}
  <2>2. tokens \in Seq(T) /\ token \in T
    BY <2>1
  <2> HIDE DEF T
  <2> QED
    BY <1>1, <2>2
<1> DEFINE more == [k \in 1..n + 1 |-> IF k = n + 1 THEN first ELSE idx[k]]
<1>3. /\ \A k \in 1..n : more[k] = idx[k] /\ k \in 1..n + 1 /\ k # n + 1
      /\ more[n + 1] = first /\ n + 1 \in 1..n + 1
      /\ \A k \in 1..n + 1 : k \in 1..n \/ k = n + 1
  BY <1>2
<1>4. idx \in [1..n -> 1..pos] /\ \A m \in 1..pos : m \in 1..pos'
  BY <1>1 DEF Marks
<1>5. more \in [1..n + 1 -> 1..pos']
  BY <1>2, <1>4
<1> HIDE DEF more
<1>6. ASSUME NEW k \in 1..n + 1, NEW m \in 1..n + 1, k < m PROVE more[k] < more[m]
  <2>1. k \in 1..n
    BY <1>2, <1>6
  <2>2. CASE m \in 1..n
    BY <1>1, <1>3, <1>6, <2>1, <2>2 DEF Marks
  <2>3. CASE m = n + 1
    BY <1>1, <1>3, <2>1, <2>3
  <2> QED
    BY <1>3, <2>2, <2>3
<1>7. \A k \in 1..n + 1 : tokens'[k].at = PlaceOf(src, more[k])
  <2>1. \A k \in 1..n : tokens'[k].at = PlaceOf(src, more[k])
    BY <1>1, <1>2, <1>3 DEF Marks
  <2> QED
    BY <1>2, <1>3, <2>1
<1>8. \A k \in 1..n + 1 : tokens'[k].type \in DelimTypes =>
          /\ Marked(src, more[k])
          /\ tokens'[k].type = Delims[src[more[k]]] /\ tokens'[k].value = Nil
  <2>1. \A k \in 1..n : tokens'[k].type \in DelimTypes =>
          /\ Marked(src, more[k])
          /\ tokens'[k].type = Delims[src[more[k]]] /\ tokens'[k].value = Nil
    BY <1>1, <1>2, <1>3 DEF Marks
  <2> QED
    BY <1>2, <1>3, <2>1
<1>9. ASSUME NEW m \in 1..pos', Marked(src, m)
      PROVE  \E k \in 1..n + 1 : more[k] = m /\ tokens'[k].type \in DelimTypes
  <2>1. CASE m \in 1..pos
    <3>1. PICK k \in 1..n : idx[k] = m /\ tokens[k].type \in DelimTypes
      BY <1>1, <1>9, <2>1 DEF Marks
    <3> QED
      BY <1>2, <1>3, <3>1
  <2>2. CASE m = pos + 1 /\ pos' = pos + 1
    BY <1>2, <1>3, <1>9, <2>2
  <2>3. m \in 1..pos \/ (m = pos + 1 /\ pos' = pos + 1)
    OBVIOUS
  <2> QED
    BY <2>1, <2>2, <2>3
<1>10. Marks(more)'
  BY <1>2, <1>5, <1>6, <1>7, <1>8, <1>9 DEF Marks
<1> QED
  BY <1>10

(* A token is being read that begins with character first.                 *)
Texting == {"string", "escape", "number", "fraction", "symbol", "keyword"}
Pending(idx, first) ==
    /\ first \in 1..pos + 1
    /\ start = PlaceOf(src, first)
    /\ \A k \in 1..Len(tokens) : idx[k] < first
    /\ first = pos + 1 => mode = "number" /\ Sees(Digits)

(* What the lexer and the scan are in the middle of.  The newline after a  *)
(* comment ends it for the scan, and comes after its end for the lexer.    *)
InStep ==
    LET scanned == Scans(src)[pos].in
    IN  /\ mode \in {"number", "fraction", "symbol", "keyword"} => scanned = "code"
        /\ mode \in {"string", "escape", "comment"} => scanned = mode
        /\ mode = "between" =>
              scanned = "code" \/ (scanned = "comment" /\ (AtEnd \/ Char = Newline))
        /\ mode = "done" => AtEnd
Lexed ==
    error = NoError =>
        /\ InStep
        /\ \E idx : Marks(idx) /\ (mode \in Texting => \E first : Pending(idx, first))

LexInv == TokInv /\ Located /\ Lexed

LEMMA NowInCode ==
    ASSUME LexInv, error = NoError, mode = "between", ~ AtEnd, Char # Newline
    PROVE  Scans(src)[pos].in = "code"
  BY DEF LexInv, Lexed, InStep

-----------------------------------------------------------------------------
(* A turn of tok keeps step with the scan *)

LEMMA Passes ==
    ASSUME LexInv, error = NoError, ~ AtEnd, Advance, UNCHANGED <<src, start, tokens, error>>,
           ~ Marked(src, pos + 1), InStep', mode' \in Texting => mode \in Texting
    PROVE  Lexed'
<1>1. pos \in Nat /\ pos' = pos + 1
  BY ScanGoesOn DEF LexInv, Advance
<1>2. PICK idx : Marks(idx) /\ (mode \in Texting => \E first : Pending(idx, first))
  BY DEF LexInv, Lexed
<1>3. Marks(idx)'
  BY <1>1, <1>2, MarksPass
<1>4. ASSUME mode' \in Texting PROVE \E first : Pending(idx, first)'
  <2>1. PICK first : Pending(idx, first)
    BY <1>2, <1>4
  <2>2. first \in 1..pos' + 1 /\ first # pos' + 1
    BY <1>1, <2>1 DEF Pending
  <2> QED
    BY <2>1, <2>2 DEF Pending
<1> QED
  BY <1>3, <1>4 DEF Lexed

LEMMA Starts ==
    ASSUME LexInv, error = NoError, ~ AtEnd, Advance, start' = Here, UNCHANGED <<src, tokens, error>>,
           ~ Marked(src, pos + 1), InStep'
    PROVE  Lexed'
<1>1. pos \in Nat /\ pos' = pos + 1
  BY ScanGoesOn DEF LexInv, Advance
<1>2. PICK idx : Marks(idx)
  BY DEF LexInv, Lexed
<1>3. Marks(idx)'
  BY <1>1, <1>2, MarksPass
<1>4. PICK first : first = pos + 1
  OBVIOUS
<1>5. first \in 1..pos' + 1 /\ first # pos' + 1 /\ start' = PlaceOf(src, first)
  BY <1>1, <1>4 DEF LexInv, Located
<1>6. ASSUME NEW k \in 1..Len(tokens) PROVE idx[k] < first
  <2>1. idx[k] \in 1..pos
    BY <1>2 DEF Marks
  <2> QED
    BY <1>1, <1>4, <2>1
<1>7. Pending(idx, first)'
  BY <1>5, <1>6 DEF Pending
<1> QED
  BY <1>3, <1>7 DEF Lexed

LEMMA Emits ==
    ASSUME LexInv, error = NoError, mode \in Texting, UNCHANGED <<src, error>>,
           NEW type, NEW value, type \notin DelimTypes,
           tokens' = Append(tokens, [type |-> type, value |-> value, at |-> start]),
           \/ pos' = pos /\ ~ (mode = "number" /\ Sees(Digits))
           \/ ~ AtEnd /\ pos' = pos + 1 /\ ~ Marked(src, pos + 1),
           mode' = "between", InStep'
    PROVE  Lexed'
<1>1. pos \in Nat
  BY Within DEF LexInv
<1>2. PICK idx, first : Marks(idx) /\ Pending(idx, first)
  BY DEF LexInv, Lexed
<1> DEFINE token == [type |-> type, value |-> value, at |-> start]
<1>3. token.type = type /\ token.at = start
  OBVIOUS
<1> HIDE DEF token
<1>4. first \in 1..pos'
  <2>1. first \in 1..pos + 1 /\ (first = pos + 1 => mode = "number" /\ Sees(Digits))
    BY <1>2 DEF Pending
  <2> QED
    BY <1>1, <2>1
<1>5. /\ \A k \in 1..Len(tokens) : idx[k] < first
      /\ token.at = PlaceOf(src, first)
      /\ token.type \notin DelimTypes
      /\ pos' \in {pos, pos + 1}
      /\ ~ (pos' = pos + 1 /\ Marked(src, pos + 1))
  BY <1>1, <1>2, <1>3 DEF Pending
<1>6. \E more : Marks(more)'
  <2>1. TokInv /\ tokens' = Append(tokens, token)
    BY DEF LexInv, token
  <2> QED
    BY <1>1, <1>2, <1>4, <1>5, <2>1, MarksAdd
<1> QED
  BY <1>6 DEF Lexed, Texting

(* A character is consumed and leaves the scan where the lexer is.         *)
LEMMA StepsOn ==
    ASSUME LexInv, error = NoError, ~ AtEnd, Advance, UNCHANGED src,
           NEW scanned, scanned = Follows(Scans(src)[pos].in, Char),
           \/ mode' \in {"number", "fraction", "symbol", "keyword", "between"} /\ scanned = "code"
           \/ mode' \in {"string", "escape", "comment"} /\ scanned = mode'
    PROVE  InStep'
<1>1. pos' = pos + 1 /\ Scans(src)[pos + 1].in = scanned
  BY ScanGoesOn DEF LexInv, Advance
<1>2. Scans(src')[pos'].in = scanned
  BY <1>1
<1> QED
  BY <1>2 DEF InStep

LEMMA BlanksInStep ==
    ASSUME LexInv, error = NoError, SkipSpace \/ StartComment \/ SkipComment \/ EndComment \/ Finish
    PROVE  Lexed'
<1> USE SpecialChars, FollowsAre
<1>1. UNCHANGED <<src, start, tokens, error>> /\ mode' \in {"between", "comment", "done"}
  BY DEF SkipSpace, StartComment, SkipComment, EndComment, Finish, Go, scratch, result
<1>2. mode' \notin Texting
  BY <1>1 DEF Texting
<1>3. CASE SkipSpace
  <2>1. mode = "between" /\ ~ AtEnd /\ Char \in Space /\ Advance /\ mode' = "between"
    BY <1>3 DEF SkipSpace, Sees, Go
  <2>2. ~ Marked(src, pos + 1)
    BY <2>1, ScanGoesOn DEF LexInv
  <2>3. Follows(Scans(src)[pos].in, Char) = "code"
    <3>1. Scans(src)[pos].in = "code" \/ (Scans(src)[pos].in = "comment" /\ Char = Newline)
      BY <2>1 DEF LexInv, Lexed, InStep
    <3> QED
      BY <2>1, <3>1
  <2> QED
    BY <1>1, <1>2, <2>1, <2>2, <2>3, StepsOn, Passes
<1>4. CASE StartComment
  <2>1. mode = "between" /\ ~ AtEnd /\ Char = Semicolon /\ Advance /\ mode' = "comment"
    BY <1>4, Zenon DEF StartComment, Sees, Go, Semicolon
  <2>2. ~ Marked(src, pos + 1)
    BY <2>1, ScanGoesOn DEF LexInv
  <2>3. Follows(Scans(src)[pos].in, Char) = "comment"
    BY <2>1, NowInCode
  <2> QED
    BY <1>1, <1>2, <2>1, <2>2, <2>3, StepsOn, Passes
<1>5. CASE SkipComment
  <2>1. mode = "comment" /\ ~ AtEnd /\ Char # Newline /\ Advance /\ mode' = "comment"
    BY <1>5, Zenon DEF SkipComment, Go, Newline
  <2>2. Scans(src)[pos].in = "comment"
    BY <2>1 DEF LexInv, Lexed, InStep
  <2>3. ~ Marked(src, pos + 1)
    BY <2>1, <2>2, ScanGoesOn DEF LexInv
  <2>4. Follows(Scans(src)[pos].in, Char) = "comment"
    BY <2>1, <2>2
  <2> QED
    BY <1>1, <1>2, <2>1, <2>3, <2>4, StepsOn, Passes
<1>6. ASSUME UNCHANGED place, InStep' PROVE Lexed'
  <2>1. PICK idx : Marks(idx)
    BY DEF LexInv, Lexed
  <2>2. Marks(idx)'
    BY <1>1, <1>6, <2>1, MarksStay DEF place
  <2> QED
    BY <1>2, <1>6, <2>2 DEF Lexed
<1>7. CASE EndComment
  <2>1. mode = "comment" /\ (AtEnd \/ Char = Newline) /\ UNCHANGED place /\ mode' = "between"
    BY <1>7, Zenon DEF EndComment, Go, Newline
  <2>2. Scans(src)[pos].in = "comment"
    BY <2>1 DEF LexInv, Lexed, InStep
  <2>3. UNCHANGED <<pos, src>>
    BY <1>1, <2>1 DEF place
  <2>4. InStep'
    BY <2>1, <2>2, <2>3 DEF InStep, AtEnd, Char
  <2> QED
    BY <1>6, <2>1, <2>4
<1>8. CASE Finish
  <2>1. AtEnd /\ UNCHANGED place /\ mode' = "done"
    BY <1>8 DEF Finish, Go
  <2>2. InStep'
    BY <1>1, <2>1 DEF InStep, AtEnd, place
  <2> QED
    BY <1>6, <2>1, <2>2
<1> QED
  BY <1>3, <1>4, <1>5, <1>7, <1>8

LEMMA BracketsInStep ==
    ASSUME LexInv, error = NoError, Delim
    PROVE  Lexed'
<1> USE SpecialChars, FollowsAre
<1> DEFINE token == [type |-> Delims[Char], value |-> Nil, at |-> Here]
<1>1. /\ mode = "between" /\ ~ AtEnd /\ Char \in DOMAIN Delims /\ Advance /\ mode' = "between"
      /\ UNCHANGED <<src, start, error>> /\ tokens' = Append(tokens, token)
  BY DEF Delim, Sees, Emit, scratch
<1>2. token.type = Delims[Char] /\ token.value = Nil /\ token.at = Here
  OBVIOUS
<1>3. Delims[Char] \in DelimTypes
  BY <1>1, BracketChars, BracketsMatch DEF DelimTypes
<1> HIDE DEF token
<1>4. /\ pos \in Nat /\ pos' = pos + 1 /\ Char = src[pos + 1] /\ pos + 1 \in 1..pos'
      /\ Marked(src, pos + 1) /\ Scans(src)[pos].in = "code"
  BY <1>1, ScanGoesOn, NowInCode DEF LexInv, Advance
<1>5. InStep'
  <2>1. Follows(Scans(src)[pos].in, Char) = "code"
    BY <1>1, <1>4
  <2> QED
    BY <1>1, <2>1, StepsOn
<1>6. PICK idx : Marks(idx)
  BY DEF LexInv, Lexed
<1>7. PICK first : first = pos + 1
  OBVIOUS
<1>8. ASSUME NEW k \in 1..Len(tokens) PROVE idx[k] < first
  <2>1. idx[k] \in 1..pos
    BY <1>6 DEF Marks
  <2> QED
    BY <1>4, <1>7, <2>1
<1>9. /\ first \in 1..pos' /\ token.at = PlaceOf(src, first)
      /\ Marked(src, first) /\ token.type = Delims[src[first]] /\ token.type \in DelimTypes
  BY <1>2, <1>3, <1>4, <1>7 DEF LexInv, Located
<1>10. TokInv
  BY DEF LexInv
<1>11. \E more : Marks(more)'
  BY <1>1, <1>2, <1>4, <1>6, <1>7, <1>8, <1>9, <1>10, MarksAdd
<1> QED
  BY <1>1, <1>5, <1>11 DEF Lexed, Texting

LEMMA StringsInStep ==
    ASSUME LexInv, error = NoError,
           StartString \/ StringChar \/ Escape \/ EscapedChar \/ EndString
    PROVE  Lexed'
<1> USE SpecialChars, FollowsAre
<1>1. ~ AtEnd /\ Advance /\ UNCHANGED <<src, error>>
  BY DEF StartString, StringChar, Escape, EscapedChar, EndString, Sees, Go, Emit, scratch, result
<1>2. mode \in {"string", "escape"} => Scans(src)[pos].in = mode /\ ~ Marked(src, pos + 1)
  BY <1>1, ScanGoesOn DEF LexInv, Lexed, InStep
<1>3. CASE StartString
  <2>1. mode = "between" /\ Char = Quote /\ mode' = "string" /\ start' = Here /\ UNCHANGED tokens
    BY <1>3, Zenon DEF StartString, Sees, Quote, result
  <2>2. Scans(src)[pos].in = "code" /\ ~ Marked(src, pos + 1)
    BY <1>1, <2>1, NowInCode, ScanGoesOn DEF LexInv
  <2>3. Follows(Scans(src)[pos].in, Char) = "string"
    BY <2>1, <2>2
  <2> QED
    BY <1>1, <2>1, <2>2, <2>3, StepsOn, Starts
<1>4. CASE StringChar \/ Escape \/ EscapedChar
  <2>1. mode \in {"string", "escape"} /\ UNCHANGED <<start, tokens>>
    BY <1>4 DEF StringChar, Escape, EscapedChar, Go, scratch, result
  <2>2. mode' \in {"string", "escape"} /\ Follows(Scans(src)[pos].in, Char) = mode'
    <3>1. CASE StringChar
      <4>1. mode = "string" /\ mode' = "string" /\ Char # Quote /\ Char # Backslash
        BY <3>1, Zenon DEF StringChar, Quote, Backslash
      <4> QED
        BY <1>2, <4>1
    <3>2. CASE Escape
      <4>1. mode = "string" /\ mode' = "escape" /\ Char = Backslash
        BY <3>2, Zenon DEF Escape, Sees, Go, Backslash
      <4> QED
        BY <1>2, <4>1
    <3>3. CASE EscapedChar
      <4>1. mode = "escape" /\ mode' = "string"
        BY <3>3 DEF EscapedChar
      <4> QED
        BY <1>2, <4>1
    <3> QED
      BY <1>4, <3>1, <3>2, <3>3
  <2>3. mode' \in Texting => mode \in Texting
    BY <2>1 DEF Texting
  <2>4. InStep'
    BY <1>1, <2>2, StepsOn
  <2> QED
    BY <1>1, <1>2, <2>1, <2>3, <2>4, Passes
<1>5. CASE EndString
  <2>1. /\ mode = "string" /\ Char = Quote /\ mode' = "between"
        /\ tokens' = Append(tokens, [type |-> "string", value |-> buf, at |-> start])
    BY <1>5, Zenon DEF EndString, Sees, Emit, Quote
  <2>2. Follows(Scans(src)[pos].in, Char) = "code"
    BY <1>2, <2>1
  <2>3. mode \in Texting /\ "string" \notin DelimTypes
    BY <2>1 DEF Texting, DelimTypes
  <2>4. InStep'
    BY <1>1, <2>1, <2>2, StepsOn
  <2>5. pos' = pos + 1
    BY <1>1 DEF Advance
  <2> QED
    BY <1>1, <1>2, <2>1, <2>3, <2>4, <2>5, Emits
<1> QED
  BY <1>3, <1>4, <1>5

(* Names and numbers hold nothing that the scan would notice.              *)
LEMMA PlainInStep ==
    ASSUME LexInv, error = NoError, ~ AtEnd, Char \in SymbolCont, Advance, UNCHANGED <<src, error, tokens>>,
           mode' \in {"number", "fraction", "symbol", "keyword"},
           \/ mode = "between" /\ start' = Here
           \/ mode = mode' /\ UNCHANGED start
           \/ mode = "number" /\ UNCHANGED start
    PROVE  Lexed'
<1> USE SymbolsArePlain, FollowsAre
<1>1. Scans(src)[pos].in = "code"
  <2>1. CASE mode = "between"
    BY <2>1, NowInCode
  <2>2. CASE mode # "between"
    BY <2>2 DEF LexInv, Lexed, InStep
  <2> QED
    BY <2>1, <2>2
<1>2. Follows(Scans(src)[pos].in, Char) = "code"
  BY <1>1
<1>3. ~ Marked(src, pos + 1)
  BY ScanGoesOn DEF LexInv
<1>4. InStep'
  BY <1>2, StepsOn
<1>5. CASE start' = Here
  BY <1>3, <1>4, <1>5, Starts
<1>6. CASE UNCHANGED start /\ mode # "between"
  <2>1. mode' \in Texting => mode \in Texting
    BY <1>6 DEF Texting
  <2> QED
    BY <1>3, <1>4, <1>6, <2>1, Passes
<1> QED
  BY <1>5, <1>6

LEMMA NumberStarts ==
    ASSUME LexInv, error = NoError, StartNumber
    PROVE  Lexed'
<1>1. /\ mode = "between" /\ ~ AtEnd /\ Char \in Digits /\ mode' = "number" /\ start' = Here
      /\ UNCHANGED <<src, tokens, error>> /\ UNCHANGED pos
  BY DEF StartNumber, Sees, Start, result, place
<1>2. pos \in Nat /\ Scans(src)[pos].in = "code"
  BY <1>1, SymbolsArePlain, SpecialChars, ScanGoesOn, NowInCode DEF LexInv
<1>3. InStep'
  BY <1>1, <1>2 DEF InStep
<1>4. PICK idx : Marks(idx)
  BY DEF LexInv, Lexed
<1>5. Marks(idx)'
  BY <1>1, <1>4, MarksStay
<1>6. PICK first : first = pos + 1
  OBVIOUS
<1>7. first \in 1..pos' + 1 /\ start' = PlaceOf(src, first)
  BY <1>1, <1>2, <1>6 DEF LexInv, Located
<1>8. ASSUME NEW k \in 1..Len(tokens) PROVE idx[k] < first
  <2>1. idx[k] \in 1..pos
    BY <1>4 DEF Marks
  <2> QED
    BY <1>2, <1>6, <2>1
<1>9. Sees(Digits)'
  BY <1>1 DEF Sees, AtEnd, Char
<1>10. Pending(idx, first)'
  BY <1>1, <1>7, <1>8, <1>9 DEF Pending
<1> QED
  BY <1>3, <1>5, <1>10 DEF Lexed

LEMMA NumbersInStep ==
    ASSUME LexInv, error = NoError,
           StartNegative \/ ReadDigit \/ ReadPoint \/ StartSymbol \/ StartKeyword \/ ReadName
    PROVE  Lexed'
<1>1. Char \in SymbolCont
  <2>1. CASE StartNegative
    BY <2>1, SpecialChars, Zenon DEF StartNegative, Sees
  <2>2. CASE ReadPoint
    BY <2>2, SpecialChars, Zenon DEF ReadPoint, Sees
  <2>3. CASE StartKeyword
    BY <2>3, SpecialChars, Zenon DEF StartKeyword, Sees
  <2>4. CASE ReadDigit \/ StartSymbol \/ ReadName
    BY <2>4, SpecialChars DEF ReadDigit, StartSymbol, ReadName, Sees
  <2> QED
    BY <2>1, <2>2, <2>3, <2>4
<1>2. ~ AtEnd /\ Advance /\ UNCHANGED <<src, error, tokens>>
  BY DEF StartNegative, ReadDigit, ReadPoint, StartSymbol, StartKeyword, ReadName, Sees, Go, Start,
         scratch, result
<1>3. CASE StartNegative \/ StartSymbol \/ StartKeyword
  <2>1. mode = "between" /\ start' = Here /\ mode' \in {"number", "symbol", "keyword"}
    BY <1>3 DEF StartNegative, StartSymbol, StartKeyword, Start
  <2> QED
    BY <1>1, <1>2, <2>1, PlainInStep
<1>4. CASE ReadDigit \/ ReadName
  <2>1. mode = mode' /\ UNCHANGED start /\ mode' \in {"number", "fraction", "symbol", "keyword"}
    BY <1>4 DEF ReadDigit, ReadName, Go, scratch
  <2> QED
    BY <1>1, <1>2, <2>1, PlainInStep
<1>5. CASE ReadPoint
  <2>1. mode = "number" /\ UNCHANGED start /\ mode' = "fraction"
    BY <1>5 DEF ReadPoint, Go, scratch
  <2> QED
    BY <1>1, <1>2, <2>1, PlainInStep
<1> QED
  BY <1>3, <1>4, <1>5

LEMMA EndsInStep ==
    ASSUME LexInv, error = NoError, EndInt \/ EndFloat \/ EndSymbol \/ EndKeyword
    PROVE  Lexed'
<1>1. /\ mode \in {"number", "fraction", "symbol", "keyword"} /\ mode' = "between"
      /\ UNCHANGED <<src, error>> /\ UNCHANGED pos
      /\ ~ (mode = "number" /\ Sees(Digits))
  BY DEF EndInt, EndFloat, EndSymbol, EndKeyword, Emit, place
<1>2. PICK type, value : type \notin DelimTypes
                     /\ tokens' = Append(tokens, [type |-> type, value |-> value, at |-> start])
  <2>1. \E type, value : type \in {"int", "float", "symbol", "reserved", "keyword"}
                     /\ tokens' = Append(tokens, [type |-> type, value |-> value, at |-> start])
    <3> DEFINE Made(type, value) ==
               tokens' = Append(tokens, [type |-> type, value |-> value, at |-> start])
           kinds == {"int", "float", "symbol", "reserved", "keyword"}
    <3>1. ASSUME NEW type \in kinds, NEW value, Made(type, value)
          PROVE  \E t, v : t \in kinds /\ Made(t, v)
      <4> HIDE DEF Made, kinds
      <4> QED
        BY <3>1, Zenon
    <3>2. CASE EndInt
      <4>1. Made("int", Signed(StrToLL(Copied(MaxDigits))))
        BY <3>2 DEF EndInt, Emit
      <4> QED
        BY <3>1, <4>1
    <3>3. CASE EndFloat
      <4>1. Made("float", Signed(Decimal(Copied(MaxDigits))))
        BY <3>3 DEF EndFloat, Emit
      <4> QED
        BY <3>1, <4>1
    <3>4. CASE EndSymbol
      <4>1. PICK type \in {"reserved", "symbol"} : Made(type, Copied(MaxName))
        BY <3>4 DEF EndSymbol, Emit
      <4>2. type \in kinds
        OBVIOUS
      <4> QED
        BY <3>1, <4>1, <4>2
    <3>5. CASE EndKeyword
      <4>1. Made("keyword", Copied(MaxName))
        BY <3>5 DEF EndKeyword, Emit
      <4> QED
        BY <3>1, <4>1
    <3> QED
      BY <3>2, <3>3, <3>4, <3>5
  <2> QED
    BY <2>1 DEF DelimTypes
<1>3. InStep'
  BY <1>1 DEF LexInv, Lexed, InStep
<1>4. mode \in Texting
  BY <1>1 DEF Texting
<1> QED
  BY <1>1, <1>2, <1>3, <1>4, Emits

LEMMA FailuresInStep ==
    ASSUME Refuse \/ Unexpected \/ BadEscape \/ Unterminated \/ BareColon
    PROVE  Lexed'
<1>1. \E at, says : says # "" /\ error' = [at |-> at, says |-> says]
  <2>1. CASE Refuse
    <3>1. Char \in DOMAIN Refusals /\ error' = [at |-> Here, says |-> Refusals[Char]]
      BY <2>1 DEF Refuse, Sees, Fail
    <3>2. \A c \in DOMAIN Refusals : Refusals[c] # ""
      <4>1. \A c \in DOMAIN Refusals : Refusals[c] = "commas" \/ Refusals[c] = "brackets"
        BY Zenon DEF Refusals
      <4>2. "commas" # "" /\ "brackets" # ""
        OBVIOUS
      <4> QED
        BY <4>1, <4>2
    <3> QED
      BY <3>1, <3>2
  <2>2. CASE Unexpected
    BY <2>2 DEF Unexpected, Fail
  <2>3. CASE BadEscape
    BY <2>3 DEF BadEscape, Fail
  <2>4. CASE Unterminated
    BY <2>4 DEF Unterminated, Fail
  <2>5. CASE BareColon
    BY <2>5 DEF BareColon, Fail
  <2> QED
    BY <2>1, <2>2, <2>3, <2>4, <2>5
<1>2. error' # NoError
  <2>1. NoError.says = ""
    BY DEF NoError
  <2>2. PICK at, says : says # "" /\ error' = [at |-> at, says |-> says]
    BY <1>1
  <2>3. error'.says = says
    BY <2>2
  <2> QED
    BY <2>1, <2>2, <2>3
<1> QED
  BY <1>2 DEF Lexed

(* Nothing is read yet: no token, and nothing that a scan has seen.        *)
LEMMA NothingSeen ==
    ASSUME NEW p, NEW t, NEW ts, Len(t) \in Nat, p = 0, Len(ts) = 0
    PROVE  /\ Scans(t)[p].in = "code"
           /\ \E idx : idx \in [1..Len(ts) -> 1..p]
           /\ 1..Len(ts) = {} /\ 1..p = {}
<1>1. Scans(t)[0] = Unread
  BY ScansAre
<1>2. Unread.in = "code"
  BY DEF Unread
<1>3. 1..Len(ts) = {} /\ 1..p = {}
  OBVIOUS
<1>4. [k \in {} |-> 0] \in [1..Len(ts) -> 1..p]
  BY <1>3
<1> QED
  BY <1>1, <1>2, <1>3, <1>4

LEMMA LexInit ==
    ASSUME Init
    PROVE  LexInv
<1>1. TokInv /\ Located
  BY TokInit, LocatedInit
<1>2. mode = "call" /\ pos = 0 /\ Len(tokens) = 0
  BY DEF Init
<1>3. Len(src) \in Nat
  BY <1>1, Within
<1>4. (\E idx : idx \in [1..Len(tokens) -> 1..pos]) /\ 1..Len(tokens) = {} /\ 1..pos = {}
  BY <1>2, <1>3, NothingSeen
<1>5. PICK idx : idx \in [1..Len(tokens) -> 1..pos]
  BY <1>4
<1>6. Marks(idx)
  BY <1>4, <1>5 DEF Marks
<1>7. InStep
  BY <1>2 DEF InStep
<1> QED
  BY <1>1, <1>2, <1>6, <1>7 DEF LexInv, Lexed, Texting

LEMMA CallInStep ==
    ASSUME TokInv, TokInv', Call
    PROVE  Lexed'
<1>1. pos' = 0 /\ Len(tokens') = 0 /\ mode' = "between"
  BY DEF Call, place, TokInv, Fresh
<1>2. Len(src') \in Nat
  <2>1. src' \in Seq(STRING)
    BY DEF TokInv
  <2> QED
    BY <2>1
<1>3. /\ Scans(src')[pos'].in = "code"
      /\ \E idx : idx \in [1..Len(tokens') -> 1..pos']
      /\ 1..Len(tokens') = {} /\ 1..pos' = {}
  <2>1. PICK p, t, ts : p = pos' /\ t = src' /\ ts = tokens'
    OBVIOUS
  <2>2. Len(t) \in Nat /\ p = 0 /\ Len(ts) = 0
    BY <1>1, <1>2, <2>1
  <2>3. /\ Scans(t)[p].in = "code"
        /\ \E idx : idx \in [1..Len(ts) -> 1..p]
        /\ 1..Len(ts) = {} /\ 1..p = {}
    BY <2>2, NothingSeen
  <2> QED
    BY <2>1, <2>3
<1>4. PICK idx : idx \in [1..Len(tokens') -> 1..pos']
  BY <1>3
<1>5. Marks(idx)'
  BY <1>3, <1>4 DEF Marks
<1>6. InStep'
  BY <1>1, <1>3 DEF InStep
<1> QED
  BY <1>1, <1>5, <1>6 DEF Lexed, Texting

LEMMA LexNext ==
    ASSUME LexInv, [Next]_vars
    PROVE  LexInv'
<1>1. TokInv' /\ Located'
  BY TokNext, LocatedStays DEF LexInv
<1>2. CASE UNCHANGED vars
  <2>1. UNCHANGED <<mode, src, pos, line, col, start, tokens, error>>
    BY <1>2 DEF vars
  <2>2. Lexed'
    BY <2>1 DEF LexInv, Lexed, InStep, Marks, Pending, AtEnd, Char, Sees
  <2> QED
    BY <1>1, <2>2 DEF LexInv
<1>3. CASE error # NoError /\ UNCHANGED error
  BY <1>1, <1>3 DEF LexInv, Lexed, NoError, At
<1>4. CASE Call
  BY <1>1, <1>4, CallInStep DEF LexInv
<1>5. CASE Refuse \/ Unexpected \/ BadEscape \/ Unterminated \/ BareColon
  BY <1>1, <1>5, FailuresInStep DEF LexInv
<1>6. CASE SkipSpace \/ StartComment \/ SkipComment \/ EndComment \/ Finish
  <2>1. UNCHANGED error
    BY <1>6 DEF SkipSpace, StartComment, SkipComment, EndComment, Finish, Go, result
  <2> QED
    BY <1>1, <1>3, <1>6, <2>1, BlanksInStep DEF LexInv
<1>7. CASE Delim
  <2>1. UNCHANGED error
    BY <1>7 DEF Delim, Emit
  <2> QED
    BY <1>1, <1>3, <1>7, <2>1, BracketsInStep DEF LexInv
<1>8. CASE StartString \/ StringChar \/ Escape \/ EscapedChar \/ EndString
  <2>1. UNCHANGED error
    BY <1>8 DEF StartString, StringChar, Escape, EscapedChar, EndString, Go, Emit, result
  <2> QED
    BY <1>1, <1>3, <1>8, <2>1, StringsInStep DEF LexInv
<1>9. CASE StartNumber
  <2>1. UNCHANGED error
    BY <1>9 DEF StartNumber, Start, result
  <2> QED
    BY <1>1, <1>3, <1>9, <2>1, NumberStarts DEF LexInv
<1>10. CASE StartNegative \/ ReadDigit \/ ReadPoint \/ StartSymbol \/ StartKeyword \/ ReadName
  <2>1. UNCHANGED error
    BY <1>10 DEF StartNegative, ReadDigit, ReadPoint, StartSymbol, StartKeyword, ReadName, Start,
                 Go, result
  <2> QED
    BY <1>1, <1>3, <1>10, <2>1, NumbersInStep DEF LexInv
<1>11. CASE EndInt \/ EndFloat \/ EndSymbol \/ EndKeyword
  <2>1. UNCHANGED error
    BY <1>11 DEF EndInt, EndFloat, EndSymbol, EndKeyword, Emit
  <2> QED
    BY <1>1, <1>3, <1>11, <2>1, EndsInStep DEF LexInv
<1> QED
  BY <1>2, <1>4, <1>5, <1>6, <1>7, <1>8, <1>9, <1>10, <1>11 DEF Next

-----------------------------------------------------------------------------
(* Tokens as parse sees them *)

(* Tokens that parse was given.                                            *)
Given ==
    /\ Len(text) = Len(tokens)
    /\ \A k \in 1..Len(tokens) : text[k] = [type |-> tokens[k].type, value |-> tokens[k].value]

(* The character that token k begins with; the scan is there when parse    *)
(* has consumed k tokens.                                                  *)
CharOf(idx, k) == IF k = 0 THEN 0 ELSE idx[k]

LEMMA TokenCount ==
    ASSUME TokInv
    PROVE  Len(tokens) \in Nat /\ DOMAIN tokens = 1..Len(tokens)
<1>1. PICK S : tokens \in Seq(S)
  BY DEF TokInv, IsSeq
<1> QED
  BY <1>1

LEMMA BracketsGiven ==
    ASSUME Given, NEW idx, Marks(idx), NEW k \in 1..Len(tokens)
    PROVE  /\ text[k] \in P!Brackets <=> tokens[k].type \in DelimTypes
           /\ text[k] = P!Paren => tokens[k].type \in DelimTypes /\ src[idx[k]] = LParen
           /\ text[k] = P!ParenEnd => tokens[k].type \in DelimTypes /\ src[idx[k]] = RParen
           /\ text[k] = P!Brace => tokens[k].type \in DelimTypes /\ src[idx[k]] = LBrace
           /\ text[k] = P!BraceEnd => tokens[k].type \in DelimTypes /\ src[idx[k]] = RBrace
<1>1. PICK type, value : type = tokens[k].type /\ value = tokens[k].value
  OBVIOUS
<1>2. text[k] = [type |-> type, value |-> value]
  BY <1>1 DEF Given
<1>3. type \in DelimTypes =>
        src[idx[k]] \in DOMAIN Delims /\ type = Delims[src[idx[k]]] /\ value = "nil"
  BY <1>1 DEF Marks, Marked, Nil
<1>4. \A t : /\ P!Bracket(t) = [type |-> t, value |-> "nil"]
             /\ text[k] = P!Bracket(t) => type = t
             /\ type = t /\ value = "nil" => text[k] = P!Bracket(t)
  BY <1>2 DEF P!Bracket
<1>5. /\ P!Paren = P!Bracket("lparen") /\ P!ParenEnd = P!Bracket("rparen")
      /\ P!Brace = P!Bracket("lbrace") /\ P!BraceEnd = P!Bracket("rbrace")
      /\ P!Brackets = {P!Paren, P!ParenEnd, P!Brace, P!BraceEnd}
  BY DEF P!Paren, P!ParenEnd, P!Brace, P!BraceEnd, P!Brackets
<1>6. /\ text[k] = P!Paren => type = "lparen"
      /\ text[k] = P!ParenEnd => type = "rparen"
      /\ text[k] = P!Brace => type = "lbrace"
      /\ text[k] = P!BraceEnd => type = "rbrace"
  BY <1>4, <1>5
<1>7. type \in DelimTypes => text[k] \in P!Brackets
  BY <1>3, <1>4, <1>5 DEF DelimTypes
<1>8. \A c \in DOMAIN Delims :
        /\ Delims[c] = "lparen" => c = LParen
        /\ Delims[c] = "rparen" => c = RParen
        /\ Delims[c] = "lbrace" => c = LBrace
        /\ Delims[c] = "rbrace" => c = RBrace
  BY BracketChars, BracketsMatch
<1>9. type \in {"lparen", "rparen", "lbrace", "rbrace"} => type \in DelimTypes
  BY DEF DelimTypes
<1> QED
  BY <1>1, <1>3, <1>5, <1>6, <1>7, <1>8, <1>9

(* What the scan has learned with character n, the first of token k, when  *)
(* the brackets of open were open before it.                               *)
Learned(k, n, open) ==
    LET scan == Scans(src)[n]
        bracket == tokens[k].type \in DelimTypes
    IN  /\ ~ bracket => scan.open = open /\ scan.broken = 0
        /\ bracket /\ src[n] \in Openers => scan.open = Append(open, n) /\ scan.broken = 0
        /\ bracket /\ src[n] \in DOMAIN Opening =>
              IF open # <<>> /\ src[open[Len(open)]] = Opening[src[n]]
              THEN scan.open = SubSeq(open, 1, Len(open) - 1) /\ scan.broken = 0
              ELSE scan.broken = n

LEMMA TokenScanned ==
    ASSUME TokInv, NEW idx, Marks(idx), NEW j \in 0..Len(tokens), j < Len(tokens),
           NEW k, k = j + 1, NEW e, e = CharOf(idx, j), NEW n, n = idx[k],
           Scans(src)[e].broken = 0
    PROVE  n \in 1..pos /\ n = CharOf(idx, k) /\ Learned(k, n, Scans(src)[e].open)
<1>1. /\ Len(tokens) \in Nat /\ k \in 1..Len(tokens) /\ j < k
      /\ pos \in Nat /\ Len(src) \in Nat /\ pos <= Len(src)
  BY TokenCount, Within
<1>2. n \in 1..pos /\ n \in 1..Len(src) /\ n - 1 \in 0..Len(src) /\ k # 0
  BY <1>1 DEF Marks
<1>3. e \in 0..pos /\ e \in 0..Len(src) /\ e < n
  <2>1. CASE j = 0
    BY <1>1, <1>2, <2>1 DEF CharOf
  <2>2. CASE j # 0
    <3>1. j \in 1..Len(tokens) /\ e = idx[j]
      BY <2>2 DEF CharOf
    <3>2. e \in 1..pos /\ e < n
      BY <1>1, <3>1 DEF Marks
    <3> QED
      BY <1>1, <3>2
  <2> QED
    BY <2>1, <2>2
<1>4. ASSUME NEW m \in 1..Len(tokens), e < idx[m], idx[m] <= n PROVE m = k
  <2>1. ~ (m > k)
    <3>1. m > k => idx[k] < idx[m]
      BY <1>1 DEF Marks
    <3>2. idx[m] \in 1..pos
      BY DEF Marks
    <3> QED
      BY <1>2, <1>4, <3>1, <3>2
  <2>2. ~ (m <= j)
    <3> SUFFICES ASSUME m <= j PROVE FALSE
      OBVIOUS
    <3>1. j # 0 /\ j \in 1..Len(tokens) /\ e = idx[j]
      BY DEF CharOf
    <3>2. m = j \/ idx[m] < idx[j]
      BY <3>1 DEF Marks
    <3>3. idx[m] \in 1..pos /\ idx[j] \in 1..pos
      BY <3>1 DEF Marks
    <3> QED
      BY <1>3, <1>4, <3>1, <3>2, <3>3
  <2> QED
    BY <1>1, <2>1, <2>2
<1>5. ASSUME NEW m \in e + 1..n, Marked(src, m) PROVE m = n /\ tokens[k].type \in DelimTypes
  <2>1. m \in 1..pos /\ e < m /\ m <= n
    BY <1>1, <1>2, <1>3
  <2>2. PICK i \in 1..Len(tokens) : idx[i] = m /\ tokens[i].type \in DelimTypes
    BY <1>5, <2>1 DEF Marks
  <2>3. i = k
    BY <1>4, <2>1, <2>2
  <2> QED
    BY <2>2, <2>3
<1>6. /\ Scans(src)[n - 1].open = Scans(src)[e].open
      /\ Scans(src)[n - 1].broken = 0
  <2>1. PICK b : b = n - 1
    OBVIOUS
  <2>2. b \in e..Len(src)
    BY <1>2, <1>3, <2>1
  <2>3. \A m \in e + 1..b : ~ Marked(src, m)
    <3>1. \A m \in e + 1..b : m \in e + 1..n /\ m # n
      BY <1>2, <1>3, <2>1
    <3> QED
      BY <1>5, <3>1
  <2>4. Scans(src)[b].open = Scans(src)[e].open /\ Scans(src)[b].broken = Scans(src)[e].broken
    BY <1>1, <1>3, <2>2, <2>3, QuietScan
  <2> QED
    BY <2>1, <2>4
<1>7. Scans(src)[n] = Further(src, Scans(src)[n - 1], n)
  BY <1>1, <1>2, ScansAre
<1>8. tokens[k].type \in DelimTypes => Scans(src)[n - 1].in = "code" /\ src[n] \in DOMAIN Delims
  BY <1>1 DEF Marks, Marked
<1>9. tokens[k].type \notin DelimTypes => ~ (Scans(src)[n - 1].in = "code" /\ src[n] \in DOMAIN Delims)
  <2>1. n \in e + 1..n
    BY <1>2, <1>3
  <2> QED
    BY <1>5, <2>1 DEF Marked
<1>10. PICK b, f : b = Scans(src)[n - 1] /\ f = Scans(src)[n]
  OBVIOUS
<1>11. /\ ~ (b.in = "code" /\ src[n] \in DOMAIN Delims) => f.open = b.open /\ f.broken = b.broken
       /\ b.in = "code" /\ b.broken = 0 /\ src[n] \in Openers
             => f.open = Append(b.open, n) /\ f.broken = 0
       /\ b.in = "code" /\ b.broken = 0 /\ src[n] \in DOMAIN Opening =>
             IF b.open # <<>> /\ src[b.open[Len(b.open)]] = Opening[src[n]]
             THEN f.open = SubSeq(b.open, 1, Len(b.open) - 1) /\ f.broken = 0
             ELSE f.open = b.open /\ f.broken = n
  <2>1. f = Further(src, b, n)
    BY <1>7, <1>10
  <2> QED
    BY <2>1, FurtherIs
<1> QED
  BY <1>2, <1>6, <1>8, <1>9, <1>10, <1>11 DEF CharOf, Learned

(* No bracket counts after the last token.                                 *)
LEMMA RestScanned ==
    ASSUME TokInv, NEW idx, Marks(idx), pos = Len(src), NEW e, e = CharOf(idx, Len(tokens))
    PROVE  Scan(src).open = Scans(src)[e].open /\ Scan(src).broken = Scans(src)[e].broken
<1>1. Len(tokens) \in Nat /\ pos \in Nat /\ Len(src) \in Nat
  BY TokenCount, Within
<1>2. e \in 0..pos
  <2>1. CASE Len(tokens) = 0
    BY <1>1, <2>1 DEF CharOf
  <2>2. CASE Len(tokens) # 0
    <3>1. Len(tokens) \in 1..Len(tokens) /\ e = idx[Len(tokens)]
      BY <1>1, <2>2 DEF CharOf
    <3>2. e \in 1..pos
      BY <3>1 DEF Marks
    <3> QED
      BY <3>2
  <2> QED
    BY <2>1, <2>2
<1>3. ASSUME NEW m \in e + 1..Len(src), Marked(src, m) PROVE FALSE
  <2>1. m \in 1..pos /\ e < m
    BY <1>1, <1>2
  <2>2. PICK i \in 1..Len(tokens) : idx[i] = m
    BY <1>3, <2>1 DEF Marks
  <2>3. e = idx[Len(tokens)] /\ Len(tokens) \in 1..Len(tokens)
    BY <1>1 DEF CharOf
  <2>4. i = Len(tokens) \/ idx[i] < idx[Len(tokens)]
    BY <1>1, <2>3 DEF Marks
  <2> QED
    BY <1>2, <2>1, <2>2, <2>3, <2>4
<1>4. e \in 0..Len(src) /\ Len(src) \in e..Len(src)
  BY <1>1, <1>2
<1> QED
  BY <1>1, <1>3, <1>4, QuietScan DEF Scan

-----------------------------------------------------------------------------
(* Activations of parse and open brackets of the scan *)

Activation(S) == [kind : {"top", "list", "map"}, open : Nat, items : S]

(* The scan before token k + 1 has those brackets open whose activations   *)
(* fs holds, above the top level's.                                        *)
Nests(idx, k, fs) ==
    LET scan == Scans(src)[CharOf(idx, k)]
    IN  /\ k \in 0..Len(tokens)
        /\ \E S : fs \in Seq(Activation(S))
        /\ scan.broken = 0
        /\ \E n \in Nat : scan.open \in [1..n -> Nat] /\ Len(fs) = n + 1
        /\ \A d \in 1..Len(fs) :
              /\ (d = 1) <=> (fs[d].kind = "top")
              /\ d # 1 => /\ fs[d].open \in 1..Len(tokens)
                          /\ scan.open[d - 1] = idx[fs[d].open]
              /\ fs[d].kind = "list" => text[fs[d].open] = P!Paren
              /\ fs[d].kind = "map" => text[fs[d].open] = P!Brace

LEMMA FunctionsAreSequences ==
    ASSUME NEW n \in Nat, NEW S, NEW s, s \in [1..n -> S]
    PROVE  s \in Seq(S) /\ Len(s) = n
  OBVIOUS

LEMMA Stacked ==
    ASSUME NEW idx, NEW k, NEW fs, Nests(idx, k, fs)
    PROVE  /\ Len(fs) \in Nat \ {0}
           /\ Scans(src)[CharOf(idx, k)].open \in Seq(Nat)
           /\ Len(Scans(src)[CharOf(idx, k)].open) = Len(fs) - 1
           /\ \A d \in 1..Len(fs) : fs[d].kind \in {"top", "list", "map"} /\ fs[d].open \in Nat
<1>1. PICK S : fs \in Seq(Activation(S))
  BY DEF Nests
<1>2. PICK n \in Nat : Scans(src)[CharOf(idx, k)].open \in [1..n -> Nat] /\ Len(fs) = n + 1
  BY DEF Nests
<1>3. \A d \in 1..Len(fs) : fs[d] \in Activation(S)
  <2> DEFINE A == Activation(S)
  <2>1. fs \in Seq(A)
    BY <1>1
  <2> HIDE DEF A
  <2>2. \A d \in 1..Len(fs) : fs[d] \in A
    BY <2>1
  <2> QED
    BY <2>2 DEF A
<1>4. \A d \in 1..Len(fs) : fs[d].kind \in {"top", "list", "map"} /\ fs[d].open \in Nat
  BY <1>3 DEF Activation
<1>5. Scans(src)[CharOf(idx, k)].open \in Seq(Nat) /\ Len(Scans(src)[CharOf(idx, k)].open) = n
  BY <1>2, FunctionsAreSequences
<1> QED
  BY <1>2, <1>4, <1>5

(* What the innermost activation says about the scan.                      *)
LEMMA InnermostIs ==
    ASSUME Given, NEW idx, Marks(idx), NEW k, NEW fs, Nests(idx, k, fs),
           NEW open, open = Scans(src)[CharOf(idx, k)].open, NEW top, top = fs[Len(fs)]
    PROVE  /\ top.kind \in {"top", "list", "map"}
           /\ top.kind = "top" => Len(fs) = 1 /\ open = <<>>
           /\ top.kind # "top" => /\ Len(fs) > 1 /\ open # <<>> /\ Len(open) \in Nat \ {0}
                                  /\ top.open \in 1..Len(tokens) /\ open[Len(open)] = idx[top.open]
           /\ top.kind = "list" => src[open[Len(open)]] = LParen
           /\ top.kind = "map" => src[open[Len(open)]] = LBrace
<1>1. /\ Len(fs) \in Nat \ {0} /\ Len(fs) \in 1..Len(fs)
      /\ open \in Seq(Nat) /\ Len(open) = Len(fs) - 1
      /\ top.kind \in {"top", "list", "map"}
  BY Stacked
<1>2. top.kind = "top" => Len(fs) = 1
  BY <1>1 DEF Nests
<1>3. open = <<>> <=> Len(fs) = 1
  <2>1. open = <<>> <=> Len(open) = 0
    BY <1>1, EmptySeq
  <2> QED
    BY <1>1, <2>1
<1>4. top.kind # "top" => Len(fs) # 1
  BY <1>1 DEF Nests
<1>5. top.kind # "top" => Len(fs) > 1 /\ open # <<>> /\ Len(open) \in Nat \ {0}
  BY <1>1, <1>3, <1>4
<1>6. top.kind # "top" => top.open \in 1..Len(tokens) /\ open[Len(fs) - 1] = idx[top.open]
  BY <1>1, <1>4 DEF Nests
<1>7. top.kind = "list" => src[idx[top.open]] = LParen
  <2>1. top.kind = "list" => text[top.open] = P!Paren /\ top.kind # "top"
    BY <1>1 DEF Nests
  <2> QED
    BY <1>6, <2>1, BracketsGiven
<1>8. top.kind = "map" => src[idx[top.open]] = LBrace
  <2>1. top.kind = "map" => text[top.open] = P!Brace /\ top.kind # "top"
    BY <1>1 DEF Nests
  <2> QED
    BY <1>6, <2>1, BracketsGiven
<1> QED
  BY <1>1, <1>2, <1>3, <1>5, <1>6, <1>7, <1>8

LEMMA NestsSame ==
    ASSUME NEW idx, NEW j, NEW fs, Nests(idx, j, fs), NEW k \in 0..Len(tokens),
           Scans(src)[CharOf(idx, k)].open = Scans(src)[CharOf(idx, j)].open,
           Scans(src)[CharOf(idx, k)].broken = 0,
           NEW gs, \E S : gs \in Seq(Activation(S)), Len(gs) = Len(fs),
           \A d \in 1..Len(fs) : gs[d].kind = fs[d].kind /\ gs[d].open = fs[d].open
    PROVE  Nests(idx, k, gs)
  BY DEF Nests

LEMMA NestsPush ==
    ASSUME NEW idx, NEW j, NEW fs, Nests(idx, j, fs), NEW k \in 1..Len(tokens),
           NEW n \in Nat, n = idx[k],
           Scans(src)[CharOf(idx, k)].open = Append(Scans(src)[CharOf(idx, j)].open, n),
           Scans(src)[CharOf(idx, k)].broken = 0,
           NEW new, new.kind \in {"list", "map"}, new.open = k,
           new.kind = "list" => text[k] = P!Paren, new.kind = "map" => text[k] = P!Brace,
           \E S : fs \in Seq(Activation(S)) /\ new \in Activation(S)
    PROVE  Nests(idx, k, Append(fs, new))
<1> DEFINE L == Len(fs)
           old == Scans(src)[CharOf(idx, j)].open
           open == Append(old, idx[k])
<1>0. PICK S : fs \in Seq(Activation(S)) /\ new \in Activation(S)
  OBVIOUS
<1>1. L \in Nat \ {0} /\ old \in Seq(Nat) /\ Len(old) = L - 1
  BY Stacked
<1>2. /\ Append(fs, new) \in Seq(Activation(S)) /\ Len(Append(fs, new)) = L + 1
      /\ \A d \in 1..L : Append(fs, new)[d] = fs[d]
      /\ Append(fs, new)[L + 1] = new
  <2> DEFINE A == Activation(S)
  <2>1. fs \in Seq(A) /\ new \in A
    BY <1>0
  <2> HIDE DEF A
  <2>2. /\ Append(fs, new) \in Seq(A) /\ Len(Append(fs, new)) = L + 1
        /\ \A d \in 1..L : Append(fs, new)[d] = fs[d]
        /\ Append(fs, new)[L + 1] = new
    BY <2>1
  <2> QED
    BY <2>2 DEF A
<1>3. /\ open \in Seq(Nat) /\ Len(open) = L /\ open \in [1..L -> Nat]
      /\ \A d \in 1..L - 1 : open[d] = old[d]
      /\ open[L] = idx[k]
  <2> HIDE DEF old, L
  <2>1. /\ open \in Seq(Nat) /\ Len(open) = Len(old) + 1
        /\ \A d \in 1..Len(old) : open[d] = old[d]
        /\ open[Len(old) + 1] = idx[k]
    BY <1>1
  <2>2. Len(old) + 1 = L
    BY <1>1
  <2>3. open \in [1..Len(open) -> Nat]
    <3> HIDE DEF open
    <3> QED
      BY <2>1
  <2> QED
    BY <1>1, <2>1, <2>2, <2>3
<1>4. PICK gs, m : gs = Append(fs, new) /\ m = L + 1
  OBVIOUS
<1>5. /\ gs \in Seq(Activation(S)) /\ Len(gs) = m /\ m - 1 = L /\ m # 1
      /\ \A d \in 1..m : d = m \/ (d \in 1..L /\ gs[d] = fs[d] /\ (d # 1 => d - 1 \in 1..L - 1))
      /\ gs[m] = new
  BY <1>1, <1>2, <1>4
<1> HIDE DEF L, old, open
<1>6. PICK op : op = open
  OBVIOUS
<1>7. Scans(src)[CharOf(idx, k)].open = op
  BY <1>6 DEF open, old
<1>8. ASSUME NEW d \in 1..m
      PROVE  /\ (d = 1) <=> (gs[d].kind = "top")
             /\ d # 1 => gs[d].open \in 1..Len(tokens) /\ op[d - 1] = idx[gs[d].open]
             /\ gs[d].kind = "list" => text[gs[d].open] = P!Paren
             /\ gs[d].kind = "map" => text[gs[d].open] = P!Brace
  <2>1. CASE d = m
    BY <1>3, <1>5, <1>6, <2>1
  <2>2. CASE d # m
    <3>1. /\ d \in 1..L /\ gs[d] = fs[d] /\ (d # 1 => op[d - 1] = old[d - 1])
      BY <1>3, <1>5, <1>6, <2>2
    <3> QED
      BY <3>1 DEF Nests, L, old
  <2> QED
    BY <2>1, <2>2
<1>9. Nests(idx, k, gs)
  <2>1. k \in 0..Len(tokens)
    OBVIOUS
  <2>2. L \in Nat /\ op \in [1..L -> Nat] /\ Len(gs) = L + 1
    BY <1>1, <1>3, <1>4, <1>5, <1>6
  <2> QED
    BY <1>5, <1>7, <1>8, <2>1, <2>2 DEF Nests
<1> QED
  BY <1>4, <1>9

LEMMA FrontIs ==
    ASSUME NEW A, NEW s \in Seq(A), NEW L, L = Len(s), L \in Nat \ {0}
    PROVE  /\ SubSeq(s, 1, L - 1) \in Seq(A) /\ Len(SubSeq(s, 1, L - 1)) = L - 1
           /\ \A d \in 1..L - 1 : SubSeq(s, 1, L - 1)[d] = s[d]
<1> DEFINE front == SubSeq(s, 1, L - 1)
<1>1. \A i \in 1..L - 1 : s[i] \in A
  OBVIOUS
<1>2. /\ front \in Seq(A)
      /\ Len(front) = IF 1 <= L - 1 THEN L - 1 - 1 + 1 ELSE 0
      /\ \A i \in 1..L - 1 - 1 + 1 : front[i] = s[1 + i - 1]
  <2>1. 1 \in Int /\ L - 1 \in Int
    OBVIOUS
  <2> QED
    BY <1>1, <2>1, SubSeqProperties
<1>3. (IF 1 <= L - 1 THEN L - 1 - 1 + 1 ELSE 0) = L - 1 /\ L - 1 - 1 + 1 = L - 1
      /\ \A i \in 1..L - 1 : 1 + i - 1 = i
  OBVIOUS
<1> QED
  BY <1>2, <1>3

LEMMA NestsPop ==
    ASSUME NEW idx, NEW j, NEW fs, Nests(idx, j, fs), NEW k \in 0..Len(tokens),
           Len(fs) > 1,
           NEW old, old = Scans(src)[CharOf(idx, j)].open,
           Scans(src)[CharOf(idx, k)].open = SubSeq(old, 1, Len(old) - 1),
           Scans(src)[CharOf(idx, k)].broken = 0
    PROVE  Nests(idx, k, SubSeq(fs, 1, Len(fs) - 1))
<1>1. Len(fs) \in Nat \ {0} /\ old \in Seq(Nat) /\ Len(old) = Len(fs) - 1
  BY Stacked
<1>2. PICK S : fs \in Seq(Activation(S))
  BY DEF Nests
<1>3. PICK outer : outer = SubSeq(fs, 1, Len(fs) - 1)
  OBVIOUS
<1>4. /\ outer \in Seq(Activation(S)) /\ Len(outer) = Len(fs) - 1
      /\ \A d \in 1..Len(fs) - 1 : outer[d] = fs[d]
  <2> DEFINE A == Activation(S)
  <2>1. fs \in Seq(A)
    BY <1>2
  <2> HIDE DEF A
  <2>2. PICK L : L = Len(fs)
    OBVIOUS
  <2>3. /\ SubSeq(fs, 1, L - 1) \in Seq(A) /\ Len(SubSeq(fs, 1, L - 1)) = L - 1
        /\ \A d \in 1..L - 1 : SubSeq(fs, 1, L - 1)[d] = fs[d]
    BY <1>1, <2>1, <2>2, FrontIs
  <2> QED
    BY <1>3, <2>2, <2>3 DEF A
<1>5. PICK op : op = SubSeq(old, 1, Len(old) - 1)
  OBVIOUS
<1>6. op \in Seq(Nat) /\ Len(op) = Len(old) - 1 /\ \A d \in 1..Len(old) - 1 : op[d] = old[d]
  <2>1. PICK L : L = Len(old)
    OBVIOUS
  <2>2. L \in Nat \ {0} /\ L = Len(old) /\ old \in Seq(Nat)
    <3>1. PICK m : m = Len(fs)
      OBVIOUS
    <3>2. m \in Nat /\ m > 1 /\ L = m - 1
      BY <1>1, <2>1, <3>1
    <3> QED
      BY <1>1, <2>1, <3>2
  <2>3. /\ SubSeq(old, 1, L - 1) \in Seq(Nat) /\ Len(SubSeq(old, 1, L - 1)) = L - 1
        /\ \A d \in 1..L - 1 : SubSeq(old, 1, L - 1)[d] = old[d]
    <3>1. PICK A : A = Nat
      OBVIOUS
    <3>2. old \in Seq(A) /\ L \in Nat \ {0}
      BY <2>2, <3>1
    <3>3. /\ SubSeq(old, 1, L - 1) \in Seq(A) /\ Len(SubSeq(old, 1, L - 1)) = L - 1
          /\ \A d \in 1..L - 1 : SubSeq(old, 1, L - 1)[d] = old[d]
      <4> QED
        BY <2>2, <3>2, FrontIs
    <3> QED
      BY <3>1, <3>3
  <2> QED
    BY <1>5, <2>1, <2>3
<1>7. PICK n : n = Len(op)
  OBVIOUS
<1>8. n \in Nat /\ op \in [1..n -> Nat] /\ Len(outer) = n + 1
  BY <1>1, <1>4, <1>6, <1>7
<1>9. Scans(src)[CharOf(idx, k)].open = op
  BY <1>5
<1>10. ASSUME NEW d \in 1..Len(outer)
       PROVE  /\ (d = 1) <=> (outer[d].kind = "top")
              /\ d # 1 => outer[d].open \in 1..Len(tokens) /\ op[d - 1] = idx[outer[d].open]
              /\ outer[d].kind = "list" => text[outer[d].open] = P!Paren
              /\ outer[d].kind = "map" => text[outer[d].open] = P!Brace
  <2>1. d \in 1..Len(fs) /\ outer[d] = fs[d] /\ (d # 1 => d - 1 \in 1..Len(old) - 1)
    BY <1>1, <1>4
  <2>2. d # 1 => op[d - 1] = old[d - 1]
    BY <1>6, <2>1
  <2> QED
    BY <2>1, <2>2 DEF Nests
<1>11. Nests(idx, k, outer)
  BY <1>4, <1>8, <1>9, <1>10 DEF Nests
<1> QED
  BY <1>3, <1>11

(* A form is taken by the innermost activation.                            *)
LEMMA TakeIs ==
    ASSUME NEW S, NEW fs \in Seq(Activation(S)), Len(fs) \in Nat \ {0}, NEW form
    PROVE  /\ \E T : P!Take(fs, form) \in Seq(Activation(T))
           /\ Len(P!Take(fs, form)) = Len(fs)
           /\ \A d \in 1..Len(fs) : /\ P!Take(fs, form)[d].kind = fs[d].kind
                                    /\ P!Take(fs, form)[d].open = fs[d].open
<1> DEFINE L == Len(fs)
           items == Append(fs[L].items, form)
           T == S \cup {items}
           new == [fs[L] EXCEPT !.items = items]
           A == Activation(S)
           B == Activation(T)
<1>1. fs \in Seq(A) /\ L \in Nat \ {0}
  OBVIOUS
<1>2. fs[L] \in A
  <2> HIDE DEF A
  <2> QED
    BY <1>1
<1>3. A \subseteq B /\ items \in T
  BY DEF Activation
<1> HIDE DEF items
<1>4. new \in B /\ new.kind = fs[L].kind /\ new.open = fs[L].open
  BY <1>2, <1>3 DEF Activation
<1>5. P!Take(fs, form) = [fs EXCEPT ![L] = new]
  BY DEF P!Take, items
<1> HIDE DEF A, B, new
<1>6. fs \in Seq(B)
  BY <1>1, <1>3
<1>7. /\ P!Take(fs, form) \in Seq(B) /\ Len(P!Take(fs, form)) = L
      /\ P!Take(fs, form)[L] = new
      /\ \A d \in 1..L : d # L => P!Take(fs, form)[d] = fs[d]
  BY <1>1, <1>4, <1>5, <1>6
<1> QED
  BY <1>4, <1>7 DEF B

LEMMA NestsTake ==
    ASSUME NEW idx, NEW k, NEW fs, Nests(idx, k, fs), NEW form
    PROVE  Nests(idx, k, P!Take(fs, form))
<1>1. PICK S : fs \in Seq(Activation(S))
  BY DEF Nests
<1>2. Len(fs) \in Nat \ {0}
  BY Stacked
<1>3. PICK gs : gs = P!Take(fs, form)
  OBVIOUS
<1>4. /\ \E T : gs \in Seq(Activation(T))
      /\ Len(gs) = Len(fs)
      /\ \A d \in 1..Len(fs) : gs[d].kind = fs[d].kind /\ gs[d].open = fs[d].open
  BY <1>1, <1>2, <1>3, TakeIs
<1>5. k \in 0..Len(tokens) /\ Scans(src)[CharOf(idx, k)].broken = 0
  BY DEF Nests
<1> QED
  BY <1>3, <1>4, <1>5, NestsSame

-----------------------------------------------------------------------------
(* A turn of parse keeps step with the scan *)

NotClosing == {"unexpected", "unexpected '}' inside list", "unexpected ')' inside map"}
ParenUnclosed == "unmatched '('"
BraceUnclosed == "unmatched '{'"
OddForms == "odd number of forms in map literal"

LEMMA MessagesDiffer ==
    /\ "" \notin NotClosing \cup {ParenUnclosed, BraceUnclosed, OddForms}
    /\ ParenUnclosed \notin NotClosing /\ BraceUnclosed \notin NotClosing /\ OddForms \notin NotClosing
    /\ ParenUnclosed # BraceUnclosed /\ OddForms # ParenUnclosed /\ OddForms # BraceUnclosed
    /\ P!NoError.says = ""
<1>1. /\ \A m \in NotClosing : m # "" /\ m # ParenUnclosed /\ m # BraceUnclosed /\ m # OddForms
      /\ ParenUnclosed # "" /\ BraceUnclosed # "" /\ OddForms # ""
  BY Zenon DEF NotClosing, ParenUnclosed, BraceUnclosed, OddForms
<1>2. ParenUnclosed # BraceUnclosed /\ OddForms # ParenUnclosed /\ OddForms # BraceUnclosed
  BY Zenon DEF ParenUnclosed, BraceUnclosed, OddForms
<1>3. P!NoError.says = ""
  BY DEF P!NoError
<1> QED
  BY <1>1, <1>2, <1>3

(* What the error f of parse says of the whole text.                       *)
PointsRight(f) ==
    LET scan == Scan(src)
        unclosed == scan.open[Len(scan.open)]
        unmatched(c) ==
            /\ scan.broken = 0 /\ scan.open # <<>> /\ unclosed > 0
            /\ src[unclosed] = c /\ tokens[f.at].at = PlaceOf(src, unclosed)
    IN  /\ f.at \in DOMAIN tokens
        /\ f.says \in NotClosing => scan.broken > 0 /\ tokens[f.at].at = PlaceOf(src, scan.broken)
        /\ f.says = ParenUnclosed => unmatched(LParen)
        /\ f.says = BraceUnclosed => unmatched(LBrace)

ReadInv ==
    /\ LexInv
    /\ stage = "call" => next = 0 /\ fault = P!NoError
    /\ stage # "call" => mode = "done" /\ (error = NoError => Given)
    /\ stage = "parse" => error = NoError
    /\ stage = "parse" /\ fault = P!NoError => \E idx : Marks(idx) /\ Nests(idx, next, frames)
    /\ stage = "done" /\ error = NoError /\ fault = P!NoError =>
          Scan(src).open = <<>> /\ Scan(src).broken = 0
    /\ error = NoError /\ fault # P!NoError => PointsRight(fault)

(* When parse has a turn, tok has read the whole text.                     *)
LEMMA InTurn ==
    ASSUME ReadInv, stage = "parse"
    PROVE  /\ TokInv /\ Given /\ error = NoError /\ mode = "done"
           /\ pos = Len(src) /\ Len(src) \in Nat /\ Len(tokens) \in Nat
           /\ DOMAIN tokens = 1..Len(tokens) /\ Len(text) = Len(tokens)
<1>1. TokInv /\ Given /\ error = NoError /\ mode = "done" /\ Lexed
  BY DEF ReadInv, LexInv
<1>2. AtEnd
  BY <1>1 DEF Lexed, InStep
<1>3. pos = Len(src) /\ Len(src) \in Nat
  BY <1>1, <1>2, Within DEF AtEnd
<1> QED
  BY <1>1, <1>3, TokenCount DEF Given

LEMMA TokStays ==
    ASSUME ReadInv, UNCHANGED tok
    PROVE  /\ LexInv' /\ UNCHANGED <<mode, src, pos, tokens, error>>
           /\ \A idx : Marks(idx) => Marks(idx)'
<1>1. LexInv' /\ UNCHANGED <<mode, src, pos, tokens, error>>
  BY LexNext DEF ReadInv, tok, vars
<1> QED
  BY <1>1 DEF Marks

LEMMA ReadsOn ==
    ASSUME ReadInv, stage = "parse", stage' = "parse", UNCHANGED <<tok, text, fault>>,
           fault = P!NoError,
           NEW idx, Marks(idx), Nests(idx, next', frames')
    PROVE  ReadInv'
<1>1. /\ LexInv' /\ UNCHANGED <<mode, src, pos, tokens, error>> /\ Marks(idx)'
  BY TokStays
<1>2. Nests(idx, next, frames)'
  BY <1>1 DEF Nests
<1>3. Given' /\ error' = NoError /\ mode' = "done"
  BY <1>1, InTurn DEF Given
<1> QED
  BY <1>1, <1>2, <1>3 DEF ReadInv

LEMMA Faults ==
    ASSUME ReadInv, stage = "parse", stage' \in {"parse", "done"}, UNCHANGED <<tok, text>>,
           fault'.says # "", PointsRight(fault')
    PROVE  ReadInv'
<1>1. /\ LexInv' /\ UNCHANGED <<mode, src, pos, tokens, error>>
  BY TokStays
<1>2. Given' /\ error' = NoError /\ mode' = "done"
  BY <1>1, InTurn DEF Given
<1>3. fault' # P!NoError
  BY MessagesDiffer
<1>4. PointsRight(fault)'
  BY <1>1 DEF PointsRight
<1> QED
  BY <1>1, <1>2, <1>3, <1>4 DEF ReadInv

LEMMA Consumes ==
    ASSUME ReadInv, stage = "parse", fault = P!NoError, ~ (next >= Len(text))
    PROVE  \E idx, k, n, open :
              /\ Marks(idx) /\ Nests(idx, next, frames) /\ open = Scans(src)[CharOf(idx, next)].open
              /\ k = next + 1 /\ k \in 1..Len(tokens) /\ n = idx[k]
              /\ n \in 1..pos /\ n = CharOf(idx, k) /\ Learned(k, n, open)
              /\ text[k] \in P!Brackets <=> tokens[k].type \in DelimTypes
<1>1. TokInv /\ Given /\ Len(tokens) \in Nat /\ Len(text) = Len(tokens)
  BY InTurn
<1>2. PICK idx : Marks(idx) /\ Nests(idx, next, frames)
  BY DEF ReadInv
<1>3. PICK j, k : j = next /\ k = j + 1
  OBVIOUS
<1>4. j \in 0..Len(tokens) /\ j < Len(tokens) /\ k \in 1..Len(tokens)
  <2>1. j \in 0..Len(tokens)
    BY <1>2, <1>3 DEF Nests
  <2>2. ~ (j >= Len(tokens))
    BY <1>1, <1>3
  <2> QED
    BY <1>1, <1>3, <2>1, <2>2
<1>5. PICK e, n, open : e = CharOf(idx, j) /\ n = idx[k] /\ open = Scans(src)[e].open
  OBVIOUS
<1>6. Scans(src)[e].broken = 0
  BY <1>2, <1>3, <1>5 DEF Nests
<1>7. n \in 1..pos /\ n = CharOf(idx, k) /\ Learned(k, n, open)
  <2>1. /\ TokInv /\ Marks(idx) /\ j \in 0..Len(tokens) /\ j < Len(tokens)
        /\ k = j + 1 /\ e = CharOf(idx, j) /\ n = idx[k] /\ Scans(src)[e].broken = 0
    BY <1>1, <1>2, <1>3, <1>4, <1>5, <1>6
  <2>2. n \in 1..pos /\ n = CharOf(idx, k) /\ Learned(k, n, Scans(src)[e].open)
    BY <2>1, TokenScanned, Zenon
  <2> QED
    BY <1>5, <2>2
<1>8. text[k] \in P!Brackets <=> tokens[k].type \in DelimTypes
  BY <1>1, <1>2, <1>4, BracketsGiven
<1> QED
  BY <1>2, <1>3, <1>4, <1>5, <1>7, <1>8

LEMMA ReadAtomNests ==
    ASSUME ReadInv, UNCHANGED tok, P!ReadAtom
    PROVE  ReadInv'
<1>1. /\ stage = "parse" /\ fault = P!NoError /\ ~ (next >= Len(text))
      /\ text[next + 1] \notin P!Brackets
      /\ next' = next + 1 /\ frames' = P!Take(frames, P!Atom(P!Token))
      /\ stage' = "parse" /\ UNCHANGED <<text, fault>>
  BY DEF P!ReadAtom, P!Turn, P!AtEnd, P!Token
<1>2. PICK idx, k, n, open :
        /\ Marks(idx) /\ Nests(idx, next, frames) /\ open = Scans(src)[CharOf(idx, next)].open
        /\ k = next + 1 /\ k \in 1..Len(tokens) /\ n = CharOf(idx, k)
        /\ text[k] \notin P!Brackets => Scans(src)[n].open = open /\ Scans(src)[n].broken = 0
  BY <1>1, Consumes DEF Learned
<1>3. PICK gs : gs = P!Take(frames, P!Atom(P!Token))
  OBVIOUS
<1>4. Nests(idx, next, gs)
  BY <1>2, <1>3, NestsTake
<1>5. Nests(idx, k, gs)
  <2>1. /\ Scans(src)[CharOf(idx, k)].open = Scans(src)[CharOf(idx, next)].open
        /\ Scans(src)[CharOf(idx, k)].broken = 0 /\ k \in 0..Len(tokens)
    BY <1>1, <1>2
  <2>2. \E S : gs \in Seq(Activation(S))
    BY <1>4 DEF Nests
  <2> QED
    BY <1>4, <2>1, <2>2, NestsSame
<1> QED
  BY <1>1, <1>2, <1>3, <1>5, ReadsOn

LEMMA OpenNests ==
    ASSUME ReadInv, UNCHANGED tok,
           NEW t, NEW kind, P!Open(t, kind),
           \/ t = P!Paren /\ kind = "list"
           \/ t = P!Brace /\ kind = "map"
    PROVE  ReadInv'
<1> DEFINE new == [kind |-> kind, open |-> next + 1, items |-> <<>>]
<1>1. /\ stage = "parse" /\ fault = P!NoError /\ ~ (next >= Len(text))
      /\ text[next + 1] = t
      /\ next' = next + 1 /\ frames' = Append(frames, new)
      /\ stage' = "parse" /\ UNCHANGED <<text, fault>>
  BY DEF P!Open, P!Sees, P!Turn, P!AtEnd, P!Token
<1>2. PICK idx, k, n, open :
        /\ Marks(idx) /\ Nests(idx, next, frames) /\ open = Scans(src)[CharOf(idx, next)].open
        /\ k = next + 1 /\ k \in 1..Len(tokens) /\ n = idx[k] /\ n \in 1..pos /\ n = CharOf(idx, k)
        /\ src[n] \in Openers /\ text[k] \in P!Brackets =>
              Scans(src)[n].open = Append(open, n) /\ Scans(src)[n].broken = 0
  BY <1>1, Consumes DEF Learned
<1>3. src[n] \in Openers /\ text[k] \in P!Brackets
  <2>1. text[k] = t /\ Given
    BY <1>1, <1>2, InTurn
  <2>2. src[n] \in {LParen, LBrace}
    BY <1>2, <2>1, BracketsGiven
  <2> QED
    BY <2>1, <2>2, BracketChars DEF P!Brackets
<1>4. /\ new.kind = kind /\ new.open = k
      /\ kind = "list" => text[k] = P!Paren
      /\ kind = "map" => text[k] = P!Brace
  BY <1>1, <1>2
<1>5. PICK S : frames \in Seq(Activation(S))
  BY <1>2 DEF Nests
<1> DEFINE T == S \cup {<<>>}
<1>6. \E U : frames \in Seq(Activation(U)) /\ new \in Activation(U)
  <2>1. k \in Nat
    BY <1>2, InTurn, <1>1
  <2>2. new \in Activation(T)
    BY <1>2, <2>1 DEF Activation
  <2> DEFINE A == Activation(S)
             B == Activation(T)
  <2>3. A \subseteq B /\ frames \in Seq(A)
    BY <1>5 DEF Activation
  <2> HIDE DEF A, B, T, new
  <2>4. frames \in Seq(B)
    BY <2>3
  <2> QED
    BY <2>2, <2>4 DEF B
<1> HIDE DEF new, T
<1>7. Nests(idx, k, Append(frames, new))
  <2>1. /\ Scans(src)[CharOf(idx, k)].open = Append(Scans(src)[CharOf(idx, next)].open, n)
        /\ Scans(src)[CharOf(idx, k)].broken = 0 /\ n \in Nat /\ n = idx[k]
    BY <1>2, <1>3
  <2>2. new.kind \in {"list", "map"}
    BY <1>4
  <2>3. /\ Nests(idx, next, frames) /\ k \in 1..Len(tokens) /\ new.open = k
        /\ new.kind = "list" => text[k] = P!Paren
        /\ new.kind = "map" => text[k] = P!Brace
    BY <1>2, <1>4
  <2> QED
    BY <1>6, <2>1, <2>2, <2>3, NestsPush
<1> QED
  BY <1>1, <1>2, <1>7, ReadsOn

LEMMA CloseNests ==
    ASSUME ReadInv, UNCHANGED tok,
           NEW t, NEW kind, NEW form, P!Sees(t), P!In(kind), P!Close(form),
           \/ t = P!ParenEnd /\ kind = "list"
           \/ t = P!BraceEnd /\ kind = "map"
    PROVE  ReadInv'
<1>1. /\ stage = "parse" /\ fault = P!NoError /\ ~ (next >= Len(text))
      /\ text[next + 1] = t /\ frames[Len(frames)].kind = kind
      /\ next' = next + 1 /\ frames' = P!Take(SubSeq(frames, 1, Len(frames) - 1), form)
      /\ stage' = "parse" /\ UNCHANGED <<text, fault>>
  BY DEF P!Sees, P!Turn, P!AtEnd, P!Token, P!In, P!Top, P!Outer, P!Close
<1>2. PICK idx, k, n, open :
        /\ Marks(idx) /\ Nests(idx, next, frames) /\ open = Scans(src)[CharOf(idx, next)].open
        /\ k = next + 1 /\ k \in 1..Len(tokens) /\ n = idx[k] /\ n = CharOf(idx, k)
        /\ src[n] \in DOMAIN Opening /\ text[k] \in P!Brackets =>
              IF open # <<>> /\ src[open[Len(open)]] = Opening[src[n]]
              THEN /\ Scans(src)[n].open = SubSeq(open, 1, Len(open) - 1)
                   /\ Scans(src)[n].broken = 0
              ELSE Scans(src)[n].broken = n
  BY <1>1, Consumes DEF Learned
<1>3. PICK top : top = frames[Len(frames)]
  OBVIOUS
<1>4. /\ Given /\ top.kind = kind /\ text[k] = t
      /\ kind = "list" => src[open[Len(open)]] = LParen
      /\ kind = "map" => src[open[Len(open)]] = LBrace
      /\ Len(frames) > 1 /\ open # <<>>
  BY <1>1, <1>2, <1>3, InTurn, InnermostIs
<1>5. /\ t = P!ParenEnd => src[n] = RParen
      /\ t = P!BraceEnd => src[n] = RBrace
  BY <1>2, <1>4, BracketsGiven
<1>6. /\ src[n] \in DOMAIN Opening /\ text[k] \in P!Brackets
      /\ src[open[Len(open)]] = Opening[src[n]]
  BY <1>4, <1>5, BracketChars, BracketsMatch DEF P!Brackets
<1>7. PICK outer : outer = SubSeq(frames, 1, Len(frames) - 1)
  OBVIOUS
<1>8. Nests(idx, k, outer)
  <2>1. /\ Scans(src)[CharOf(idx, k)].open = SubSeq(open, 1, Len(open) - 1)
        /\ Scans(src)[CharOf(idx, k)].broken = 0 /\ k \in 0..Len(tokens)
    BY <1>2, <1>4, <1>6
  <2> QED
    BY <1>2, <1>4, <1>7, <2>1, NestsPop
<1>9. Nests(idx, next', frames')
  BY <1>1, <1>2, <1>7, <1>8, NestsTake
<1> QED
  BY <1>1, <1>2, <1>9, ReadsOn

(* A bracket that closes none is the first that is wrong in the whole text. *)
LEMMA BrokenHere ==
    ASSUME ReadInv, stage = "parse", NEW idx, Marks(idx), NEW k \in 1..Len(tokens),
           NEW n, n = idx[k], Scans(src)[n].broken = n, NEW says \in NotClosing
    PROVE  PointsRight([at |-> k, says |-> says])
<1> DEFINE f == [at |-> k, says |-> says]
<1>1. f.at = k /\ f.says = says
  OBVIOUS
<1> HIDE DEF f
<1>2. TokInv /\ pos = Len(src) /\ Len(src) \in Nat /\ k \in DOMAIN tokens
  BY InTurn
<1>3. n \in 1..Len(src) /\ tokens[k].at = PlaceOf(src, n)
  BY <1>2 DEF Marks
<1>4. n \in 0..Len(src) /\ Len(src) \in n..Len(src) /\ Scans(src)[n].broken # 0
  BY <1>2, <1>3
<1>5. Scan(src).broken = n
  BY <1>2, <1>4, QuietScan DEF Scan
<1>6. n > 0
  BY <1>3
<1>7. says # ParenUnclosed /\ says # BraceUnclosed
  BY MessagesDiffer
<1>8. PointsRight(f)
  BY <1>1, <1>2, <1>3, <1>5, <1>6, <1>7 DEF PointsRight
<1> QED
  BY <1>8 DEF f

LEMMA AllRead ==
    ASSUME ReadInv, stage = "parse", next >= Len(text), NEW idx, Nests(idx, next, frames)
    PROVE  next = Len(tokens)
<1>1. next \in 0..Len(tokens)
  BY DEF Nests
<1>2. Len(tokens) \in Nat /\ Len(text) = Len(tokens)
  BY InTurn
<1> QED
  BY <1>1, <1>2

(* The text ends in an activation that its bracket has not closed.         *)
LEMMA UnclosedHere ==
    ASSUME ReadInv, stage = "parse", fault = P!NoError, next >= Len(text),
           NEW top, top = frames[Len(frames)], top.kind # "top", NEW says,
           says = IF top.kind = "list" THEN ParenUnclosed ELSE BraceUnclosed
    PROVE  PointsRight([at |-> top.open, says |-> says])
<1> DEFINE f == [at |-> top.open, says |-> says]
<1>1. f.at = top.open /\ f.says = says
  OBVIOUS
<1> HIDE DEF f
<1>2. /\ TokInv /\ Given /\ pos = Len(src) /\ Len(src) \in Nat /\ Len(tokens) \in Nat
      /\ DOMAIN tokens = 1..Len(tokens) /\ Len(text) = Len(tokens)
  BY InTurn
<1>3. PICK idx : Marks(idx) /\ Nests(idx, next, frames)
  BY DEF ReadInv
<1>4. next = Len(tokens)
  BY <1>3, AllRead
<1>5. PICK e, open : e = CharOf(idx, next) /\ open = Scans(src)[e].open
  OBVIOUS
<1>6. Scan(src).open = open /\ Scan(src).broken = 0
  <2>1. e = CharOf(idx, Len(tokens)) /\ Scans(src)[e].broken = 0
    BY <1>3, <1>4, <1>5 DEF Nests
  <2> QED
    BY <1>2, <1>3, <1>5, <2>1, RestScanned
<1>7. /\ top.kind \in {"top", "list", "map"}
      /\ open # <<>> /\ top.open \in 1..Len(tokens) /\ open[Len(open)] = idx[top.open]
      /\ top.kind = "list" => src[open[Len(open)]] = LParen
      /\ top.kind = "map" => src[open[Len(open)]] = LBrace
  <2>1. open = Scans(src)[CharOf(idx, next)].open
    BY <1>5
  <2> QED
    BY <1>2, <1>3, <2>1, InnermostIs
<1>8. PICK last : last = open[Len(open)]
  OBVIOUS
<1>9. last > 0 /\ tokens[top.open].at = PlaceOf(src, last)
  <2>1. last = idx[top.open] /\ idx[top.open] \in 1..pos /\ pos \in Nat
    BY <1>2, <1>3, <1>7, <1>8 DEF Marks
  <2>2. last > 0
    BY <2>1
  <2> QED
    BY <1>3, <1>7, <2>1, <2>2 DEF Marks
<1>10. says # BraceUnclosed => src[last] = LParen
  BY <1>7, <1>8
<1>11. says # ParenUnclosed => src[last] = LBrace
  BY <1>7, <1>8
<1>12. says \notin NotClosing /\ ParenUnclosed # BraceUnclosed
  BY MessagesDiffer
<1>13. PointsRight(f)
  BY <1>1, <1>2, <1>6, <1>7, <1>8, <1>9, <1>10, <1>11, <1>12 DEF PointsRight
<1> QED
  BY <1>13 DEF f

(* The ways out: the text ends inside an activation, a bracket closes none,*)
(* or a map has a key without a value.                                     *)
LEMMA EndPoints ==
    ASSUME ReadInv, UNCHANGED tok, P!EndInList \/ P!EndInMap
    PROVE  ReadInv'
<1>1. PICK top : top = frames[Len(frames)]
  OBVIOUS
<1>2. PICK says : /\ fault' = [at |-> top.open, says |-> says] /\ top.kind # "top"
                  /\ says = IF top.kind = "list" THEN ParenUnclosed ELSE BraceUnclosed
  <2>1. CASE P!EndInList
    <3>1. fault' = [at |-> top.open, says |-> ParenUnclosed] /\ top.kind = "list"
      BY <1>1, <2>1, Zenon DEF P!EndInList, P!Abandon, P!In, P!Top, ParenUnclosed
    <3> QED
      BY <3>1
  <2>2. CASE P!EndInMap
    <3>1. fault' = [at |-> top.open, says |-> BraceUnclosed] /\ top.kind = "map"
      BY <1>1, <2>2, Zenon DEF P!EndInMap, P!Abandon, P!In, P!Top, BraceUnclosed
    <3> QED
      BY <3>1
  <2> QED
    BY <2>1, <2>2
<1>3. /\ stage = "parse" /\ fault = P!NoError /\ next >= Len(text)
      /\ stage' = stage /\ UNCHANGED text
  BY Zenon DEF P!EndInList, P!EndInMap, P!Abandon, P!Turn, P!AtEnd
<1>4. PointsRight(fault')
  BY <1>1, <1>2, <1>3, UnclosedHere
<1>5. fault'.says # ""
  <2>1. fault'.says = says
    BY <1>2
  <2> QED
    BY <1>2, <2>1, MessagesDiffer
<1> QED
  BY <1>3, <1>4, <1>5, Faults

LEMMA StrayPoints ==
    ASSUME ReadInv, UNCHANGED tok, P!BraceInList \/ P!ParenInMap \/ P!Stray
    PROVE  ReadInv'
<1>1. PICK top : top = frames[Len(frames)]
  OBVIOUS
<1>2. /\ stage = "parse" /\ fault = P!NoError /\ ~ (next >= Len(text))
      /\ stage' = stage /\ UNCHANGED text
      /\ \/ top.kind = "list" /\ text[next + 1] = P!BraceEnd
         \/ top.kind = "map" /\ text[next + 1] = P!ParenEnd
         \/ top.kind = "top" /\ text[next + 1] \in {P!ParenEnd, P!BraceEnd}
      /\ \E says \in NotClosing : fault' = [at |-> next + 1, says |-> says]
  <2>1. CASE P!BraceInList
    BY <1>1, <2>1, Zenon DEF P!BraceInList, P!Abandon, P!Sees, P!Turn, P!AtEnd, P!Token, P!In, P!Top,
                             NotClosing
  <2>2. CASE P!ParenInMap
    BY <1>1, <2>2, Zenon DEF P!ParenInMap, P!Abandon, P!Sees, P!Turn, P!AtEnd, P!Token, P!In, P!Top,
                             NotClosing
  <2>3. CASE P!Stray
    BY <1>1, <2>3, Zenon DEF P!Stray, P!Turn, P!AtEnd, P!Token, P!In, P!Top, P!KeyPending, NotClosing
  <2> QED
    BY <2>1, <2>2, <2>3
<1>3. PICK says \in NotClosing : fault' = [at |-> next + 1, says |-> says]
  BY <1>2
<1>4. PICK idx, k, n, open :
        /\ Marks(idx) /\ Nests(idx, next, frames) /\ open = Scans(src)[CharOf(idx, next)].open
        /\ k = next + 1 /\ k \in 1..Len(tokens) /\ n = idx[k]
        /\ src[n] \in DOMAIN Opening /\ text[k] \in P!Brackets =>
              IF open # <<>> /\ src[open[Len(open)]] = Opening[src[n]]
              THEN /\ Scans(src)[n].open = SubSeq(open, 1, Len(open) - 1)
                   /\ Scans(src)[n].broken = 0
              ELSE Scans(src)[n].broken = n
  BY <1>2, Consumes DEF Learned
<1>5. /\ Given
      /\ top.kind = "list" => src[open[Len(open)]] = LParen
      /\ top.kind = "map" => src[open[Len(open)]] = LBrace
      /\ top.kind = "top" => open = <<>>
  BY <1>1, <1>2, <1>4, InTurn, InnermostIs
<1>6. /\ text[k] = P!ParenEnd => src[n] = RParen
      /\ text[k] = P!BraceEnd => src[n] = RBrace
  BY <1>4, <1>5, BracketsGiven
<1>7. /\ \/ top.kind = "list" /\ text[k] = P!BraceEnd
         \/ top.kind = "map" /\ text[k] = P!ParenEnd
         \/ top.kind = "top" /\ text[k] \in {P!ParenEnd, P!BraceEnd}
      /\ fault' = [at |-> k, says |-> says]
  BY <1>2, <1>3, <1>4
<1>8. src[n] \in DOMAIN Opening /\ text[k] \in P!Brackets
  BY <1>6, <1>7, BracketChars DEF P!Brackets
<1>9. ~ (open # <<>> /\ src[open[Len(open)]] = Opening[src[n]])
  BY <1>5, <1>6, <1>7, BracketChars, BracketsMatch
<1>10. Scans(src)[n].broken = n
  BY <1>4, <1>8, <1>9
<1>11. PointsRight(fault')
  BY <1>2, <1>4, <1>7, <1>10, BrokenHere
<1>12. fault'.says # ""
  <2>1. fault'.says = says
    BY <1>3
  <2> QED
    BY <2>1, MessagesDiffer
<1> QED
  BY <1>2, <1>11, <1>12, Faults

LEMMA OddPoints ==
    ASSUME ReadInv, UNCHANGED tok, P!OddMap
    PROVE  ReadInv'
<1>1. PICK top : top = frames[Len(frames)]
  OBVIOUS
<1>2. /\ stage = "parse" /\ fault = P!NoError /\ top.kind = "map"
      /\ stage' = stage /\ UNCHANGED text
      /\ fault' = [at |-> top.open, says |-> OddForms]
  BY <1>1, Zenon DEF P!OddMap, P!Abandon, P!Turn, P!KeyPending, P!In, P!Top, OddForms
<1>3. fault'.at = top.open /\ fault'.says = OddForms
  BY <1>2
<1>4. PICK idx, open : Marks(idx) /\ Nests(idx, next, frames) /\ open = Scans(src)[CharOf(idx, next)].open
  BY <1>2 DEF ReadInv
<1>5. top.open \in DOMAIN tokens
  BY <1>1, <1>2, <1>4, InTurn, InnermostIs
<1>6. PointsRight(fault')
  BY <1>3, <1>5, MessagesDiffer DEF PointsRight
<1> QED
  BY <1>2, <1>3, <1>6, MessagesDiffer, Faults

LEMMA PassUpPoints ==
    ASSUME ReadInv, UNCHANGED tok, P!PassUp
    PROVE  ReadInv'
<1>1. /\ stage = "parse" /\ fault # P!NoError /\ stage' \in {"parse", "done"}
      /\ UNCHANGED <<text, fault>>
  BY DEF P!PassUp
<1>2. PointsRight(fault) /\ error = NoError /\ Given
  BY <1>1, InTurn DEF ReadInv
<1>3. LexInv' /\ UNCHANGED <<mode, src, pos, tokens, error>>
  BY TokStays
<1>4. PointsRight(fault)'
  BY <1>1, <1>2, <1>3 DEF PointsRight
<1>5. Given' /\ mode' = "done"
  BY <1>1, <1>2, <1>3, InTurn DEF Given
<1> QED
  BY <1>1, <1>2, <1>3, <1>4, <1>5 DEF ReadInv

LEMMA ReturnReads ==
    ASSUME ReadInv, UNCHANGED tok, P!Return
    PROVE  ReadInv'
<1>1. PICK top : top = frames[Len(frames)]
  OBVIOUS
<1>2. /\ stage = "parse" /\ fault = P!NoError /\ next >= Len(text) /\ top.kind = "top"
      /\ stage' = "done" /\ UNCHANGED <<text, fault>>
  BY <1>1, Zenon DEF P!Return, P!Turn, P!AtEnd, P!In, P!Top
<1>3. PICK idx, e, open : /\ Marks(idx) /\ Nests(idx, next, frames)
                          /\ e = CharOf(idx, next) /\ open = Scans(src)[e].open
  BY <1>2 DEF ReadInv
<1>4. /\ TokInv /\ Given /\ pos = Len(src) /\ Len(tokens) \in Nat /\ Len(text) = Len(tokens)
      /\ error = NoError
  BY <1>2, InTurn
<1>5. next = Len(tokens)
  BY <1>2, <1>3, AllRead
<1>6. open = <<>> /\ Scans(src)[e].broken = 0
  <2>1. Scans(src)[e].broken = 0
    BY <1>3 DEF Nests
  <2>2. open = Scans(src)[CharOf(idx, next)].open
    BY <1>3
  <2> QED
    BY <1>1, <1>2, <1>3, <1>4, <2>1, <2>2, InnermostIs
<1>7. Scan(src).open = <<>> /\ Scan(src).broken = 0
  <2>1. e = CharOf(idx, Len(tokens))
    BY <1>3, <1>5
  <2> QED
    BY <1>3, <1>4, <1>6, <2>1, RestScanned
<1>8. LexInv' /\ UNCHANGED <<mode, src, pos, tokens, error>>
  BY TokStays
<1>9. Given' /\ mode' = "done"
  BY <1>2, <1>4, <1>8, InTurn DEF Given
<1> QED
  BY <1>2, <1>4, <1>7, <1>8, <1>9 DEF ReadInv

LEMMA BeginNests ==
    ASSUME ReadInv, Tokenized
    PROVE  ReadInv'
<1> DEFINE list == [k \in DOMAIN tokens |-> TokenOf(tokens[k])]
           first == [kind |-> "top", open |-> 0, items |-> <<>>]
<1>1. /\ stage = "call" /\ mode = "done" /\ error = NoError /\ UNCHANGED tok
      /\ stage' = "parse" /\ text' = list /\ frames' = <<first>>
      /\ UNCHANGED <<next, fault>>
  BY DEF Tokenized, P!Begin
<1>2. /\ LexInv' /\ UNCHANGED <<mode, src, pos, tokens, error>> /\ \A idx : Marks(idx) => Marks(idx)'
  BY <1>1, TokStays
<1>3. next = 0 /\ fault = P!NoError
  BY <1>1 DEF ReadInv
<1>4. TokInv /\ Len(tokens) \in Nat /\ DOMAIN tokens = 1..Len(tokens) /\ Len(src) \in Nat
  BY TokenCount, Within DEF ReadInv, LexInv
<1>5. Len(text') = Len(tokens)
        /\ \A k \in 1..Len(tokens) : text'[k] = [type |-> tokens[k].type, value |-> tokens[k].value]
  <2> DEFINE S == {TokenOf(tokens[k]) : k \in 1..Len(tokens)}
  <2>1. list \in [1..Len(tokens) -> S]
    BY <1>4
  <2>2. \A k \in 1..Len(tokens) : list[k] = [type |-> tokens[k].type, value |-> tokens[k].value]
    BY <1>4 DEF TokenOf
  <2> HIDE DEF S, list
  <2>3. Len(list) = Len(tokens)
    BY <1>4, <2>1
  <2> QED
    BY <1>1, <2>2, <2>3
<1>6. Given' /\ error' = NoError /\ mode' = "done"
  BY <1>1, <1>2, <1>5 DEF Given
<1>7. PICK idx : Marks(idx)
  BY <1>1 DEF ReadInv, LexInv, Lexed
<1>8. Scans(src)[CharOf(idx, 0)].open = <<>> /\ Scans(src)[CharOf(idx, 0)].broken = 0
  BY <1>4, ScansAre DEF CharOf, Unread
<1> HIDE DEF list
<1>9. Nests(idx, 0, <<first>>)
  <2>1. first \in Activation({<<>>}) /\ first.kind = "top"
    BY DEF Activation
  <2> HIDE DEF first
  <2>2. PICK A : A = Activation({<<>>})
    OBVIOUS
  <2>3. <<first>> \in Seq(A) /\ Len(<<first>>) = 1 /\ <<first>>[1] = first
    BY <2>1, <2>2
  <2>4. PICK fs : fs = <<first>>
    OBVIOUS
  <2>5. /\ fs \in Seq(Activation({<<>>})) /\ Len(fs) = 1
        /\ \A d \in 1..1 : d = 1 /\ fs[d].kind = "top"
    BY <2>1, <2>2, <2>3, <2>4
  <2>6. <<>> \in [1..0 -> Nat] /\ 1 = 0 + 1 /\ 0 \in Nat
    OBVIOUS
  <2>7. 0 \in 0..Len(tokens)
    BY <1>4
  <2>8. Nests(idx, 0, fs)
    BY <1>8, <2>5, <2>6, <2>7 DEF Nests
  <2> QED
    BY <2>4, <2>8
<1>10. Nests(idx, next, frames)'
  <2>1. PICK fs : fs = <<first>>
    OBVIOUS
  <2>2. /\ Nests(idx, 0, fs) /\ Len(fs) = 1 /\ fs[1].kind = "top"
        /\ \A d \in 1..1 : d = 1
    BY <1>9, <2>1
  <2>3. \A d \in 1..Len(fs) : fs[d].kind = "top"
    BY <2>2
  <2>4. next' = 0 /\ frames' = fs /\ src' = src /\ tokens' = tokens
    BY <1>1, <1>2, <1>3, <2>1
  <2> HIDE DEF first
  <2> QED
    BY <2>2, <2>3, <2>4 DEF Nests
<1> QED
  BY <1>1, <1>2, <1>3, <1>6, <1>7, <1>10 DEF ReadInv

LEMMA ReaderInit ==
    ASSUME ReadInit
    PROVE  ReadInv
<1>1. LexInv
  BY LexInit DEF ReadInit
<1>2. stage = "call" /\ next = 0 /\ fault = P!NoError
  BY DEF ReadInit, P!Init
<1> QED
  BY <1>1, <1>2 DEF ReadInv

LEMMA ReaderNext ==
    ASSUME ReadInv, [ReadNext]_reading
    PROVE  ReadInv'
<1>1. CASE UNCHANGED reading
  <2>1. UNCHANGED tok /\ UNCHANGED <<stage, text, next, frames, fault>>
    BY <1>1 DEF reading, parse
  <2>2. /\ LexInv' /\ UNCHANGED <<mode, src, pos, tokens, error>> /\ \A idx : Marks(idx) => Marks(idx)'
    BY <2>1, TokStays
  <2> QED
    BY <2>1, <2>2 DEF ReadInv, Given, Nests, PointsRight
<1>2. CASE Tokenize
  <2>1. stage = "call" /\ LexInv' /\ UNCHANGED <<stage, next, fault>>
    BY <1>2, LexNext DEF Tokenize, parse, ReadInv
  <2>2. fault = P!NoError /\ next = 0
    BY <2>1 DEF ReadInv
  <2> QED
    BY <2>1, <2>2 DEF ReadInv
<1>3. CASE Tokenized
  BY <1>3, BeginNests
<1>4. CASE TokFails
  <2>1. /\ mode = "done" /\ error # NoError /\ UNCHANGED tok /\ stage' = "done"
    BY <1>4 DEF TokFails, P!TokFails
  <2>2. LexInv' /\ UNCHANGED <<mode, error>>
    BY <2>1, TokStays
  <2> QED
    BY <2>1, <2>2 DEF ReadInv, NoError
<1>5. CASE Parse
  <2>1. stage = "parse" /\ P!Next /\ UNCHANGED tok
    BY <1>5 DEF Parse
  <2>2. CASE P!Tokenized \/ P!TokFails
    BY <2>1, <2>2 DEF P!Tokenized, P!Begin, P!TokFails
  <2>3. CASE P!ReadAtom
    BY <2>1, <2>3, ReadAtomNests
  <2>4. CASE P!OpenList \/ P!OpenMap
    BY <2>1, <2>4, OpenNests DEF P!OpenList, P!OpenMap
  <2>5. CASE P!CloseList \/ P!CloseMap
    <3>1. CASE P!CloseList
      BY <2>1, <3>1, CloseNests DEF P!CloseList
    <3>2. CASE P!CloseMap
      BY <2>1, <3>2, CloseNests DEF P!CloseMap
    <3> QED
      BY <2>5, <3>1, <3>2
  <2>6. CASE P!EndInList \/ P!EndInMap
    BY <2>1, <2>6, EndPoints
  <2>7. CASE P!BraceInList \/ P!ParenInMap \/ P!Stray
    BY <2>1, <2>7, StrayPoints
  <2>8. CASE P!OddMap
    BY <2>1, <2>8, OddPoints
  <2>9. CASE P!PassUp
    BY <2>1, <2>9, PassUpPoints
  <2>10. CASE P!Return
    BY <2>1, <2>10, ReturnReads
  <2> QED
    BY <2>1, <2>2, <2>3, <2>4, <2>5, <2>6, <2>7, <2>8, <2>9, <2>10 DEF P!Next
<1> QED
  BY <1>1, <1>2, <1>3, <1>4, <1>5 DEF ReadNext

LEMMA ReaderInvariant == ReadSpec => []ReadInv
<1>1. ReadInit => ReadInv
  BY ReaderInit
<1>2. ReadInv /\ [ReadNext]_reading => ReadInv'
  BY ReaderNext
<1> QED
  BY <1>1, <1>2, PTL DEF ReadSpec

(* Whatever characters strings and comments hold, tok and parse together   *)
(* read no text whose brackets do not nest.                                *)
THEOREM NestedIsRead == ReadSpec => []ReadOnlyIfNested
<1>1. ReadInv => ReadOnlyIfNested
  BY DEF ReadInv, ReadOnlyIfNested, Answered
<1> QED
  BY <1>1, ReaderInvariant, PTL

(* An error about brackets is at the line and column of the bracket that   *)
(* is wrong in the text: the first that closes none, or the innermost that *)
(* is not closed.                                                          *)
THEOREM FaultsAtBrackets == ReadSpec => []FaultsPointAtBrackets
<1>1. ASSUME ReadInv PROVE FaultsPointAtBrackets
  <2> SUFFICES ASSUME Answered, error = NoError, fault # P!NoError
               PROVE  FaultsPointAtBrackets
    BY DEF FaultsPointAtBrackets
  <2>1. PointsRight(fault)
    BY <1>1 DEF ReadInv
  <2>2. PlaceSaid = tokens[fault.at].at
    BY DEF PlaceSaid
  <2> DEFINE scan == Scan(src)
             unclosed == IF scan.open = <<>> THEN 0 ELSE scan.open[Len(scan.open)]
             unmatched(c) ==
                 /\ scan.broken = 0 /\ unclosed > 0
                 /\ src[unclosed] = c /\ PlaceSaid = PlaceOf(src, unclosed)
  <2>3. \A says \in NotClosing :
           Fault(says) => scan.broken > 0 /\ PlaceSaid = PlaceOf(src, scan.broken)
    BY <2>1, <2>2 DEF PointsRight, Fault
  <2>4. Fault(ParenUnclosed) => unmatched(LParen)
    BY <2>1, <2>2 DEF PointsRight, Fault
  <2>5. Fault(BraceUnclosed) => unmatched(LBrace)
    BY <2>1, <2>2 DEF PointsRight, Fault
  <2>6. fault.at \in DOMAIN tokens
    BY <2>1 DEF PointsRight
  <2> QED
    BY <2>3, <2>4, <2>5, <2>6, Zenon
       DEF FaultsPointAtBrackets, NotClosing, ParenUnclosed, BraceUnclosed, LParen, LBrace
<1> QED
  BY <1>1, ReaderInvariant, PTL
=============================================================================
