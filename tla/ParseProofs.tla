---------------------------- MODULE ParseProofs -----------------------------
(***************************************************************************)
(* The reader's activations and the references they hold, for every list   *)
(* of tokens and however deep it nests.                                    *)
(***************************************************************************)
EXTENDS ParseRef, SequenceTheorems, NaturalsInduction, WellFoundedInduction, TLAPS

(* Activations whose arrays hold forms of F: what a form is is left open.  *)
Activations(F) == [kind : {"top", "list", "map"}, open : Nat, items : Seq(F)]
Stacked == \E F : frames \in Seq(Activations(F))

(* s[d] is what the arrays of the first d activations of fs hold together. *)
Sums(s, fs) ==
    /\ s \in [0..Len(fs) -> Int]
    /\ s[0] = 0
    /\ \A d \in 1..Len(fs) : s[d] = s[d - 1] + Len(fs[d].items)

(* All that is owned is in the arrays, but for the token list and the      *)
(* error on its way.                                                       *)
Balanced == \E s : Sums(s, frames) /\ owned = s[Len(frames)] + (IF error = NoError THEN 1 ELSE 2)

(* The part of TypeOK that is about activations.                           *)
Nested ==
    \A d \in DOMAIN frames :
        /\ (d = 1) <=> (frames[d].kind = "top")
        /\ frames[d].kind # "top" => frames[d].open \in 1..pos
        /\ frames[d].kind = "list" => text[frames[d].open] = Paren
        /\ frames[d].kind = "map" => text[frames[d].open] = Brace

ParseInv ==
    /\ TypeOK
    /\ Stacked
    /\ stage = "call" => pos = 0 /\ error = NoError
    /\ stage = "parse" => Balanced
    /\ stage = "done" => owned = 1

-----------------------------------------------------------------------------
(* Tokens *)

LEMMA BracketsDiffer ==
    /\ Paren # Brace /\ Paren # ParenEnd /\ Paren # BraceEnd
    /\ Brace # ParenEnd /\ Brace # BraceEnd /\ ParenEnd # BraceEnd
<1>1. /\ Paren.type = "lparen" /\ ParenEnd.type = "rparen"
      /\ Brace.type = "lbrace" /\ BraceEnd.type = "rbrace"
  BY DEF Paren, ParenEnd, Brace, BraceEnd, Bracket
<1> QED
  BY <1>1

(* The top level's loop begins with a list that tok may return. *)
LEMMA FirstTokens ==
    ASSUME Tokenized
    PROVE  /\ stage = "call" /\ stage' = "parse" /\ text' \in Texts
           /\ text' \in Seq(Brackets \cup Atoms)
           /\ frames' = <<[kind |-> "top", open |-> 0, items |-> <<>>]>>
           /\ owned' = 1 /\ UNCHANGED <<pos, error, answer>>
  BY TextsAssumption DEF Tokenized, Begin

-----------------------------------------------------------------------------
(* Stacks *)

(* What the innermost activation is, and the others without it.            *)
LEMMA TopAndOuter ==
    ASSUME NEW F, NEW fs \in Seq(Activations(F)), fs # <<>>
    PROVE  /\ Len(fs) \in Nat \ {0}
           /\ fs[Len(fs)] \in Activations(F)
           /\ SubSeq(fs, 1, Len(fs) - 1) \in Seq(Activations(F))
           /\ Len(SubSeq(fs, 1, Len(fs) - 1)) = Len(fs) - 1
           /\ \A d \in 1..Len(fs) - 1 : SubSeq(fs, 1, Len(fs) - 1)[d] = fs[d]
<1> DEFINE A == Activations(F)
<1>1. fs \in Seq(A)
  OBVIOUS
<1> HIDE DEF A
<1> DEFINE L == Len(fs)
<1>2. L \in Nat \ {0}
  BY <1>1
<1>3. \A i \in 1..L - 1 : fs[i] \in A
  BY <1>1, <1>2
<1>4. /\ SubSeq(fs, 1, L - 1) \in Seq(A)
      /\ Len(SubSeq(fs, 1, L - 1)) = IF 1 <= L - 1 THEN L - 1 - 1 + 1 ELSE 0
      /\ \A i \in 1..L - 1 - 1 + 1 : SubSeq(fs, 1, L - 1)[i] = fs[1 + i - 1]
  <2>1. 1 \in Int /\ L - 1 \in Int
    BY <1>2
  <2> QED
    BY <1>3, <2>1, SubSeqProperties
<1>5. (IF 1 <= L - 1 THEN L - 1 - 1 + 1 ELSE 0) = L - 1 /\ L - 1 - 1 + 1 = L - 1
      /\ \A i \in 1..L - 1 : 1 + i - 1 = i
  <2> HIDE DEF L
  <2>1. CASE L = 1
    BY <2>1
  <2>2. CASE L # 1
    <3>1. 1 <= L - 1
      BY <1>2, <2>2
    <3> QED
      BY <1>2, <3>1
  <2> QED
    BY <2>1, <2>2
<1> QED
  BY <1>1, <1>2, <1>4, <1>5 DEF A

(* A form is taken by the innermost activation of fs.                      *)
LEMMA TakeKeeps ==
    ASSUME NEW F, NEW fs \in Seq(Activations(F)), fs # <<>>, NEW form
    PROVE  /\ Take(fs, form) \in Seq(Activations(F \cup {form}))
           /\ Len(Take(fs, form)) = Len(fs)
           /\ \A d \in 1..Len(fs) : /\ Take(fs, form)[d].kind = fs[d].kind
                                    /\ Take(fs, form)[d].open = fs[d].open
           /\ \A d \in 1..Len(fs) - 1 : Take(fs, form)[d] = fs[d]
           /\ Take(fs, form)[Len(fs)].items = Append(fs[Len(fs)].items, form)
           /\ Len(Take(fs, form)[Len(fs)].items) = Len(fs[Len(fs)].items) + 1
<1> DEFINE L == Len(fs)
           G == F \cup {form}
           new == [fs[L] EXCEPT !.items = Append(@, form)]
<1>1. L \in Nat \ {0} /\ fs[L] \in Activations(F)
  BY TopAndOuter
<1>2. \A a \in Activations(F) : a \in Activations(G)
  <2>1. Seq(F) \subseteq Seq(G)
    OBVIOUS
  <2> QED
    BY <2>1 DEF Activations
<1>3. fs[L].items \in Seq(F)
  BY <1>1 DEF Activations
<1>4. /\ Append(fs[L].items, form) \in Seq(G)
      /\ Len(Append(fs[L].items, form)) = Len(fs[L].items) + 1
  <2>1. fs[L].items \in Seq(G) /\ form \in G
    BY <1>3
  <2> HIDE DEF G
  <2> QED
    BY <2>1
<1>5. /\ new \in Activations(G)
      /\ new.kind = fs[L].kind /\ new.open = fs[L].open
      /\ new.items = Append(fs[L].items, form)
  BY <1>1, <1>4 DEF Activations
<1>6. Take(fs, form) = [fs EXCEPT ![L] = new]
  BY DEF Take
<1> DEFINE A == Activations(F)
           B == Activations(G)
<1>7. fs \in Seq(B)
  <2>1. fs \in Seq(A) /\ A \subseteq B
    BY <1>2
  <2> HIDE DEF A, B
  <2> QED
    BY <2>1
<1> HIDE DEF new, B, G
<1>8. /\ Take(fs, form) \in Seq(B) /\ Len(Take(fs, form)) = L
      /\ Take(fs, form)[L] = new
      /\ \A d \in 1..L : d # L => Take(fs, form)[d] = fs[d]
  BY <1>1, <1>5, <1>6, <1>7 DEF B
<1> QED
  BY <1>1, <1>4, <1>5, <1>8 DEF B, G

(* What the arrays hold together when the innermost activation takes a     *)
(* form, ends, or begins another one.                                      *)
LEMMA SumsOfTake ==
    ASSUME NEW F, NEW fs \in Seq(Activations(F)), fs # <<>>, NEW form, NEW s, Sums(s, fs)
    PROVE  \E t : Sums(t, Take(fs, form)) /\ t[Len(Take(fs, form))] = s[Len(fs)] + 1
<1> DEFINE L == Len(fs)
           t == [d \in 0..L |-> IF d = L THEN s[L] + 1 ELSE s[d]]
           new == Take(fs, form)
<1>1. L \in Nat \ {0} /\ \A d \in 1..L : fs[d] \in Activations(F)
  BY TopAndOuter
<1>2. s \in [0..L -> Int] /\ s[0] = 0 /\ \A d \in 1..L : s[d] = s[d - 1] + Len(fs[d].items)
  BY DEF Sums
<1>3. /\ Len(new) = L
      /\ \A d \in 1..L - 1 : new[d] = fs[d]
      /\ Len(new[L].items) = Len(fs[L].items) + 1
  <2>1. /\ Len(Take(fs, form)) = Len(fs)
        /\ \A d \in 1..Len(fs) - 1 : Take(fs, form)[d] = fs[d]
        /\ Len(Take(fs, form)[Len(fs)].items) = Len(fs[Len(fs)].items) + 1
    BY TakeKeeps, ZenonT(30)
  <2> QED
    BY <2>1, Zenon
<1>4. Len(fs[L].items) \in Nat
  BY <1>1 DEF Activations
<1> HIDE DEF new
<1>5. t \in [0..L -> Int] /\ t[0] = 0 /\ t[L] = s[L] + 1
  BY <1>1, <1>2
<1>6. ASSUME NEW d \in 1..L PROVE t[d] = t[d - 1] + Len(new[d].items)
  <2>1. d - 1 \in 0..L /\ d - 1 # L /\ d \in 0..L /\ s[d - 1] \in Int
    BY <1>1, <1>2
  <2>2. t[d - 1] = s[d - 1] /\ s[d] = s[d - 1] + Len(fs[d].items)
    BY <1>2, <2>1
  <2>3. CASE d = L
    BY <1>3, <1>4, <1>5, <2>1, <2>2, <2>3
  <2>4. CASE d # L
    <3>1. d \in 1..L - 1 /\ t[d] = s[d]
      BY <1>1, <2>4
    <3> QED
      BY <1>3, <2>2, <3>1
  <2> QED
    BY <2>3, <2>4
<1> HIDE DEF t
<1> QED
  BY <1>3, <1>5, <1>6 DEF Sums, new

LEMMA SumsOfOuter ==
    ASSUME NEW F, NEW fs \in Seq(Activations(F)), fs # <<>>, NEW s, Sums(s, fs)
    PROVE  \E t : /\ Sums(t, SubSeq(fs, 1, Len(fs) - 1))
                  /\ t[Len(SubSeq(fs, 1, Len(fs) - 1))] = s[Len(fs)] - Len(fs[Len(fs)].items)
<1> DEFINE L == Len(fs)
           t == [d \in 0..L - 1 |-> s[d]]
           new == SubSeq(fs, 1, L - 1)
<1>1. L \in Nat \ {0} /\ fs[L] \in Activations(F) /\ Len(new) = L - 1 /\ \A d \in 1..L - 1 : new[d] = fs[d]
  BY TopAndOuter
<1>2. s \in [0..L -> Int] /\ s[0] = 0 /\ \A d \in 1..L : s[d] = s[d - 1] + Len(fs[d].items)
  BY DEF Sums
<1>3. Len(fs[L].items) \in Nat
  BY <1>1 DEF Activations
<1> HIDE DEF new
<1>4. t \in [0..L - 1 -> Int] /\ t[0] = 0
  BY <1>1, <1>2
<1>5. ASSUME NEW d \in 1..L - 1 PROVE t[d] = t[d - 1] + Len(new[d].items)
  <2>1. d \in 0..L - 1 /\ d - 1 \in 0..L - 1 /\ d \in 1..L
    BY <1>1
  <2> QED
    BY <1>1, <1>2, <2>1
<1>6. t[L - 1] = s[L] - Len(fs[L].items)
  <2>1. L - 1 \in 0..L - 1 /\ L \in 1..L /\ L - 1 \in 0..L
    BY <1>1
  <2>2. t[L - 1] = s[L - 1] /\ s[L - 1] \in Int /\ s[L] = s[L - 1] + Len(fs[L].items)
    BY <1>2, <2>1
  <2> QED
    BY <1>3, <2>2
<1> HIDE DEF t
<1> QED
  BY <1>1, <1>4, <1>5, <1>6 DEF Sums, new

LEMMA SumsOfOpen ==
    ASSUME NEW F, NEW fs \in Seq(Activations(F)), NEW a \in Activations(F), a.items = <<>>,
           NEW s, Sums(s, fs)
    PROVE  \E t : Sums(t, Append(fs, a)) /\ t[Len(Append(fs, a))] = s[Len(fs)]
<1> DEFINE L == Len(fs)
           t == [d \in 0..L + 1 |-> IF d = L + 1 THEN s[L] ELSE s[d]]
           new == Append(fs, a)
           A == Activations(F)
<1>1. fs \in Seq(A) /\ a \in A
  OBVIOUS
<1>2. s \in [0..L -> Int] /\ s[0] = 0 /\ \A d \in 1..L : s[d] = s[d - 1] + Len(fs[d].items)
  BY DEF Sums
<1> HIDE DEF A
<1>3. L \in Nat /\ Len(new) = L + 1 /\ new[L + 1] = a /\ \A d \in 1..L : new[d] = fs[d]
  BY <1>1
<1> HIDE DEF new
<1>4. t \in [0..L + 1 -> Int] /\ t[0] = 0 /\ t[L + 1] = s[L]
  BY <1>2, <1>3
<1>5. ASSUME NEW d \in 1..L + 1 PROVE t[d] = t[d - 1] + Len(new[d].items)
  <2>1. CASE d = L + 1
    <3>1. t[d - 1] = s[L] /\ s[L] \in Int /\ t[d] = s[L]
      BY <1>2, <1>3, <2>1
    <3>2. Len(new[d].items) = 0
      BY <1>3, <2>1
    <3> QED
      BY <3>1, <3>2
  <2>2. CASE d # L + 1
    <3>1. d \in 1..L /\ d \in 0..L + 1 /\ d - 1 \in 0..L + 1 /\ d - 1 # L + 1
      BY <1>3, <2>2
    <3>2. t[d] = s[d] /\ t[d - 1] = s[d - 1]
      BY <2>2, <3>1
    <3> QED
      BY <1>2, <1>3, <3>1, <3>2
  <2> QED
    BY <2>1, <2>2
<1> HIDE DEF t
<1> QED
  BY <1>3, <1>4, <1>5 DEF Sums, new
-----------------------------------------------------------------------------
(* What the steps have in common *)

LEMMA Within ==
    ASSUME ParseInv
    PROVE  /\ pos \in Nat /\ Len(text) \in Nat /\ pos <= Len(text)
           /\ Nested /\ (error = NoError \/ error.at \in 0..pos + 1)
<1>1. text \in Seq(Brackets \cup Atoms) /\ pos \in 0..Len(text)
  BY DEF ParseInv, TypeOK
<1>2. Len(text) \in Nat
  BY <1>1
<1>3. Nested
  BY Zenon DEF ParseInv, TypeOK, Nested, Paren, Brace
<1>4. error = NoError \/ error.at \in 0..pos + 1
  BY Zenon DEF ParseInv, TypeOK
<1> QED
  BY <1>1, <1>2, <1>3, <1>4

(* No activation moves to another place.                                   *)
LEMMA NestingStays ==
    ASSUME ParseInv, text' = text, pos' \in {pos, pos + 1},
           \A d \in DOMAIN frames' : /\ d \in DOMAIN frames
                                     /\ frames'[d].kind = frames[d].kind
                                     /\ frames'[d].open = frames[d].open
    PROVE  Nested'
<1>1. pos \in Nat /\ Nested
  BY Within
<1> SUFFICES ASSUME NEW d \in DOMAIN frames'
             PROVE  /\ (d = 1) <=> (frames'[d].kind = "top")
                    /\ frames'[d].kind # "top" => frames'[d].open \in 1..pos'
                    /\ frames'[d].kind = "list" => text'[frames'[d].open] = Paren
                    /\ frames'[d].kind = "map" => text'[frames'[d].open] = Brace
  BY DEF Nested
<1>2. /\ (d = 1) <=> (frames'[d].kind = "top")
      /\ frames'[d].kind # "top" => frames'[d].open \in 1..pos
      /\ frames'[d].kind = "list" => text'[frames'[d].open] = Paren
      /\ frames'[d].kind = "map" => text'[frames'[d].open] = Brace
  BY <1>1 DEF Nested
<1>3. 1..pos \subseteq 1..pos'
  BY <1>1
<1> QED
  BY <1>2, <1>3

(* The activation that ends is not the outermost.                          *)
LEMMA InnerEnds ==
    ASSUME ParseInv, stage = "parse", In("list") \/ In("map"), NEW F, frames \in Seq(Activations(F))
    PROVE  /\ Outer \in Seq(Activations(F)) /\ Outer # <<>> /\ Len(Outer) = Len(frames) - 1
           /\ \A d \in 1..Len(Outer) : d \in DOMAIN frames /\ Outer[d] = frames[d]
           /\ Top.open \in 1..pos
<1>1. frames # <<>>
  BY DEF ParseInv, TypeOK
<1>2. /\ Len(frames) \in Nat \ {0} /\ Outer \in Seq(Activations(F)) /\ Len(Outer) = Len(frames) - 1
      /\ \A d \in 1..Len(frames) - 1 : Outer[d] = frames[d]
  BY <1>1, TopAndOuter DEF Outer
<1>3. Len(frames) \in DOMAIN frames
  BY <1>2
<1>4. Len(frames) # 1 /\ Top.open \in 1..pos
  BY <1>3, Within DEF Nested, In, Top
<1>5. Outer # <<>>
  BY <1>2, <1>4
<1>6. \A d \in 1..Len(Outer) : d \in DOMAIN frames
  BY <1>2
<1> QED
  BY <1>2, <1>4, <1>5, <1>6

(* What TypeOK asks of the next state, once its activations are known.     *)
LEMMA TypeFollows ==
    ASSUME ParseInv, text' = text, pos' \in 0..Len(text), Nested',
           stage' \in {"parse", "done"}, stage' = "parse" => frames' # <<>>,
           error' = NoError \/ error'.at \in 0..pos' + 1
    PROVE  TypeOK'
<1>1. text' \in Seq(Brackets \cup Atoms) /\ pos' \in 0..Len(text')
  BY DEF ParseInv, TypeOK
<1> QED
  BY <1>1, Zenon DEF TypeOK, Nested, Paren, Brace

-----------------------------------------------------------------------------
(* The steps *)

LEMMA BeginKeeps ==
    ASSUME ParseInv, Tokenized \/ TokFails
    PROVE  ParseInv'
<1>1. CASE Tokenized
  <2> DEFINE a == [kind |-> "top", open |-> 0, items |-> <<>>]
  <2>1. /\ stage = "call" /\ stage' = "parse" /\ text' \in Seq(Brackets \cup Atoms) /\ frames' = <<a>>
        /\ owned' = 1 /\ UNCHANGED <<pos, error, answer>>
    BY <1>1, FirstTokens
  <2>2. a \in Activations({}) /\ a.kind = "top" /\ a.items = <<>>
    BY DEF Activations
  <2> HIDE DEF a
  <2>3. frames' \in Seq(Activations({})) /\ Len(frames') = 1 /\ DOMAIN frames' = {1} /\ frames'[1] = a
        /\ frames' # <<>>
    BY <2>1, <2>2
  <2>4. pos' = 0 /\ pos' \in 0..Len(text')
    <3>1. Len(text') \in Nat
      BY <2>1
    <3> QED
      BY <2>1, <3>1 DEF ParseInv
  <2>5. error' = NoError
    <3>1. error = NoError
      BY <2>1 DEF ParseInv
    <3> QED
      BY <2>1, <3>1
  <2>6. TypeOK'
    BY <2>1, <2>2, <2>3, <2>4, <2>5 DEF TypeOK
  <2>7. Balanced'
    <3> DEFINE s == [d \in 0..1 |-> 0]
    <3>1. s \in [0..1 -> Int] /\ s[0] = 0 /\ s[1] = 0
      OBVIOUS
    <3>2. Len(a.items) = 0
      BY <2>2
    <3>3. Sums(s, frames')
      <4>1. \A d \in 1..1 : s[d] = s[d - 1] + Len(frames'[d].items)
        BY <2>3, <3>1, <3>2
      <4> HIDE DEF s
      <4> QED
        BY <2>3, <3>1, <4>1 DEF Sums
    <3>4. owned' = s[Len(frames')] + (IF error' = NoError THEN 1 ELSE 2)
      BY <2>1, <2>3, <2>5, <3>1
    <3> HIDE DEF s
    <3> QED
      BY <3>3, <3>4 DEF Balanced
  <2> QED
    BY <2>1, <2>3, <2>4, <2>6, <2>7 DEF ParseInv, Stacked
<1>2. CASE TokFails
  <2>1. /\ stage = "call" /\ stage' = "done" /\ error' = [at |-> 0, says |-> "tok"] /\ owned' = 1
        /\ UNCHANGED <<text, pos, frames, answer>>
    BY <1>2 DEF TokFails
  <2>2. error'.at \in 0..pos' + 1 /\ pos' \in 0..Len(text)
    <3>1. error'.at = 0
      BY <2>1
    <3> QED
      BY <2>1, <3>1, Within
  <2>3. Nested'
    BY <2>1, Within DEF Nested
  <2>4. TypeOK'
    BY <2>1, <2>2, <2>3, TypeFollows
  <2> QED
    BY <2>1, <2>4 DEF ParseInv, Stacked
<1> QED
  BY <1>1, <1>2

LEMMA ReadKeeps ==
    ASSUME ParseInv, ReadAtom
    PROVE  ParseInv'
<1> DEFINE form == Atom(Token)
<1>1. /\ stage = "parse" /\ error = NoError /\ ~ AtEnd /\ pos' = pos + 1 /\ frames' = Take(frames, form)
      /\ owned' = owned + 1 /\ UNCHANGED <<stage, text, error, answer>>
  BY DEF ReadAtom, Turn
<1> HIDE DEF form
<1>2. PICK F : frames \in Seq(Activations(F))
  BY DEF ParseInv, Stacked
<1>3. frames # <<>>
  BY <1>1 DEF ParseInv, TypeOK
<1>4. /\ frames' \in Seq(Activations(F \cup {form})) /\ Len(frames') = Len(frames) /\ Len(frames) \in Nat \ {0}
      /\ \A d \in 1..Len(frames) : frames'[d].kind = frames[d].kind /\ frames'[d].open = frames[d].open
  BY <1>1, <1>2, <1>3, TakeKeeps, TopAndOuter
<1>5. Nested'
  <2>1. DOMAIN frames' = 1..Len(frames) /\ DOMAIN frames = 1..Len(frames)
    BY <1>2, <1>4
  <2> QED
    BY <1>1, <1>4, <2>1, NestingStays
<1>6. pos' \in 0..Len(text) /\ frames' # <<>>
  BY <1>1, <1>4, Within DEF AtEnd
<1>7. TypeOK'
  BY <1>1, <1>5, <1>6, TypeFollows
<1>8. Balanced'
  <2>1. PICK s : Sums(s, frames) /\ owned = s[Len(frames)] + 1
    BY <1>1 DEF ParseInv, Balanced
  <2>2. PICK t : Sums(t, frames') /\ t[Len(frames')] = s[Len(frames)] + 1
    BY <1>1, <1>2, <1>3, <2>1, SumsOfTake
  <2>3. s[Len(frames)] \in Int
    BY <1>4, <2>1 DEF Sums
  <2>4. owned' = t[Len(frames')] + 1
    BY <1>1, <2>1, <2>2, <2>3
  <2> QED
    BY <1>1, <2>2, <2>4 DEF Balanced
<1> QED
  BY <1>1, <1>4, <1>7, <1>8 DEF ParseInv, Stacked

LEMMA OpenKeeps ==
    ASSUME ParseInv, OpenList \/ OpenMap
    PROVE  ParseInv'
<1>1. PICK bracket \in {Paren, Brace}, kind \in {"list", "map"} :
          /\ (bracket = Paren /\ kind = "list") \/ (bracket = Brace /\ kind = "map")
          /\ Open(bracket, kind)
  <2>1. CASE OpenList
    <3>1. Open(Paren, "list")
      BY <2>1, Zenon DEF OpenList, Paren
    <3> QED
      BY <3>1
  <2>2. CASE OpenMap
    <3>1. Open(Brace, "map")
      BY <2>2, Zenon DEF OpenMap, Brace
    <3> QED
      BY <3>1
  <2> QED
    BY <2>1, <2>2
<1> DEFINE a == [kind |-> kind, open |-> pos + 1, items |-> <<>>]
<1>2. /\ stage = "parse" /\ error = NoError /\ ~ AtEnd /\ Token = bracket /\ pos' = pos + 1
      /\ frames' = Append(frames, a) /\ UNCHANGED <<stage, text, error, answer, owned>>
  BY <1>1 DEF Open, Sees, Turn
<1>3. PICK F : frames \in Seq(Activations(F))
  BY DEF ParseInv, Stacked
<1>4. frames # <<>> /\ Len(frames) \in Nat \ {0}
  <2>1. frames # <<>>
    BY <1>2 DEF ParseInv, TypeOK
  <2> QED
    BY <1>3, <2>1, TopAndOuter
<1>5. a \in Activations(F) /\ a.kind = kind /\ a.open = pos + 1 /\ a.items = <<>>
  BY Within DEF Activations
<1> HIDE DEF a
<1>6. /\ frames' \in Seq(Activations(F)) /\ Len(frames') = Len(frames) + 1 /\ frames' # <<>>
      /\ frames'[Len(frames) + 1] = a
      /\ DOMAIN frames' = 1..Len(frames) + 1 /\ DOMAIN frames = 1..Len(frames)
      /\ \A d \in 1..Len(frames) : frames'[d] = frames[d]
  <2> DEFINE A == Activations(F)
  <2>1. frames \in Seq(A) /\ a \in A
    BY <1>3, <1>5
  <2> HIDE DEF A
  <2>2. Append(frames, a) \in Seq(A) /\ Len(Append(frames, a)) = Len(frames) + 1
    BY <2>1
  <2>3. Append(frames, a)[Len(frames) + 1] = a /\ \A d \in 1..Len(frames) : Append(frames, a)[d] = frames[d]
    BY <2>1
  <2> QED
    BY <1>2, <1>4, <2>1, <2>2, <2>3 DEF A
<1>7. Nested'
  <2>1. pos \in Nat /\ Nested
    BY Within
  <2>2. ASSUME NEW d \in DOMAIN frames'
        PROVE  /\ (d = 1) <=> (frames'[d].kind = "top")
               /\ frames'[d].kind # "top" => frames'[d].open \in 1..pos'
               /\ frames'[d].kind = "list" => text'[frames'[d].open] = Paren
               /\ frames'[d].kind = "map" => text'[frames'[d].open] = Brace
    <3>1. CASE d = Len(frames) + 1
      <4>1. frames'[d].kind = kind /\ frames'[d].open = pos + 1 /\ text'[pos + 1] = bracket
        BY <1>2, <1>5, <1>6, <3>1 DEF Token
      <4>2. d # 1 /\ pos + 1 \in 1..pos'
        BY <1>2, <1>4, <2>1, <3>1
      <4> QED
        BY <1>1, <4>1, <4>2
    <3>2. CASE d # Len(frames) + 1
      <4>1. d \in DOMAIN frames /\ frames'[d] = frames[d]
        BY <1>4, <1>6, <3>2
      <4>2. 1..pos \subseteq 1..pos'
        BY <1>2, <2>1
      <4> QED
        BY <1>2, <2>1, <4>1, <4>2 DEF Nested
    <3> QED
      BY <3>1, <3>2
  <2> QED
    BY <2>2 DEF Nested
<1>8. pos' \in 0..Len(text)
  BY <1>2, Within DEF AtEnd
<1>9. TypeOK'
  BY <1>2, <1>6, <1>7, <1>8, TypeFollows
<1>10. Balanced'
  <2>1. PICK s : Sums(s, frames) /\ owned = s[Len(frames)] + 1
    BY <1>2 DEF ParseInv, Balanced
  <2>2. PICK t : Sums(t, frames') /\ t[Len(frames')] = s[Len(frames)]
    BY <1>2, <1>3, <1>5, <2>1, SumsOfOpen
  <2> QED
    BY <1>2, <2>1, <2>2 DEF Balanced
<1> QED
  BY <1>2, <1>6, <1>9, <1>10 DEF ParseInv, Stacked

(* The array's references are released, and the form is taken.             *)
LEMMA CloseKeeps ==
    ASSUME ParseInv, Turn, ~ AtEnd, In("list") \/ In("map"), NEW form, Close(form)
    PROVE  ParseInv'
<1>1. /\ stage = "parse" /\ error = NoError /\ pos' = pos + 1 /\ frames' = Take(Outer, form)
      /\ owned' = owned + 1 - Len(Top.items) /\ UNCHANGED <<stage, text, error, answer>>
  BY DEF Close, Turn
<1>2. PICK F : frames \in Seq(Activations(F))
  BY DEF ParseInv, Stacked
<1>3. frames # <<>> /\ Len(frames) \in Nat \ {0} /\ Top \in Activations(F) /\ DOMAIN frames = 1..Len(frames)
  <2>1. frames # <<>>
    BY <1>1 DEF ParseInv, TypeOK
  <2> QED
    BY <1>2, <2>1, TopAndOuter DEF Top
<1>4. /\ Outer \in Seq(Activations(F)) /\ Outer # <<>> /\ Len(Outer) = Len(frames) - 1
      /\ \A d \in 1..Len(Outer) : d \in DOMAIN frames /\ Outer[d] = frames[d]
  BY <1>1, <1>2, InnerEnds
<1>5. /\ frames' \in Seq(Activations(F \cup {form})) /\ Len(frames') = Len(Outer) /\ Len(Outer) \in Nat \ {0}
      /\ \A d \in 1..Len(Outer) : frames'[d].kind = Outer[d].kind /\ frames'[d].open = Outer[d].open
  <2>1. Len(Outer) \in Nat \ {0}
    BY <1>4, TopAndOuter
  <2> QED
    <3> DEFINE fs == Outer
    <3>1. fs \in Seq(Activations(F)) /\ fs # <<>>
      BY <1>4
    <3> HIDE DEF fs
    <3>2. /\ Take(fs, form) \in Seq(Activations(F \cup {form}))
          /\ Len(Take(fs, form)) = Len(fs)
          /\ \A d \in 1..Len(fs) : /\ Take(fs, form)[d].kind = fs[d].kind
                                   /\ Take(fs, form)[d].open = fs[d].open
      BY <3>1, TakeKeeps, ZenonT(30)
    <3> QED
      BY <1>1, <2>1, <3>2, Zenon DEF fs
<1>6. Nested'
  <2>1. DOMAIN frames' = 1..Len(Outer)
    BY <1>5
  <2> QED
    BY <1>1, <1>4, <1>5, <2>1, NestingStays
<1>7. pos' \in 0..Len(text) /\ frames' # <<>>
  BY <1>1, <1>5, Within DEF AtEnd
<1>8. TypeOK'
  BY <1>1, <1>6, <1>7, TypeFollows
<1>9. Balanced'
  <2>1. PICK s : Sums(s, frames) /\ owned = s[Len(frames)] + 1
    BY <1>1 DEF ParseInv, Balanced
  <2>2. PICK r : Sums(r, Outer) /\ r[Len(Outer)] = s[Len(frames)] - Len(Top.items)
    BY <1>2, <1>3, <2>1, SumsOfOuter DEF Outer, Top
  <2>3. PICK t : Sums(t, frames') /\ t[Len(frames')] = r[Len(Outer)] + 1
    BY <1>1, <1>4, <2>2, SumsOfTake
  <2>4. s[Len(frames)] \in Int /\ Len(Top.items) \in Nat
    BY <1>3, <2>1 DEF Sums, Activations
  <2>5. owned' = t[Len(frames')] + 1
    BY <1>1, <2>1, <2>2, <2>3, <2>4
  <2> QED
    BY <1>1, <2>3, <2>5 DEF Balanced
<1> QED
  BY <1>1, <1>5, <1>8, <1>9 DEF ParseInv, Stacked

(* An activation other than the outermost ends with an error, of its own   *)
(* or of one that it called, and releases what its array holds.            *)
LEMMA EndKeeps ==
    ASSUME ParseInv, stage = "parse", In("list") \/ In("map"),
           frames' = Outer, UNCHANGED <<stage, text, pos>>,
           error' # NoError, error'.at \in 0..pos + 1,
           owned' = owned - Len(Top.items) + (IF error = NoError THEN 1 ELSE 0)
    PROVE  ParseInv'
<1>1. PICK F : frames \in Seq(Activations(F))
  BY DEF ParseInv, Stacked
<1>2. frames # <<>> /\ Len(frames) \in Nat \ {0} /\ Top \in Activations(F) /\ DOMAIN frames = 1..Len(frames)
  <2>1. frames # <<>>
    BY DEF ParseInv, TypeOK
  <2> QED
    BY <1>1, <2>1, TopAndOuter DEF Top
<1>3. /\ frames' \in Seq(Activations(F)) /\ frames' # <<>> /\ Len(frames') = Len(frames) - 1
      /\ \A d \in 1..Len(frames') : d \in DOMAIN frames /\ frames'[d] = frames[d]
  BY <1>1, InnerEnds
<1>4. Nested'
  <2>1. DOMAIN frames' = 1..Len(frames')
    BY <1>3
  <2> QED
    BY <1>3, <2>1, NestingStays
<1>5. TypeOK'
  BY <1>3, <1>4, Within, TypeFollows
<1>6. Balanced'
  <2>1. PICK s : Sums(s, frames) /\ owned = s[Len(frames)] + (IF error = NoError THEN 1 ELSE 2)
    BY DEF ParseInv, Balanced
  <2>2. PICK t : Sums(t, frames') /\ t[Len(frames')] = s[Len(frames)] - Len(Top.items)
    BY <1>1, <1>2, <2>1, SumsOfOuter DEF Outer, Top
  <2>3. s[Len(frames)] \in Int /\ Len(Top.items) \in Nat
    BY <1>2, <2>1 DEF Sums, Activations
  <2>4. owned' = t[Len(frames')] + 2
    BY <2>1, <2>2, <2>3
  <2> QED
    BY <2>2, <2>4 DEF Balanced
<1> QED
  BY <1>3, <1>5, <1>6 DEF ParseInv, Stacked

LEMMA AbandonKeeps ==
    ASSUME ParseInv, EndInList \/ EndInMap \/ BraceInList \/ ParenInMap \/ OddMap
    PROVE  ParseInv'
<1>1. /\ stage = "parse" /\ error = NoError /\ (In("list") \/ In("map"))
      /\ \E says : says # "" /\ (Abandon(Top.open, says) \/ Abandon(pos + 1, says))
  BY DEF EndInList, EndInMap, BraceInList, ParenInMap, OddMap, KeyPending, Sees, Turn
<1>2. PICK at, says : at \in {Top.open, pos + 1} /\ says # "" /\ Abandon(at, says)
  BY <1>1
<1>3. /\ error' = [at |-> at, says |-> says] /\ frames' = Outer /\ owned' = owned + 1 - Len(Top.items)
      /\ UNCHANGED <<stage, text, pos, answer>>
  BY <1>2 DEF Abandon
<1>4. PICK F : frames \in Seq(Activations(F))
  BY DEF ParseInv, Stacked
<1>5. Top.open \in 1..pos /\ pos \in Nat
  BY <1>1, <1>4, InnerEnds, Within
<1>6. error'.at = at /\ error'.says = says
  BY <1>3
<1>7. error' # NoError /\ error'.at \in 0..pos + 1
  <2>1. at \in 0..pos + 1
    <3>1. CASE at = Top.open
      BY <1>5, <3>1
    <3>2. CASE at = pos + 1
      BY <1>5, <3>2
    <3> QED
      BY <1>2, <3>1, <3>2
  <2>2. error' # NoError
    <3>1. NoError.says = ""
      BY DEF NoError
    <3> QED
      BY <1>2, <1>6, <3>1
  <2> QED
    BY <1>6, <2>1, <2>2
<1>8. owned' = owned - Len(Top.items) + 1
  <2>1. owned \in Int /\ Len(Top.items) \in Nat
    <3>1. PICK s : Sums(s, frames) /\ owned = s[Len(frames)] + 1
      BY <1>1 DEF ParseInv, Balanced
    <3>2. frames # <<>>
      BY <1>1 DEF ParseInv, TypeOK
    <3>3. Len(frames) \in Nat \ {0} /\ Top \in Activations(F)
      BY <1>4, <3>2, TopAndOuter DEF Top
    <3> QED
      BY <3>1, <3>3 DEF Sums, Activations
  <2> QED
    BY <1>3, <2>1
<1> QED
  BY <1>1, <1>3, <1>7, <1>8, EndKeeps

LEMMA StrayKeeps ==
    ASSUME ParseInv, Stray
    PROVE  ParseInv'
<1>1. /\ stage = "parse" /\ error = NoError /\ ~ AtEnd /\ pos' = pos + 1
      /\ error' = [at |-> pos + 1, says |-> "unexpected"] /\ owned' = owned + 1
      /\ UNCHANGED <<stage, text, frames, answer>>
  BY DEF Stray, Turn
<1>2. error' # NoError /\ error'.at = pos + 1
  <2>1. error'.says = "unexpected" /\ error'.at = pos + 1
    BY <1>1
  <2> QED
    <3>1. NoError.says = ""
      BY DEF NoError
    <3> QED
      BY <2>1, <3>1
<1>3. pos \in Nat /\ pos' \in 0..Len(text) /\ error'.at \in 0..pos' + 1
  BY <1>1, <1>2, Within DEF AtEnd
<1>4. Nested'
  BY <1>1, NestingStays
<1>5. TypeOK'
  <2>1. frames' # <<>>
    BY <1>1 DEF ParseInv, TypeOK
  <2> QED
    BY <1>1, <1>3, <1>4, <2>1, TypeFollows
<1>6. Balanced'
  <2>1. PICK s : Sums(s, frames) /\ owned = s[Len(frames)] + 1
    BY <1>1 DEF ParseInv, Balanced
  <2>2. s[Len(frames)] \in Int
    <3>1. PICK F : frames \in Seq(Activations(F))
      BY DEF ParseInv, Stacked
    <3>2. Len(frames) \in Nat
      BY <3>1
    <3> QED
      BY <2>1, <3>2 DEF Sums
  <2>3. owned' = s[Len(frames)] + 2
    BY <1>1, <2>1, <2>2
  <2> QED
    BY <1>1, <1>2, <2>1, <2>3 DEF Balanced
<1> QED
  BY <1>1, <1>5, <1>6 DEF ParseInv, Stacked

(* The outermost activation ends, and what is left is one reference.       *)
LEMMA LastKeeps ==
    ASSUME ParseInv, stage = "parse", In("top"), frames' = Outer, stage' = "done", UNCHANGED <<text, pos, error>>,
           owned' = owned - Len(Top.items) - (IF error = NoError THEN 0 ELSE 1)
    PROVE  ParseInv'
<1>1. PICK F : frames \in Seq(Activations(F))
  BY DEF ParseInv, Stacked
<1>2. frames # <<>> /\ Len(frames) \in Nat \ {0} /\ Top \in Activations(F) /\ DOMAIN frames = 1..Len(frames)
  <2>1. frames # <<>>
    BY DEF ParseInv, TypeOK
  <2> QED
    BY <1>1, <2>1, TopAndOuter DEF Top
<1>3. Len(frames) = 1
  <2>1. Len(frames) \in DOMAIN frames
    BY <1>2
  <2> QED
    BY <2>1, Within DEF Nested, In, Top
<1>4. frames' \in Seq(Activations(F)) /\ Len(frames') = 0 /\ DOMAIN frames' = {}
  <2>1. frames' \in Seq(Activations(F)) /\ Len(frames') = Len(frames) - 1
    BY <1>1, <1>2, TopAndOuter DEF Outer
  <2> QED
    BY <1>3, <2>1
<1>5. owned' = 1
  <2>1. PICK s : Sums(s, frames) /\ owned = s[1] + (IF error = NoError THEN 1 ELSE 2)
    BY <1>3 DEF ParseInv, Balanced
  <2>2. s[1] = s[0] + Len(frames[1].items) /\ s[0] = 0
    BY <1>3, <2>1 DEF Sums
  <2>3. Top = frames[1] /\ Len(Top.items) \in Nat
    BY <1>2, <1>3 DEF Top, Activations
  <2> QED
    BY <2>1, <2>2, <2>3
<1>6. Nested'
  BY <1>4 DEF Nested
<1>7. TypeOK'
  BY <1>6, Within, TypeFollows
<1> QED
  BY <1>4, <1>5, <1>7 DEF ParseInv, Stacked

LEMMA PassUpKeeps ==
    ASSUME ParseInv, PassUp
    PROVE  ParseInv'
<1>1. /\ stage = "parse" /\ error # NoError /\ frames' = Outer
      /\ stage' = IF In("top") THEN "done" ELSE "parse"
      /\ owned' = owned - Len(Top.items) - (IF In("top") THEN 1 ELSE 0)
      /\ UNCHANGED <<text, pos, error, answer>>
  BY DEF PassUp
<1>2. CASE In("top")
  BY <1>1, <1>2, LastKeeps
<1>3. CASE ~ In("top")
  <2>1. PICK F : frames \in Seq(Activations(F))
    BY DEF ParseInv, Stacked
  <2>2. frames # <<>>
    BY <1>1 DEF ParseInv, TypeOK
  <2>3. Top \in Activations(F) /\ Len(frames) \in Nat \ {0}
    BY <2>1, <2>2, TopAndOuter DEF Top
  <2>4. In("list") \/ In("map")
    BY <1>3, <2>3 DEF In, Activations
  <2>5. error.at \in 0..pos + 1
    BY <1>1, Within
  <2>6. owned' = owned - Len(Top.items) + 0
    <3>1. PICK s : Sums(s, frames) /\ owned = s[Len(frames)] + 2
      BY <1>1 DEF ParseInv, Balanced
    <3>2. owned \in Int /\ Len(Top.items) \in Nat
      BY <2>3, <3>1 DEF Sums, Activations
    <3> QED
      BY <1>1, <1>3, <3>2
  <2> QED
    BY <1>1, <1>3, <2>4, <2>5, <2>6, EndKeeps
<1> QED
  BY <1>2, <1>3

LEMMA ReturnKeeps ==
    ASSUME ParseInv, Return
    PROVE  ParseInv'
<1>1. /\ stage = "parse" /\ error = NoError /\ In("top") /\ stage' = "done" /\ frames' = Outer
      /\ owned' = owned + 1 - Len(Top.items) - 1
      /\ UNCHANGED <<text, pos, error>>
  BY DEF Return, Turn
<1>2. owned' = owned - Len(Top.items) - 0
  <2>1. PICK F : frames \in Seq(Activations(F))
    BY DEF ParseInv, Stacked
  <2>2. frames # <<>>
    BY <1>1 DEF ParseInv, TypeOK
  <2>3. Top \in Activations(F) /\ Len(frames) \in Nat \ {0}
    BY <2>1, <2>2, TopAndOuter DEF Top
  <2>4. PICK s : Sums(s, frames) /\ owned = s[Len(frames)] + 1
    BY <1>1 DEF ParseInv, Balanced
  <2>5. owned \in Int /\ Len(Top.items) \in Nat
    BY <2>3, <2>4 DEF Sums, Activations
  <2> QED
    BY <1>1, <2>5
<1> QED
  BY <1>1, <1>2, LastKeeps


LEMMA ParseInit == Init => ParseInv
<1> SUFFICES ASSUME Init PROVE ParseInv
  OBVIOUS
<1>1. text = <<>> /\ frames = <<>> /\ pos = 0 /\ stage = "call" /\ error = NoError
  BY DEF Init
<1>2. <<>> \in Seq(Brackets \cup Atoms) /\ Len(<<>>) = 0 /\ DOMAIN <<>> = {} /\ <<>> \in Seq(Activations({}))
  OBVIOUS
<1>3. pos \in 0..Len(text)
  BY <1>1, <1>2
<1>4. TypeOK
  BY <1>1, <1>2, <1>3 DEF TypeOK
<1> QED
  BY <1>1, <1>2, <1>4 DEF ParseInv, Stacked

LEMMA ParseNext == ParseInv /\ [Next]_vars => ParseInv'
<1> SUFFICES ASSUME ParseInv, [Next]_vars PROVE ParseInv'
  OBVIOUS
<1>1. CASE CloseList \/ CloseMap
  BY <1>1, CloseKeeps DEF CloseList, CloseMap, Sees
<1>2. CASE UNCHANGED vars
  BY <1>2 DEF vars, ParseInv, TypeOK, Stacked, Balanced
<1> QED
  BY <1>1, <1>2, BeginKeeps, ReadKeeps, OpenKeeps, AbandonKeeps, StrayKeeps, PassUpKeeps, ReturnKeeps DEF Next

(* Whatever the way out and however deep the error arose, every reference  *)
(* taken on the way is released except the one to the answer or the error  *)
(* (parse.c:66-98, 110-177, 218-231).                                      *)
THEOREM NoWayOutLeaks == Spec => []NothingLeaks
<1>1. ParseInv => NothingLeaks
  BY DEF ParseInv, NothingLeaks, Done
<1> QED
  BY <1>1, ParseInit, ParseNext, PTL DEF Spec

-----------------------------------------------------------------------------
(* The grammar *)


(* The form that tokens i .. k of t are, none or one.                      *)
FormAt(t, i, k) == Forms(t, i, k, Reads(t, i + 1, k - 1))

(* No run of tokens that starts with token i is a form.                    *)
NoForm(t, i) == \A k \in i..Len(t) : FormAt(t, i, k) = {}

IsRun(t, f) == f = [i \in 1..Len(t) + 1 |-> [j \in 0..Len(t) |-> ReadOn(t, f, i, j)]]

(* A set of natural numbers has a least element, and a part of an interval *)
(* a greatest one.                                                         *)
LEMMA LeastNumber ==
    ASSUME NEW S \in SUBSET Nat, S # {}
    PROVE  \E n \in S : \A k \in S : n <= k
<1> DEFINE R == {ss \in Nat \X Nat : ss[1] < ss[2]}
<1>1. IsWellFoundedOn(R, Nat)
  BY NatLessThanWellFounded DEF OpToRel
<1>2. PICK n \in S : \A k \in S : <<k, n>> \notin R
  <2> HIDE DEF R
  <2> QED
    BY <1>1, WFMin
<1>3. ASSUME NEW k \in S PROVE n <= k
  <2>1. k \in Nat /\ n \in Nat /\ <<k, n>> \notin R
    BY <1>2
  <2>2. ~ (k < n)
    BY <2>1
  <2> QED
    BY <2>1, <2>2
<1> QED
  BY <1>3

LEMMA GreatestNumber ==
    ASSUME NEW n \in Nat, NEW S \in SUBSET (1..n), S # {}
    PROVE  \E g \in S : \A i \in S : i <= g
<1> DEFINE D == {n - i : i \in S}
<1>1. D \in SUBSET Nat /\ D # {}
  <2>1. \A i \in S : n - i \in Nat
    OBVIOUS
  <2>2. PICK i \in S : TRUE
    OBVIOUS
  <2>3. n - i \in D
    OBVIOUS
  <2> QED
    BY <2>1, <2>3
<1> HIDE DEF D
<1>2. PICK d \in D : \A m \in D : d <= m
  BY <1>1, LeastNumber
<1>3. PICK g \in S : d = n - g
  BY <1>2 DEF D
<1>4. ASSUME NEW i \in S PROVE i <= g
  <2>1. n - g <= n - i
    BY <1>2, <1>3 DEF D
  <2> QED
    BY <2>1
<1> QED
  BY <1>4

(* What a run of tokens is begins with a form.                             *)
BeginsWith(t, run, i, j, x) ==
    \/ i > j /\ x = <<>>
    \/ /\ ~ (i > j)
       /\ \E k \in i..j : \E f \in Forms(t, i, k, run[i + 1][k - 1]), r \in run[k + 1][j] :
             x = <<f>> \o r

LEMMA ReadOnBegins ==
    ASSUME NEW t, NEW run, NEW i, NEW j, NEW x
    PROVE  x \in ReadOn(t, run, i, j) <=> BeginsWith(t, run, i, j, x)
<1> DEFINE form(k) == Forms(t, i, k, run[i + 1][k - 1])
           begun(k) == {<<f>> \o r : f \in form(k), r \in run[k + 1][j]}
<1>1. CASE i > j
  BY <1>1 DEF ReadOn, BeginsWith
<1>2. CASE ~ (i > j)
  <2>1. ReadOn(t, run, i, j) = UNION {begun(k) : k \in {k \in i..j : form(k) # {}}}
    BY <1>2 DEF ReadOn
  <2>2. \A k : x \in begun(k) <=> \E f \in form(k), r \in run[k + 1][j] : x = <<f>> \o r
    OBVIOUS
  <2> HIDE DEF form, begun
  <2>3. x \in ReadOn(t, run, i, j) <=> \E k \in {k \in i..j : form(k) # {}} : x \in begun(k)
    BY <2>1
  <2>4. x \in ReadOn(t, run, i, j) <=>
           \E k \in i..j : \E f \in form(k), r \in run[k + 1][j] : x = <<f>> \o r
    BY <2>2, <2>3
  <2> QED
    BY <1>2, <2>4 DEF form, BeginsWith
<1> QED
  BY <1>1, <1>2

(* What run has for the tokens up to i does not matter.                    *)
LEMMA ReadOnLooksAhead ==
    ASSUME NEW t, NEW run, NEW other, NEW i \in Int, NEW j \in Int,
           \A k \in i + 1..j + 1 : run[k] = other[k]
    PROVE  ReadOn(t, run, i, j) = ReadOn(t, other, i, j)
<1>1. CASE i > j
  BY <1>1 DEF ReadOn
<1>2. CASE ~ (i > j)
  <2>1. \A k \in i..j : run[k + 1] = other[k + 1]
    OBVIOUS
  <2>2. run[i + 1] = other[i + 1]
    BY <1>2
  <2>3. ASSUME NEW x
        PROVE  x \in ReadOn(t, run, i, j) <=> x \in ReadOn(t, other, i, j)
    <3>1. x \in ReadOn(t, run, i, j) <=> BeginsWith(t, run, i, j, x)
      BY ReadOnBegins
    <3>2. x \in ReadOn(t, other, i, j) <=> BeginsWith(t, other, i, j, x)
      BY ReadOnBegins
    <3>3. BeginsWith(t, run, i, j, x) <=> BeginsWith(t, other, i, j, x)
      BY <1>2, <2>1, <2>2, Zenon DEF BeginsWith
    <3> QED
      BY <3>1, <3>2, <3>3
  <2> QED
    BY <2>3
<1> QED
  BY <1>1, <1>2

(* The recursion of Reads has a solution, which is what Reads is.          *)
LEMMA RunExists ==
    ASSUME NEW t, Len(t) \in Nat
    PROVE  \E f : IsRun(t, f)
<1> DEFINE n == Len(t)
           row(f, i) == [j \in 0..n |-> ReadOn(t, f, i, j)]
           Solves(f, d) == \A i \in 1..n + 1 : i + d > n + 1 => f[i] = row(f, i)
           Unsolved == {d \in Nat : ~ \E f : Solves(f, d)}
<1>1. ASSUME NEW f, NEW g, NEW i \in 1..n + 1, \A k \in i + 1..n + 1 : f[k] = g[k]
      PROVE  row(f, i) = row(g, i)
  <2>1. ASSUME NEW j \in 0..n PROVE ReadOn(t, f, i, j) = ReadOn(t, g, i, j)
    BY <1>1, ReadOnLooksAhead
  <2> QED
    BY <2>1
<1>2. \E f : Solves(f, 0)
  <2>1. \A i \in 1..n + 1 : ~ (i + 0 > n + 1)
    OBVIOUS
  <2> QED
    BY <2>1
<1>3. ASSUME NEW d \in Nat, NEW f, Solves(f, d) PROVE \E g : Solves(g, d + 1)
  <2> DEFINE g == [i \in 1..n + 1 |-> row(f, i)]
  <2>1. \A i \in 1..n + 1 : g[i] = row(f, i)
    OBVIOUS
  <2>2. \A i \in 1..n + 1 : i + d > n + 1 => f[i] = row(f, i)
    BY <1>3
  <2> HIDE DEF row, g
  <2>3. ASSUME NEW i \in 1..n + 1, i + (d + 1) > n + 1 PROVE g[i] = row(g, i)
    <3>1. \A k \in i + 1..n + 1 : k \in 1..n + 1 /\ k + d > n + 1
      BY <2>3
    <3>2. \A k \in i + 1..n + 1 : f[k] = g[k]
      BY <2>1, <2>2, <3>1
    <3> QED
      BY <1>1, <2>1, <3>2
  <2> QED
    BY <2>3
<1>4. Unsolved = {}
  <2> SUFFICES ASSUME Unsolved # {} PROVE FALSE
    OBVIOUS
  <2>1. Unsolved \in SUBSET Nat
    OBVIOUS
  <2> HIDE DEF Solves, Unsolved
  <2>2. PICK d \in Unsolved : \A m \in Unsolved : d <= m
    BY <2>1, LeastNumber
  <2>3. d \in Nat /\ ~ \E f : Solves(f, d)
    BY <2>2 DEF Unsolved
  <2>4. d # 0
    BY <1>2, <2>3
  <2>5. d - 1 \in Nat /\ d - 1 + 1 = d /\ d - 1 \notin Unsolved
    BY <2>2, <2>3, <2>4
  <2>6. PICK f : Solves(f, d - 1)
    BY <2>5 DEF Unsolved
  <2> QED
    BY <1>3, <2>3, <2>5, <2>6
<1>5. PICK f : Solves(f, n + 1)
  <2> HIDE DEF Solves, Unsolved
  <2>1. n + 1 \in Nat /\ n + 1 \notin Unsolved
    BY <1>4
  <2> QED
    BY <2>1 DEF Unsolved
<1> DEFINE g == [i \in 1..n + 1 |-> f[i]]
<1>6. \A i \in 1..n + 1 : f[i] = row(f, i)
  <2>1. \A i \in 1..n + 1 : i + (n + 1) > n + 1
    OBVIOUS
  <2> QED
    BY <1>5, <2>1
<1>7. \A i \in 1..n + 1 : row(f, i) = row(g, i)
  <2>1. \A i \in 1..n + 1 : g[i] = f[i]
    OBVIOUS
  <2>2. \A i \in 1..n + 1 : \A k \in i + 1..n + 1 : k \in 1..n + 1
    OBVIOUS
  <2> HIDE DEF row, g
  <2> QED
    BY <1>1, <2>1, <2>2
<1>8. g = [i \in 1..n + 1 |-> row(g, i)]
  <2> HIDE DEF row
  <2>1. g = [i \in 1..n + 1 |-> row(f, i)]
    BY <1>6
  <2> HIDE DEF g
  <2> QED
    BY <1>7, <2>1
<1> HIDE DEF g
<1> QED
  BY <1>8 DEF IsRun

StartsWith(t, i, j, x) ==
    \E k \in i..j : \E f \in FormAt(t, i, k), r \in Reads(t, k + 1, j) : x = <<f>> \o r

LEMMA ReadsBegin ==
    ASSUME NEW t, Len(t) \in Nat, NEW i \in 1..Len(t) + 1, NEW j \in 0..Len(t), NEW x
    PROVE  x \in Reads(t, i, j) <=>
              (i > j /\ x = <<>>) \/ (~ (i > j) /\ StartsWith(t, i, j, x))
<1> DEFINE run == CHOOSE f : IsRun(t, f)
<1>1. \A a, b : Reads(t, a, b) = run[a][b]
  BY Zenon DEF Reads, IsRun
<1>2. IsRun(t, run)
  BY RunExists
<1> HIDE DEF run
<1> DEFINE G(a, b) == ReadOn(t, run, a, b)
<1>3. run[i][j] = G(i, j)
  <2>1. run = [a \in 1..Len(t) + 1 |-> [b \in 0..Len(t) |-> G(a, b)]]
    BY <1>2 DEF IsRun
  <2> HIDE DEF G
  <2> QED
    BY <2>1
<1>4. x \in Reads(t, i, j) <=> BeginsWith(t, run, i, j, x)
  <2>1. Reads(t, i, j) = ReadOn(t, run, i, j)
    BY <1>1, <1>3
  <2> QED
    BY <2>1, ReadOnBegins
<1> QED
  BY <1>1, <1>4, Zenon DEF FormAt, BeginsWith, StartsWith

(* Which runs of tokens are forms, by the token they start with.           *)
LEMMA FormsBegin ==
    ASSUME NEW t \in Seq(Brackets \cup Atoms), NEW i \in 1..Len(t), NEW k \in i..Len(t)
    PROVE  /\ t[i] \in Atoms =>
                 FormAt(t, i, k) = IF i = k THEN {Atom(t[i])} ELSE {}
           /\ t[i] = Paren =>
                 FormAt(t, i, k) = IF i # k /\ t[k] = ParenEnd
                                   THEN {ListOf(s) : s \in Reads(t, i + 1, k - 1)} ELSE {}
           /\ t[i] = Brace =>
                 FormAt(t, i, k) = IF i # k /\ t[k] = BraceEnd
                                   THEN {MapOf(s) : s \in {r \in Reads(t, i + 1, k - 1) : Len(r) % 2 = 0}}
                                   ELSE {}
           /\ t[i] \in {ParenEnd, BraceEnd} => FormAt(t, i, k) = {}
           /\ t[i] \in Atoms \/ t[i] \in {Paren, Brace, ParenEnd, BraceEnd}
<1>1. /\ Paren # Brace /\ Paren # ParenEnd /\ Paren # BraceEnd
      /\ Brace # ParenEnd /\ Brace # BraceEnd /\ ParenEnd # BraceEnd
  BY BracketsDiffer
<1>2. Brackets = {Paren, Brace, ParenEnd, BraceEnd}
  BY Zenon DEF Brackets
<1>3. t[i] \in Brackets \cup Atoms /\ Atoms \cap Brackets = {}
  BY TextsAssumption
<1> DEFINE inside == Reads(t, i + 1, k - 1)
<1>4. Forms(t, i, k, inside) =
         IF i = k THEN IF t[i] \in Atoms THEN {Atom(t[i])} ELSE {}
         ELSE IF t[i] = Paren /\ t[k] = ParenEnd THEN {ListOf(s) : s \in inside}
         ELSE IF t[i] = Brace /\ t[k] = BraceEnd
              THEN {MapOf(s) : s \in {r \in inside : Len(r) % 2 = 0}}
         ELSE {}
  BY Zenon DEF Forms, Paren, Brace, ParenEnd, BraceEnd
<1> HIDE DEF inside
<1>5. t[i] \in Atoms => t[i] \notin {Paren, Brace}
  BY <1>2, <1>3
<1>6. t[i] \in {Paren, Brace, ParenEnd, BraceEnd} => t[i] \notin Atoms
  BY <1>2, <1>3
<1> DEFINE lists == {ListOf(s) : s \in inside}
           maps == {MapOf(s) : s \in {r \in inside : Len(r) % 2 = 0}}
<1>7. /\ t[i] \in Atoms => Forms(t, i, k, inside) = IF i = k THEN {Atom(t[i])} ELSE {}
      /\ t[i] = Paren => Forms(t, i, k, inside) = IF i # k /\ t[k] = ParenEnd THEN lists ELSE {}
      /\ t[i] = Brace => Forms(t, i, k, inside) = IF i # k /\ t[k] = BraceEnd THEN maps ELSE {}
      /\ t[i] \in {ParenEnd, BraceEnd} => Forms(t, i, k, inside) = {}
  <2> HIDE DEF lists, maps
  <2>1. Forms(t, i, k, inside) =
           IF i = k THEN IF t[i] \in Atoms THEN {Atom(t[i])} ELSE {}
           ELSE IF t[i] = Paren /\ t[k] = ParenEnd THEN lists
           ELSE IF t[i] = Brace /\ t[k] = BraceEnd THEN maps ELSE {}
    BY <1>4 DEF lists, maps
  <2> QED
    BY <1>1, <1>5, <1>6, <2>1
<1> QED
  BY <1>2, <1>3, <1>7 DEF FormAt, inside

(* What a form of several tokens is made of.                               *)
LEMMA LongForms ==
    ASSUME NEW t \in Seq(Brackets \cup Atoms), NEW i \in 1..Len(t), NEW k \in i..Len(t),
           FormAt(t, i, k) # {}, ~ (t[i] \in Atoms /\ i = k)
    PROVE  /\ i < k /\ t[i] \notin Atoms /\ NoForm(t, k)
           /\ (t[i] = Paren /\ t[k] = ParenEnd) \/ (t[i] = Brace /\ t[k] = BraceEnd)
           /\ \E r \in Reads(t, i + 1, k - 1) : t[i] = Brace => Len(r) % 2 = 0
<1>1. /\ t[i] \in {Paren, Brace} /\ t[i] \notin Atoms
      /\ i # k
      /\ (t[i] = Paren /\ t[k] = ParenEnd) \/ (t[i] = Brace /\ t[k] = BraceEnd)
      /\ \E r \in Reads(t, i + 1, k - 1) : t[i] = Brace => Len(r) % 2 = 0
  <2>1. CASE t[i] \in Atoms
    BY <2>1, FormsBegin
  <2>2. CASE t[i] = Paren
    <3>1. i # k /\ t[k] = ParenEnd /\ \E r \in Reads(t, i + 1, k - 1) : TRUE
      BY <2>2, FormsBegin
    <3>2. t[i] \notin Atoms /\ t[i] # Brace
      BY <2>2, BracketsDiffer, TextsAssumption, Zenon DEF Brackets
    <3> QED
      BY <2>2, <3>1, <3>2
  <2>3. CASE t[i] = Brace
    <3>1. i # k /\ t[k] = BraceEnd /\ \E r \in Reads(t, i + 1, k - 1) : Len(r) % 2 = 0
      BY <2>3, FormsBegin
    <3>2. t[i] \notin Atoms
      BY <2>3, TextsAssumption, Zenon DEF Brackets, Brace
    <3> QED
      BY <2>3, <3>1, <3>2
  <2> QED
    BY <2>1, <2>2, <2>3, FormsBegin
<1>2. k \in 1..Len(t) /\ i < k
  BY <1>1
<1>3. NoForm(t, k)
  <2>1. t[k] \in {ParenEnd, BraceEnd}
    BY <1>1
  <2> QED
    BY <1>2, <2>1, FormsBegin DEF NoForm
<1> QED
  BY <1>1, <1>2, <1>3

(* The grammar is not ambiguous: a form ends at one place, a run of tokens *)
(* has one reading, and where no form can start nothing is read past.      *)
OneEnd(t, i) == \A k, m \in i..Len(t) : FormAt(t, i, k) # {} /\ FormAt(t, i, m) # {} => k = m
OneReading(t, i) == \A j \in 0..Len(t) : \A x, y \in Reads(t, i, j) : x = y
NothingPast(t, i) ==
    \A b \in i..Len(t) : NoForm(t, b) /\ Reads(t, i, b - 1) # {} => \A m \in b..Len(t) : Reads(t, i, m) = {}

Plain(t, i) == i <= Len(t) => OneEnd(t, i) /\ OneReading(t, i) /\ NothingPast(t, i)

LEMMA OneEndBefore ==
    ASSUME NEW t \in Seq(Brackets \cup Atoms), NEW i \in 1..Len(t), Plain(t, i + 1)
    PROVE  OneEnd(t, i)
<1> SUFFICES ASSUME NEW k \in i..Len(t), NEW m \in i..Len(t),
                    FormAt(t, i, k) # {}, FormAt(t, i, m) # {}, k < m
             PROVE  FALSE
  <2>1. ASSUME NEW k \in i..Len(t), NEW m \in i..Len(t), FormAt(t, i, k) # {}, FormAt(t, i, m) # {}
        PROVE  ~ (k < m) /\ ~ (m < k)
    BY <2>1
  <2> QED
    BY <2>1 DEF OneEnd
<1>1. i # m
  OBVIOUS
<1>2. t[i] \notin Atoms /\ \E r \in Reads(t, i + 1, m - 1) : TRUE
  BY <1>1, LongForms
<1>3. i < k /\ NoForm(t, k) /\ \E r \in Reads(t, i + 1, k - 1) : TRUE
  BY <1>2, LongForms
<1>4. i + 1 <= Len(t) /\ k \in i + 1..Len(t) /\ m - 1 \in k..Len(t)
  BY <1>3
<1> QED
  BY <1>2, <1>3, <1>4 DEF Plain, NothingPast

(* Where tokens i .. k of t are a form.                                    *)
LEMMA OneForm ==
    ASSUME NEW t \in Seq(Brackets \cup Atoms), NEW i \in 1..Len(t), NEW k \in i..Len(t),
           Plain(t, i + 1), NEW f \in FormAt(t, i, k), NEW g \in FormAt(t, i, k)
    PROVE  f = g
<1>1. CASE t[i] \in Atoms
  BY <1>1, FormsBegin
<1>2. CASE t[i] \notin Atoms
  <2>1. (t[i] = Paren /\ t[k] = ParenEnd) \/ (t[i] = Brace /\ t[k] = BraceEnd)
    BY <1>2, LongForms
  <2>2. \A x, y \in Reads(t, i + 1, k - 1) : x = y
    BY <1>2, LongForms DEF Plain, OneReading
  <2>3. CASE t[i] = Paren
    BY <2>2, <2>3, FormsBegin
  <2>4. CASE t[i] = Brace
    BY <2>2, <2>4, FormsBegin
  <2> QED
    BY <2>1, <2>3, <2>4
<1> QED
  BY <1>1, <1>2

LEMMA Unambiguous ==
    ASSUME NEW t \in Seq(Brackets \cup Atoms), NEW i \in 1..Len(t),
           \A m \in i + 1..Len(t) + 1 : Plain(t, m)
    PROVE  Plain(t, i)
<1> DEFINE n == Len(t)
<1>1. n \in Nat /\ Plain(t, i + 1)
  OBVIOUS
<1>2. OneEnd(t, i)
  BY <1>1, OneEndBefore
<1>3. OneReading(t, i)
  <2> SUFFICES ASSUME NEW j \in 0..n, NEW x \in Reads(t, i, j), NEW y \in Reads(t, i, j)
               PROVE  x = y
    BY DEF OneReading
  <2>1. CASE i > j
    BY <2>1, <1>1, ReadsBegin
  <2>2. CASE ~ (i > j)
    <3>1. PICK k \in i..j : \E f \in FormAt(t, i, k), r \in Reads(t, k + 1, j) : x = <<f>> \o r
      <4>1. StartsWith(t, i, j, x)
        BY <1>1, <2>2, ReadsBegin
      <4> QED
        BY <4>1 DEF StartsWith
    <3>2. PICK m \in i..j : \E g \in FormAt(t, i, m), s \in Reads(t, m + 1, j) : y = <<g>> \o s
      <4>1. StartsWith(t, i, j, y)
        BY <1>1, <2>2, ReadsBegin
      <4> QED
        BY <4>1 DEF StartsWith
    <3>3. k \in i..n /\ m \in i..n /\ k = m
      BY <1>2, <3>1, <3>2 DEF OneEnd
    <3>6. PICK f \in FormAt(t, i, k), r \in Reads(t, k + 1, j) : x = <<f>> \o r
      BY <3>1
    <3>7. PICK g \in FormAt(t, i, k), s \in Reads(t, k + 1, j) : y = <<g>> \o s
      BY <3>2, <3>3
    <3>4. f = g
      BY <1>1, <3>3, OneForm
    <3>5. r = s
      <4>1. CASE k + 1 > j
        BY <1>1, <3>3, <4>1, ReadsBegin
      <4>2. CASE ~ (k + 1 > j)
        <5>1. k + 1 \in i + 1..n + 1 /\ k + 1 <= n
          BY <3>3, <4>2
        <5> QED
          BY <3>3, <5>1 DEF Plain, OneReading
      <4> QED
        BY <4>1, <4>2
    <3> QED
      BY <3>4, <3>5, <3>6, <3>7
  <2> QED
    BY <2>1, <2>2
<1>4. NothingPast(t, i)
  <2> SUFFICES ASSUME NEW b \in i..n, NoForm(t, b), Reads(t, i, b - 1) # {}, NEW m \in b..n,
                      NEW x \in Reads(t, i, m)
               PROVE  FALSE
    BY DEF NothingPast
  <2>1. PICK k \in i..m : FormAt(t, i, k) # {} /\ Reads(t, k + 1, m) # {}
    <3>1. m \in 0..n /\ ~ (i > m)
      OBVIOUS
    <3>2. StartsWith(t, i, m, x)
      BY <1>1, <3>1, ReadsBegin
    <3> QED
      BY <3>2 DEF StartsWith
  <2>2. CASE b = i
    BY <2>1, <2>2 DEF NoForm
  <2>3. CASE b # i
    <3>1. PICK y \in Reads(t, i, b - 1) : TRUE
      OBVIOUS
    <3>2. PICK l \in i..b - 1 : FormAt(t, i, l) # {} /\ Reads(t, l + 1, b - 1) # {}
      <4>1. b - 1 \in 0..n /\ ~ (i > b - 1)
        BY <2>3
      <4>2. StartsWith(t, i, b - 1, y)
        BY <1>1, <3>1, <4>1, ReadsBegin
      <4> QED
        BY <4>2 DEF StartsWith
    <3>3. l = k
      BY <1>2, <2>1, <3>2 DEF OneEnd
    <3>4. l + 1 \in i + 1..n + 1 /\ l + 1 <= n /\ b \in l + 1..n
      BY <3>2
    <3> QED
      BY <2>1, <3>2, <3>3, <3>4 DEF Plain, NothingPast
  <2> QED
    BY <2>2, <2>3
<1> QED
  BY <1>2, <1>3, <1>4 DEF Plain

(* So much for every place of a text.                                      *)
LEMMA NoAmbiguity ==
    ASSUME NEW t \in Seq(Brackets \cup Atoms)
    PROVE  \A i \in 1..Len(t) + 1 : Plain(t, i)
<1> DEFINE n == Len(t)
           Bad == {i \in 1..n : ~ Plain(t, i)}
<1>1. n \in Nat /\ Bad \in SUBSET (1..n)
  OBVIOUS
<1>2. Plain(t, n + 1)
  BY <1>1 DEF Plain
<1>3. Bad = {}
  <2> SUFFICES ASSUME Bad # {} PROVE FALSE
    OBVIOUS
  <2> HIDE DEF Bad
  <2>1. PICK g \in Bad : \A i \in Bad : i <= g
    BY <1>1, GreatestNumber
  <2>2. g \in 1..n /\ ~ Plain(t, g)
    BY <2>1 DEF Bad
  <2>3. \A m \in g + 1..n + 1 : Plain(t, m)
    <3> SUFFICES ASSUME NEW m \in g + 1..n + 1, m # n + 1 PROVE Plain(t, m)
      BY <1>2
    <3>1. m \in 1..n /\ m \notin Bad
      BY <2>1, <2>2
    <3> QED
      BY <3>1 DEF Bad
  <2> QED
    BY <2>2, <2>3, Unambiguous
<1> QED
  BY <1>1, <1>2, <1>3

(* The readings of a text are sequences.                                   *)
Listed(t, i) == \A j \in 0..Len(t) : \A x \in Reads(t, i, j) : \E F : x \in Seq(F)

(* A form that follows a run of forms.                                     *)
Extends(t, i) ==
    \A b \in i..Len(t) : \A m \in b..Len(t) :
        \A r \in Reads(t, i, b - 1), f \in FormAt(t, b, m) :
            Append(r, f) \in Reads(t, i, m)

LEMMA FrontOfAppend ==
    ASSUME NEW F, NEW r \in Seq(F), NEW a, NEW f
    PROVE  /\ \E G : <<a>> \o r \in Seq(G)
           /\ Append(<<a>> \o r, f) = <<a>> \o Append(r, f)
           /\ Append(<<>>, f) = <<f>> \o <<>>
<1> DEFINE G == F \cup {a, f}
<1>1. r \in Seq(G) /\ a \in G /\ f \in G
  <2>1. F \subseteq G
    OBVIOUS
  <2> HIDE DEF G
  <2>2. r \in Seq(G)
    BY <2>1
  <2> QED
    BY <2>2 DEF G
<1> HIDE DEF G
<1>2. <<a>> \in Seq(G) /\ Len(<<a>>) = 1 /\ <<a>>[1] = a
  BY <1>1
<1> DEFINE ar == <<a>> \o r
           rf == Append(r, f)
<1>3. /\ ar \in Seq(G) /\ Len(ar) = 1 + Len(r) /\ Len(r) \in Nat
      /\ \A k \in 1..1 + Len(r) : ar[k] = IF k <= 1 THEN a ELSE r[k - 1]
  BY <1>1, <1>2, ConcatProperties
<1>4. /\ rf \in Seq(G) /\ Len(rf) = Len(r) + 1
      /\ \A k \in 1..Len(r) + 1 : rf[k] = IF k = Len(r) + 1 THEN f ELSE r[k]
  BY <1>1
<1> HIDE DEF ar, rf
<1>5. /\ Append(ar, f) \in Seq(G) /\ Len(Append(ar, f)) = Len(r) + 2
      /\ \A k \in 1..Len(r) + 2 : Append(ar, f)[k] = IF k = Len(r) + 2 THEN f ELSE ar[k]
  BY <1>1, <1>3
<1>6. /\ <<a>> \o rf \in Seq(G) /\ Len(<<a>> \o rf) = 1 + Len(rf)
      /\ \A k \in 1..1 + Len(rf) : (<<a>> \o rf)[k] = IF k <= 1 THEN a ELSE rf[k - 1]
  BY <1>2, <1>4, ConcatProperties
<1>7. Append(ar, f) = <<a>> \o rf
  <2>1. Len(Append(ar, f)) = Len(<<a>> \o rf)
    BY <1>3, <1>4, <1>5, <1>6
  <2>2. ASSUME NEW k \in 1..Len(Append(ar, f)) PROVE Append(ar, f)[k] = (<<a>> \o rf)[k]
    <3>1. k \in 1..Len(r) + 2 /\ k \in 1..1 + Len(rf)
      BY <1>3, <1>4, <1>5
    <3>2. Append(ar, f)[k] = (IF k = Len(r) + 2 THEN f ELSE ar[k])
      BY <1>5, <3>1
    <3>3. (<<a>> \o rf)[k] = (IF k <= 1 THEN a ELSE rf[k - 1])
      BY <1>6, <3>1
    <3>4. CASE k = 1
      <4>1. k # Len(r) + 2 /\ k \in 1..1 + Len(r) /\ k <= 1
        BY <1>3, <3>4
      <4> QED
        BY <1>3, <3>2, <3>3, <4>1
    <3>5. CASE k # 1
      <4>1. k - 1 \in 1..Len(r) + 1 /\ ~ (k <= 1)
        BY <1>3, <3>1, <3>5
      <4>2. rf[k - 1] = (IF k - 1 = Len(r) + 1 THEN f ELSE r[k - 1])
        BY <1>4, <4>1
      <4>3. k # Len(r) + 2 => ar[k] = r[k - 1]
        BY <1>3, <3>1, <4>1
      <4>4. (k - 1 = Len(r) + 1) <=> (k = Len(r) + 2)
        BY <1>3, <3>1
      <4> QED
        BY <3>2, <3>3, <4>1, <4>2, <4>3, <4>4
    <3> QED
      BY <3>4, <3>5
  <2> QED
    BY <1>5, <1>6, <2>1, <2>2, SeqEqual
<1>8. Append(<<>>, f) = <<f>> \o <<>>
  <2>1. <<f>> \in Seq(G)
    BY <1>1
  <2>2. <<f>> \o <<>> = <<f>>
    BY <2>1, ConcatEmptySeq
  <2>3. Append(<<>>, f) = <<f>>
    OBVIOUS
  <2> QED
    BY <2>2, <2>3
<1> QED
  BY <1>3, <1>7, <1>8 DEF ar, rf

LEMMA OneMoreForm ==
    ASSUME NEW t \in Seq(Brackets \cup Atoms), NEW i \in 1..Len(t),
           \A m \in i + 1..Len(t) + 1 : Listed(t, m) /\ (m <= Len(t) => Extends(t, m))
    PROVE  Listed(t, i) /\ Extends(t, i)
<1> DEFINE n == Len(t)
<1>1. n \in Nat
  OBVIOUS
<1>2. Listed(t, i)
  <2> SUFFICES ASSUME NEW j \in 0..n, NEW x \in Reads(t, i, j) PROVE \E F : x \in Seq(F)
    BY DEF Listed
  <2>1. CASE i > j
    <3>1. x = <<>>
      BY <1>1, <2>1, ReadsBegin
    <3> QED
      BY <3>1
  <2>2. CASE ~ (i > j)
    <3>1. StartsWith(t, i, j, x)
      BY <1>1, <2>2, ReadsBegin
    <3>2. PICK k \in i..j : \E f \in FormAt(t, i, k), r \in Reads(t, k + 1, j) : x = <<f>> \o r
      BY <3>1 DEF StartsWith
    <3>3. PICK f \in FormAt(t, i, k), r \in Reads(t, k + 1, j) : x = <<f>> \o r
      BY <3>2
    <3>4. k + 1 \in i + 1..n + 1
      OBVIOUS
    <3>5. PICK F : r \in Seq(F)
      BY <3>4 DEF Listed
    <3> QED
      BY <3>3, <3>5, FrontOfAppend
  <2> QED
    BY <2>1, <2>2
<1>3. Extends(t, i)
  <2> SUFFICES ASSUME NEW b \in i..n, NEW m \in b..n,
                      NEW r \in Reads(t, i, b - 1), NEW f \in FormAt(t, b, m)
               PROVE  Append(r, f) \in Reads(t, i, m)
    BY DEF Extends
  <2>1. m \in 0..n /\ ~ (i > m) /\ b - 1 \in 0..n
    OBVIOUS
  <2>2. CASE b = i
    <3>1. r = <<>>
      BY <1>1, <2>1, <2>2, ReadsBegin
    <3>2. <<>> \in Reads(t, m + 1, m)
      <4>1. m + 1 \in 1..n + 1 /\ m + 1 > m
        OBVIOUS
      <4> QED
        BY <1>1, <2>1, <4>1, ReadsBegin
    <3>3. Append(r, f) = <<f>> \o <<>>
      <4>1. <<>> \in Seq({})
        OBVIOUS
      <4> QED
        BY <3>1, <4>1, FrontOfAppend
    <3>4. StartsWith(t, i, m, Append(r, f))
      <4>1. m \in i..m
        OBVIOUS
      <4> QED
        BY <2>2, <3>2, <3>3, <4>1 DEF StartsWith
    <3> QED
      BY <1>1, <2>1, <3>4, ReadsBegin
  <2>3. CASE b # i
    <3>1. StartsWith(t, i, b - 1, r)
      <4>1. ~ (i > b - 1)
        BY <2>3
      <4> QED
        BY <1>1, <2>1, <4>1, ReadsBegin
    <3>2. PICK k \in i..b - 1 : \E g \in FormAt(t, i, k), s \in Reads(t, k + 1, b - 1) : r = <<g>> \o s
      BY <3>1 DEF StartsWith
    <3>3. PICK g \in FormAt(t, i, k), s \in Reads(t, k + 1, b - 1) : r = <<g>> \o s
      BY <3>2
    <3>4. k + 1 \in i + 1..n + 1 /\ k + 1 <= n /\ b \in k + 1..n /\ k \in i..m
      BY <2>1
    <3>5. Append(s, f) \in Reads(t, k + 1, m)
      BY <3>4 DEF Extends
    <3>6. Append(r, f) = <<g>> \o Append(s, f)
      <4>1. PICK F : s \in Seq(F)
        BY <2>1, <3>4 DEF Listed
      <4> QED
        BY <3>3, <4>1, FrontOfAppend
    <3>7. StartsWith(t, i, m, Append(r, f))
      BY <3>4, <3>5, <3>6 DEF StartsWith
    <3> QED
      BY <1>1, <2>1, <3>7, ReadsBegin
  <2> QED
    BY <2>2, <2>3
<1> QED
  BY <1>2, <1>3

LEMMA FormsAppend ==
    ASSUME NEW t \in Seq(Brackets \cup Atoms)
    PROVE  \A i \in 1..Len(t) + 1 : Listed(t, i) /\ (i <= Len(t) => Extends(t, i))
<1> DEFINE n == Len(t)
           Good(i) == Listed(t, i) /\ (i <= n => Extends(t, i))
           Bad == {i \in 1..n : ~ Good(i)}
<1>1. n \in Nat /\ Bad \in SUBSET (1..n)
  OBVIOUS
<1>2. Good(n + 1)
  <2> SUFFICES ASSUME NEW j \in 0..n, NEW x \in Reads(t, n + 1, j) PROVE \E F : x \in Seq(F)
    BY <1>1 DEF Listed
  <2>1. n + 1 \in 1..n + 1 /\ n + 1 > j
    OBVIOUS
  <2>2. x = <<>>
    BY <1>1, <2>1, ReadsBegin
  <2> QED
    BY <2>2
<1> HIDE DEF Good
<1>3. Bad = {}
  <2> SUFFICES ASSUME Bad # {} PROVE FALSE
    OBVIOUS
  <2> HIDE DEF Bad
  <2>1. PICK g \in Bad : \A i \in Bad : i <= g
    BY <1>1, GreatestNumber
  <2>2. g \in 1..n /\ ~ Good(g)
    BY <2>1 DEF Bad
  <2>3. \A m \in g + 1..n + 1 : Good(m)
    <3> SUFFICES ASSUME NEW m \in g + 1..n + 1, m # n + 1 PROVE Good(m)
      BY <1>2
    <3>1. m \in 1..n /\ m \notin Bad
      BY <2>1, <2>2
    <3> QED
      BY <3>1 DEF Bad
  <2> QED
    BY <2>2, <2>3, OneMoreForm DEF Good
<1> QED
  BY <1>1, <1>2, <1>3 DEF Good

(* What an activation has read is all of one reading of the tokens between *)
(* its opening bracket and where it stands: the next one's bracket, or, if *)
(* it is the innermost, token last.                                        *)
EndOf(fs, d, last) == IF d = Len(fs) THEN last ELSE fs[d + 1].open - 1
RunsOf(t, fs, last) ==
    \A d \in 1..Len(fs) :
        /\ EndOf(fs, d, last) \in 0..Len(t)
        /\ fs[d].open \in 0..EndOf(fs, d, last)
        /\ fs[d].kind = "top" => fs[d].open = 0
        /\ fs[d].items \in Reads(t, fs[d].open + 1, EndOf(fs, d, last))

(* t begins with the first n tokens of the text, and not for want of one.  *)
Agrees(t, n) == n \in 0..Len(t) /\ n \in 0..Len(text) /\ \A i \in 1..n : t[i] = text[i]

(* The texts that an error is about: the one read, and, if it points at a  *)
(* closing bracket, every other that begins with the tokens up to it.      *)
Rivals ==
    {t \in Seq(Brackets \cup Atoms) :
        t = text \/ (error.says \in Unexpected /\ Agrees(t, error.at))}

(* An error is on its way: where it arose, or where the activations that   *)
(* it passed began, no form of t starts.                                   *)
Stuck(t, bad) ==
    /\ Agrees(t, bad)
    /\ bad # 0
    /\ NoForm(t, bad)
    /\ RunsOf(t, frames, bad - 1)
    /\ In("list") => t[bad] # ParenEnd
    /\ In("map") => t[bad] # BraceEnd

ReadInv ==
    /\ ParseInv
    /\ stage = "parse" /\ error = NoError => RunsOf(text, frames, pos)
    /\ stage = "parse" /\ error # NoError => \A t \in Rivals : \E bad : Stuck(t, bad)
    /\ stage = "done" /\ error = NoError => Readings(text) = {answer}
    /\ stage = "done" /\ error # NoError /\ error.says # "tok" => \A t \in Rivals : Readings(t) = {}

-----------------------------------------------------------------------------
(* Reading *)

(* What is read of the first n tokens does not depend on the others.       *)
LEMMA PrefixReads ==
    ASSUME NEW t \in Seq(Brackets \cup Atoms), NEW u \in Seq(Brackets \cup Atoms), NEW n \in Nat,
           n <= Len(t), n <= Len(u), \A i \in 1..n : t[i] = u[i]
    PROVE  \A i \in 1..n + 1, j \in 0..n : Reads(t, i, j) = Reads(u, i, j)
<1> DEFINE Same(i) == \A j \in 0..n : Reads(t, i, j) = Reads(u, i, j)
           Bad == {i \in 1..n + 1 : ~ Same(i)}
<1>1. Len(t) \in Nat /\ Len(u) \in Nat /\ n + 1 \in Nat /\ Bad \in SUBSET (1..n + 1)
  OBVIOUS
<1>2. ASSUME NEW i \in 1..n + 1, \A k \in i + 1..n + 1 : Same(k) PROVE Same(i)
  <2> SUFFICES ASSUME NEW j \in 0..n, NEW x PROVE x \in Reads(t, i, j) <=> x \in Reads(u, i, j)
    OBVIOUS
  <2>1. /\ i \in 1..Len(t) + 1 /\ i \in 1..Len(u) + 1
        /\ j \in 0..Len(t) /\ j \in 0..Len(u)
    BY <1>1
  <2>2. CASE i > j
    <3>1. (x \in Reads(t, i, j) <=> x = <<>>) /\ (x \in Reads(u, i, j) <=> x = <<>>)
      BY <1>1, <2>1, <2>2, ReadsBegin
    <3> QED
      BY <3>1
  <2>3. CASE ~ (i > j)
    <3>1. ASSUME NEW k \in i..j
          PROVE  FormAt(t, i, k) = FormAt(u, i, k) /\ Reads(t, k + 1, j) = Reads(u, k + 1, j)
      <4>1. /\ i + 1 \in i + 1..n + 1 /\ k - 1 \in 0..n /\ k + 1 \in i + 1..n + 1
            /\ i \in 1..n /\ k \in 1..n
        BY <2>3
      <4>2. Reads(t, i + 1, k - 1) = Reads(u, i + 1, k - 1) /\ Reads(t, k + 1, j) = Reads(u, k + 1, j)
        BY <1>2, <4>1
      <4>3. t[i] = u[i] /\ t[k] = u[k]
        BY <4>1
      <4>4. Forms(t, i, k, Reads(t, i + 1, k - 1)) = Forms(u, i, k, Reads(u, i + 1, k - 1))
        BY <4>2, <4>3, Zenon DEF Forms
      <4> QED
        BY <4>2, <4>4 DEF FormAt
    <3>2. StartsWith(t, i, j, x) <=> StartsWith(u, i, j, x)
      BY <3>1, Zenon DEF StartsWith
    <3>3. /\ x \in Reads(t, i, j) <=> StartsWith(t, i, j, x)
          /\ x \in Reads(u, i, j) <=> StartsWith(u, i, j, x)
      BY <1>1, <2>1, <2>3, ReadsBegin
    <3> QED
      BY <3>2, <3>3
  <2> QED
    BY <2>2, <2>3
<1>3. Bad = {}
  <2> SUFFICES ASSUME Bad # {} PROVE FALSE
    OBVIOUS
  <2> HIDE DEF Bad
  <2>1. PICK g \in Bad : \A i \in Bad : i <= g
    BY <1>1, GreatestNumber
  <2> HIDE DEF Same
  <2>2. g \in 1..n + 1 /\ ~ Same(g)
    BY <2>1 DEF Bad
  <2>3. ASSUME NEW k \in g + 1..n + 1 PROVE Same(k)
    <3>1. k \in 1..n + 1 /\ k \notin Bad
      BY <2>1, <2>2
    <3> QED
      BY <3>1 DEF Bad
  <2> QED
    BY <1>2, <2>2, <2>3
<1> QED
  BY <1>1, <1>3

LEMMA RunsOfPrefix ==
    ASSUME NEW t \in Seq(Brackets \cup Atoms), NEW u \in Seq(Brackets \cup Atoms), NEW n \in Nat,
           n <= Len(t), n <= Len(u), \A i \in 1..n : t[i] = u[i],
           NEW F, NEW fs \in Seq(Activations(F)), RunsOf(t, fs, n),
           \A d \in 1..Len(fs) : EndOf(fs, d, n) <= n
    PROVE  RunsOf(u, fs, n)
<1> SUFFICES ASSUME NEW d \in 1..Len(fs)
             PROVE  /\ EndOf(fs, d, n) \in 0..Len(u)
                    /\ fs[d].open \in 0..EndOf(fs, d, n)
                    /\ fs[d].kind = "top" => fs[d].open = 0
                    /\ fs[d].items \in Reads(u, fs[d].open + 1, EndOf(fs, d, n))
  BY DEF RunsOf
<1> DEFINE e == EndOf(fs, d, n)
           o == fs[d].open
<1>1. /\ e \in 0..Len(t) /\ e <= n /\ o \in 0..e
      /\ fs[d].kind = "top" => o = 0
      /\ fs[d].items \in Reads(t, o + 1, e)
  BY DEF RunsOf
<1> HIDE DEF e, o
<1>2. Len(t) \in Nat /\ Len(u) \in Nat
  OBVIOUS
<1>3. e \in 0..n /\ o + 1 \in 1..n + 1 /\ e \in 0..Len(u)
  BY <1>1, <1>2
<1>4. fs[d].items \in Reads(u, o + 1, e)
  <2>1. \A i \in 1..n + 1, j \in 0..n : Reads(t, i, j) = Reads(u, i, j)
    BY PrefixReads
  <2>2. PICK k : k = o + 1
    OBVIOUS
  <2>3. Reads(t, k, e) = Reads(u, k, e)
    BY <1>3, <2>1, <2>2
  <2> QED
    BY <1>1, <2>2, <2>3
<1> QED
  BY <1>1, <1>3, <1>4 DEF e, o

(* What the readings have when an activation takes a form, begins or ends. *)
LEMMA RunsOfTake ==
    ASSUME NEW t \in Seq(Brackets \cup Atoms), NEW F, NEW fs \in Seq(Activations(F)), fs # <<>>,
           NEW last \in 0..Len(t), RunsOf(t, fs, last),
           NEW m \in last + 1..Len(t), NEW form \in FormAt(t, last + 1, m)
    PROVE  RunsOf(t, Take(fs, form), m)
<1> DEFINE L == Len(fs)
           new == Take(fs, form)
<1>1. L \in Nat \ {0} /\ Len(t) \in Nat
  BY TopAndOuter
<1>2. /\ Len(new) = L
      /\ \A d \in 1..L : new[d].kind = fs[d].kind /\ new[d].open = fs[d].open
      /\ \A d \in 1..L - 1 : new[d] = fs[d]
      /\ new[L].items = Append(fs[L].items, form)
  <2> HIDE DEF new
  <2>1. /\ Take(fs, form) \in Seq(Activations(F \cup {form}))
        /\ Len(Take(fs, form)) = Len(fs)
        /\ \A d \in 1..Len(fs) : /\ Take(fs, form)[d].kind = fs[d].kind
                                 /\ Take(fs, form)[d].open = fs[d].open
        /\ \A d \in 1..Len(fs) - 1 : Take(fs, form)[d] = fs[d]
        /\ Take(fs, form)[Len(fs)].items = Append(fs[Len(fs)].items, form)
        /\ Len(Take(fs, form)[Len(fs)].items) = Len(fs[Len(fs)].items) + 1
    BY TakeKeeps, Zenon
  <2> QED
    BY <2>1, Zenon DEF new
<1> HIDE DEF new
<1>3. ASSUME NEW d \in 1..L
      PROVE  /\ EndOf(new, d, m) \in 0..Len(t)
             /\ new[d].open \in 0..EndOf(new, d, m)
             /\ new[d].kind = "top" => new[d].open = 0
             /\ new[d].items \in Reads(t, new[d].open + 1, EndOf(new, d, m))
  <2>1. CASE d = L
    <3>1. EndOf(new, d, m) = m /\ EndOf(fs, d, last) = last
      BY <1>2, <2>1 DEF EndOf
    <3>2. /\ fs[d].open \in 0..last
          /\ fs[d].kind = "top" => fs[d].open = 0
          /\ fs[d].items \in Reads(t, fs[d].open + 1, last)
      BY <3>1 DEF RunsOf
    <3>3. /\ fs[d].open + 1 \in 1..Len(t) + 1 /\ fs[d].open + 1 <= Len(t)
          /\ last + 1 \in fs[d].open + 1..Len(t) /\ last + 1 - 1 = last
      BY <1>1, <3>2
    <3>4. Append(fs[d].items, form) \in Reads(t, fs[d].open + 1, m)
      <4>1. Extends(t, fs[d].open + 1)
        BY <3>3, FormsAppend
      <4> QED
        BY <3>2, <3>3, <4>1 DEF Extends
    <3>5. m \in 0..Len(t) /\ fs[d].open \in 0..m
      BY <3>2
    <3> QED
      BY <1>2, <2>1, <3>1, <3>2, <3>4, <3>5
  <2>2. CASE d # L
    <3>1. d \in 1..L - 1 /\ d + 1 \in 1..L
      BY <1>1, <2>2
    <3>2. EndOf(new, d, m) = EndOf(fs, d, last)
      BY <1>2, <2>2, <3>1 DEF EndOf
    <3> QED
      BY <1>2, <3>1, <3>2 DEF RunsOf
  <2> QED
    BY <2>1, <2>2
<1> QED
  BY <1>2, <1>3 DEF RunsOf, new

LEMMA RunsOfOpen ==
    ASSUME NEW t \in Seq(Brackets \cup Atoms), NEW F, NEW fs \in Seq(Activations(F)),
           NEW last \in 0..Len(t), RunsOf(t, fs, last), last < Len(t),
           NEW a \in Activations(F), a.kind # "top", a.open = last + 1, a.items = <<>>
    PROVE  RunsOf(t, Append(fs, a), last + 1)
<1> DEFINE L == Len(fs)
           A == Activations(F)
           new == Append(fs, a)
<1>1. fs \in Seq(A) /\ a \in A /\ Len(t) \in Nat
  OBVIOUS
<1> HIDE DEF A
<1>2. L \in Nat /\ Len(new) = L + 1 /\ new[L + 1] = a /\ \A d \in 1..L : new[d] = fs[d]
  BY <1>1
<1> HIDE DEF new
<1>3. ASSUME NEW d \in 1..L + 1
      PROVE  /\ EndOf(new, d, last + 1) \in 0..Len(t)
             /\ new[d].open \in 0..EndOf(new, d, last + 1)
             /\ new[d].kind = "top" => new[d].open = 0
             /\ new[d].items \in Reads(t, new[d].open + 1, EndOf(new, d, last + 1))
  <2>1. CASE d = L + 1
    <3>1. EndOf(new, d, last + 1) = last + 1 /\ new[d] = a
      BY <1>2, <2>1 DEF EndOf
    <3>2. <<>> \in Reads(t, last + 1 + 1, last + 1)
      <4>1. last + 1 + 1 \in 1..Len(t) + 1 /\ last + 1 \in 0..Len(t) /\ last + 1 + 1 > last + 1
        BY <1>1
      <4> QED
        BY <1>1, <4>1, ReadsBegin
    <3> QED
      BY <1>1, <3>1, <3>2
  <2>2. CASE d # L + 1
    <3>1. d \in 1..L /\ new[d] = fs[d]
      BY <1>2, <2>2
    <3>2. EndOf(new, d, last + 1) = EndOf(fs, d, last)
      <4>1. CASE d = L
        BY <1>2, <4>1 DEF EndOf
      <4>2. CASE d # L
        <5>1. d + 1 \in 1..L
          BY <1>2, <3>1, <4>2
        <5> QED
          BY <1>2, <2>2, <4>2, <5>1 DEF EndOf
      <4> QED
        BY <4>1, <4>2
    <3> QED
      BY <3>1, <3>2 DEF RunsOf
  <2> QED
    BY <2>1, <2>2
<1> QED
  BY <1>2, <1>3 DEF RunsOf, new

LEMMA RunsOfOuter ==
    ASSUME NEW t, NEW F, NEW fs \in Seq(Activations(F)), fs # <<>>, NEW last, RunsOf(t, fs, last)
    PROVE  RunsOf(t, SubSeq(fs, 1, Len(fs) - 1), fs[Len(fs)].open - 1)
<1> DEFINE L == Len(fs)
           new == SubSeq(fs, 1, L - 1)
<1>1. L \in Nat \ {0} /\ Len(new) = L - 1 /\ \A d \in 1..L - 1 : new[d] = fs[d]
  BY TopAndOuter
<1> HIDE DEF new
<1>2. ASSUME NEW d \in 1..L - 1
      PROVE  d \in 1..L /\ new[d] = fs[d] /\ EndOf(new, d, fs[L].open - 1) = EndOf(fs, d, last)
  <2>1. d \in 1..L /\ d # L
    BY <1>1
  <2>2. CASE d = L - 1
    <3>1. d + 1 = L
      BY <1>1, <2>2
    <3> QED
      BY <1>1, <2>1, <2>2, <3>1 DEF EndOf
  <2>3. CASE d # L - 1
    <3>1. d + 1 \in 1..L - 1
      BY <1>1, <2>3
    <3> QED
      BY <1>1, <2>1, <2>3, <3>1 DEF EndOf
  <2> QED
    BY <2>2, <2>3
<1> QED
  BY <1>1, <1>2 DEF RunsOf, new

(* A bracket whose forms lead to a place where no form starts and that     *)
(* does not close it starts no form.                                       *)
LEMMA NoFormAbove ==
    ASSUME NEW t \in Seq(Brackets \cup Atoms), NEW o \in 1..Len(t), t[o] \in {Paren, Brace},
           NEW bad \in o + 1..Len(t) + 1, NEW r \in Reads(t, o + 1, bad - 1),
           bad <= Len(t) => /\ NoForm(t, bad)
                            /\ t[o] = Paren => t[bad] # ParenEnd
                            /\ t[o] = Brace /\ t[bad] = BraceEnd => Len(r) % 2 # 0
    PROVE  NoForm(t, o)
<1> SUFFICES ASSUME NEW k \in o..Len(t), FormAt(t, o, k) # {} PROVE FALSE
  BY DEF NoForm
<1>1. Len(t) \in Nat /\ Brackets \cap Atoms = {}
  BY TextsAssumption
<1>2. t[o] \notin Atoms
  BY <1>1, Zenon DEF Brackets, Paren, Brace
<1>3. /\ o < k /\ NoForm(t, k)
      /\ (t[o] = Paren /\ t[k] = ParenEnd) \/ (t[o] = Brace /\ t[k] = BraceEnd)
      /\ \E s \in Reads(t, o + 1, k - 1) : t[o] = Brace => Len(s) % 2 = 0
  BY <1>2, LongForms
<1>4. o + 1 <= Len(t) /\ Plain(t, o + 1)
  <2>1. o + 1 \in 1..Len(t) + 1 /\ o + 1 <= Len(t)
    BY <1>1, <1>3
  <2> QED
    BY <2>1, NoAmbiguity
<1>5. CASE k < bad
  <2>1. k \in o + 1..Len(t) /\ bad - 1 \in k..Len(t)
    BY <1>1, <1>3, <1>5
  <2> QED
    BY <1>3, <1>4, <2>1 DEF Plain, NothingPast
<1>6. CASE k > bad
  <2>1. bad \in o + 1..Len(t) /\ k - 1 \in bad..Len(t)
    BY <1>1, <1>6
  <2> QED
    BY <1>3, <1>4, <2>1 DEF Plain, NothingPast
<1>7. CASE k = bad
  <2>1. bad <= Len(t) /\ bad - 1 \in 0..Len(t)
    BY <1>7
  <2>2. t[o] = Brace /\ t[bad] = BraceEnd /\ \E s \in Reads(t, o + 1, bad - 1) : Len(s) % 2 = 0
    BY <1>3, <1>7, <2>1
  <2> QED
    BY <1>4, <2>1, <2>2 DEF Plain, OneReading
<1> QED
  BY <1>5, <1>6, <1>7

(* What a step of the parser may rely on.                                  *)
LEMMA Reading ==
    ASSUME ParseInv, stage = "parse"
    PROVE  /\ text \in Seq(Brackets \cup Atoms) /\ Len(text) \in Nat /\ pos \in 0..Len(text)
           /\ \E F : /\ frames \in Seq(Activations(F)) /\ frames # <<>>
                    /\ Len(frames) \in Nat \ {0} /\ Top \in Activations(F)
           /\ ~ AtEnd => /\ pos + 1 \in 1..Len(text) /\ pos < Len(text) /\ Token = text[pos + 1]
                         /\ Token \in Atoms \/ Token \in {Paren, Brace, ParenEnd, BraceEnd}
           /\ AtEnd => pos = Len(text)
<1>1. text \in Seq(Brackets \cup Atoms) /\ Len(text) \in Nat /\ pos \in 0..Len(text)
  <2>1. text \in Seq(Brackets \cup Atoms) /\ pos \in 0..Len(text)
    BY DEF ParseInv, TypeOK
  <2> QED
    BY <2>1
<1>2. PICK F : frames \in Seq(Activations(F))
  BY DEF ParseInv, Stacked
<1>3. frames # <<>>
  BY DEF ParseInv, TypeOK
<1>4. Len(frames) \in Nat \ {0} /\ Top \in Activations(F)
  BY <1>2, <1>3, TopAndOuter DEF Top
<1>5. ASSUME ~ AtEnd
      PROVE  /\ pos + 1 \in 1..Len(text) /\ pos < Len(text) /\ Token = text[pos + 1]
             /\ Token \in Atoms \/ Token \in {Paren, Brace, ParenEnd, BraceEnd}
  <2>1. pos + 1 \in 1..Len(text) /\ pos < Len(text) /\ Token = text[pos + 1]
    BY <1>1, <1>5 DEF AtEnd, Token
  <2>2. Len(text) \in pos + 1..Len(text)
    BY <1>1, <2>1
  <2> QED
    BY <1>1, <2>1, <2>2, FormsBegin
<1>6. AtEnd => pos = Len(text)
  BY <1>1 DEF AtEnd
<1> QED
  BY <1>1, <1>2, <1>3, <1>4, <1>5, <1>6

(* The innermost activation's part of RunsOf.                              *)
LEMMA TopRuns ==
    ASSUME ParseInv, stage = "parse", NEW t, NEW last, RunsOf(t, frames, last)
    PROVE  /\ last \in 0..Len(t) /\ Top.open \in 0..last
           /\ In("top") => Top.open = 0
           /\ Top.items \in Reads(t, Top.open + 1, last)
<1>1. Len(frames) \in 1..Len(frames)
  BY Reading
<1>2. EndOf(frames, Len(frames), last) = last
  BY DEF EndOf
<1> QED
  BY <1>1, <1>2 DEF RunsOf, Top, In

LEMMA ReadAtomReads ==
    ASSUME ReadInv, ReadAtom
    PROVE  ReadInv'
<1>1. /\ stage = "parse" /\ error = NoError /\ ~ AtEnd /\ Token \in Atoms /\ pos' = pos + 1
      /\ frames' = Take(frames, Atom(Token)) /\ UNCHANGED <<stage, text, error, answer>>
  <2>1. pos \in 0..Len(text) /\ text \in Seq(Brackets \cup Atoms)
    BY DEF ReadInv, ParseInv, TypeOK
  <2>2. ~ AtEnd => Token \in Brackets \cup Atoms
    BY <2>1 DEF AtEnd, Token
  <2> QED
    BY <2>2 DEF ReadAtom, Turn
<1>2. ParseInv'
  BY ReadKeeps DEF ReadInv
<1>3. RunsOf(text, frames, pos) /\ ParseInv
  BY <1>1 DEF ReadInv
<1>4. /\ text \in Seq(Brackets \cup Atoms) /\ Len(text) \in Nat /\ pos \in 0..Len(text)
      /\ pos + 1 \in 1..Len(text) /\ Token = text[pos + 1]
  BY <1>1, <1>3, Reading
<1>5. PICK F : frames \in Seq(Activations(F)) /\ frames # <<>>
  BY <1>1, <1>3, Reading
<1>6. pos + 1 \in pos + 1..Len(text) /\ Atom(Token) \in FormAt(text, pos + 1, pos + 1)
  BY <1>1, <1>4, FormsBegin
<1>7. RunsOf(text, Take(frames, Atom(Token)), pos + 1)
  BY <1>3, <1>4, <1>5, <1>6, RunsOfTake
<1> QED
  BY <1>1, <1>2, <1>7 DEF ReadInv

LEMMA OpenReads ==
    ASSUME ReadInv, OpenList \/ OpenMap
    PROVE  ReadInv'
<1>1. PICK kind \in {"list", "map"} :
          /\ stage = "parse" /\ error = NoError /\ ~ AtEnd /\ pos' = pos + 1
          /\ frames' = Append(frames, [kind |-> kind, open |-> pos + 1, items |-> <<>>])
          /\ UNCHANGED <<stage, text, error, answer>>
  BY DEF OpenList, OpenMap, Open, Sees, Turn
<1> DEFINE a == [kind |-> kind, open |-> pos + 1, items |-> <<>>]
<1>2. ParseInv'
  BY OpenKeeps DEF ReadInv
<1>3. RunsOf(text, frames, pos) /\ ParseInv
  BY <1>1 DEF ReadInv
<1>4. text \in Seq(Brackets \cup Atoms) /\ pos \in 0..Len(text) /\ pos < Len(text)
  BY <1>1, <1>3, Reading
<1>5. PICK F : frames \in Seq(Activations(F))
  BY <1>1, <1>3, Reading
<1>6. a \in Activations(F) /\ a.kind # "top" /\ a.open = pos + 1 /\ a.items = <<>>
  BY <1>4 DEF Activations
<1> HIDE DEF a
<1>7. RunsOf(text, Append(frames, a), pos + 1)
  BY <1>3, <1>4, <1>5, <1>6, RunsOfOpen
<1>8. RunsOf(text', frames', pos')
  BY <1>1, <1>7 DEF a
<1> QED
  BY <1>1, <1>2, <1>8 DEF ReadInv

LEMMA CloseReads ==
    ASSUME ReadInv, CloseList \/ CloseMap
    PROVE  ReadInv'
<1>1. /\ stage = "parse" /\ error = NoError /\ ~ AtEnd /\ (In("list") \/ In("map"))
      /\ \E form : Close(form)
  BY DEF CloseList, CloseMap, Sees, Turn
<1>2. ParseInv'
  BY CloseKeeps DEF ReadInv, CloseList, CloseMap, Sees
<1>3. RunsOf(text, frames, pos) /\ ParseInv
  BY <1>1 DEF ReadInv
<1>4. /\ text \in Seq(Brackets \cup Atoms) /\ Len(text) \in Nat /\ pos \in 0..Len(text)
      /\ pos + 1 \in 1..Len(text) /\ Token = text[pos + 1]
  BY <1>1, <1>3, Reading
<1>5. PICK F : frames \in Seq(Activations(F)) /\ frames # <<>> /\ Top \in Activations(F)
               /\ Len(frames) \in Nat \ {0}
  BY <1>1, <1>3, Reading
<1>6. /\ Outer \in Seq(Activations(F)) /\ Outer # <<>> /\ Top.open \in 1..pos
  BY <1>1, <1>3, <1>5, InnerEnds
<1>7. /\ Top.items \in Reads(text, Top.open + 1, pos)
  BY <1>1, <1>3, TopRuns
<1> DEFINE o == Top.open
           k == pos + 1
<1>8. PICK form \in FormAt(text, o, k) : Close(form)
  <2>1. /\ In("list") => text[o] = Paren
        /\ In("map") => text[o] = Brace
    <3>1. Len(frames) \in DOMAIN frames
      BY <1>5
    <3> QED
      BY <1>3, <3>1, Within DEF Nested, In, Top
  <2>2. o \in 1..Len(text) /\ k \in o..Len(text) /\ o # k /\ k - 1 = pos
        /\ Token = text[k] /\ Top.items \in Reads(text, o + 1, k - 1)
    <3>1. k - 1 = pos
      BY <1>4
    <3> QED
      BY <1>4, <1>6, <1>7, <3>1
  <2> HIDE DEF o, k
  <2>3. CASE CloseList
    <3>1. In("list") /\ Token = ParenEnd /\ Close(ListOf(Top.items))
      BY <2>3, Zenon DEF CloseList, Sees, ParenEnd
    <3>2. ListOf(Top.items) \in FormAt(text, o, k)
      <4>1. FormAt(text, o, k) = {ListOf(s) : s \in Reads(text, o + 1, k - 1)}
        BY <1>4, <2>1, <2>2, <3>1, FormsBegin
      <4> QED
        BY <2>2, <4>1, Zenon
    <3> QED
      BY <3>1, <3>2
  <2>4. CASE CloseMap
    <3>1. In("map") /\ ~ KeyPending /\ Token = BraceEnd /\ Close(MapOf(Top.items))
      BY <2>4, Zenon DEF CloseMap, Sees, BraceEnd
    <3>2. Len(Top.items) % 2 = 0
      <4>1. Len(Top.items) \in Nat
        BY <1>5 DEF Activations
      <4>2. Len(Top.items) % 2 # 1
        BY <3>1 DEF KeyPending
      <4>3. \A n \in Nat : n % 2 = 0 \/ n % 2 = 1
        OBVIOUS
      <4> QED
        BY <4>1, <4>2, <4>3, Zenon
    <3>3. MapOf(Top.items) \in FormAt(text, o, k)
      <4>1. FormAt(text, o, k) =
               {MapOf(s) : s \in {r \in Reads(text, o + 1, k - 1) : Len(r) % 2 = 0}}
        BY <1>4, <2>1, <2>2, <3>1, FormsBegin
      <4>3. Top.items \in {r \in Reads(text, o + 1, k - 1) : Len(r) % 2 = 0}
        BY <2>2, <3>2, Zenon
      <4> QED
        BY <4>1, <4>3, Zenon
    <3> QED
      BY <3>1, <3>3
  <2> QED
    BY <2>3, <2>4
<1>9. frames' = Take(Outer, form) /\ pos' = pos + 1 /\ UNCHANGED <<stage, text, error, answer>>
  BY <1>8 DEF Close
<1>10. RunsOf(text, Outer, Top.open - 1)
  BY <1>3, <1>5, RunsOfOuter DEF Outer, Top
<1>11. RunsOf(text, Take(Outer, form), pos + 1)
  <2> DEFINE fs == Outer
  <2>1. /\ fs \in Seq(Activations(F)) /\ fs # <<>> /\ RunsOf(text, fs, o - 1)
        /\ o - 1 \in 0..Len(text) /\ pos + 1 \in (o - 1) + 1..Len(text) /\ form \in FormAt(text, (o - 1) + 1, pos + 1)
    <3>1. (o - 1) + 1 = o
      BY <1>6
    <3> QED
      BY <1>4, <1>6, <1>8, <1>10, <3>1
  <2> HIDE DEF fs, o
  <2>2. RunsOf(text, Take(fs, form), pos + 1)
    BY <1>4, <2>1, RunsOfTake
  <2> QED
    BY <2>2 DEF fs
<1> QED
  BY <1>1, <1>2, <1>9, <1>11 DEF ReadInv

(* An activation that ends with an error, of its own or of one it called,  *)
(* leaves the error stuck at its bracket.                                  *)
LEMMA StuckAbove ==
    ASSUME ParseInv, stage = "parse", In("list") \/ In("map"),
           NEW t \in Seq(Brackets \cup Atoms), NEW bad \in 1..Len(t) + 1,
           Agrees(t, bad - 1), RunsOf(t, frames, bad - 1),
           bad <= Len(t) => /\ NoForm(t, bad)
                            /\ In("list") => t[bad] # ParenEnd
                            /\ In("map") /\ t[bad] = BraceEnd => Len(Top.items) % 2 # 0,
           frames' = Outer, text' = text
    PROVE  \E b : Stuck(t, b)'
<1>1. text \in Seq(Brackets \cup Atoms) /\ Len(text) \in Nat /\ Len(t) \in Nat
  BY Reading
<1>2. PICK F : frames \in Seq(Activations(F)) /\ frames # <<>> /\ Len(frames) \in Nat \ {0}
  BY Reading
<1>3. PICK o \in 1..pos : o = Top.open
  BY <1>2, InnerEnds
<1>4. /\ o \in 1..Len(t) /\ o \in 0..bad - 1 /\ Top.items \in Reads(t, o + 1, bad - 1)
      /\ Agrees(t, o) /\ t[o] = text[o]
  <2>1. bad - 1 \in 0..Len(t) /\ o \in 0..bad - 1 /\ Top.items \in Reads(t, o + 1, bad - 1)
    BY <1>1, <1>2, <1>3, TopRuns
  <2>2. o \in 1..bad - 1
    BY <1>3, <2>1
  <2> QED
    BY <1>1, <2>1, <2>2 DEF Agrees
<1>5. /\ In("list") => t[o] = Paren
      /\ In("map") => t[o] = Brace
  <2>1. Len(frames) \in DOMAIN frames
    BY <1>2
  <2> QED
    BY <1>3, <1>4, <2>1, Within DEF Nested, In, Top
<1>6. Paren # Brace /\ Paren # ParenEnd /\ Paren # BraceEnd /\ Brace # ParenEnd /\ Brace # BraceEnd
  BY BracketsDiffer
<1>7. NoForm(t, o)
  <2>1. bad \in o + 1..Len(t) + 1
    BY <1>1, <1>4
  <2>2. bad <= Len(t) => /\ NoForm(t, bad)
                         /\ t[o] = Paren => t[bad] # ParenEnd
                         /\ t[o] = Brace /\ t[bad] = BraceEnd => Len(Top.items) % 2 # 0
    BY <1>5, <1>6
  <2>3. t[o] \in {Paren, Brace}
    BY <1>5
  <2> QED
    BY <1>4, <2>1, <2>2, <2>3, NoFormAbove
<1>8. RunsOf(t, frames', o - 1)
  BY <1>2, <1>3, RunsOfOuter DEF Outer, Top
<1>9. t[o] # ParenEnd /\ t[o] # BraceEnd
  BY <1>5, <1>6
<1>10. Agrees(t, o)'
  BY <1>4 DEF Agrees
<1> QED
  BY <1>3, <1>7, <1>8, <1>9, <1>10 DEF Stuck

(* What has been read of the text has been read of every rival.            *)
LEMMA RivalsAgree ==
    ASSUME ParseInv, stage = "parse", RunsOf(text, frames, pos),
           NEW t \in Seq(Brackets \cup Atoms), Agrees(t, pos)
    PROVE  RunsOf(t, frames, pos)
<1>1. /\ text \in Seq(Brackets \cup Atoms) /\ pos \in Nat /\ pos <= Len(text) /\ pos <= Len(t)
      /\ \A i \in 1..pos : text[i] = t[i]
  <2>1. text \in Seq(Brackets \cup Atoms) /\ Len(text) \in Nat /\ Len(t) \in Nat
    BY Reading
  <2> QED
    BY <2>1 DEF Agrees
<1>2. PICK F : frames \in Seq(Activations(F)) /\ Len(frames) \in Nat \ {0}
  BY Reading
<1>3. ASSUME NEW d \in 1..Len(frames) PROVE EndOf(frames, d, pos) <= pos
  <2>1. CASE d = Len(frames)
    BY <1>1, <2>1 DEF EndOf
  <2>2. CASE d # Len(frames)
    <3>1. d + 1 \in DOMAIN frames /\ d + 1 # 1
      BY <1>2, <2>2
    <3>2. frames[d + 1].open \in 1..pos
      BY <3>1, Within DEF Nested
    <3> QED
      BY <1>1, <2>2, <3>2 DEF EndOf
  <2> QED
    BY <2>1, <2>2
<1> QED
  BY <1>1, <1>2, <1>3, RunsOfPrefix

LEMMA AbandonReads ==
    ASSUME ReadInv, EndInList \/ EndInMap \/ BraceInList \/ ParenInMap \/ OddMap
    PROVE  ReadInv'
<1>1. /\ stage = "parse" /\ error = NoError /\ (In("list") \/ In("map"))
      /\ error' # NoError /\ frames' = Outer /\ UNCHANGED <<stage, text, pos>>
  <2>1. \E at, says : says # "" /\ Abandon(at, says)
    BY DEF EndInList, EndInMap, BraceInList, ParenInMap, OddMap
  <2>2. PICK at, says : says # "" /\ Abandon(at, says)
    BY <2>1
  <2>3. error'.says # "" /\ NoError.says = ""
    BY <2>2 DEF Abandon, NoError
  <2> QED
    BY <2>2, <2>3 DEF EndInList, EndInMap, BraceInList, ParenInMap, OddMap, KeyPending, Sees, Turn, Abandon
<1>2. ParseInv'
  BY AbandonKeeps DEF ReadInv
<1>3. RunsOf(text, frames, pos) /\ ParseInv
  BY <1>1 DEF ReadInv
<1>4. text \in Seq(Brackets \cup Atoms) /\ Len(text) \in Nat /\ pos \in 0..Len(text)
  BY <1>1, <1>3, Reading
<1>5. /\ pos + 1 \in 1..Len(text) + 1 /\ pos + 1 - 1 = pos
      /\ AtEnd => ~ (pos + 1 <= Len(text))
      /\ ~ AtEnd => pos + 1 \in 1..Len(text) /\ Token = text[pos + 1]
  BY <1>1, <1>3, <1>4, Reading
<1>6. /\ Paren # Brace /\ ParenEnd # BraceEnd
  BY BracketsDiffer
<1>7. AtEnd \/ /\ Token \in {ParenEnd, BraceEnd}
               /\ In("list") => Token # ParenEnd
               /\ In("map") /\ Token = BraceEnd => Len(Top.items) % 2 # 0
  <2>1. EndInList \/ EndInMap => AtEnd
    BY DEF EndInList, EndInMap
  <2>2. BraceInList => Token = BraceEnd /\ In("list")
    BY Zenon DEF BraceInList, Sees, BraceEnd
  <2>3. ParenInMap => Token = ParenEnd /\ In("map")
    BY Zenon DEF ParenInMap, Sees, ParenEnd
  <2>4. OddMap => (AtEnd \/ Token = BraceEnd) /\ KeyPending
    BY Zenon DEF OddMap, BraceEnd
  <2>5. KeyPending => In("map") /\ Len(Top.items) % 2 = 1
    BY DEF KeyPending
  <2>6. ~ (In("list") /\ In("map"))
    BY DEF In
  <2>7. \A n : n = 1 => n # 0
    OBVIOUS
  <2>8. CASE EndInList \/ EndInMap
    BY <2>1, <2>8
  <2>9. CASE BraceInList
    BY <1>6, <2>2, <2>6, <2>9, Zenon
  <2>10. CASE ParenInMap
    BY <1>6, <2>3, <2>6, <2>10, Zenon
  <2>11. CASE OddMap
    BY <1>6, <2>4, <2>5, <2>6, <2>7, <2>11, Zenon
  <2> QED
    BY <2>8, <2>9, <2>10, <2>11
<1>8. error'.says \in Unexpected => ~ AtEnd /\ error'.at = pos + 1
  <2>1. ASSUME NEW at, NEW says, Abandon(at, says) PROVE error'.at = at /\ error'.says = says
    BY <2>1 DEF Abandon
  <2>2. EndInList => error'.says = "unmatched '('"
    BY <2>1, Zenon DEF EndInList
  <2>3. EndInMap => error'.says = "unmatched '{'"
    BY <2>1, Zenon DEF EndInMap
  <2>4. OddMap => error'.says = "odd number of forms in map literal"
    BY <2>1, Zenon DEF OddMap
  <2>5. BraceInList \/ ParenInMap => error'.at = pos + 1 /\ ~ AtEnd
    BY <2>1, Zenon DEF BraceInList, ParenInMap, Sees
  <2>6. "unmatched '('" \notin Unexpected
    BY Zenon DEF Unexpected
  <2>7. "unmatched '{'" \notin Unexpected
    BY Zenon DEF Unexpected
  <2>8. "odd number of forms in map literal" \notin Unexpected
    BY Zenon DEF Unexpected
  <2> QED
    BY <2>2, <2>3, <2>4, <2>5, <2>6, <2>7, <2>8, Zenon
<1>9. ASSUME NEW t \in Rivals' PROVE \E b : Stuck(t, b)'
  <2>1. t \in Seq(Brackets \cup Atoms) /\ Len(t) \in Nat
    BY DEF Rivals
  <2>2. (t = text) \/ (~ AtEnd /\ Agrees(t, pos + 1))
    <3>1. t = text \/ (error'.says \in Unexpected /\ Agrees(t, error'.at))
      BY <1>1 DEF Rivals, Agrees
    <3> QED
      BY <1>8, <3>1, Zenon
  <2>3. Agrees(t, pos) /\ (Agrees(t, pos + 1) => pos + 1 <= Len(t) /\ t[pos + 1] = text[pos + 1])
    BY <1>4, <2>1, <2>2 DEF Agrees
  <2>4. RunsOf(t, frames, pos)
    BY <1>1, <1>3, <2>1, <2>3, RivalsAgree
  <2>5. PICK bad \in 1..Len(t) + 1 : bad = pos + 1
    BY <1>4, <2>1, <2>3 DEF Agrees
  <2>6. bad - 1 = pos
    BY <1>4, <2>5
  <2>7. bad <= Len(t) => /\ NoForm(t, bad)
                         /\ In("list") => t[bad] # ParenEnd
                         /\ In("map") /\ t[bad] = BraceEnd => Len(Top.items) % 2 # 0
    <3> SUFFICES ASSUME bad <= Len(t)
                 PROVE  /\ NoForm(t, bad)
                        /\ In("list") => t[bad] # ParenEnd
                        /\ In("map") /\ t[bad] = BraceEnd => Len(Top.items) % 2 # 0
      OBVIOUS
    <3>1. ~ AtEnd
      BY <1>5, <2>2, <2>5
    <3>2. bad \in 1..Len(t) /\ Token = t[bad]
      BY <1>5, <2>2, <2>3, <2>5, <3>1
    <3>3. NoForm(t, bad)
      BY <1>7, <2>1, <3>1, <3>2, FormsBegin DEF NoForm
    <3> QED
      BY <1>7, <3>1, <3>2, <3>3
  <2> QED
    BY <1>1, <1>3, <2>1, <2>3, <2>4, <2>6, <2>7, StuckAbove
<1> QED
  BY <1>1, <1>2, <1>9 DEF ReadInv

LEMMA StrayReads ==
    ASSUME ReadInv, Stray
    PROVE  ReadInv'
<1>1. /\ stage = "parse" /\ error = NoError /\ ~ AtEnd /\ error' # NoError
      /\ error'.at = pos + 1 /\ UNCHANGED <<stage, text, frames>>
  <2>1. error'.says = "unexpected" /\ NoError.says = "" /\ error'.at = pos + 1
    BY DEF Stray, NoError
  <2> QED
    BY <2>1 DEF Stray, Turn
<1>2. ParseInv'
  BY StrayKeeps DEF ReadInv
<1>3. RunsOf(text, frames, pos) /\ ParseInv
  BY <1>1 DEF ReadInv
<1>4. /\ text \in Seq(Brackets \cup Atoms) /\ Len(text) \in Nat /\ pos \in 0..Len(text)
      /\ pos + 1 \in 1..Len(text) /\ Token = text[pos + 1] /\ pos + 1 - 1 = pos
  BY <1>1, <1>3, Reading
<1>5. ParenEnd # BraceEnd
  BY BracketsDiffer
<1>6. /\ Token \in {ParenEnd, BraceEnd}
      /\ ~ In("list")
      /\ In("map") => Token = ParenEnd
  <2>1. (In("top") /\ Token \in {ParenEnd, BraceEnd}) \/ (KeyPending /\ Token = ParenEnd)
    BY Zenon DEF Stray, ParenEnd, BraceEnd
  <2> QED
    BY <2>1 DEF KeyPending, In
<1>7. ASSUME NEW t \in Rivals' PROVE \E b : Stuck(t, b)'
  <2>1. t \in Seq(Brackets \cup Atoms) /\ Len(t) \in Nat
    BY DEF Rivals
  <2>2. Agrees(t, pos + 1)
    BY <1>1, <1>4 DEF Rivals, Agrees
  <2>3. Agrees(t, pos) /\ pos + 1 \in 1..Len(t) /\ t[pos + 1] = Token
    BY <1>4, <2>1, <2>2 DEF Agrees
  <2>4. RunsOf(t, frames, pos)
    BY <1>1, <1>3, <2>1, <2>3, RivalsAgree
  <2>5. NoForm(t, pos + 1)
    BY <1>6, <2>1, <2>3, FormsBegin DEF NoForm
  <2>6. PICK b : b = pos + 1
    OBVIOUS
  <2>7. b # 0 /\ b - 1 = pos
    BY <1>4, <2>6
  <2>8. Stuck(t, b)
    BY <1>5, <1>6, <2>2, <2>3, <2>4, <2>5, <2>6, <2>7 DEF Stuck
  <2>9. Stuck(t, b)'
    BY <1>1, <2>8 DEF Stuck, Agrees, In, Top
  <2> QED
    BY <2>9
<1> QED
  BY <1>1, <1>2, <1>7 DEF ReadInv

LEMMA PassUpReads ==
    ASSUME ReadInv, PassUp
    PROVE  ReadInv'
<1>1. /\ stage = "parse" /\ error # NoError /\ frames' = Outer
      /\ stage' = IF In("top") THEN "done" ELSE "parse"
      /\ UNCHANGED <<text, pos, error, answer>>
  BY DEF PassUp
<1>2. ParseInv' /\ ParseInv
  BY PassUpKeeps DEF ReadInv
<1>3. ASSUME NEW t \in Rivals'
      PROVE  /\ In("top") => Readings(t) = {}
             /\ ~ In("top") => \E b : Stuck(t, b)'
  <2>1. t \in Seq(Brackets \cup Atoms) /\ Len(t) \in Nat /\ t \in Rivals
    BY <1>1 DEF Rivals, Agrees
  <2>2. PICK bad : Stuck(t, bad)
    BY <1>1, <2>1 DEF ReadInv
  <2>3. /\ bad \in 1..Len(t) /\ NoForm(t, bad) /\ RunsOf(t, frames, bad - 1) /\ Agrees(t, bad)
        /\ (In("list") => t[bad] # ParenEnd) /\ (In("map") => t[bad] # BraceEnd)
    BY <2>1, <2>2 DEF Stuck, Agrees
  <2>4. CASE In("top")
    <3>1. Len(frames) \in 1..Len(frames) /\ EndOf(frames, Len(frames), bad - 1) = bad - 1
      BY <1>1, <1>2, Reading DEF EndOf
    <3>2. Top.items \in Reads(t, Top.open + 1, bad - 1) /\ Top.open = 0
      BY <2>3, <2>4, <3>1 DEF RunsOf, Top, In
    <3>3. Top.items \in Reads(t, 1, bad - 1)
      <4>1. Top.open + 1 = 1
        BY <3>2
      <4> QED
        BY <3>2, <4>1
    <3>4. 1 \in 1..Len(t) + 1 /\ 1 <= Len(t) /\ Len(t) \in bad..Len(t)
      BY <2>1, <2>3
    <3>5. Reads(t, 1, Len(t)) = {}
      BY <2>1, <2>3, <3>3, <3>4, NoAmbiguity DEF Plain, NothingPast
    <3> QED
      BY <2>4, <3>5 DEF Readings
  <2>5. CASE ~ In("top")
    <3>1. In("list") \/ In("map")
      <4>1. PICK F : Top \in Activations(F)
        BY <1>1, <1>2, Reading
      <4> QED
        BY <2>5, <4>1 DEF In, Activations
    <3>2. bad \in 1..Len(t) + 1 /\ Agrees(t, bad - 1)
      BY <2>1, <2>3 DEF Agrees
    <3> QED
      BY <1>1, <1>2, <2>1, <2>3, <2>5, <3>1, <3>2, StuckAbove
  <2> QED
    BY <2>4, <2>5
<1> QED
  BY <1>1, <1>2, <1>3 DEF ReadInv

LEMMA ReturnReads ==
    ASSUME ReadInv, Return
    PROVE  ReadInv'
<1>1. /\ stage = "parse" /\ error = NoError /\ AtEnd /\ In("top") /\ stage' = "done"
      /\ answer' = Top.items /\ UNCHANGED <<text, pos, error>>
  BY DEF Return, Turn
<1>2. ParseInv' /\ ParseInv
  BY ReturnKeeps DEF ReadInv
<1>3. RunsOf(text, frames, pos)
  BY <1>1 DEF ReadInv
<1>4. text \in Seq(Brackets \cup Atoms) /\ Len(text) \in Nat /\ pos = Len(text)
  BY <1>1, <1>2, Reading
<1>5. Top.items \in Reads(text, 1, Len(text))
  <2>1. Top.open + 1 = 1
    BY <1>1, <1>2, <1>3, TopRuns
  <2> QED
    BY <1>1, <1>2, <1>3, <1>4, <2>1, TopRuns
<1>6. \A x, y \in Reads(text, 1, Len(text)) : x = y
  <2>1. 1 \in 1..Len(text) + 1 /\ Len(text) \in 0..Len(text)
    BY <1>4
  <2>2. CASE 1 <= Len(text)
    BY <1>4, <2>1, <2>2, NoAmbiguity DEF Plain, OneReading
  <2>3. CASE ~ (1 <= Len(text))
    <3>1. 1 > Len(text)
      BY <1>4, <2>3
    <3> QED
      BY <1>4, <2>1, <3>1, ReadsBegin
  <2> QED
    BY <2>2, <2>3
<1>7. Readings(text) = {Top.items}
  BY <1>5, <1>6 DEF Readings
<1> QED
  BY <1>1, <1>2, <1>7 DEF ReadInv

LEMMA BeginReads ==
    ASSUME ReadInv, Tokenized \/ TokFails
    PROVE  ReadInv'
<1>1. ParseInv' /\ ParseInv
  BY BeginKeeps DEF ReadInv
<1>2. CASE Tokenized
  <2> DEFINE a == [kind |-> "top", open |-> 0, items |-> <<>>]
  <2>1. stage' = "parse" /\ frames' = <<a>> /\ pos' = 0 /\ error' = NoError
    BY <1>1, <1>2, FirstTokens DEF ParseInv
  <2>2. Len(text') \in Nat
    <3>1. text' \in Seq(Brackets \cup Atoms)
      BY <1>2, FirstTokens
    <3> QED
      BY <3>1
  <2>3. a.kind = "top" /\ a.open = 0 /\ a.items = <<>>
    OBVIOUS
  <2> HIDE DEF a
  <2>4. Len(frames') = 1 /\ frames'[1] = a
    BY <2>1
  <2>5. <<>> \in Reads(text', 1, 0)
    <3>1. 1 \in 1..Len(text') + 1 /\ 0 \in 0..Len(text') /\ 1 > 0
      BY <2>2
    <3> QED
      BY <2>2, <3>1, ReadsBegin
  <2>6. RunsOf(text', frames', 0)
    <3>1. \A d \in 1..1 : d = 1
      OBVIOUS
    <3>2. EndOf(frames', 1, 0) = 0
      BY <2>4 DEF EndOf
    <3>3. 0 \in 0..Len(text') /\ 0 \in 0..0 /\ 0 + 1 = 1
      BY <2>2
    <3> QED
      BY <2>3, <2>4, <2>5, <3>1, <3>2, <3>3 DEF RunsOf
  <2> QED
    BY <1>1, <2>1, <2>6 DEF ReadInv
<1>3. CASE TokFails
  <2>1. stage' = "done" /\ error'.says = "tok" /\ error' # NoError
    BY <1>3 DEF TokFails, NoError
  <2> QED
    BY <1>1, <2>1 DEF ReadInv
<1> QED
  BY <1>2, <1>3

LEMMA ReadInit == Init => ReadInv
<1> SUFFICES ASSUME Init PROVE ReadInv
  OBVIOUS
<1>1. stage = "call"
  BY DEF Init
<1> QED
  BY <1>1, ParseInit DEF ReadInv

LEMMA ReadNext == ReadInv /\ [Next]_vars => ReadInv'
<1> SUFFICES ASSUME ReadInv, [Next]_vars PROVE ReadInv'
  OBVIOUS
<1>1. CASE UNCHANGED vars
  <2>1. ParseInv'
    BY <1>1, ParseNext DEF ReadInv
  <2>2. \A t, b : Stuck(t, b)' <=> Stuck(t, b)
    BY <1>1 DEF vars, Stuck, Agrees, In, Top
  <2>3. Rivals' = Rivals
    BY <1>1 DEF vars, Rivals, Agrees
  <2> QED
    BY <1>1, <2>1, <2>2, <2>3 DEF vars, ReadInv
<1> QED
  BY <1>1, BeginReads, ReadAtomReads, OpenReads, CloseReads, AbandonReads, StrayReads,
     PassUpReads, ReturnReads DEF Next

(* A text that the grammar reads is answered by its only reading, and any  *)
(* other text by an error, however deep it nests (parse.c:180-232).        *)
THEOREM ReaderIsSound == Spec => []AnswersTheReading
<1>1. ReadInv => AnswersTheReading
  <2> SUFFICES ASSUME ReadInv, stage = "done", error.says # "tok"
               PROVE  IF error = NoError THEN Readings(text) = {answer} ELSE Readings(text) = {}
    BY DEF AnswersTheReading, Done
  <2>1. text \in Rivals
    BY DEF Rivals, ReadInv, ParseInv, TypeOK
  <2> QED
    BY <2>1 DEF ReadInv
<1> QED
  BY <1>1, ReadInit, ReadNext, PTL DEF Spec

(* An error that points at a closing bracket points at a fault: no text    *)
(* that begins with the tokens up to it is well-formed, whatever follows   *)
(* (parse.c:84, 130, 187-188).                                             *)
THEOREM FaultsAreReal == Spec => []NoTextGoesOn
<1>1. ReadInv => NoTextGoesOn
  <2> SUFFICES ASSUME ReadInv, stage = "done", error.says \in Unexpected,
                      NEW t \in WellFormed, BeginsSo(t, error.at)
               PROVE  FALSE
    BY DEF NoTextGoesOn, Done
  <2>1. error # NoError /\ error.says # "tok"
    <3>1. NoError.says = ""
      BY DEF NoError
    <3>2. "tok" \notin Unexpected /\ "" \notin Unexpected
      BY Zenon DEF Unexpected
    <3> QED
      BY <3>1, <3>2, Zenon
  <2>2. t \in Texts /\ Readings(t) # {}
    BY DEF WellFormed
  <2>3. t \in Seq(Brackets \cup Atoms) /\ text \in Seq(Brackets \cup Atoms)
    BY <2>2, TextsAssumption DEF ReadInv, ParseInv, TypeOK
  <2>4. Len(t) \in Nat /\ Len(text) \in Nat /\ DOMAIN t = 1..Len(t) /\ DOMAIN text = 1..Len(text)
    BY <2>3
  <2>5. error.at \in Nat
    <3>1. error.at \in 0..pos + 1 /\ pos \in 0..Len(text)
      BY <2>1, Zenon DEF ReadInv, ParseInv, TypeOK
    <3> QED
      BY <2>4, <3>1
  <2>6. PICK n \in Nat : n = error.at
    BY <2>5
  <2>7. \A i \in 1..n : i \in 1..Len(t) /\ i \in 1..Len(text) /\ t[i] = text[i]
    BY <2>4, <2>6 DEF BeginsSo
  <2>8. n <= Len(t) /\ n <= Len(text)
    <3>1. n = 0 \/ n \in 1..n
      BY <2>6
    <3> QED
      BY <2>4, <2>7, <3>1
  <2>9. Agrees(t, error.at)
    BY <2>4, <2>6, <2>7, <2>8 DEF Agrees
  <2>10. t \in Rivals
    BY <2>3, <2>9 DEF Rivals
  <2> QED
    BY <2>1, <2>2, <2>10 DEF ReadInv
<1> QED
  BY <1>1, ReadInit, ReadNext, PTL DEF Spec

-----------------------------------------------------------------------------
(* Errors about opening brackets *)

UnmatchedParen == "unmatched '('"
UnmatchedBrace == "unmatched '{'"
OddForms == "odd number of forms in map literal"
Opened == {UnmatchedParen, UnmatchedBrace, OddForms}

(* The parities of the runs of forms that tokens first .. last of t are.   *)
Parities(t, first, last) == {Len(r) % 2 : r \in Reads(t, first, last)}

(* UnmatchedIsInnermost, from when the error is made.                      *)
Pointed ==
    /\ error.says = UnmatchedParen =>
          text[error.at] = Paren /\ Parities(text, error.at + 1, Len(text)) # {}
    /\ error.says = UnmatchedBrace =>
          text[error.at] = Brace /\ Parities(text, error.at + 1, Len(text)) = {0}
    /\ error.says = OddForms =>
          text[error.at] = Brace /\ Parities(text, error.at + 1, pos) = {1}

(* No other step makes such an error, nor moves one.                       *)
LEMMA PointsElsewhere ==
    ASSUME ParseInv, Pointed, [Next]_vars, ~ EndInList, ~ EndInMap, ~ OddMap
    PROVE  Pointed'
<1>1. CASE UNCHANGED <<text, pos, error>>
  <2>1. Pointed' <=> Pointed
    BY <1>1 DEF Pointed, Parities
  <2> QED
    BY <2>1
<1>2. CASE error'.says \notin Opened
  BY <1>2 DEF Pointed, Opened
<1>3. NoError.says \notin Opened
  BY Zenon DEF NoError, Opened, UnmatchedParen, UnmatchedBrace, OddForms
<1>4. CASE UNCHANGED vars \/ PassUp \/ Return
  BY <1>1, <1>4 DEF vars, PassUp, Return
<1>5. CASE ReadAtom \/ OpenList \/ OpenMap \/ CloseList \/ CloseMap
  <2>1. error' = NoError
    BY <1>5 DEF ReadAtom, OpenList, OpenMap, Open, CloseList, CloseMap, Close, Sees, Turn
  <2> QED
    BY <1>2, <1>3, <2>1
<1>6. CASE BraceInList \/ ParenInMap \/ Stray \/ TokFails
  <2>1. ASSUME NEW at, NEW says, Abandon(at, says) PROVE error'.says = says
    BY <2>1 DEF Abandon
  <2>2. BraceInList => error'.says = "unexpected '}' inside list"
    BY <2>1, Zenon DEF BraceInList
  <2>3. ParenInMap => error'.says = "unexpected ')' inside map"
    BY <2>1, Zenon DEF ParenInMap
  <2>4. Stray \/ TokFails => error'.says = "unexpected" \/ error'.says = "tok"
    <3>1. ASSUME NEW at, NEW says, error' = [at |-> at, says |-> says] PROVE error'.says = says
      BY <3>1
    <3> QED
      BY <3>1, Zenon DEF Stray, TokFails
  <2>5. "unexpected '}' inside list" \notin Opened
    BY Zenon DEF Opened, UnmatchedParen, UnmatchedBrace, OddForms
  <2>6. "unexpected ')' inside map" \notin Opened
    BY Zenon DEF Opened, UnmatchedParen, UnmatchedBrace, OddForms
  <2>7. "unexpected" \notin Opened /\ "tok" \notin Opened
    BY Zenon DEF Opened, UnmatchedParen, UnmatchedBrace, OddForms
  <2> QED
    BY <1>2, <1>6, <2>2, <2>3, <2>4, <2>5, <2>6, <2>7, Zenon
<1>7. CASE Tokenized
  <2>1. error' = NoError
    BY <1>7, FirstTokens DEF ParseInv
  <2> QED
    BY <1>2, <1>3, <2>1
<1> QED
  BY <1>4, <1>5, <1>6, <1>7 DEF Next

(* What follows the innermost open bracket has one reading: the forms that *)
(* its activation holds.                                                   *)
LEMMA HeldParity ==
    ASSUME ReadInv, stage = "parse", error = NoError
    PROVE  Parities(text, Top.open + 1, pos) = {Len(Top.items) % 2}
<1>1. ParseInv /\ RunsOf(text, frames, pos)
  BY DEF ReadInv
<1>2. /\ text \in Seq(Brackets \cup Atoms) /\ Len(text) \in Nat /\ pos \in 0..Len(text)
  BY <1>1, Reading
<1>3. Top.open \in 0..pos /\ Top.items \in Reads(text, Top.open + 1, pos)
  BY <1>1, TopRuns
<1>4. PICK i : i = Top.open + 1
  OBVIOUS
<1>5. i \in 1..Len(text) + 1 /\ Top.items \in Reads(text, i, pos)
  BY <1>2, <1>3, <1>4
<1>6. \A x, y \in Reads(text, i, pos) : x = y
  <2>1. CASE i <= Len(text)
    BY <1>2, <1>5, <2>1, NoAmbiguity DEF Plain, OneReading
  <2>2. CASE ~ (i <= Len(text))
    <3>1. i > pos
      BY <1>2, <1>5, <2>2
    <3> QED
      BY <1>2, <1>5, <3>1, ReadsBegin
  <2> QED
    BY <2>1, <2>2
<1>7. Reads(text, i, pos) = {Top.items}
  BY <1>5, <1>6
<1> QED
  BY <1>4, <1>7 DEF Parities

LEMMA PointsInside ==
    ASSUME ReadInv, EndInList \/ EndInMap \/ OddMap
    PROVE  Pointed'
<1>1. stage = "parse" /\ error = NoError /\ UNCHANGED <<text, pos>> /\ (In("list") \/ In("map"))
  BY DEF EndInList, EndInMap, OddMap, KeyPending, Turn, Abandon
<1>2. ParseInv
  BY DEF ReadInv
<1>3. Len(text) \in Nat /\ pos \in 0..Len(text) /\ (AtEnd => pos = Len(text))
  BY <1>1, <1>2, Reading
<1>4. PICK F : Top \in Activations(F)
  BY <1>1, <1>2, Reading
<1>5. /\ In("list") => text[Top.open] = Paren
      /\ In("map") => text[Top.open] = Brace
  <2>1. Len(frames) \in DOMAIN frames
    <3>1. PICK G : frames \in Seq(Activations(G)) /\ Len(frames) \in Nat \ {0}
      BY <1>1, <1>2, Reading
    <3> QED
      BY <3>1
  <2> QED
    BY <1>2, <2>1, Within DEF Nested, Top, In
<1>6. Parities(text, Top.open + 1, pos) = {Len(Top.items) % 2}
  BY <1>1, HeldParity
<1>7. Len(Top.items) \in Nat
  BY <1>4 DEF Activations
<1>8. ASSUME NEW at, NEW says, Abandon(at, says) PROVE error'.at = at /\ error'.says = says
  BY <1>8 DEF Abandon
<1>9. UnmatchedParen # UnmatchedBrace /\ UnmatchedParen # OddForms /\ UnmatchedBrace # OddForms
  BY Zenon DEF UnmatchedParen, UnmatchedBrace, OddForms
<1>10. CASE EndInList
  <2>1. error'.at = Top.open /\ error'.says = UnmatchedParen /\ AtEnd /\ In("list")
    BY <1>8, <1>10, Zenon DEF EndInList, UnmatchedParen
  <2>2. Parities(text', error'.at + 1, Len(text')) # {} /\ text'[error'.at] = Paren
    BY <1>1, <1>3, <1>5, <1>6, <2>1
  <2> QED
    BY <1>9, <2>1, <2>2, Zenon DEF Pointed, Parities
<1>11. CASE EndInMap
  <2>1. error'.at = Top.open /\ error'.says = UnmatchedBrace /\ AtEnd /\ In("map") /\ ~ KeyPending
    BY <1>8, <1>11, Zenon DEF EndInMap, UnmatchedBrace
  <2>2. Len(Top.items) % 2 = 0
    <3>1. \A n \in Nat : n % 2 = 0 \/ n % 2 = 1
      OBVIOUS
    <3> QED
      BY <1>7, <2>1, <3>1, Zenon DEF KeyPending
  <2>3. Parities(text', error'.at + 1, Len(text')) = {0} /\ text'[error'.at] = Brace
    BY <1>1, <1>3, <1>5, <1>6, <2>1, <2>2
  <2> QED
    BY <1>9, <2>1, <2>3, Zenon DEF Pointed, Parities
<1>12. CASE OddMap
  <2>1. error'.at = Top.open /\ error'.says = OddForms /\ In("map") /\ Len(Top.items) % 2 = 1
    BY <1>8, <1>12, Zenon DEF OddMap, OddForms, KeyPending
  <2>2. Parities(text', error'.at + 1, pos') = {1} /\ text'[error'.at] = Brace
    BY <1>1, <1>5, <1>6, <2>1
  <2> QED
    BY <1>9, <2>1, <2>2, Zenon DEF Pointed, Parities
<1> QED
  BY <1>10, <1>11, <1>12

LEMMA PointsInit == Init => Pointed
<1>1. NoError.says = ""
  BY DEF NoError
<1>2. "" # UnmatchedParen /\ "" # UnmatchedBrace /\ "" # OddForms
  BY Zenon DEF UnmatchedParen, UnmatchedBrace, OddForms
<1> QED
  BY <1>1, <1>2, Zenon DEF Init, Pointed

(* An error about an opening bracket points at the innermost one that was  *)
(* open: what follows it is a run of whole forms, and for a map the two    *)
(* messages differ by the parity of that run (parse.c:65-69, 109-113,      *)
(* 140-154).                                                               *)
THEOREM OpeningIsInnermost == Spec => []UnmatchedIsInnermost
<1>1. Init => ReadInv /\ Pointed
  BY ReadInit, PointsInit
<1>2. ReadInv /\ Pointed /\ [Next]_vars => ReadInv' /\ Pointed'
  <2> SUFFICES ASSUME ReadInv, Pointed, [Next]_vars PROVE ReadInv' /\ Pointed'
    OBVIOUS
  <2>1. ReadInv' /\ ParseInv
    BY ReadNext DEF ReadInv
  <2> QED
    BY <2>1, PointsInside, PointsElsewhere
<1>3. Pointed => UnmatchedIsInnermost
  BY Zenon DEF Pointed, UnmatchedIsInnermost, Failed, Parities, UnmatchedParen, UnmatchedBrace,
               OddForms, Paren, Brace
<1> QED
  BY <1>1, <1>2, <1>3, PTL DEF Spec

-----------------------------------------------------------------------------
(* Texts that go on *)

Innermost(fs) == fs[Len(fs)]
Pending(fs) == Innermost(fs).kind = "map" /\ Len(Innermost(fs).items) % 2 = 1

(* What the activations fs have read is the whole of t.                    *)
ReadTo(t, fs) ==
    /\ t \in Seq(Brackets \cup Atoms)
    /\ fs # <<>>
    /\ \E F : fs \in Seq(Activations(F))
    /\ RunsOf(t, fs, Len(t))
    /\ \A d \in 1..Len(fs) :
          /\ (d = 1) <=> (fs[d].kind = "top")
          /\ fs[d].kind # "top" => fs[d].open \in 1..Len(t)
          /\ fs[d].kind = "list" => t[fs[d].open] = Paren
          /\ fs[d].kind = "map" => t[fs[d].open] = Brace

GoesOn(t, u) == Len(t) <= Len(u) /\ \A i \in 1..Len(t) : u[i] = t[i]

(* The readings are not disturbed by one more token.                       *)
LEMMA OneMoreToken ==
    ASSUME NEW t, NEW fs, ReadTo(t, fs), NEW c \in Brackets \cup Atoms
    PROVE  /\ Append(t, c) \in Seq(Brackets \cup Atoms) /\ GoesOn(t, Append(t, c))
           /\ Len(Append(t, c)) = Len(t) + 1 /\ Append(t, c)[Len(t) + 1] = c
           /\ RunsOf(Append(t, c), fs, Len(t))
<1> DEFINE S == Brackets \cup Atoms
           u == Append(t, c)
<1>1. t \in Seq(S) /\ c \in S
  BY DEF ReadTo
<1> HIDE DEF S
<1>2. /\ u \in Seq(S) /\ Len(u) = Len(t) + 1 /\ u[Len(t) + 1] = c /\ Len(t) \in Nat
      /\ \A i \in 1..Len(t) : u[i] = t[i]
  BY <1>1
<1> HIDE DEF u
<1>3. Len(t) <= Len(u)
  BY <1>2
<1>4. PICK F : fs \in Seq(Activations(F))
  BY DEF ReadTo
<1>5. RunsOf(u, fs, Len(t))
  <2>1. \A d \in 1..Len(fs) : EndOf(fs, d, Len(t)) <= Len(t)
    BY <1>2 DEF ReadTo, RunsOf
  <2>2. RunsOf(t, fs, Len(t)) /\ Len(t) <= Len(t)
    BY <1>2 DEF ReadTo
  <2> QED
    BY <1>1, <1>2, <1>3, <1>4, <2>1, <2>2, RunsOfPrefix DEF S
<1> QED
  BY <1>2, <1>3, <1>5 DEF u, GoesOn, S

(* An atom can always follow.                                              *)
LEMMA AtomFollows ==
    ASSUME NEW t, NEW fs, ReadTo(t, fs), NEW a \in Atoms
    PROVE  /\ ReadTo(Append(t, a), Take(fs, Atom(a)))
           /\ Len(Take(fs, Atom(a))) = Len(fs)
           /\ Innermost(Take(fs, Atom(a))).open = Innermost(fs).open
           /\ Innermost(Take(fs, Atom(a))).kind = Innermost(fs).kind
           /\ Len(Innermost(Take(fs, Atom(a))).items) = Len(Innermost(fs).items) + 1
<1>1. PICK F : fs \in Seq(Activations(F)) /\ fs # <<>>
  BY DEF ReadTo
<1>2. PICK u : u = Append(t, a)
  OBVIOUS
<1>3. PICK gs : gs = Take(fs, Atom(a))
  OBVIOUS
<1>4. PICK n : n = Len(t)
  OBVIOUS
<1>5. /\ n \in Nat /\ u \in Seq(Brackets \cup Atoms) /\ Len(u) = n + 1 /\ u[n + 1] = a
      /\ RunsOf(u, fs, n) /\ \A i \in 1..n : u[i] = t[i]
  <2>1. Len(t) \in Nat
    BY DEF ReadTo
  <2> QED
    BY <1>2, <1>4, <2>1, OneMoreToken DEF GoesOn
<1>6. n \in 0..Len(u) /\ n + 1 \in n + 1..Len(u) /\ n + 1 \in 1..Len(u)
  BY <1>5
<1>7. Atom(a) \in FormAt(u, n + 1, n + 1)
  BY <1>5, <1>6, FormsBegin
<1>8. RunsOf(u, gs, n + 1)
  BY <1>1, <1>3, <1>5, <1>6, <1>7, RunsOfTake
<1>9. /\ gs \in Seq(Activations(F \cup {Atom(a)})) /\ Len(gs) = Len(fs) /\ Len(fs) \in Nat \ {0}
      /\ \A d \in 1..Len(fs) : gs[d].kind = fs[d].kind /\ gs[d].open = fs[d].open
      /\ Len(gs[Len(fs)].items) = Len(fs[Len(fs)].items) + 1
  BY <1>1, <1>3, TakeKeeps, TopAndOuter
<1>10. ASSUME NEW d \in 1..Len(gs)
       PROVE  /\ (d = 1) <=> (gs[d].kind = "top")
              /\ gs[d].kind # "top" => gs[d].open \in 1..Len(u)
              /\ gs[d].kind = "list" => u[gs[d].open] = Paren
              /\ gs[d].kind = "map" => u[gs[d].open] = Brace
  <2>1. /\ d \in 1..Len(fs) /\ gs[d].kind = fs[d].kind /\ gs[d].open = fs[d].open
    BY <1>9
  <2>2. /\ (d = 1) <=> (fs[d].kind = "top")
        /\ fs[d].kind # "top" => fs[d].open \in 1..n
        /\ fs[d].kind = "list" => t[fs[d].open] = Paren
        /\ fs[d].kind = "map" => t[fs[d].open] = Brace
    BY <1>4, <2>1 DEF ReadTo
  <2>3. 1..n \subseteq 1..Len(u)
    BY <1>5
  <2> QED
    BY <1>5, <2>1, <2>2, <2>3
<1>11. gs # <<>>
  BY <1>9
<1>12. ReadTo(u, gs)
  BY <1>5, <1>8, <1>9, <1>10, <1>11 DEF ReadTo
<1> QED
  BY <1>2, <1>3, <1>9, <1>12 DEF Innermost

(* The innermost bracket is closed by the next token, unless it is a map's *)
(* that waits for a value.                                                 *)
LEMMA BracketFollows ==
    ASSUME NEW t, NEW fs, ReadTo(t, fs), Len(fs) # 1, ~ Pending(fs)
    PROVE  \E u, gs : /\ ReadTo(u, gs) /\ GoesOn(t, u) /\ Len(u) = Len(t) + 1
                      /\ Len(gs) = Len(fs) - 1 /\ Innermost(gs).open < Innermost(fs).open
<1>1. PICK F : fs \in Seq(Activations(F)) /\ fs # <<>>
  BY DEF ReadTo
<1>2. PICK n : n = Len(t)
  OBVIOUS
<1>3. PICK L : L = Len(fs)
  OBVIOUS
<1>4. PICK c : c = IF fs[L].kind = "list" THEN ParenEnd ELSE BraceEnd
  OBVIOUS
<1>5. c \in Brackets \cup Atoms
  <2>1. ParenEnd \in Brackets /\ BraceEnd \in Brackets
    BY Zenon DEF ParenEnd, BraceEnd, Brackets
  <2> QED
    BY <1>4, <2>1
<1>6. PICK u : u = Append(t, c)
  OBVIOUS
<1>7. /\ n \in Nat /\ u \in Seq(Brackets \cup Atoms) /\ Len(u) = n + 1 /\ u[n + 1] = c
      /\ RunsOf(u, fs, n) /\ \A i \in 1..n : u[i] = t[i]
  <2>1. Len(t) \in Nat
    BY DEF ReadTo
  <2> QED
    BY <1>2, <1>5, <1>6, <2>1, OneMoreToken DEF GoesOn
<1>8. PICK out : out = SubSeq(fs, 1, L - 1)
  OBVIOUS
<1>9. /\ L \in Nat /\ L > 1 /\ fs[L] \in Activations(F) /\ out \in Seq(Activations(F)) /\ out # <<>>
      /\ Len(out) = L - 1 /\ \A d \in 1..L - 1 : out[d] = fs[d]
  <2>1. /\ L \in Nat \ {0} /\ fs[L] \in Activations(F) /\ out \in Seq(Activations(F))
        /\ Len(out) = L - 1 /\ \A d \in 1..L - 1 : out[d] = fs[d]
    BY <1>1, <1>3, <1>8, TopAndOuter
  <2>2. L > 1 /\ Len(out) # 0
    BY <1>3, <2>1
  <2> QED
    BY <2>1, <2>2
<1>10. PICK o : o = fs[L].open
  OBVIOUS
<1>11. /\ o \in 1..n /\ fs[L].items \in Reads(u, o + 1, n)
       /\ (fs[L].kind = "list" /\ u[o] = Paren) \/ (fs[L].kind = "map" /\ u[o] = Brace)
  <2>1. L \in 1..L /\ EndOf(fs, L, n) = n /\ L # 1
    BY <1>3, <1>9 DEF EndOf
  <2>2. /\ (L = 1) <=> (fs[L].kind = "top")
        /\ fs[L].kind # "top" => fs[L].open \in 1..n
        /\ fs[L].kind = "list" => t[fs[L].open] = Paren
        /\ fs[L].kind = "map" => t[fs[L].open] = Brace
    BY <1>2, <1>3, <2>1 DEF ReadTo
  <2>3. fs[L].kind \in {"top", "list", "map"}
    BY <1>9 DEF Activations
  <2>4. fs[L].items \in Reads(u, fs[L].open + 1, n)
    BY <1>3, <1>7, <2>1 DEF RunsOf
  <2> QED
    BY <1>7, <1>10, <2>1, <2>2, <2>3, <2>4
<1>12. PICK k : k = n + 1
  OBVIOUS
<1>13. /\ o \in 1..Len(u) /\ k \in o..Len(u) /\ o # k /\ k - 1 = n
  BY <1>7, <1>11, <1>12
<1>14. \E form : form \in FormAt(u, o, k)
  <2>1. u[k] = c /\ fs[L].items \in Reads(u, o + 1, k - 1)
    BY <1>7, <1>11, <1>12, <1>13
  <2>2. CASE fs[L].kind = "list"
    <3>1. FormAt(u, o, k) = {ListOf(s) : s \in Reads(u, o + 1, k - 1)}
      BY <1>4, <1>7, <1>11, <1>13, <2>1, <2>2, FormsBegin
    <3> QED
      BY <2>1, <3>1, Zenon
  <2>3. CASE fs[L].kind = "map"
    <3>1. FormAt(u, o, k) = {MapOf(s) : s \in {r \in Reads(u, o + 1, k - 1) : Len(r) % 2 = 0}}
      BY <1>4, <1>7, <1>11, <1>13, <2>1, <2>3, FormsBegin
    <3>2. Len(fs[L].items) % 2 = 0
      <4>1. Len(fs[L].items) \in Nat
        BY <1>9 DEF Activations
      <4>2. Len(fs[L].items) % 2 # 1
        BY <1>3, <2>3 DEF Pending, Innermost
      <4>3. \A m \in Nat : m % 2 = 0 \/ m % 2 = 1
        OBVIOUS
      <4> QED
        BY <4>1, <4>2, <4>3, Zenon
    <3>3. fs[L].items \in {r \in Reads(u, o + 1, k - 1) : Len(r) % 2 = 0}
      BY <2>1, <3>2, Zenon
    <3> QED
      BY <3>1, <3>3, Zenon
  <2> QED
    BY <1>11, <2>2, <2>3
<1>15. PICK form : form \in FormAt(u, o, k)
  BY <1>14
<1>16. PICK p : p = o - 1
  OBVIOUS
<1>17. p \in 0..Len(u) /\ p + 1 = o /\ k \in p + 1..Len(u)
  BY <1>7, <1>11, <1>13, <1>16
<1>18. RunsOf(u, out, p)
  BY <1>1, <1>3, <1>7, <1>8, <1>10, <1>16, RunsOfOuter
<1>19. PICK gs : gs = Take(out, form)
  OBVIOUS
<1>20. RunsOf(u, gs, k)
  BY <1>7, <1>9, <1>15, <1>17, <1>18, <1>19, RunsOfTake
<1>21. /\ gs \in Seq(Activations(F \cup {form})) /\ Len(gs) = L - 1
       /\ \A d \in 1..L - 1 : gs[d].kind = fs[d].kind /\ gs[d].open = fs[d].open
  <2>1. /\ gs \in Seq(Activations(F \cup {form})) /\ Len(gs) = Len(out)
        /\ \A d \in 1..Len(out) : gs[d].kind = out[d].kind /\ gs[d].open = out[d].open
    <3> out \in Seq(Activations(F)) /\ out # <<>>
      BY <1>9
    <3>1. /\ Take(out, form) \in Seq(Activations(F \cup {form}))
          /\ Len(Take(out, form)) = Len(out)
          /\ \A d \in 1..Len(out) : /\ Take(out, form)[d].kind = out[d].kind
                                    /\ Take(out, form)[d].open = out[d].open
          /\ \A d \in 1..Len(out) - 1 : Take(out, form)[d] = out[d]
          /\ Take(out, form)[Len(out)].items = Append(out[Len(out)].items, form)
          /\ Len(Take(out, form)[Len(out)].items) = Len(out[Len(out)].items) + 1
      BY TakeKeeps, Zenon
    <3> QED
      BY <1>19, <3>1, Zenon
  <2> QED
    BY <1>9, <2>1
<1>22. ASSUME NEW d \in 1..Len(gs)
       PROVE  /\ (d = 1) <=> (gs[d].kind = "top")
              /\ gs[d].kind # "top" => gs[d].open \in 1..Len(u)
              /\ gs[d].kind = "list" => u[gs[d].open] = Paren
              /\ gs[d].kind = "map" => u[gs[d].open] = Brace
  <2>1. d \in 1..Len(fs) /\ gs[d].kind = fs[d].kind /\ gs[d].open = fs[d].open
    BY <1>3, <1>9, <1>21
  <2>2. /\ (d = 1) <=> (fs[d].kind = "top")
        /\ fs[d].kind # "top" => fs[d].open \in 1..n
        /\ fs[d].kind = "list" => t[fs[d].open] = Paren
        /\ fs[d].kind = "map" => t[fs[d].open] = Brace
    BY <1>2, <2>1 DEF ReadTo
  <2>3. 1..n \subseteq 1..Len(u)
    BY <1>7
  <2> QED
    BY <1>7, <2>1, <2>2, <2>3
<1>23. ReadTo(u, gs)
  <2>1. gs # <<>> /\ Len(u) = k
    BY <1>7, <1>9, <1>12, <1>21
  <2> QED
    BY <1>7, <1>20, <1>21, <1>22, <2>1 DEF ReadTo
<1>24. gs[L - 1].open < o
  <2>1. L - 1 \in 1..Len(fs) /\ L - 1 \in 1..L - 1 /\ L - 1 # Len(fs) /\ (L - 1) + 1 = L
    BY <1>3, <1>9
  <2>2. EndOf(fs, L - 1, n) = o - 1
    BY <1>10, <2>1 DEF EndOf
  <2>3. fs[L - 1].open \in 0..o - 1
    BY <1>7, <2>1, <2>2 DEF RunsOf
  <2> QED
    BY <1>11, <1>21, <2>1, <2>3
<1>25. GoesOn(t, u) /\ Len(u) = Len(t) + 1
  BY <1>2, <1>7 DEF GoesOn
<1> QED
  BY <1>3, <1>10, <1>21, <1>23, <1>24, <1>25 DEF Innermost

(* Going on is transitive.                                                 *)
LEMMA GoesFurther ==
    ASSUME NEW t, NEW u, NEW v, Len(t) \in Nat, Len(u) \in Nat, Len(v) \in Nat,
           GoesOn(t, u), GoesOn(u, v)
    PROVE  GoesOn(t, v)
<1>1. Len(t) <= Len(v)
  BY DEF GoesOn
<1>2. ASSUME NEW i \in 1..Len(t) PROVE v[i] = t[i]
  <2>1. i \in 1..Len(u)
    BY DEF GoesOn
  <2> QED
    BY <2>1 DEF GoesOn
<1> QED
  BY <1>1, <1>2 DEF GoesOn

(* One or two tokens close the innermost bracket.                          *)
LEMMA ClosingFollows ==
    ASSUME NEW t, NEW fs, ReadTo(t, fs), Len(fs) # 1, Atoms # {}
    PROVE  \E u, gs : /\ ReadTo(u, gs) /\ GoesOn(t, u)
                      /\ Len(u) = Len(t) + IF Pending(fs) THEN 2 ELSE 1
                      /\ Len(gs) = Len(fs) - 1 /\ Innermost(gs).open < Innermost(fs).open
<1>1. CASE ~ Pending(fs)
  BY <1>1, BracketFollows
<1>2. CASE Pending(fs)
  <2>1. PICK a \in Atoms : TRUE
    OBVIOUS
  <2>2. PICK v : v = Append(t, a)
    OBVIOUS
  <2>3. PICK hs : hs = Take(fs, Atom(a))
    OBVIOUS
  <2>4. /\ ReadTo(v, hs) /\ Len(hs) = Len(fs) /\ Innermost(hs).open = Innermost(fs).open
        /\ Len(Innermost(hs).items) = Len(Innermost(fs).items) + 1
    BY <2>2, <2>3, AtomFollows
  <2>5. GoesOn(t, v) /\ Len(v) = Len(t) + 1
    BY <2>2, OneMoreToken
  <2>6. ~ Pending(hs)
    <3>1. \A n \in Nat : n % 2 = 1 => (n + 1) % 2 # 1
      OBVIOUS
    <3>2. Len(Innermost(fs).items) \in Nat
      <4>1. PICK F : fs \in Seq(Activations(F)) /\ fs # <<>>
        BY DEF ReadTo
      <4>2. fs[Len(fs)] \in Activations(F)
        BY <4>1, TopAndOuter
      <4> QED
        BY <4>2 DEF Innermost, Activations
    <3> QED
      BY <1>2, <2>4, <3>1, <3>2 DEF Pending
  <2>7. PICK u, gs : /\ ReadTo(u, gs) /\ GoesOn(v, u) /\ Len(u) = Len(v) + 1
                     /\ Len(gs) = Len(hs) - 1 /\ Innermost(gs).open < Innermost(hs).open
    BY <2>4, <2>6, BracketFollows
  <2>8. Len(t) \in Nat /\ Len(u) \in Nat /\ Len(v) \in Nat
    BY <2>4, <2>7 DEF ReadTo
  <2>9. GoesOn(t, u) /\ Len(u) = Len(t) + 2
    BY <2>5, <2>7, <2>8, GoesFurther
  <2> QED
    BY <1>2, <2>4, <2>7, <2>9
<1> QED
  BY <1>1, <1>2

(* Closing all brackets takes at most two tokens for each.                 *)
Completed(t, fs) ==
    \E u \in Seq(Brackets \cup Atoms) :
        /\ GoesOn(t, u) /\ Readings(u) # {}
        /\ Len(u) <= Len(t) + 2 * Innermost(fs).open
        /\ ~ Pending(fs) /\ Innermost(fs).open # 0 =>
              Len(u) < Len(t) + 2 * Innermost(fs).open

LEMMA Completion ==
    ASSUME Atoms # {}, NEW t, NEW fs, ReadTo(t, fs)
    PROVE  Completed(t, fs)
<1> DEFINE S == {m \in Nat : \E x, gs : ReadTo(x, gs) /\ Len(gs) = m /\ ~ Completed(x, gs)}
<1>1. ASSUME NEW x, NEW gs, ReadTo(x, gs)
      PROVE  /\ Len(gs) \in Nat \ {0} /\ Len(x) \in Nat /\ x \in Seq(Brackets \cup Atoms)
             /\ Innermost(gs).open \in 0..Len(x)
             /\ Innermost(gs).items \in Reads(x, Innermost(gs).open + 1, Len(x))
             /\ Len(gs) = 1 => Innermost(gs).open = 0
             /\ Len(gs) # 1 => Innermost(gs).open # 0
  <2>1. PICK F : gs \in Seq(Activations(F)) /\ gs # <<>>
    BY <1>1 DEF ReadTo
  <2>2. Len(gs) \in Nat \ {0} /\ Len(gs) \in 1..Len(gs)
    BY <2>1, TopAndOuter
  <2>3. Len(x) \in Nat /\ x \in Seq(Brackets \cup Atoms)
    BY <1>1 DEF ReadTo
  <2>4. EndOf(gs, Len(gs), Len(x)) = Len(x)
    BY DEF EndOf
  <2>5. /\ Innermost(gs).open \in 0..Len(x)
        /\ Innermost(gs).kind = "top" => Innermost(gs).open = 0
        /\ Innermost(gs).items \in Reads(x, Innermost(gs).open + 1, Len(x))
    BY <1>1, <2>2, <2>4 DEF ReadTo, RunsOf, Innermost
  <2>6. /\ Len(gs) = 1 => Innermost(gs).kind = "top"
        /\ Len(gs) # 1 => Innermost(gs).open \in 1..Len(x)
    BY <1>1, <2>2 DEF ReadTo, Innermost
  <2> QED
    BY <2>2, <2>3, <2>5, <2>6
<1>2. S = {}
  <2> SUFFICES ASSUME S # {} PROVE FALSE
    OBVIOUS
  <2>1. PICK m \in S : \A k \in S : m <= k
    BY LeastNumber
  <2>2. PICK x, gs : ReadTo(x, gs) /\ Len(gs) = m /\ ~ Completed(x, gs)
    BY <2>1
  <2>3. CASE Len(gs) = 1
    <3>1. /\ Len(x) \in Nat /\ x \in Seq(Brackets \cup Atoms) /\ Innermost(gs).open = 0
          /\ Innermost(gs).items \in Reads(x, Innermost(gs).open + 1, Len(x))
      BY <1>1, <2>2, <2>3
    <3>2. Readings(x) # {}
      <4>1. Innermost(gs).open + 1 = 1
        BY <3>1
      <4> QED
        BY <3>1, <4>1 DEF Readings
    <3>3. GoesOn(x, x)
      BY <3>1 DEF GoesOn
    <3> QED
      BY <2>2, <3>1, <3>2, <3>3 DEF Completed
  <2>4. CASE Len(gs) # 1
    <3>1. PICK v, hs : /\ ReadTo(v, hs) /\ GoesOn(x, v)
                       /\ Len(v) = Len(x) + IF Pending(gs) THEN 2 ELSE 1
                       /\ Len(hs) = Len(gs) - 1 /\ Innermost(hs).open < Innermost(gs).open
      BY <2>2, <2>4, ClosingFollows
    <3>2. Completed(v, hs)
      <4>1. Len(hs) \in Nat /\ ~ (m <= Len(hs))
        BY <1>1, <2>2, <3>1
      <4> QED
        BY <2>1, <3>1, <4>1
    <3>3. PICK u \in Seq(Brackets \cup Atoms) :
              /\ GoesOn(v, u) /\ Readings(u) # {}
              /\ Len(u) <= Len(v) + 2 * Innermost(hs).open
      BY <3>2 DEF Completed
    <3>4. /\ Len(x) \in Nat /\ Len(v) \in Nat /\ Len(u) \in Nat
          /\ Innermost(hs).open \in Nat /\ Innermost(gs).open \in Nat
      <4>1. Len(u) \in Nat
        OBVIOUS
      <4> QED
        BY <1>1, <2>2, <3>1, <4>1
    <3>5. GoesOn(x, u)
      BY <3>1, <3>3, <3>4, GoesFurther
    <3>6. /\ Len(u) <= Len(x) + 2 * Innermost(gs).open
          /\ ~ Pending(gs) => Len(u) < Len(x) + 2 * Innermost(gs).open
      BY <3>1, <3>3, <3>4
    <3> QED
      BY <2>2, <3>3, <3>5, <3>6 DEF Completed
  <2> QED
    BY <2>3, <2>4
<1>3. Len(fs) \in Nat
  BY <1>1
<1> QED
  BY <1>2, <1>3

(* What has been read without an error is how some well-formed text        *)
(* begins.                                                                 *)
LEMMA SomeTextGoesOn ==
    ASSUME ReadInv, stage = "parse", error = NoError, pos <= MaxRepair
    PROVE  \E t \in WellFormed : BeginsSo(t, pos)
<1> DEFINE S == Brackets \cup Atoms
           t == SubSeq(text, 1, pos)
<1>1. ParseInv /\ RunsOf(text, frames, pos)
  BY DEF ReadInv
<1>2. text \in Seq(S) /\ Len(text) \in Nat /\ pos \in 0..Len(text)
  BY <1>1, Reading
<1>3. Atoms # {} /\ MaxRepair \in Nat \ {0}
  BY RepairAssumption
<1>4. t \in Seq(S) /\ Len(t) = pos /\ \A i \in 1..pos : t[i] = text[i]
  <2> HIDE DEF S
  <2>1. /\ SubSeq(text, 1, pos) \in Seq(S)
        /\ Len(SubSeq(text, 1, pos)) = IF 1 <= pos THEN pos - 1 + 1 ELSE 0
        /\ \A i \in 1..pos - 1 + 1 : SubSeq(text, 1, pos)[i] = text[1 + i - 1]
    <3>1. \A i \in 1..pos : text[i] \in S
      BY <1>2
    <3> QED
      BY <1>2, <3>1, SubSeqProperties
  <2>2. (IF 1 <= pos THEN pos - 1 + 1 ELSE 0) = pos /\ pos - 1 + 1 = pos
        /\ \A i \in 1..pos : 1 + i - 1 = i
    BY <1>2
  <2> QED
    BY <2>1, <2>2
<1> HIDE DEF t
<1>5. Agrees(t, pos)
  BY <1>2, <1>4 DEF Agrees
<1>6. RunsOf(t, frames, pos)
  BY <1>1, <1>4, <1>5, RivalsAgree
<1>7. PICK F : frames \in Seq(Activations(F)) /\ frames # <<>> /\ Len(frames) \in Nat \ {0}
               /\ Top \in Activations(F)
  BY <1>1, Reading
<1>8. ReadTo(t, frames)
  <2>1. ASSUME NEW d \in 1..Len(frames)
        PROVE  /\ (d = 1) <=> (frames[d].kind = "top")
               /\ frames[d].kind # "top" => frames[d].open \in 1..Len(t)
               /\ frames[d].kind = "list" => t[frames[d].open] = Paren
               /\ frames[d].kind = "map" => t[frames[d].open] = Brace
    <3>1. d \in DOMAIN frames
      BY <1>7
    <3>2. /\ (d = 1) <=> (frames[d].kind = "top")
          /\ frames[d].kind # "top" => frames[d].open \in 1..pos
          /\ frames[d].kind = "list" => text[frames[d].open] = Paren
          /\ frames[d].kind = "map" => text[frames[d].open] = Brace
      BY <1>1, <3>1, Within DEF Nested
    <3> QED
      BY <1>4, <3>2
  <2> QED
    BY <1>4, <1>6, <1>7, <2>1 DEF ReadTo
<1>9. PICK u \in Seq(S) :
          /\ GoesOn(t, u) /\ Readings(u) # {}
          /\ Len(u) <= Len(t) + 2 * Innermost(frames).open
          /\ ~ Pending(frames) /\ Innermost(frames).open # 0 =>
                Len(u) < Len(t) + 2 * Innermost(frames).open
  BY <1>3, <1>8, Completion DEF Completed
<1>10. /\ Top.open \in 0..pos /\ Innermost(frames) = Top
       /\ Pending(frames) => Top.open < pos
  <2>1. Top.open \in 0..pos /\ Top.items \in Reads(text, Top.open + 1, pos) /\ Innermost(frames) = Top
    BY <1>1, TopRuns DEF Innermost, Top
  <2>2. ASSUME Top.open = pos PROVE Len(Top.items) = 0
    <3>1. PICK i : i = Top.open + 1
      OBVIOUS
    <3>2. i \in 1..Len(text) + 1 /\ i > pos
      BY <1>2, <2>1, <2>2, <3>1
    <3>3. Top.items = <<>>
      BY <1>2, <2>1, <3>1, <3>2, ReadsBegin
    <3> QED
      BY <3>3
  <2>3. Pending(frames) => Len(Top.items) % 2 = 1
    BY <2>1, Zenon DEF Pending
  <2>4. Len(Top.items) % 2 = 1 => Top.open # pos
    <3>1. \A n : n = 0 => n % 2 # 1
      OBVIOUS
    <3> QED
      BY <2>2, <3>1, Zenon
  <2>5. ASSUME NEW o \in 0..pos, o # pos PROVE o < pos
    BY <1>2, <2>5
  <2> QED
    BY <2>1, <2>3, <2>4, <2>5, Zenon
<1>11. Len(u) \in 0..3 * MaxRepair - 1
  <2>1. Len(u) \in Nat
    BY <1>9
  <2>2. Len(u) <= pos + 2 * Top.open
    BY <1>4, <1>9, <1>10
  <2>3. ~ Pending(frames) /\ Top.open # 0 => Len(u) < pos + 2 * Top.open
    BY <1>4, <1>9, <1>10
  <2> QED
    BY <1>2, <1>3, <1>10, <2>1, <2>2, <2>3
<1>12. u \in WellFormed
  <2>1. u \in [1..Len(u) -> S]
    BY <1>9
  <2>2. u \in Texts
    BY <1>11, <2>1, RepairAssumption
  <2> QED
    BY <1>9, <2>2 DEF WellFormed
<1>13. BeginsSo(u, pos)
  <2> SUFFICES ASSUME NEW i \in 1..pos PROVE i \in DOMAIN u \cap DOMAIN text /\ u[i] = text[i]
    BY DEF BeginsSo
  <2>1. DOMAIN u = 1..Len(u) /\ Len(u) \in Nat /\ DOMAIN text = 1..Len(text)
    BY <1>2, <1>9
  <2> QED
    BY <1>2, <1>4, <1>9, <2>1 DEF GoesOn
<1> QED
  BY <1>12, <1>13

(* SomeTextWentOn, from when the error is made.                            *)
WentOn ==
    error.says \in Unexpected /\ error.at - 1 \in 0..MaxRepair =>
        \E t \in WellFormed : BeginsSo(t, error.at - 1)

LEMMA GoingOnStays ==
    ASSUME ReadInv, WentOn, [Next]_vars
    PROVE  WentOn'
<1>1. CASE UNCHANGED <<text, error>>
  <2>1. WentOn' <=> WentOn
    BY <1>1 DEF WentOn, BeginsSo
  <2> QED
    BY <2>1
<1>2. CASE error'.says \notin Unexpected
  BY <1>2 DEF WentOn
<1>3. NoError.says \notin Unexpected
  BY Zenon DEF NoError, Unexpected
<1>4. CASE UNCHANGED vars \/ PassUp \/ Return
  BY <1>1, <1>4 DEF vars, PassUp, Return
<1>5. CASE ReadAtom \/ OpenList \/ OpenMap \/ CloseList \/ CloseMap \/ Tokenized
  <2>1. error' = NoError
    BY <1>5 DEF ReadAtom, OpenList, OpenMap, Open, CloseList, CloseMap, Close, Sees, Turn,
                Tokenized, Begin, ReadInv, ParseInv
  <2> QED
    BY <1>2, <1>3, <2>1
<1>6. CASE TokFails
  <2>1. error'.says = "tok"
    BY <1>6 DEF TokFails
  <2>2. "tok" \notin Unexpected
    BY Zenon DEF Unexpected
  <2> QED
    BY <1>2, <2>1, <2>2
<1>7. CASE EndInList \/ EndInMap \/ OddMap
  <2>1. ASSUME NEW at, NEW says, Abandon(at, says) PROVE error'.says = says
    BY <2>1 DEF Abandon
  <2>2. EndInList => error'.says = "unmatched '('"
    BY <2>1, Zenon DEF EndInList
  <2>3. EndInMap => error'.says = "unmatched '{'"
    BY <2>1, Zenon DEF EndInMap
  <2>4. OddMap => error'.says = "odd number of forms in map literal"
    BY <2>1, Zenon DEF OddMap
  <2>5. "unmatched '('" \notin Unexpected
    BY Zenon DEF Unexpected
  <2>6. "unmatched '{'" \notin Unexpected
    BY Zenon DEF Unexpected
  <2>7. "odd number of forms in map literal" \notin Unexpected
    BY Zenon DEF Unexpected
  <2> QED
    BY <1>2, <1>7, <2>2, <2>3, <2>4, <2>5, <2>6, <2>7, Zenon
<1>8. CASE BraceInList \/ ParenInMap \/ Stray
  <2>1. /\ stage = "parse" /\ error = NoError /\ UNCHANGED text
        /\ error'.at = pos + 1
    <3>1. ASSUME NEW says, Abandon(pos + 1, says) PROVE error'.at = pos + 1 /\ UNCHANGED text
      BY <3>1 DEF Abandon
    <3>2. BraceInList \/ ParenInMap => error'.at = pos + 1 /\ UNCHANGED text
      BY <3>1, Zenon DEF BraceInList, ParenInMap
    <3>3. Stray => error'.at = pos + 1 /\ UNCHANGED text
      <4>1. ASSUME NEW says, error' = [at |-> pos + 1, says |-> says] PROVE error'.at = pos + 1
        BY <4>1
      <4>2. ASSUME UNCHANGED <<stage, text, frames, answer>> PROVE UNCHANGED text
        BY <4>2
      <4> QED
        BY <4>1, <4>2, Zenon DEF Stray
    <3>4. stage = "parse" /\ error = NoError
      BY <1>8, Zenon DEF BraceInList, ParenInMap, Stray, Sees, Turn
    <3> QED
      BY <1>8, <3>2, <3>3, <3>4
  <2>2. pos \in Nat
    BY <2>1, Reading DEF ReadInv
  <2>3. pos + 1 - 1 = pos
    BY <2>2
  <2>4. CASE pos <= MaxRepair
    <3>1. PICK t \in WellFormed : BeginsSo(t, pos)
      BY <2>1, <2>4, SomeTextGoesOn
    <3>2. \A i \in 1..error'.at - 1 : i \in DOMAIN t \cap DOMAIN text' /\ t[i] = text'[i]
      <4>1. text' = text
        BY <2>1, Zenon
      <4>2. error'.at - 1 = pos
        <5>1. \A e : e = pos + 1 => e - 1 = pos
          BY <2>2
        <5> QED
          BY <2>1, <5>1, Zenon
      <4> QED
        BY <3>1, <4>1, <4>2, Zenon DEF BeginsSo
    <3> QED
      BY <3>1, <3>2 DEF WentOn, BeginsSo
  <2>5. CASE ~ (pos <= MaxRepair)
    <3>1. error'.at - 1 \notin 0..MaxRepair
      BY <2>1, <2>2, <2>5, RepairAssumption
    <3> QED
      BY <3>1 DEF WentOn
  <2> QED
    BY <2>4, <2>5
<1> QED
  BY <1>4, <1>5, <1>6, <1>7, <1>8 DEF Next

(* An error points at the fault.  One about a closing bracket: no text     *)
(* that begins with the tokens up to it is well-formed, and some text that *)
(* begins with the tokens before it is.  One about an opening bracket: it  *)
(* is the innermost one open (parse.c:65-84, 109-130, 140-154, 187-188).   *)
THEOREM FaultIsPointedAt == Spec => []ErrorsAreAtTheFault
<1>1. Init => ReadInv /\ WentOn
  <2>1. NoError.says \notin Unexpected
    BY Zenon DEF NoError, Unexpected
  <2> QED
    BY <2>1, ReadInit DEF Init, WentOn
<1>2. ReadInv /\ WentOn /\ [Next]_vars => ReadInv' /\ WentOn'
  BY ReadNext, GoingOnStays
<1>3. WentOn => SomeTextWentOn
  BY DEF WentOn, SomeTextWentOn
<1>4. Spec => []SomeTextWentOn
  BY <1>1, <1>2, <1>3, PTL DEF Spec
<1> QED
  BY <1>4, FaultsAreReal, OpeningIsInnermost, PTL DEF ErrorsAreAtTheFault
=============================================================================
