----------------------------- MODULE ReaderRef ------------------------------
(***************************************************************************)
(* What the two promise together, stated over the characters of the text   *)
(* and their brackets, without tokens (parse.md "Error cases").            *)
(***************************************************************************)
EXTENDS Reader

Openers == {"(", "{"}
Opening == [c \in {")", "}"} |-> IF c = ")" THEN "(" ELSE "{"]

(* Where character c leaves a reader who only looks for strings and        *)
(* comments and was in s.                                                  *)
Follows(s, c) ==
    CASE s = "comment" -> IF c = "\n" THEN "code" ELSE "comment"
      [] s = "escape" -> "string"
      [] s = "string" -> IF c = "\\" THEN "escape" ELSE IF c = "\"" THEN "code" ELSE "string"
      [] OTHER -> IF c = "\"" THEN "string" ELSE IF c = ";" THEN "comment" ELSE "code"

(* Where the first n characters of t leave a reader who looks for brackets *)
(* as well: the places of those open, and the first that closes none, or   *)
(* 0; before is where the first n - 1 leave it.                            *)
Unread == [in |-> "code", open |-> <<>>, broken |-> 0]
Further(t, before, n) ==
    LET c == t[n]
        counts == before.in = "code" /\ before.broken = 0
        innermost == IF before.open = <<>> THEN "none" ELSE t[before.open[Len(before.open)]]
        closes == counts /\ c \in DOMAIN Opening
        fits == innermost = Opening[c]
    IN  [in |-> Follows(before.in, c),
         open |-> IF counts /\ c \in Openers THEN Append(before.open, n)
                  ELSE IF closes /\ fits THEN SubSeq(before.open, 1, Len(before.open) - 1)
                  ELSE before.open,
         broken |-> IF closes /\ ~ fits THEN n ELSE before.broken]

Scans(t) ==
    LET after[n \in 0..Len(t)] == IF n = 0 THEN Unread ELSE Further(t, after[n - 1], n)
    IN  after
Scan(t) == Scans(t)[Len(t)]

Answered == stage = "done"
Fault(says) == Answered /\ fault.says = says

-----------------------------------------------------------------------------
(* Whatever strings and comments hold, a text whose brackets do not nest   *)
(* is not read (tok.c:66-134, 245-257; parse.c:59-188, 214-231).           *)
ReadOnlyIfNested ==
    Answered /\ error = NoError /\ fault = P!NoError =>
        Scan(src).open = <<>> /\ Scan(src).broken = 0

(* An error about brackets points at the character that is wrong, on its   *)
(* own line: the first bracket that closes none, or the innermost that is  *)
(* not closed (tok.c:36-41, 239-240; parse.c:43-49, 66-84, 111-129, 187).  *)
FaultsPointAtBrackets ==
    LET scan == Scan(src)
        unclosed == IF scan.open = <<>> THEN 0 ELSE scan.open[Len(scan.open)]
        unmatched(c) ==
            /\ scan.broken = 0 /\ unclosed > 0
            /\ src[unclosed] = c
            /\ PlaceSaid = PlaceOf(src, unclosed)
    IN  Answered /\ error = NoError /\ fault # P!NoError =>
        /\ fault.at \in DOMAIN tokens
        /\ \A says \in {"unexpected", "unexpected '}' inside list", "unexpected ')' inside map"} :
              Fault(says) => scan.broken > 0 /\ PlaceSaid = PlaceOf(src, scan.broken)
        /\ Fault("unmatched '('") => unmatched("(")
        /\ Fault("unmatched '{'") => unmatched("{")

(* Reading ends for every text.  Checked under the fairness of sequential  *)
(* code.                                                                   *)
ReadingEnds == <>Answered
=============================================================================
