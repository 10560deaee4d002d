----------------------------- MODULE BuildProofs -----------------------------
(***************************************************************************)
(* What the driver and the runner promise, for any number of test files,   *)
(* commands and changes of the directory.                                  *)
(***************************************************************************)
EXTENDS BuildRef, FiniteSetTheorems, SequenceTheorems, TLAPS

Verdicts == {"PASS", "FAIL"}
Printed == Seq(Names \X Verdicts)
Alive == [doing : {"begin", "test"}, buffer : {<<>>}]
Ended == [doing : {"ended"}, status : Endings]

(* What the driver knows of the tables at each of its places.              *)
DriverInv ==
    /\ TypeOK
    /\ listed \in Seq(Names)
    /\ driver = "generated" => main = listed
    /\ driver \in {"compiled", "running"} => binary = listed

(* The runner has printed a line for each test before the n-th, has counted *)
(* those that failed, and is at a test unless it is about to go on.        *)
Counted ==
    /\ n \in Nat \ {0} /\ n <= Len(binary) + 1
    /\ pc # "loop" => n <= Len(binary)
    /\ child \in {NoChild} \cup Alive \cup Ended
    /\ buffer \in Printed /\ out \in Printed
    /\ Len(out) + Len(buffer) = n - 1
    /\ \A k \in 1..n - 1 : Lines[k][1] = binary[k]
    /\ failed \in Nat
    /\ failed > 0 <=> \E k \in 1..n - 1 : Lines[k][2] = "FAIL"

(* How the n-th test ended is what its process says, then what the runner  *)
(* goes by; there is no fate of a later test.                              *)
Witnessed(f) ==
    \/ f[1] < n
    \/ f[1] = n /\ child.doing = "ended" /\ f[2] = child.status
    \/ f[1] = n /\ pc = "judging" /\ f[2] = status

Judged(verdict, name, ending) ==
    verdict = "PASS" <=> (IF name \in Aborts THEN ~ Clean(ending) ELSE Clean(ending))

Fated ==
    /\ fates \in Seq(Nat \X Endings)
    /\ \A j \in DOMAIN fates : Witnessed(fates[j])
    /\ \A j \in DOMAIN fates : \A k \in 1..n - 1 :
          fates[j][1] = k => Judged(Lines[k][2], binary[k], fates[j][2])

BuildInv == DriverInv /\ (driver = "running" => Counted /\ Fated)

-----------------------------------------------------------------------------
(* The tables *)

(* What the driver finds is a table of tests.                              *)
LEMMA FoundAreTables ==
    ASSUME tests \subseteq Names, NEW s \in Found
    PROVE  s \in Seq(Names)
<1>1. IsFiniteSet(tests)
  BY BuildAssumption, FS_Subset
<1>2. Cardinality(tests) \in Nat /\ MaxTests \in Nat
  BY <1>1, BuildAssumption, FS_CardinalityType
<1>3. PICK count \in Nat : s \in [1..count -> tests]
  BY <1>2 DEF Found
<1>4. s \in [1..count -> Names]
  BY <1>3
<1> QED
  BY <1>4

LEMMA DriverKeeps ==
    ASSUME DriverInv, [Next]_vars
    PROVE  DriverInv'
<1> USE DEF DriverInv, TypeOK
<1>1. CASE Edit
  BY <1>1 DEF Edit, command, run
<1>2. CASE CleanAll
  BY <1>2 DEF CleanAll, Exit, run
<1>3. CASE Glob
  <2>1. listed' \in Seq(Names)
    BY <1>3, FoundAreTables DEF Glob
  <2> QED
    BY <1>3, <2>1 DEF Glob, Exit, disk, run
<1>4. CASE GlobFails
  BY <1>4 DEF GlobFails, Exit, disk, run
<1>5. CASE Generate \/ GenerateFails
  BY <1>5 DEF Generate, GenerateFails, Exit, disk, run
<1>6. CASE Compile \/ CompileFails
  BY <1>6 DEF Compile, CompileFails, Exit, run
<1>7. CASE Start
  BY <1>7 DEF Start, disk
<1>8. CASE Fork \/ ForkFails
  BY <1>8 DEF Fork, ForkFails, Running, disk, command
<1>9. CASE ParentMakesFile
  BY <1>9 DEF ParentMakesFile, Running, disk, command
<1>10. CASE ChildMakesFile
  <2>1. child # NoChild
    BY <1>10 DEF ChildMakesFile, NoChild
  <2> QED
    BY <1>10, <2>1 DEF ChildMakesFile, disk, command
<1>11. CASE TestEnds
  <2>1. PICK ending \in Endings, says \in BOOLEAN : ChildEnds(ending, says)
    BY <1>11 DEF TestEnds
  <2>2. child # NoChild
    <3>1. child.doing = "test"
      BY <2>1 DEF ChildEnds
    <3> QED
      BY <3>1 DEF NoChild
  <2> QED
    BY <2>1, <2>2 DEF ChildEnds, disk, command
<1>12. CASE Wait \/ WaitForNone
  BY <1>12 DEF Wait, WaitForNone, Running, disk, command
<1>13. CASE Judge
  BY <1>13 DEF Judge, Running, disk, command
<1>14. CASE Finish
  BY <1>14 DEF Finish, Running, Exit, disk
<1>15. CASE UNCHANGED vars
  BY <1>15 DEF vars, disk, command, run
<1> QED
  BY <1>1, <1>2, <1>3, <1>4, <1>5, <1>6, <1>7, <1>8, <1>9, <1>10, <1>11, <1>12, <1>13, <1>14, <1>15
     DEF Next, Command, GoOn

-----------------------------------------------------------------------------
(* The runner *)

(* What a step of the runner leaves alone.                                 *)
LEMMA RunStays ==
    ASSUME BuildInv, driver = "running",
           UNCHANGED <<binary, pc, n, child, fates, status, failed, buffer, out>>
    PROVE  (Counted /\ Fated)'
<1>1. Counted /\ Fated
  BY DEF BuildInv
<1> QED
  BY <1>1 DEF Counted, Fated, Lines, Witnessed

(* Flushing moves lines and changes none.                                  *)
LEMMA FlushKeepsLines ==
    ASSUME Counted, out' = out \o buffer, buffer' = <<>>, n' = n
    PROVE  /\ out' \in Printed /\ buffer' \in Printed
           /\ Len(out') + Len(buffer') = n' - 1
           /\ Lines' = Lines
<1> DEFINE Line == Names \X Verdicts
<1>1. out \in Seq(Line) /\ buffer \in Seq(Line) /\ Len(out) + Len(buffer) = n - 1
  BY DEF Counted, Printed
<1> HIDE DEF Line
<1>2. out' \in Seq(Line) /\ Len(out') = Len(out) + Len(buffer)
  BY <1>1, ConcatProperties
<1>3. buffer' \in Seq(Line) /\ Len(buffer') = 0
  OBVIOUS
<1>4. Lines' = out'
  BY <1>2, ConcatEmptySeq DEF Lines
<1> QED
  BY <1>1, <1>2, <1>3, <1>4 DEF Lines, Printed, Line

LEMMA StartRuns ==
    ASSUME BuildInv, Start
    PROVE  (Counted /\ Fated)'
<1>1. binary' = binary /\ binary \in Seq(Names) /\ Len(binary) \in Nat
  BY DEF Start, disk, BuildInv, DriverInv
<1>2. /\ n' = 1 /\ failed' = 0 /\ pc' = "loop" /\ child' = NoChild
      /\ fates' = <<>> /\ buffer' = <<>> /\ out' = <<>>
  BY DEF Start
<1>3. <<>> \in Printed /\ Len(<<>>) = 0 /\ <<>> \in Seq(Nat \X Endings) /\ DOMAIN <<>> = {}
  BY DEF Printed
<1> QED
  BY <1>1, <1>2, <1>3 DEF Counted, Fated

LEMMA ForkRuns ==
    ASSUME BuildInv, Fork \/ ForkFails
    PROVE  (Counted /\ Fated)'
<1>1. /\ driver = "running" /\ pc = "loop" /\ n <= Len(binary) /\ out' = out \o buffer /\ buffer' = <<>>
      /\ pc' = "forked" /\ child' \in {child, [doing |-> "begin", buffer |-> <<>>]}
      /\ UNCHANGED <<binary, n, fates, status, failed>>
  BY DEF Fork, ForkFails, Running, disk
<1>2. Counted /\ Fated /\ child = NoChild
  BY <1>1 DEF BuildInv, DriverInv, TypeOK
<1>3. /\ out' \in Printed /\ buffer' \in Printed
      /\ Len(out') + Len(buffer') = n' - 1
      /\ Lines' = Lines
  BY <1>1, <1>2, FlushKeepsLines
<1>4. child' \in {NoChild} \cup Alive
  BY <1>1, <1>2 DEF Alive
<1>5. \A j \in DOMAIN fates : fates[j][1] < n
  BY <1>1, <1>2 DEF Fated, Witnessed, NoChild
<1> QED
  BY <1>1, <1>2, <1>3, <1>4, <1>5 DEF Counted, Fated, Witnessed

LEMMA FilesRun ==
    ASSUME BuildInv, ParentMakesFile \/ ChildMakesFile
    PROVE  (Counted /\ Fated)'
<1>1. CASE ParentMakesFile
  <2>1. driver = "running" /\ pc = "forked" /\ pc' = "waiting"
        /\ UNCHANGED <<binary, n, child, fates, status, failed, buffer, out>>
    BY <1>1 DEF ParentMakesFile, Running, disk, printed
  <2>2. Counted /\ Fated
    BY <2>1 DEF BuildInv
  <2> QED
    BY <2>1, <2>2 DEF Counted, Fated, Lines, Witnessed
<1>2. CASE ChildMakesFile
  <2>1. child.doing = "begin" /\ child' = [child EXCEPT !.doing = "test"]
        /\ UNCHANGED <<binary, pc, n, fates, status, failed, buffer, out>>
    BY <1>2 DEF ChildMakesFile, disk, printed
  <2>2. child # NoChild
    BY <2>1 DEF NoChild
  <2>3. Counted /\ Fated
    BY <2>2 DEF BuildInv, DriverInv, TypeOK
  <2>4. child \in Alive
    BY <2>1, <2>2, <2>3 DEF Counted, Ended
  <2>5. child' \in Alive
    BY <2>1, <2>4 DEF Alive
  <2>6. \A j \in DOMAIN fates : Witnessed(fates[j])'
    BY <2>1, <2>3 DEF Fated, Witnessed
  <2> QED
    BY <2>1, <2>3, <2>5, <2>6 DEF Counted, Fated, Lines
<1> QED
  BY <1>1, <1>2

(* The test that ends is the n-th, and has not ended before.               *)
LEMMA EndRuns ==
    ASSUME BuildInv, TestEnds
    PROVE  (Counted /\ Fated)'
<1>1. PICK ending \in Endings, says \in BOOLEAN : ChildEnds(ending, says)
  BY DEF TestEnds
<1>2. /\ child.doing = "test" /\ child' = [doing |-> "ended", status |-> ending]
      /\ fates' = Append(fates, <<n, ending>>)
      /\ out' \in {out \o child.buffer, out}
      /\ UNCHANGED <<binary, pc, n, status, failed, buffer>>
  BY <1>1 DEF ChildEnds, disk
<1>3. child # NoChild
  BY <1>2 DEF NoChild
<1>4. Counted /\ Fated
  BY <1>3 DEF BuildInv, DriverInv, TypeOK
<1>5. child.buffer = <<>>
  BY <1>2, <1>3, <1>4 DEF Counted, Ended, Alive
<1>6. out' = out
  <2> DEFINE Line == Names \X Verdicts
  <2>1. out \in Seq(Line)
    BY <1>4 DEF Counted, Printed
  <2> HIDE DEF Line
  <2> QED
    BY <1>2, <1>5, <2>1, ConcatEmptySeq
<1>7. child' \in Ended
  BY <1>2 DEF Ended
<1>8. Counted'
  BY <1>2, <1>4, <1>6, <1>7 DEF Counted, Lines
<1>9. Fated'
  <2>1. fates \in Seq(Nat \X Endings) /\ n \in Nat /\ <<n, ending>> \in Nat \X Endings
    BY <1>4 DEF Counted, Fated
  <2>2. fates' \in Seq(Nat \X Endings)
        /\ \A j \in DOMAIN fates' : (j \in DOMAIN fates /\ fates'[j] = fates[j])
                                      \/ fates'[j] = <<n, ending>>
    BY <1>2, <2>1
  <2>3. ASSUME NEW j \in DOMAIN fates'
        PROVE  \/ fates'[j][1] < n'
               \/ fates'[j][1] = n' /\ child'.doing = "ended" /\ fates'[j][2] = child'.status
               \/ fates'[j][1] = n' /\ pc' = "judging" /\ fates'[j][2] = status'
    <3>1. CASE fates'[j] = <<n, ending>>
      <4>1. fates'[j][1] = n /\ fates'[j][2] = ending
        BY <3>1
      <4>2. child'.doing = "ended" /\ child'.status = ending
        BY <1>2
      <4> QED
        BY <1>2, <4>1, <4>2
    <3>2. CASE j \in DOMAIN fates /\ fates'[j] = fates[j]
      <4>1. child.doing # "ended"
        BY <1>2
      <4>2. fates[j][1] < n \/ (fates[j][1] = n /\ pc = "judging" /\ fates[j][2] = status)
        BY <1>4, <3>2, <4>1 DEF Fated, Witnessed
      <4> QED
        BY <1>2, <3>2, <4>2
    <3> QED
      BY <2>2, <3>1, <3>2
  <2>4. ASSUME NEW j \in DOMAIN fates', NEW k \in 1..n - 1, fates'[j][1] = k
        PROVE  Judged(Lines[k][2], binary[k], fates'[j][2])
    <3>1. fates'[j] # <<n, ending>>
      BY <2>1, <2>4
    <3> QED
      BY <1>4, <2>2, <2>4, <3>1 DEF Fated
  <2>5. Lines' = Lines
    BY <1>2, <1>6 DEF Lines
  <2> QED
    BY <1>2, <2>2, <2>3, <2>4, <2>5 DEF Fated, Witnessed
<1> QED
  BY <1>8, <1>9

LEMMA WaitRuns ==
    ASSUME BuildInv, Wait \/ WaitForNone
    PROVE  (Counted /\ Fated)'
<1>1. /\ driver = "running" /\ pc = "waiting" /\ pc' = "judging" /\ child' = NoChild
      /\ UNCHANGED <<binary, n, fates, failed, buffer, out>>
      /\ child = NoChild \/ status' = child.status
  BY DEF Wait, WaitForNone, Running, disk, printed
<1>2. Counted /\ Fated
  BY <1>1 DEF BuildInv
<1>3. \A j \in DOMAIN fates : Witnessed(fates[j])'
  BY <1>1, <1>2 DEF Fated, Witnessed, NoChild
<1> QED
  BY <1>1, <1>2, <1>3 DEF Counted, Fated, Lines

(* The line printed says how the test ended, if it did.                    *)
LEMMA JudgeRuns ==
    ASSUME BuildInv, Judge
    PROVE  (Counted /\ Fated)'
<1> DEFINE verdict == IF Passes THEN "PASS" ELSE "FAIL"
           line == <<binary[n], verdict>>
           Line == Names \X Verdicts
<1>1. /\ driver = "running" /\ pc = "judging" /\ pc' = "loop" /\ n' = n + 1
      /\ buffer' = Append(buffer, line)
      /\ failed' = IF Passes THEN failed ELSE failed + 1
      /\ UNCHANGED <<binary, child, fates, status, out>>
  BY DEF Judge, Running, disk, Test
<1>2. Counted /\ Fated /\ child = NoChild /\ binary \in Seq(Names)
  BY <1>1 DEF BuildInv, DriverInv, TypeOK
<1>3. n \in Nat \ {0} /\ n <= Len(binary) /\ Len(binary) \in Nat /\ binary[n] \in Names
  BY <1>1, <1>2 DEF Counted
<1>4. line \in Line /\ Judged(verdict, binary[n], status)
  <2>1. verdict \in Verdicts
    BY DEF Verdicts
  <2>2. verdict = "PASS" <=> Passes
    OBVIOUS
  <2>3. Judged(verdict, binary[n], status)
    <3> HIDE DEF verdict
    <3> QED
      BY <2>2 DEF Judged, Passes, Test
  <2> QED
    BY <1>3, <2>1, <2>3
<1>5. /\ out \in Seq(Line) /\ buffer \in Seq(Line) /\ Len(out) + Len(buffer) = n - 1
      /\ Len(out) \in Nat /\ Len(buffer) \in Nat
  BY <1>2 DEF Counted, Printed
<1> HIDE DEF Line, line
<1>6. /\ buffer' \in Seq(Line) /\ Len(buffer') = Len(buffer) + 1
      /\ \A i \in 1..Len(buffer) : buffer'[i] = buffer[i]
      /\ buffer'[Len(buffer) + 1] = line
  BY <1>1, <1>4, <1>5
<1>7. \A k \in 1..n : Lines'[k] = IF k <= Len(out) THEN out[k] ELSE buffer'[k - Len(out)]
  <2>1. /\ Lines' = out \o buffer'
        /\ \A k \in 1..Len(out) + Len(buffer') :
               (out \o buffer')[k] = IF k <= Len(out) THEN out[k] ELSE buffer'[k - Len(out)]
    BY <1>1, <1>5, <1>6, ConcatProperties DEF Lines
  <2>2. Len(out) + Len(buffer') = n
    BY <1>3, <1>5, <1>6
  <2> QED
    BY <2>1, <2>2
<1>8. \A k \in 1..n - 1 : Lines[k] = IF k <= Len(out) THEN out[k] ELSE buffer[k - Len(out)]
  BY <1>5, ConcatProperties DEF Lines
<1>9. \A k \in 1..n - 1 : Lines'[k] = Lines[k]
  <2> SUFFICES ASSUME NEW k \in 1..n - 1 PROVE Lines'[k] = Lines[k]
    OBVIOUS
  <2>1. k \in 1..n /\ k \in Int
    BY <1>3
  <2>2. CASE k <= Len(out)
    BY <1>7, <1>8, <2>1, <2>2
  <2>3. CASE ~ (k <= Len(out))
    <3>1. k - Len(out) \in 1..Len(buffer)
      BY <1>3, <1>5, <2>3
    <3>2. buffer'[k - Len(out)] = buffer[k - Len(out)]
      BY <1>6, <3>1
    <3> QED
      BY <1>7, <1>8, <2>1, <2>3, <3>2
  <2> QED
    BY <2>2, <2>3
<1>10. Lines'[n] = line
  BY <1>3, <1>5, <1>6, <1>7
<1>11. line[1] = binary[n] /\ line[2] = verdict
  BY DEF line
<1>12. \A k \in 1..n' - 1 : k \in 1..n - 1 \/ k = n
  BY <1>1, <1>3
<1>13. Counted'
  <2>1. \A k \in 1..n' - 1 : Lines'[k][1] = binary'[k]
    BY <1>1, <1>2, <1>9, <1>10, <1>11, <1>12 DEF Counted
  <2>2. n' \in Nat \ {0} /\ n' <= Len(binary) + 1 /\ Len(out) + Len(buffer') = n' - 1
    BY <1>1, <1>3, <1>5, <1>6
  <2>3. failed' \in Nat /\ (failed' > 0 <=> failed > 0 \/ ~ Passes)
    BY <1>1, <1>2 DEF Counted
  <2>4. verdict = "FAIL" <=> ~ Passes
    OBVIOUS
  <2>5. failed' > 0 <=> \E k \in 1..n' - 1 : Lines'[k][2] = "FAIL"
    <3> HIDE DEF verdict
    <3>1. failed > 0 <=> \E k \in 1..n - 1 : Lines[k][2] = "FAIL"
      BY <1>2 DEF Counted
    <3>2. (\E k \in 1..n' - 1 : Lines'[k][2] = "FAIL")
              <=> (\E k \in 1..n - 1 : Lines'[k][2] = "FAIL") \/ Lines'[n][2] = "FAIL"
      <4>1. 1..n - 1 \subseteq 1..n' - 1 /\ n \in 1..n' - 1
        BY <1>1, <1>3
      <4> QED
        BY <1>12, <4>1
    <3>3. (\E k \in 1..n - 1 : Lines'[k][2] = "FAIL") <=> (\E k \in 1..n - 1 : Lines[k][2] = "FAIL")
      BY <1>9
    <3>4. Lines'[n][2] = "FAIL" <=> ~ Passes
      BY <1>10, <1>11, <2>4
    <3> QED
      BY <2>3, <3>1, <3>2, <3>3, <3>4
  <2> QED
    BY <1>1, <1>2, <1>5, <1>6, <2>1, <2>2, <2>3, <2>5 DEF Counted, Printed, Line
<1>14. Fated'
  <2>1. ASSUME NEW j \in DOMAIN fates
        PROVE  fates[j][1] \in Nat /\ (fates[j][1] < n \/ (fates[j][1] = n /\ fates[j][2] = status))
    BY <1>2 DEF Fated, Witnessed, NoChild
  <2>2. ASSUME NEW j \in DOMAIN fates, NEW k \in 1..n' - 1, fates[j][1] = k
        PROVE  Judged(Lines'[k][2], binary[k], fates[j][2])
    <3>1. CASE k \in 1..n - 1
      BY <1>2, <1>9, <2>2, <3>1 DEF Fated
    <3>2. CASE k = n
      <4>1. fates[j][2] = status
        BY <1>3, <2>1, <2>2, <3>2
      <4> QED
        BY <1>4, <1>10, <1>11, <3>2, <4>1
    <3> QED
      BY <1>12, <2>2, <3>1, <3>2
  <2>3. \A j \in DOMAIN fates : Witnessed(fates[j])'
    BY <1>1, <1>3, <2>1 DEF Witnessed
  <2> QED
    BY <1>1, <1>2, <2>2, <2>3 DEF Fated
<1> QED
  BY <1>13, <1>14

-----------------------------------------------------------------------------
(* The invariant is inductive.                                             *)
LEMMA BuildIsSound == Spec => []BuildInv
<1>1. Init => BuildInv
  <2> SUFFICES ASSUME Init PROVE BuildInv
    OBVIOUS
  <2>1. <<>> \in Seq(Names)
    OBVIOUS
  <2> QED
    BY <2>1 DEF Init, BuildInv, DriverInv, TypeOK
<1>2. BuildInv /\ [Next]_vars => BuildInv'
  <2> SUFFICES ASSUME BuildInv, [Next]_vars PROVE BuildInv'
    OBVIOUS
  <2>1. DriverInv'
    BY DriverKeeps DEF BuildInv
  <2> SUFFICES ASSUME driver' = "running" PROVE (Counted /\ Fated)'
    BY <2>1 DEF BuildInv
  <2>2. CASE CleanAll \/ Glob \/ GlobFails \/ Generate \/ GenerateFails \/ Compile \/ CompileFails \/ Finish
    BY <2>2 DEF CleanAll, Glob, GlobFails, Generate, GenerateFails, Compile, CompileFails, Finish, Exit
  <2>3. CASE Edit \/ UNCHANGED vars
    <3>1. driver = "running" /\ UNCHANGED <<binary, pc, n, child, fates, status, failed, buffer, out>>
      BY <2>3 DEF Edit, vars, disk, command, run, printed
    <3> QED
      BY <3>1, RunStays
  <2> QED
    BY <2>2, <2>3, StartRuns, ForkRuns, FilesRun, EndRuns, WaitRuns, JudgeRuns DEF Next, Command, GoOn
<1> QED
  BY <1>1, <1>2, PTL DEF Spec

(* The runner's table is the tests this command found, whatever was there  *)
(* before and however the directory changes (build.c:209, 249-260).        *)
THEOREM NoStaleBinary == Spec => []RunsWhatWasFound
<1>1. BuildInv => RunsWhatWasFound
  BY DEF BuildInv, DriverInv, RunsWhatWasFound
<1> QED
  BY <1>1, BuildIsSound, PTL

(* Each test that ran has one line, in the order of the table, and what it *)
(* says is how its process ended, in whatever order the two processes      *)
(* wrote and flushed (build.c:112-131).                                    *)
THEOREM LinesTellFates == Spec => []VerdictsAreRight
<1>1. BuildInv => VerdictsAreRight
  <2> SUFFICES ASSUME BuildInv, driver = "running" PROVE VerdictsAreRight
    BY DEF VerdictsAreRight
  <2> DEFINE Line == Names \X Verdicts
  <2>1. Counted /\ Fated /\ binary \in Seq(Names)
    BY DEF BuildInv, DriverInv
  <2>2. /\ out \in Seq(Line) /\ buffer \in Seq(Line) /\ Len(out) + Len(buffer) = n - 1
        /\ n \in Nat \ {0} /\ n <= Len(binary) + 1 /\ Len(binary) \in Nat
    BY <2>1 DEF Counted, Printed
  <2> HIDE DEF Line
  <2>3. Lines \in Seq(Line) /\ Len(Lines) = n - 1
    BY <2>2, ConcatProperties DEF Lines
  <2>4. DOMAIN Lines = 1..n - 1
    BY <2>3
  <2>5. [k \in DOMAIN Lines |-> Lines[k][1]] = SubSeq(binary, 1, n - 1)
    <3>1. 1..n - 1 \subseteq 1..Len(binary) /\ n - 1 \in Nat /\ 1 \in Int /\ n - 1 \in Int
      BY <2>2
    <3>2. \A i \in 1..n - 1 : binary[i] \in Names
      BY <2>1, <3>1
    <3>3. /\ SubSeq(binary, 1, n - 1) \in Seq(Names)
          /\ Len(SubSeq(binary, 1, n - 1)) = IF 1 <= n - 1 THEN n - 1 - 1 + 1 ELSE 0
          /\ \A i \in 1..n - 1 - 1 + 1 : SubSeq(binary, 1, n - 1)[i] = binary[1 + i - 1]
      BY <3>1, <3>2, SubSeqProperties
    <3>4. n - 1 - 1 + 1 = n - 1 /\ \A i \in 1..n - 1 : 1 + i - 1 = i
      BY <2>2
    <3>5. Len(SubSeq(binary, 1, n - 1)) = n - 1
      BY <2>2, <3>3
    <3>6. \A i \in 1..n - 1 : SubSeq(binary, 1, n - 1)[i] = binary[i]
      BY <3>3, <3>4
    <3> DEFINE s == SubSeq(binary, 1, n - 1)
    <3>7. s \in [1..n - 1 -> Names]
      <4>1. s \in Seq(Names) /\ Len(s) = n - 1
        BY <3>3, <3>5
      <4> HIDE DEF s
      <4> QED
        BY <4>1
    <3>8. \A k \in 1..n - 1 : Lines[k][1] = s[k]
      BY <2>1, <3>6 DEF Counted
    <3> HIDE DEF s
    <3> QED
      BY <2>4, <3>7, <3>8 DEF s
  <2>6. ASSUME NEW k \in DOMAIN Lines, NEW ending \in FateOf(k)
        PROVE  Judged(Lines[k][2], binary[k], ending)
    <3>1. PICK j \in DOMAIN fates : fates[j][1] = k /\ fates[j][2] = ending
      BY DEF FateOf, ToSet
    <3> QED
      BY <2>1, <2>4, <3>1 DEF Fated
  <2> QED
    BY <2>5, <2>6 DEF VerdictsAreRight, Judged
<1> QED
  BY <1>1, BuildIsSound, PTL

(* A command that ran its tests exits 0 exactly when every line says PASS, *)
(* and the lines are all written by then (build.c:143-144, 260, 315).      *)
THEOREM ExitCodeTells == Spec => ExitSaysAll
<1> DEFINE Told == /\ Len(out') = Len(binary)
                   /\ (code' = 0) = (\A k \in DOMAIN out' : out'[k][2] = "PASS")
<1>1. BuildInv /\ [Next]_vars => (driver = "running" /\ driver' = "idle" => Told)
  <2> SUFFICES ASSUME BuildInv, [Next]_vars, driver = "running", driver' = "idle" PROVE Told
    OBVIOUS
  <2> DEFINE Line == Names \X Verdicts
  <2>1. Finish
    BY DEF Next, Command, GoOn, Edit, CleanAll, Glob, GlobFails, Generate, GenerateFails, Compile, CompileFails,
           Start, Fork, ForkFails, ParentMakesFile, ChildMakesFile, TestEnds, ChildEnds, Wait, WaitForNone,
           Judge, vars, disk, command, run
  <2>2. n > Len(binary) /\ out' = out \o buffer /\ code' = IF failed > 0 THEN 1 ELSE 0
    BY <2>1 DEF Finish, Exit
  <2>3. Counted /\ binary \in Seq(Names)
    BY DEF BuildInv, DriverInv
  <2>4. /\ out \in Seq(Line) /\ buffer \in Seq(Line) /\ Len(out) + Len(buffer) = n - 1
        /\ n \in Nat \ {0} /\ n <= Len(binary) + 1 /\ Len(binary) \in Nat
        /\ Len(out) \in Nat /\ Len(buffer) \in Nat
    BY <2>3 DEF Counted, Printed
  <2>5. \A l \in Line : l[2] = "PASS" \/ l[2] = "FAIL"
    BY DEF Verdicts
  <2> HIDE DEF Line
  <2>6. /\ out' \in Seq(Line) /\ Len(out') = Len(out) + Len(buffer)
        /\ \A i \in 1..Len(out) + Len(buffer) :
               out'[i] = IF i <= Len(out) THEN out[i] ELSE buffer[i - Len(out)]
    BY <2>2, <2>4, ConcatProperties
  <2>7. DOMAIN out' = 1..Len(out) + Len(buffer)
    BY <2>6
  <2>8. Len(out') = Len(binary)
    BY <2>2, <2>4, <2>6
  <2>9. (\E k \in DOMAIN out' : out'[k][2] = "FAIL") <=> failed > 0
    <3>1. failed > 0 <=> \E k \in 1..n - 1 : Lines[k][2] = "FAIL"
      BY <2>3 DEF Counted
    <3>2. Lines = out' /\ DOMAIN out' = 1..n - 1
      BY <2>2, <2>4, <2>7 DEF Lines
    <3> QED
      BY <3>1, <3>2
  <2>10. \A k \in DOMAIN out' : out'[k][2] = "PASS" \/ out'[k][2] = "FAIL"
    BY <2>5, <2>6
  <2>11. (\A k \in DOMAIN out' : out'[k][2] = "PASS") <=> ~ (failed > 0)
    BY <2>9, <2>10
  <2>12. (code' = 0) <=> ~ (failed > 0)
    BY <2>2
  <2> QED
    BY <2>8, <2>11, <2>12
<1>2. BuildInv /\ [Next]_vars => [driver = "running" /\ driver' = "idle" => Told]_vars
  BY <1>1
<1> QED
  BY <1>2, BuildIsSound, PTL DEF Spec, ExitSaysAll
=============================================================================
