------------------------------- MODULE Build --------------------------------
(***************************************************************************)
(* The build and test driver (build.c) for one concept, and the runner it  *)
(* generates, which forks a process for each test.                         *)
(*                                                                         *)
(* A test is a number: its place in the order of names.  What the files    *)
(* test_main.c and test_<concept> hold is the table of the tests they were *)
(* made of.  The compiler, the file system and the tests are external: a   *)
(* step of theirs has any outcome they may have.                           *)
(***************************************************************************)
EXTENDS Integers, SequencesExt

CONSTANTS
    Names,         \* test files the concept may have
    Aborts,        \* those whose names end in "_aborts"
    MaxTests,      \* MAX_TESTS
    MaxCommands,   \* bound: commands given
    MaxEdits       \* bound: test files added or removed

ASSUME BuildAssumption ==
    /\ Names \subseteq Nat /\ IsFiniteSet(Names) /\ Aborts \subseteq Names
    /\ {MaxTests, MaxCommands, MaxEdits} \subseteq Nat

VARIABLES
    tests,      \* the test files there are
    main,       \* what test_main.c holds, or NoFile
    binary,     \* what test_<concept> holds, or NoFile
    edits, commands,
    driver,     \* "idle", "globbed", "generated", "compiled" or "running"
    listed,     \* the tests the command found
    code,       \* the exit code of the last command
    pc,         \* the runner: "loop", "forked", "waiting" or "judging"
    n,          \* the test in its table
    child,      \* the process of that test
    fates,      \* how the tests of this run ended, those that did
    files,      \* files in /tmp, and what was written into each
    status,     \* the exit status the runner goes by
    failed,     \* how many tests it says failed
    buffer,     \* what it has printed and not flushed
    out,        \* what reached standard output
    shown       \* the tests whose errors are on standard error

disk == <<tests, main, binary, edits>>
command == <<commands, driver, listed, code>>
printed == <<buffer, out, shown>>
run == <<pc, n, child, fates, files, status, failed, printed>>
vars == <<disk, command, run>>

NoFile == <<>>   \* a table is never empty
NoChild == [doing |-> "none"]

(* How a test's process may end.  A return is followed by _exit(0).        *)
Endings == {"return", "exit 0", "exit 1", "signal"}
Clean(ending) == ending \in {"return", "exit 0"}

Init ==
    /\ tests \in SUBSET Names
    /\ main = NoFile /\ binary = NoFile
    /\ edits = 0 /\ commands = 0
    /\ driver = "idle" /\ listed = <<>> /\ code = 0
    /\ pc = "loop" /\ n = 1
    /\ child = NoChild /\ fates = <<>>
    /\ files = <<>>
    /\ status = "return" /\ failed = 0
    /\ buffer = <<>> /\ out = <<>> /\ shown = {}

-----------------------------------------------------------------------------
(* Someone adds or removes a test file, at any time.                       *)
Edit ==
    /\ edits < MaxEdits
    /\ edits' = edits + 1
    /\ \E t \in Names : tests' = IF t \in tests THEN tests \ {t} ELSE tests \cup {t}
    /\ UNCHANGED <<main, binary, command, run>>

Exit(with) ==
    /\ driver' = "idle"
    /\ code' = with

CleanAll ==
    /\ driver = "idle" /\ commands < MaxCommands
    /\ commands' = commands + 1
    /\ main' = NoFile /\ binary' = NoFile
    /\ Exit(0)
    /\ UNCHANGED <<tests, edits, listed, run>>

(* The directory is read in any order until MaxTests are found, and what   *)
(* was found is sorted.  test_main.c is passed over.                       *)
Found ==
    LET count == IF Cardinality(tests) < MaxTests THEN Cardinality(tests) ELSE MaxTests
    IN  {s \in [1..count -> tests] : \A j, k \in 1..count : j < k => s[j] < s[k]}

Glob ==
    /\ driver = "idle" /\ commands < MaxCommands
    /\ commands' = commands + 1
    /\ listed' \in Found
    /\ IF listed' = <<>> THEN Exit(0) ELSE driver' = "globbed" /\ UNCHANGED code
    /\ UNCHANGED <<disk, run>>

GlobFails ==   \* there is no such directory
    /\ driver = "idle" /\ commands < MaxCommands
    /\ commands' = commands + 1
    /\ Exit(1)
    /\ UNCHANGED <<disk, listed, run>>

Generate ==
    /\ driver = "globbed"
    /\ driver' = "generated"
    /\ main' = listed
    /\ UNCHANGED <<tests, binary, edits, commands, listed, code, run>>

GenerateFails ==
    driver = "globbed" /\ Exit(1) /\ UNCHANGED <<disk, commands, listed, run>>

Compile ==
    /\ driver = "generated"
    /\ ToSet(listed) \subseteq tests
    /\ driver' = "compiled"
    /\ binary' = main
    /\ UNCHANGED <<tests, main, edits, commands, listed, code, run>>

CompileFailsRuns ==   \* faulty: what is there is run all the same
    /\ driver = "generated"
    /\ driver' = "compiled"
    /\ UNCHANGED <<disk, commands, listed, code, run>>

(* A failing linker may remove what it was to replace.                     *)
CompileFails ==
    /\ driver = "generated"
    /\ Exit(1)
    /\ binary' \in {binary, NoFile}
    /\ UNCHANGED <<tests, main, edits, commands, listed, run>>

Start ==
    /\ driver = "compiled"
    /\ driver' = "running"
    /\ pc' = "loop" /\ n' = 1 /\ failed' = 0
    /\ child' = NoChild /\ fates' = <<>>
    /\ buffer' = <<>> /\ out' = <<>> /\ shown' = {}
    /\ UNCHANGED <<disk, commands, listed, code, files, status>>

-----------------------------------------------------------------------------
Running(at) == driver = "running" /\ pc = at
Test == binary[n]
File(of) == <<commands, n, of>>

Fork ==
    /\ Running("loop")
    /\ n <= Len(binary)
    /\ out' = out \o buffer   \* fflush
    /\ buffer' = <<>>
    /\ pc' = "forked"
    /\ child' = [doing |-> "begin", buffer |-> <<>>]
    /\ UNCHANGED <<disk, command, n, fates, files, status, failed, shown>>

ForkFails ==
    /\ Running("loop")
    /\ n <= Len(binary)
    /\ out' = out \o buffer
    /\ buffer' = <<>>
    /\ pc' = "forked"
    /\ UNCHANGED <<disk, command, n, child, fates, files, status, failed, shown>>

(* mkstemp: both processes are past the fork, and each makes a file, or    *)
(* has none.                                                               *)
MakeFile(of) == files' \in {(File(of) :> {}) @@ files, files}
HasFile(of) == File(of) \in DOMAIN files

ParentMakesFile ==
    /\ Running("forked")
    /\ MakeFile("parent")
    /\ pc' = "waiting"
    /\ UNCHANGED <<disk, command, n, child, fates, status, failed, printed>>

ChildMakesFile ==
    /\ child.doing = "begin"
    /\ MakeFile("child")
    /\ child' = [child EXCEPT !.doing = "test"]
    /\ UNCHANGED <<disk, command, pc, n, fates, status, failed, printed>>

(* The test writes what is wrong, if anything, to its file or, without     *)
(* one, to standard error, and ends; exit flushes what the child has of    *)
(* standard output, _exit does not.                                        *)
ChildEnds(ending, says) ==
    /\ child.doing = "test"
    /\ child' = [doing |-> "ended", status |-> ending]
    /\ fates' = Append(fates, <<n, ending>>)
    /\ files' = IF says /\ HasFile("child") THEN [files EXCEPT ![File("child")] = {Test}] ELSE files
    /\ shown' = IF says /\ ~ HasFile("child") THEN shown \cup {Test} ELSE shown
    /\ out' = IF ending \in {"exit 0", "exit 1"} THEN out \o child.buffer ELSE out
    /\ UNCHANGED <<disk, command, pc, n, status, failed, buffer>>

TestEnds == \E ending \in Endings, says \in BOOLEAN : ChildEnds(ending, says)

Wait ==
    /\ Running("waiting")
    /\ child.doing = "ended"
    /\ status' = child.status
    /\ child' = NoChild
    /\ pc' = "judging"
    /\ UNCHANGED <<disk, command, n, fates, files, failed, printed>>

WaitAgain ==   \* faulty: waitpid is called until it succeeds
    Running("waiting") /\ child = NoChild /\ UNCHANGED vars

(* There is no process to wait for: status is not written, and was never   *)
(* initialised.                                                            *)
WaitForNone ==
    /\ Running("waiting")
    /\ child = NoChild
    /\ status' \in Endings
    /\ pc' = "judging"
    /\ UNCHANGED <<disk, command, n, child, fates, files, failed, printed>>

PassesSwapped == Clean(status)   \* faulty: tests that must abort are like any other
Passes == IF Test \in Aborts THEN ~ Clean(status) ELSE Clean(status)

(* A failure copies the runner's own file; the file is removed.            *)
Judge ==
    /\ Running("judging")
    /\ buffer' = Append(buffer, <<Test, IF Passes THEN "PASS" ELSE "FAIL">>)
    /\ failed' = IF Passes THEN failed ELSE failed + 1
    /\ shown' = IF Passes \/ ~ HasFile("parent") THEN shown ELSE shown \cup files[File("parent")]
    /\ files' = [f \in DOMAIN files \ {File("parent")} |-> files[f]]
    /\ n' = n + 1
    /\ pc' = "loop"
    /\ UNCHANGED <<disk, command, child, fates, status, out>>

FinishLast ==   \* faulty: the last test decides
    /\ Running("loop")
    /\ n > Len(binary)
    /\ out' = out \o buffer
    /\ buffer' = <<>>
    /\ Exit(IF Last(out')[2] = "FAIL" THEN 1 ELSE 0)
    /\ UNCHANGED <<disk, commands, listed, pc, n, child, fates, files, status, failed, shown>>

Finish ==
    /\ Running("loop")
    /\ n > Len(binary)
    /\ out' = out \o buffer
    /\ buffer' = <<>>
    /\ Exit(IF failed > 0 THEN 1 ELSE 0)
    /\ UNCHANGED <<disk, commands, listed, pc, n, child, fates, files, status, failed, shown>>

Command == Glob \/ GlobFails \/ CleanAll
GoOn ==
    \/ Generate \/ GenerateFails \/ Compile \/ CompileFails \/ Start
    \/ Fork \/ ForkFails \/ ParentMakesFile \/ Wait \/ WaitForNone \/ Judge \/ Finish

Next == Edit \/ Command \/ GoOn \/ ChildMakesFile \/ TestEnds

Spec == Init /\ [][Next]_vars

(* The driver and the runner go on while they can, and tests end; nobody   *)
(* has to give a command.                                                  *)
FairSpec == Spec /\ WF_vars(GoOn) /\ WF_vars(ChildMakesFile) /\ WF_vars(TestEnds)
=============================================================================
