------------------------------ MODULE BuildRef ------------------------------
(***************************************************************************)
(* What the driver and the runner promise (README.md "Running Tests",      *)
(* TESTING.md).                                                            *)
(***************************************************************************)
EXTENDS Build

Lines == out \o buffer
FateOf(k) == {f[2] : f \in {f \in ToSet(fates) : f[1] = k}}

(* Every variable has its type; a process exists only between the fork and *)
(* the wait.                                                               *)
TypeOK ==
    /\ tests \subseteq Names
    /\ driver \in {"idle", "globbed", "generated", "compiled", "running"}
    /\ code \in {0, 1}
    /\ pc \in {"loop", "forked", "waiting", "judging"}
    /\ child # NoChild => driver = "running" /\ pc \in {"forked", "waiting"}

(* The runner's table is the tests this command found: a binary of an      *)
(* earlier command is never run (build.c:209, 249-260).                    *)
RunsWhatWasFound == TypeOK /\ (driver = "running" => binary = listed)

(* Each test that ran has one line, in the order of the table, whether or  *)
(* not processes flush what they inherited; a line is printed only when    *)
(* the test's process has ended, if there was one, and says PASS exactly   *)
(* when it ended the way the test is to end (build.c:112-131; TESTING.md   *)
(* "Expected Aborts").                                                     *)
VerdictsAreRight ==
    driver = "running" =>
        /\ [k \in DOMAIN Lines |-> Lines[k][1]] = SubSeq(binary, 1, n - 1)
        /\ \A k \in DOMAIN Lines : \A ending \in FateOf(k) :
              Lines[k][2] = "PASS" <=> (IF binary[k] \in Aborts THEN ~ Clean(ending)
                                                                ELSE Clean(ending))

(* A command that ran tests exits 0 exactly when every line says PASS, and *)
(* by then every line has been written (build.c:143-144, 260, 315;         *)
(* TESTING.md "Exits 0 if all tests pass, 1 otherwise").                   *)
ExitSaysAll ==
    [][driver = "running" /\ driver' = "idle" =>
          /\ Len(out') = Len(binary)
          /\ (code' = 0) = (\A k \in DOMAIN out' : out'[k][2] = "PASS")]_vars

(* Every command ends if the tests do, even if no process could be made.   *)
(* Checked under the fairness of FairSpec.                                 *)
CommandsEnd == []<>(driver = "idle")

(* build.c:132: "Dump captured stderr on failure".                         *)
FailuresAreShown ==
    driver = "running" => \A k \in DOMAIN Lines :
        /\ Lines[k][2] = "FAIL"
        /\ binary[k] \in UNION {files[f] : f \in DOMAIN files}
        => Lines[k][1] \in shown

(* TESTING.md: the runner forks a process per test and checks its status:  *)
(* a test that did not run does not pass.                                  *)
PassesRan ==
    driver = "running" => \A k \in DOMAIN Lines : Lines[k][2] = "PASS" => FateOf(k) # {}

(* README.md: the driver globs all test_*.c files.                         *)
AllAreFound == driver = "globbed" /\ edits = 0 => ToSet(listed) = tests
=============================================================================
