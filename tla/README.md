# Verification of enkor

enkor is a small Lisp in C: values (`val`), a tokenizer (`tok`), a reader
(`parse`), an evaluator that runs in single steps (`step`), a JSON conversion
(`json`) and a build and test driver (`build.c`). This directory holds TLA+
modules of its parts, TLC configurations that check them on small instances, and
proofs for TLAPS. Paths such as `step.c:493` are relative to the directory of the
concept in the repository.

## The system

| Component | State | Operations |
|---|---|---|
| `val`: maps | table of slots (keys, vals, cap, len), immutable once built | `val_map`, `val_map_get`, `val_map_entry` |
| `val`: order, hash | none; the hash is stored at construction | `val_cmp`, `compute_hash` |
| `val`: memory | a reference count per value | constructors, `val_retain`, `val_release`, accessors with assertions |
| `tok` | position, line, column, tokens so far | `tok` |
| `parse` | position, C activations with arrays of forms | `parse` |
| `step` | the state map `:expr :env :stack :status [:effect]` | `step_init`, `step` |
| `json` | none | `json_to_val`, `val_to_json` over the vendored cJSON |
| `build.c` | generated runner; child processes, files for their stderr | `test`, `clean` |

`parse` calls `tok` and gets a list of token maps; a driver gives forms from
`parse` to `step_init` and calls `step` until the state is done; a suspended state
is answered by a runtime that is not in the repository. Everything is built from
`val`: the frames and environments of `step` are maps and lists, so lookups of a
variable are probes of a hash map. There are no threads; processes are forked by the
generated test runner only. What is hard is of another kind:

- **Evaluation as data.** `step` keeps its continuation in a stack of frames; a
  value is delivered to a frame long after it was pushed, and the frame must
  still hold what it needs: operands in order, the rest of the bindings, the
  right environment. Effects suspend the machine anywhere in a program and the
  answer must land where the call was.
- **Unchecked access.** `val_list_get` and `val_len` end the process on a wrong
  index or type; `deliver_value` takes items from frames without looking.
- **Loops without an obvious end.** The two probes are `for (;;)`; `apply_fn` and
  `deliver_value` call each other inside one `step()`.
- **Order and hash.** Maps rest on equal values having equal hashes, with signed
  zeros, NaNs, and maps whose slot order depends on how they were built.
- **Ownership by hand.** Every path out of the reader, the evaluator and the JSON
  conversion, the failing ones included, has to release what it holds, and borrowed
  values must outlive calls that release others.
- **Widths.** The tokenizer reads into fixed buffers and 64-bit ints; JSON has
  doubles and C strings where values have ints and bytes.
- **Processes.** The runner shares a buffer and files with the processes it forks,
  and forks and compilers fail.

The list `hazards` of `PROJECT.json` names each at its line with the properties
that watch it, or says why none does.

## Modules

| Module | What it is |
|---|---|
| `MapSpec` | what a `VAL_MAP` promises: pairs written in order to a function, then read |
| `ValMap` | `val_map`, `val_map_get`, `val_map_entry` slot by slot; `ImplementsMap` is the refinement of `MapSpec` |
| `MCValMap` | five keys with chosen collisions |
| `ValCmp` | `val_cmp`, `compute_hash` as recursive functions; a step compares one more value |
| `MCValCmp` | values of all twelve types |
| `ValProofs` | theorems about `ValMap` and `ValCmp` |
| `Step` | `step_init`, `step`, `step_eval`, `deliver_value`, `apply_fn`, `handle_recur`, and the driver |
| `StepText` | where the forms of a program stand in its text, and what the stack promises by that |
| `StepRef` | a semantics of the forms without a stack, and the properties that compare the machine with it |
| `StepProofs` | theorems about `Step`, `StepText` and `StepRef` |
| `MCStep` | the programs |
| `StepOwn` | the same functions as `Step`, by what references they hold, lend and release |
| `StepOwnRef`, `MCStepOwn` | the promises about them; their run |
| `StepOwnProofs` | theorems about `StepOwn` |
| `Parse` | `parse`, its activations as a stack |
| `ParseRef` | a grammar of token lists, and the promises of parse.md over it |
| `ParseProofs` | theorems about `Parse`: what it releases, what it answers, where its errors are |
| `MCParse` | the token lists |
| `Tok` | `tok`, character by character |
| `TokRef` | the longest tokens of a text by their definition, and the promises of tok.md |
| `Reader` | `Tok` and `Parse` composed: a text becomes forms |
| `ReaderRef` | what the two promise together, over characters and brackets only |
| `ReaderProofs` | theorems about `Tok`, its buffers, tokens and errors, and about `Reader` |
| `MCReader` | the texts |
| `ValHeap` | constructors, `val_retain`, `val_release` on a heap of addresses |
| `ValHeapRef`, `MCValHeap` | what reference counting is for; a small heap |
| `ValHeapProofs` | theorems about `ValHeap` |
| `Json` | `val_to_json` node by node, `json_to_val` as a function on trees |
| `JsonRef`, `MCJson` | the promises of json.md; values and texts |
| `JsonProofs` | theorems about `Json` |
| `Build` | the driver's commands and the generated runner with its processes |
| `BuildRef`, `MCBuild` | the promises of TESTING.md; three test files |
| `BuildProofs` | theorems about `Build` |

### ValMap

The variables are the locals and fields of the code: `cap`, `keys`, `vals`,
`count` (`as.map.len` when finished), `next` for `i`, and `dist`, the number of
slots the running probe has passed; the code's `slot` is `SlotAt(key, dist)`. `%
cap` is the code's `& (cap - 1)`, for `cap` is a power of two in the code, which
starts at 8 and doubles; nothing in the proofs needs the power. One action is one turn
of a loop (`Grow`, `InsertFree`, `InsertSame`, `InsertProbe`, `GetMiss`, `GetHit`,
`GetProbe`) or the code before and after it. A key stands for a class of values
`val_cmp` calls equal; that they share a hash is `EqualValuesHashAlike` of `ValCmp`.

### ValCmp

A value is its type and payload, a map the sequence of its entries in slot order,
in any order. `cmp` and `hash` are functions on `Values` and call themselves for the
values within one (`Within`). The specification `Comparing` has three variables that
hold values to be compared, for what is said of pairs and of triples. Hash functions are free constructors: two hashes are equal when they
are computed from equal inputs, so the contract checked does not lean on the FNV
constants, nor on collisions. C's `qsort` is external: any sort by the given
comparison gives the same sequence up to entries that compare equal.

### Step

`expr`, `env`, `stack`, `status` and `effect` are the keys of the state map. The
model adds `ctl`: inside one `step()` a builtin, an atom or a finished loop
delivers its value and `deliver_value` may go on with the frame below; each such
activation is an action, and `ctl` is `"deliver"` between them. Frames are records
with the fields of `make_frame2` to `make_frame5`; a scope is a function on names,
an env a sequence of scopes, innermost first. A closure carries its env. A map
that only claims to be a closure (`{:type :fn}`) is a value of its own, for
`apply_fn` does not tell it from one until it is too late.

`StepCall` is the driver, with at most `MaxSteps` calls. At a suspension it
either lets the runtime answer (`Resume`, external: the answer takes the place of
`:expr`, as step.md:70 asks of a runtime) or steps the suspended state as the loop
of step.md:34-42 would (`StepSuspended`, an error in the code). An answer is a
value such as programs are made of. `log` remembers the requests.

`StepRef!Ev` gives each form its meaning by recursion on what there is to evaluate
(`Tasks`: a form, forms from left to right, pairs to bind, rounds of a loop), without a
stack. `Meanings` follows it for `n` tasks inside each other. Meanings are functions on
tasks, so the values that tasks are made of need a set: `Universe` has all that can be
made from a program's values in `Fuel = 2 * MaxSteps + 1` turns, level by level, for
one turn makes at most a closure or the loop that a recur starts again; and in
`MaxSteps` steps the machine takes no more turns than that.
There is one parameter that matters, `lex`: with `FALSE` an expression hands the
environment it ended in on to its successor, as the code does; with `TRUE` scopes
end with their form. `MachineMeansForms` compares the machine with the first,
`QuietScopesAreLexical` and `ScopesAreLexical` with the second.

`StepText!Occurrences(p)` is the text of program `p` as the set of its forms that are
evaluated, each with its place: in tail position of a loop (`recur`), the last thing its
function does (`tail`), or where no environment is left behind (`quiet`). `TailCalls`,
`RecursPlaced`, `ScopesQuiet` and `NoEmptyLoop` speak of it; what calls a closure is any
call but one of a library name that the program binds nowhere, since a program may bind
`+` to a function of its own. The answers of a runtime are evaluated in place of the call,
so an answer that is a list would be a program of its own, in no text: `Plain` excludes it.

### Parse

The C stack is `frames`, an activation of `parse`, `parse_list` or `parse_map`
with the place of its bracket and the forms in its array; a map's array alternates
keys and values, so a key is pending when its length is odd. `owned` counts the
references the activations answer for: the token list, the forms in the arrays, a
result or error on its way. A token is its type and value; line and column are its
index. Alone, `Parse` takes any token list, or an error that is passed on; in `Reader` they come
from `Tok`.

### Tok and Reader

`mode` says which loop of `tok` runs (blanks between tokens, a comment, a string, an
escape, digits, a fraction, a symbol or keyword), `pos`, `line`, `col` are the
lexer's, `begin` and `start` where the token began, `buf` and `cap` the string's
buffer, `tokens` and `room` the array. One action is one turn of a loop. Characters
are one-letter strings. The widths are parameters: `MaxInt` for `INT64_MAX`,
`MaxDigits` and `MaxName` for what `tmp` holds, `Room` for the first capacities.
Decimals are exact fractions where `strtod` rounds.

`Reader` runs `Tok` to its end, gives `Parse` the type and value of each token, and
runs it, an INSTANCE whose variables are its own. The error of a token is placed by asking that token (`PlaceSaid` for
`make_error_at`).

### ValHeap and StepOwn

Memory is modelled twice, for the two halves of the rule. `ValHeap` is the callee's
half: values are addresses with a count and the addresses they point to; `held` counts
the references of the C code outside, which is any code that releases only what it
holds. `calls` are the activations of `val_release`, one action a turn of its loops.
`val_map` is taken pair by pair, for it releases the value it replaces before it
retains the new one, and the slot dangles in between (`Hole`). Which keys are equal is
any choice.

`StepOwn` is the caller's half. An activation of `step`, `deliver_value`, `apply_fn` or
`handle_recur` has the set of values it owns (by the names of its variables), what it was
lent, and what it releases when it returns. It lends on what it was lent (`Lend`): each
thing borrowed carries the place of its owner among the activations, at place 0 the
caller of `step()`, who owns the state with the stack, the frames and the functions in
them. Frames are their kind and how many items they have left; which branch is taken is
any. `kept` collects what an activation still owns when it returns.

### Json

`frames` are the activations of `val_to_cjson`, `nodes` the cJSON nodes allocated;
`now` says what runs next. A call is given a value or a text (`source`, read by
`json_to_val` first); its result is read back by `json_to_val` at once. A double is
counted in halves, so that whole and other numbers are told apart; `MaxSafe` is 2^53,
`MaxNesting` cJSON's nesting limit, and `Fifteen` gives the neighbour that a number
becomes when cJSON's 15 digits are close enough. Ints have 64 bits, and `ToDouble` rounds
them as the conversion in C does, the distance of doubles doubling with each power of
two (`Spacing`). Of cJSON there is what `json.c` sees of it: the trees a text is parsed
to, the numbers it prints, the nodes `cJSON_Delete` takes, its limit of nesting. Values and texts may be nested `Levels` deep, any number: what recurs in
the code over trees (`cjson_to_val`, `printed`, `size`, and `meaning` and `plain` of the
promises) is a recursive function on the trees of at most that many levels; `Depth`
says that no value is within itself. A map is a function and a list a sequence; a
string is a sequence of `Char`.

### Build

`driver` is where `cmd_test` is; `tests` the files there are, `listed` those it found,
`main` and `binary` the tables that `test_main.c` and the compiled runner were made
from. The runner is `pc`, `n`, `status`, what it printed and has not flushed
(`buffer`) and how many tests it has counted as `failed`; `child` is the one process it
has. Each process makes its own file for standard error, as mkstemp comes after the
fork; without one a test writes to the runner's standard error. Tests may end in any way,
forks, mkstemp and the compiler may fail, files may be added or removed at any time.

## Runs

| Run | Question | Bounds, and why they are enough |
|---|---|---|
| `val_map` | does the table answer as a function, whatever collides, and does every probe end? | all calls with at most 5 pairs over 5 keys: equal hashes, equal modulo 8 only, a home slot inside another chain, a chain wrapped past the end; the fifth pair makes the table grow to 16, where the hashes modulo 8 part |
| `val_cmp` | is `val_cmp` a total order, equality that of the meanings, and equal hashed alike? | all triples of 59 values: neighbours in the order of each type, both zeros, two NaNs, prefixes, bytes above 127, maps in two slot orders alone, as keys and in lists |
| `step` | does the machine compute what the forms mean, on any stack, with any answer? | every form over two names and a number, in each of 25 contexts that put it in every position of every form; two contexts around six forms with something to lose; chosen programs for counting loops, closures calling themselves, effects in loops, and every malformed form; 60 steps, which only endless programs reach |
| `step_own` | is borrowed memory alive, is owned memory released, on every path? | stacks of 3 frames, 2 items left in each: every frame above and below every other, each with nothing, one thing and more than one left |
| `parse` | is the answer the grammar's only reading, is the error at the right token, is everything released? | all lists of at most 5 tokens over the brackets and two atoms, and 11 longer ones for repeated keys and errors that unwind through several levels |
| `reader` | are the tokens those of the text, with their places and meanings, and does what is read or refused fit the characters? | all texts of 3 characters over one of each of the 17 kinds `tok` tells apart; of 5 over what strings and numbers are made of, and over brackets and what hides them; longer ones for reserved words and each width: ints up to 12, 5 digits, names of 6, buffers of 2 that grow twice |
| `val_heap` | are counts the references there are, at every step? | 4 interchangeable addresses, lists of 2 items and maps of 2 pairs, 3 references held: values shared, held twice, and released through two levels |
| `json` | what survives the round trip, what fails, is every node freed? | values of each type and lists and maps of them, to one level more than cJSON prints; ints on both sides of the safe range, between two doubles and the greatest, halves, NaN, zero bytes; texts with repeated names |
| `build` | does the runner run what was found, judge and exit rightly, and end? | 3 test files of which one is to abort, 2 commands, one edit between or during them, `MAX_TESTS` 2 so that the limit is met |

What they check. Where a module's type invariant is not a property by itself it is
the first conjunct of one of its invariants.

- `val_map`. `ProbeBound`: no probe is longer than the number of keys.
  `GetIsLastWrite`, `EntriesExact`: lookups and enumeration give the last write of each
  key. `Terminates`, and `ImplementsMap`, the refinement.
- `val_cmp`. `TotalOrder`, `EqualMeansSame`, `HashContract`.
- `step`. `MachineMeansForms`. `QuietScopesAreLexical`: where nothing is evaluated
  in an environment that a let, loop or call has left behind, scopes are lexical.
  `FramesReady`: no frame lacks an item that is taken unchecked. `GlobalStays`: the
  initial scope is the last of every env. `StackBounded`: with closures called in
  tail position only, the stack never exceeds the depth of the text, however long a
  loop runs and whatever plain answers effects have. `EnvBounded`: the environment of loops over one variable does not grow.
  `DeliverPops` and `StepReturns`: one `step()` comes to an end.
- `step_own`. `BorrowedIsOwned`: whoever lends a value, directly or through the functions
  in between, owns it until the call returns.
  `OnlyRecurKeeps`: nothing is released that is not owned, and nothing owned is left on
  any way out, but for the keyword below.
- `parse`. `AnswersTheReading`. `ErrorsAreAtTheFault`, that is, for a closing bracket,
  `NoTextGoesOn` and `SomeTextWentOn`: no well-formed text begins with the tokens up to
  it, some does with those before; and for an open one `UnmatchedIsInnermost`.
  `NothingLeaks`.
- `reader`. `TokensAreText`: the tokens are the longest there are, in order, with
  their places, and mean what is written unless they exceed a width. `FaultsAreFound`:
  an error is the first fault. `BuffersFit`. `ReadOnlyIfNested` and
  `FaultsPointAtBrackets` hold the pair of components to a scan of the characters that
  knows strings, comments and brackets only. `ReadingEnds`.
- `val_heap`. `CountsAreReferences`, `NothingDangles`, `NothingLeaks`, also between the
  turns of nested releases and while a map is being made.
- `json`. `RoundTrips` for the values that JSON and a double can hold,
  `TextRoundTrips` for texts, `FailsIffUnsupported`, `NodesFreed`.
- `build`. `RunsWhatWasFound`: never the binary of an earlier command.
  `VerdictsAreRight`: one line for each test, in order, that says PASS exactly when the
  test ended as it should, though the processes share the buffer. `ExitSaysAll`,
  `CommandsEnd`.

`CHECK_DEADLOCK FALSE` is in the cfgs of `MCParse`, `MCReader`, `MCJson` and `MCBuild`:
one call returns, or the last command ends, and the model then stops. Elsewhere deadlock
is checked: `Step` has an explicit `Stop`, a finished map may be asked again for ever,
values may be made and released for ever.

Three runs show that the code departs from its documentation:

- `step_lexical`: in `(do (let (x 1) ...) x)` the last `x` is that of the let: the
  frame goes on in the env the let ended in.
- `step_recur`: `(loop () (recur))` is an error, for a loop without bindings
  pushes no `loop-target`.
- `step_abort`: `({:type :fn})` fails an assertion in `val_len`.

The other departures that came up have a configuration each, beside the runs, that
makes TLC find the trace. The passing properties are stated so that these are excepted
by name.

| cfg | Invariant violated | What the code does |
|---|---|---|
| `MCStepOwnLeak` | `NothingKept` | step.c:622: the keyword made for the next `:recur-args` frame is retained by `make_frame3` and its first reference never released; every argument of a recur but the first leaks one |
| `MCReaderInts` | `IntsAreExact` | tok.c:169: digits are read without their sign, so the least int becomes the negation of the greatest |
| `MCReaderPlaces` | `ErrorsArePlaced` | tok.c:124: the error of an escaped newline is in column 0 of the next line |
| `MCJsonRoundTrip` | `RoundTripGuarantee` | json.c:17, 24, 94: whole floats come back as ints, large ints as floats, strings end at a zero byte, against json.md:42 |
| `MCJsonDeep` | `AlwaysAnswers` | json.c:150: `strlen` of what cJSON returned for a tree too deep to print, NULL |
| `MCJsonMessage` | `MapErrorsAreAboutKeys` | json.c:144: whatever fails in a map is called a key that is not a string |
| `MCBuildShown` | `FailuresAreShown` | build.c:113-116: the runner shows its own file on failure, the test wrote to another |
| `MCBuildForks` | `PassesRan` | build.c:124: after a failed fork the verdict is that of an uninitialised status |
| `MCBuildFound` | `AllAreFound` | build.c:46: tests beyond `MAX_TESTS` are left out without a word |

A smaller observation: `{:a` at the end of the input is called an odd map rather than an
unmatched brace (parse.c:140), which parse.md leaves open.

### Fairness

The code is sequential, the runner's processes apart: once a C function has been
entered it runs on. So the loops of `val_map` and `val_map_get`, the deliveries inside
one `step()`, and the turns of `tok` and `parse` are weakly fair. In `Build` the driver
and the runner go on while they can (`WF` of `GoOn`), a forked process runs, and
tests end, without which no runner could; edits and giving a command (`Command`) are not
fair.
Nothing is assumed of callers: no driver has to call `step`, no runtime has to answer,
nobody has to look up a key.

## Proofs

Every theorem is for all values of the constants, from the assumptions that the modules
name. They say what kind of things the constants are: `ValMapAssumption`,
`ValuesAssumption` (values have the payload of their type and are finite: what is
within one is less deep), `FloatAssumption` (of the numbers that are no NaN, only zero
has two bit patterns), `NullAssumption` (no value is the null pointer),
`StepAssumption`, `OwnAssumption`, `HeapAssumption`, `BuildAssumption` (of a directory,
that it has finitely many tests), `WidthAssumption` (texts are sequences of characters;
widths are positive; a reserved word fits a name), `LettersAssumption` (what `isalpha`
accepts is no digit, blank, bracket, quote, backslash, colon or semicolon), `DepthAssumption` (a list is deeper than
its items), `DoublesAssumption` (2^53 is positive; what is not finite is no number;
cJSON's 15 digits of a number are a number) and `TextsAssumption` (in `Parse`, an atom
is not a bracket; in `Json`, a text is a tree). Two say more. `KeysAssumption`: that `val_cmp` tells the keys of a map apart,
which is how `val_map` leaves every map (`EntriesExact` of `ValMap`); lists of entries
with equal keys are no values, and comparing them would depend on how they are sorted. And `RepairAssumption`: that short lists of tokens are among the
texts, for "some text goes on from here" would be void if there were no texts; `tok` can
return each of them.

**ValProofs.** Of `ValMap`: the inductive invariant has these parts: the types; every stored key
is reachable from its home slot through slots of other keys; the
running probe has passed only such slots; the count is that of the occupied slots;
no probe is longer than the count; and the table holds the last write of each pair
already inserted. Reachability is what makes it inductive: `GetMiss` may conclude
from a free slot that the key is absent only because no key lies behind it, and an
insertion into a free slot breaks no chain because it only fills. The probe bound
is a pigeonhole argument: the slots passed are distinct as long as there are fewer
than `cap` of them, all are occupied, and at most half of the slots are. From it:
`TypeCorrect`, `NeverMoreThanHalfFull`, `ProbesAreShort`, `LookupFindsLastWrite`,
`MapIsFunction`, the refinement of `MapSpec`, one lemma per action, and
`EnumerationIsComplete`: ranks of occupied slots, the number of them up to a slot, are
distinct and between 1 and the count, so that each index has its entry.

Of `ValCmp`: `CmpIsTotalOrder`, `ZeroForEqualValues`, `EqualValuesHashAlike`. Everything
is by induction on the depth of values, as a least counterexample, and so is the
existence of the functions `cmp` and `hash` themselves. Sequences compared at their first
difference are in order when their items are. For maps, two entries of one map never
compare equal, so the sorted entries rise strictly, and rising sequences of entries that
are equal one for one are the same however the slots were ordered; hence the order does not
depend on which sort `qsort` does. The XOR of pair hashes is the set of those that occur
an odd number of times, and the bijection between equal entries preserves how often each occurs.

**StepProofs.** Values are built while a program runs: closures over environments
that hold closures, lists of rebound bindings. There is no set of all values to be
had as a constant, so the invariant `IInv` says that *some* set `V` is closed (items
of its lists, parts of its closures are in it) and the whole state is made from it. A
step that builds a value extends `V` by it (`ClosureCloses`, `ListsClose`), every other
step keeps it. Frames over `V` carry `FrameReady`, environments over `V` end in
`Global`, so that `NoItemIsMissing` and `LibraryStaysInScope` follow;
`DeliveryTerminates` needs it for the stack's type. `StatusCorrect` is inductive by
itself.

`StackStaysLow` and `RecurFindsItsLoop` need an invariant about the text, `TextInv`:

- Everything that may still be evaluated, be it `expr` or a part of a frame, is a form of
  the text, with room for its depth above the frames it will be evaluated on; a form in
  tail position of a function on no frame at all; one in tail position of a loop on the
  loop-target (`Fits`). `OccurrencesAre` shows that the text is closed under parts: level
  by level, what is found in the last level has no parts left, for depth has run out.
- Only `recur` makes a form that is in no text, a loop over quoted values; its names, its
  body and the place it starts at are those of the loop it came from (`Restarts`).
- A call above the first frame is of a library function, or will be when its head has been
  looked up (`HeadsFit`, `HeadOpen`), for which every environment but its last scope holds
  names of the program only (`EnvNames`), and every closure a function of the text
  (`ClosureFits`). So a closure is entered on an empty stack, where its body has room.

`RecurFindsItsLoop` has the premise `NoEmptyLoop`, without which it is false: that is
the finding of `step_recur`.

`MachineFollowsMeaning`: the machine and the semantics agree on values, errors and
requests, for all programs and answers. The invariant `Follows` says that the meaning of
the whole program is that of `expr` (or of the value on its way) with the frames applied to
it one after the other. `Feed` is what one frame makes of a result, `Explains` and `Told`
that of a stack. An action preserves it by unfolding one task (`EvalLeads`,
`DeliverLeads`), and there is one lemma for each. Three things have to be carried along.

- Meanings are bounded, so a task may come to no result for want of fuel; more fuel never
  changes a result (`MeaningsMore`), and each turn of the machine unfolds one task, so
  that what it has spent (`Pot`) is fuel enough for what it has found out.
- The tasks must be those the semantics is a function on: whatever is in the state
  after so many turns was made in so many levels from the program (`MadeOf`), and thus is
  in `Universe`.
- The loop that a `recur` builds is in no text. That it means what the next round of the
  loop at hand does is `NewLoopMeans`: its quoted arguments are bound one by one, which is
  `Enter` by induction on their number.

**StepOwnProofs.** `BorrowedStaysOwned` and `PathsBalance`, one lemma per function of
step.c, from `OwnInv`: what an activation has decided to release it owns, and beyond
that at most the keyword of a recur (`Balanced`); whatever an activation was lent, its
owner further out still owns (`OwnedIn`); only the topmost activation may have decided;
and a stack is replaced only by a function about to return, so that the depths that
callers remember stay within it.

**ValHeapProofs.** `CountsAreRight`, `ReferencesAreAlive`, `ReleaseIsComplete`. That a
count is the number of references is not inductive by itself. `HeapInv` adds that a
value of count 0 is being released, by one activation only, whose remaining items are
the references still counted; that a map in the making is held and points only to
values that are held as well; and that values point to older ones: there *is* a
function `age` that references decrease. No variable of the program holds it; it is
what excludes cycles, so that `NothingLeaks` follows by taking the youngest
value that nothing outside reaches: who has the references that its count claims?

**BuildProofs.** `NoStaleBinary`, `LinesTellFates`, `ExitCodeTells`. `BuildInv` relates
tables, driver and runner: from "generated" on the generated file is the list found,
from "compiled" on the binary is. The runner has printed, or holds in its buffer, one
line for each test before the n-th, and each is what the fate of that test deserves;
the count of failures is positive exactly when one of these lines says FAIL; a forked
process has an empty buffer, which is why its output does not repeat lines.

**ReaderProofs.** Of `Tok`: `NoOverrun`: `TokInv` adds to `BuffersFit` that a capacity which is to be
doubled is not zero. Beside it `Located`: line and column are, at every step, those of
the next character by their definition over the whole text (`PlaceOf`).

`TokensAreTheText`, `FaultsAreTheTexts`: the lexer, which reads a character at a time and
looks one ahead, against tokens defined as spans of the whole text. There are four steps.

- The reading of a text (`From`) is a recursive function that jumps from the end of a
  token to what follows it; that it has a solution is proved by the least place where none
  would exist (`FromExists`), as for the value of digits (`ValueExists`).
- For each kind, where its longest token ends: the kinds are told apart by their first
  characters (`NoDigit`, `NoLetter`, `NoName` ...), a number's point must have a digit after
  it (`NumberEnds`), a name goes on as long as it can (`NameMeans`), and in a string
  backslashes come in runs, in which every second one is escaped (`EscapedNext`): so the
  lexer's single `escape` mode is `Escaped`, which looks at the whole run. The buffer of a
  string has in place n what the n-th character that is not an escaping backslash stands
  for (`Holds`).
- The invariant `SoFar` says what the lexer knows in each mode: between tokens, that those
  made are the reading up to `pos` (`ReadTo`); inside one, what has been seen since `begin`;
  when it ends with an error, that the reading ends with that fault.
- What is cut off at a width is excepted by `Fits` alone: a name that fits is copied whole
  (`CopiedName`), an int of that many digits is what `strtoll` makes of it (`IntMeans`).

Of `Reader`: `NestedIsRead`, `FaultsAtBrackets`: the pair of components against the
scan of the characters, which knows neither tokens nor activations. The scan is a
recursive function; that there is one is proved first (`ScansAre`). The invariant has a
half for each component.

- `Lexed`: the lexer's `mode` is where the scan is (`InStep`), except that a comment has
  its newline for the scan and not for `tok`; and there is a map from tokens to their
  first characters (`Marks`), increasing, with their places, under which the tokens that
  are brackets and the characters that the scan counts as brackets are the same. Where
  nothing counts, or a bracket was wrong before, the scan learns nothing (`QuietScan`):
  what is between two tokens can be passed over at once.
- `Nests`: at the first character of the last token consumed, the scan has found nothing
  wrong and has those brackets open whose activations are on the stack, one for one. An
  error keeps what the scan says of the whole text while it unwinds (`PointsRight`).

**ParseProofs.** Three arguments over the same activations.

- `NoWayOutLeaks`. `ParseInv`: the references owned are the forms in all arrays, one for
  the token list and one for an error on its way; the sum is a sequence of partial sums,
  that the invariant says to exist. Activations nest, their brackets are in order.
- `ReaderIsSound`, `FaultsAreReal`. `ReadInv`: the array of each activation is a reading
  of the tokens between its bracket and the next activation's (`RunsOf`), so a form
  that is closed is a form of the grammar. For errors it says more while
  they unwind: no text that begins so can be read (`Stuck`), or the text at hand cannot
  (`Rivals`). Both need that the grammar is unambiguous (`NoAmbiguity`): a form that
  begins at a token has one end, and a run of forms cannot be read past a bracket that
  closes nothing. It is proved by induction downwards on the place where a form
  begins, as a least counterexample; so is the existence of the recursive function
  `Reads` is defined by (`RunExists`), for the library's theorems on recursive
  definitions take operators as parameters.
- `OpeningIsInnermost`, `FaultIsPointedAt`. `Pointed`: an error about an opening bracket
  is at one that only whole forms follow, of the parity its message says.
  `WentOn`: tokens read without an error can be continued to a text of the
  grammar. Given activations, one more token closes one of them or completes a pair, and
  the least depth that could not be completed is contradicted (`Completion`); the
  result is at most three times as long, which `RepairAssumption` allows for.

**JsonProofs.** `NodesAreFreed`, `FailsOnlyForUnsupported`, `ValuesComeBack`,
`TextsComeBack`. The recursive functions come first: values and trees are built level by
level (`TreesTo`, and `ValsTo`, the values of n levels), and a function of trees that
its recursive equation determines exists on all levels if it does on those below
(`SolveExists`). `made`, a function too, is the set of trees that `val_to_cjson` can make
of a value, one for each order in which the pairs of its maps are met.

- The invariant `JsonInv` relates the activations to the argument: the value an
  activation works on is the argument or the child that the one below waits for
  (`ValueAt`); `todo` and `done` are the two parts of its entries (`MadeSoFar`), every
  tree in `done` is one made of its entry, and `nodes` is the sum of the sizes of these
  trees (`Counts`), with that of the tree just returned. A value that failed holds
  something JSON cannot represent (`Bad`), and so does each one it is part of.
- Of a value that has a tree all parts are supported (`MadeSupported`), all that is read
  from a text is (`ConvertSupported`), and what is printed of a tree is no deeper.
- By induction on levels: a tree made of a value that is `Fine`, printed and read, is
  that value (`RoundTripLevels`), its names being its keys; and for a text without
  numbers or strings that get lost, a tree made of its value has the meaning of the text
  (`TextRoundTripLevels`): the last of several equal names is the one `val_map` keeps,
  and the names of a tree made of a map are distinct.

TLC checks what `JsonInv` says of `frames` and `nodes` in `NodesFreed`; the whole of it
is about sets of trees too large to enumerate.

Left to TLC. Liveness (`Terminates`, `StepReturns`, `ReadingEnds`, `CommandsEnd`), which
needs fairness and ENABLED. `QuietScopesAreLexical` and `EnvBounded`, which are about
two readings of a program, or about how an environment grows along a run, and rest on
what the chosen programs do.

## Not modelled, and why

- In `step`: builtins that return closures or other values programs cannot
  contain; strings, floats and keywords, which are atoms like numbers to the
  evaluator; states with keys missing, unknown frames and statuses, which no
  sequence of calls from `step_init` reaches; closures forged with some of their
  parts; `step` on a done state, which no driver calls.
- `val`'s accessors read a field and change nothing; where their assertions can end
  the process is in `Step` (`FramesReady`, `NeverAborts`).
- Allocation failure (asserted in `val`, unchecked elsewhere), `realloc` of `parse`'s
  arrays, sizes near `SIZE_MAX`, and the depth of the C stack, on which no source says
  anything.
- `tok`: how `strtod` rounds, and characters outside those it tells apart.
- `json`: the characters that cJSON reads and writes; an argument that is not a string.
- `build.c`: `deps.txt`, the sources of dependencies, and the text of the compiler's
  command. Its buffer of 4096 bytes is filled by `snprintf` with `sizeof(cmd) - pos`
  (build.c:216-246), which wraps around once `pos` exceeds it: what happens then is
  undefined and depends on paths and their lengths only. `clean` of several concepts is that of one.
- `test.h` prints and aborts.

## Plan

Done: all components with state of their own; the theorems above. Open:

1. `StepRef`: `EnvBounded`, with the scopes of a frame counted as `Fits` counts frames.
