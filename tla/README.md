# SafePM verification

TLA+ models, TLC runs and TLAPS proofs for this repository: the SafePM test
suite, its utility program and its benchmark drivers.  The modified PMDK itself
is a git submodule that is not part of the source tree; what the programs here
rely on is modelled as an external contract.

Contents: 1 inventory, 2 modules, 3 runs, 4 proofs, 5 what is not covered,
6 plan.

## 1. Inventory

| Part | Code | State it keeps | Operations | Talks to |
|---|---|---|---|---|
| Heap (external) | `pmdk` submodule | shadow memory, object map, undo log, root object, on the medium and across processes | create, open, close, begin, alloc, free, realloc, add_range, commit, abort, POBJ_NEW/FREE, root | called by every program below |
| Test programs | `src/tests/*.cpp` | pool file, pool pointers in locals and in the root object, flags printed | one legal prologue, a PASS flag, one faulty access, a FAIL flag | heap |
| Test driver | `src/test.sh`, `src/tests/overflow_persistence.sh`, `src/tests/CMakeLists.txt` | position in the list, captured output, exit status | build, `should_crash`, `should_not_crash` | runs the test programs, reads output and status |
| Pool overhead | `src/utils/pool_overhead.cpp` | `lb`, `ub`, `poolSize` | read POOL_SIZE, create, double, bisect, print | heap, through `test()` |
| Recovery benchmark | `src/benchmarks/recovery_time` | pool file with an active undo log, result file per variant | `recovery_run` (create, allocate, snapshot, close inside the transaction, open, print), `inner_run.sh` (loops), `recovery_table.sh` (averages) | heap; files in `results/` |
| RIPE driver | `src/benchmarks/ripe/ripe_tester.py`, `run-variants.sh`, `artifact_evaluation/table_4.sh` | marker file, log file, four counters per compiler | run a form several times, classify it, print a summary; extract the table | runs the form generators; files in `results/` |
| RIPE form generators | `src/benchmarks/ripe/source` | the form being built | parse, reject impossible forms, build, run | run by the driver, answer through the log, the exit and the marker |
| pmemkv benchmark | `src/benchmarks/pmemkv` | a CSV file per repeat | create on the first value, append on the others; `avg.py` averages the repeats and deletes them | external pmemkv_bench |
| pmembench benchmark | `src/benchmarks/pmembench` | a text file per variant | run, tee | external pmembench; its files are imported |
| Crash consistency, bug reproduction | `src/benchmarks/crash_consistency`, `bugs` | output kept by nobody | start external tools | none of the parts above |
| Result import | `src/plot_utils/import_*.sh` | `<variant>/<benchmark>_result`, rotated to `_result_j` | rotate, copy, convert | result files |
| Plotting | `src/plot_utils/*.py` | dictionaries of rows | parse, filter, group, normalise, draw | imported results |
| Artifact scripts | `src/artifact_evaluation` | none | call the others in order under `set -e`, benchmarks before figures | everything above |

What makes each part correct:

* Heap: the shadow is exact at every instant, inside transactions, after
  aborts and after recovery; objects never overlap; transactions are atomic.
* Test suite: a verdict OK means that the faulty line was caught; a library
  that lacks a protection does not get through; a complete one does.
* Pool overhead: the search keeps its bracket, ends, and prints an estimate
  within the announced tolerance.
* Recovery benchmark: a row in a result file is the time of a recovery that
  applied a log of the size the row names; an average is of rows of one size.
* RIPE driver: every form is counted once and in the right class, whatever an
  earlier attempt or run left behind.
* pmemkv averages: a mean is of the repeats of one value of one execution.
* Import and plotting: a bar shown for a library and a benchmark comes from the
  rows of that library and benchmark in the newest execution that got so far;
  nothing imported is overwritten.

What is hard here: control that leaves a transaction by `longjmp`, with locals
that become indeterminate in optimised builds; asserts that NDEBUG removes;
processes that die in the middle of a transaction and leave the log to the next
one; calls that fail for want of resources in a suite that expects crashes;
scripts that go on after a failed step, or stop in the middle and leave partial
files; results matched by position.

## 2. Modules

| Module | Models | Notes |
|---|---|---|
| `PMHeap` | the heap contract (external) | 8-byte granules with one shadow byte each; `features` says which protections the linked build has |
| `PoolAtomicity` | abstract specification of a pool | two maps, working and committed; protection follows the working one |
| `PoolUse` | a legal client of the heap in every order | refines `PoolAtomicity` |
| `PoolUseProofs` | theorems about `PoolUse` | |
| `TestPrograms` | the programs under `tests/` and the list of `test.sh`, as instruction sequences | one instruction per library call, access, printed flag or TX_END handler |
| `TestSuite` | processes that run those programs on the heap, and the verdicts of `test.sh` | builds, failing calls, damaged heaps, indeterminate pointers |
| `TestOutlines` | proof outlines of the programs, what makes a program respect its outline, and which test notices which missing protection | no code of its own; used by `TestSuiteProofs` |
| `TestSuiteProofs` | theorems about `TestSuite` | |
| `PoolOverhead` | `pool_overhead.cpp` | the set of sizes that succeed is arbitrary |
| `PoolOverheadProofs` | theorems about `PoolOverhead` | |
| `RecoveryRun` | `recovery_run.c`, `inner_run.sh`, `recovery_table.sh` | one process at a time, its pool file and the result files |
| `RecoveryRunProofs` | theorems about `RecoveryRun` | |
| `RipeForms` | the lists of options and `is_attack_possible` | pure operators, used by the next two |
| `RipeGenerator` | `main` of both form generators up to the decision | pool or dummy buffer, options, filter |
| `RipeGeneratorProofs` | theorems about `RipeGenerator` | |
| `RipeTester` | `ripe_tester.py` | attempts, marker file, counters, kill and restart |
| `RipeTesterProofs` | theorems about `RipeTester` | |
| `PmemkvBench` | the `run-pmemkv-bench-*` scripts and `avg.py` | one section of a script; calls that fail, kills, files of earlier executions |
| `PmemkvBenchProofs` | theorems about `PmemkvBench` | |
| `ResultParser` | `parser.py`, `analyse.py`, the values drawn by `plotters.py` | pure operators: the parser after each line of a file, bars as records |
| `ResultArchive` | abstract specification of the import | a log of results for each library |
| `ResultPlots` | the benchmark scripts as writers of result files, `import_*.sh`, `generate_plots.py`, the configurations, `plot_all.sh` and `figure_*.sh` | executions over old results, stops, damaged files, rotation; uses `ResultParser`, refines `ResultArchive` |
| `ResultPlotsProofs` | theorems about `ResultPlots`: the refinement of `ResultArchive`, the figures | |
| `MC*` | values for TLC | |

A definition marked "Deviation" in a module is no part of the specification: it
is the form a plausible bug would give the definition after it, and exists to
show that a property notices it.

**Heap.**  Memory is a row of granules.  A shadow byte is 0, 1..7, FA (redzone)
or FD (no object).  `features` is the set of protections the linked library has:
SafePM has all, upstream PMDK none, and a defective SafePM lacks one.  The map
of objects is `blk`; `added` and `freed` are the undo log.  The heap is external,
and it says no more than the tests and benchmarks require: which shadow bytes
`test.sh` looks for in a report, that a free is undone by an abort, that
a restart finishes an interrupted transaction.

**Test suite.**  `proc` is the running process: program counter, locals, the
snapshot `saved` of the locals at TX_BEGIN, whether its pool pointer is valid,
and `wild` once it did silent damage.  Every library call may fail while
`failures` is positive.  An aborted transaction jumps to the next TX_END; a local
assigned since TX_BEGIN then keeps its value in a Debug build, and in an
optimised build it may also have its old value, as C says of locals that are not
volatile.  `indet` records the use of such a pointer; properties that depend on
the exact access exclude it, OKMeansCaught does not.  Of the layout of
AddressSanitizer reports only the shadow byte in brackets and the byte before it
are modelled, not where the rows of a report begin.

**Pool overhead.**  One action per branch of `main`.  Widths are parameters
(IntRange, SizeRange), so that the conversions of `atoi` are exact.

**Recovery benchmark.**  `proc` is the running `recovery_run`: program counter,
loop index, number of snapshots (`snapshot_obj_size`), stage of the transaction
as the library sees it, and what each object identifier is worth (null, valid,
or stale because the transaction that assigned it was rolled back).  `pool` is
the file, with the KB of undo log that are active in it.  A transaction that is
begun without a jump buffer does not jump when it fails, so the snapshot loop
runs on after a failed `pmemobj_tx_add_range`; the only thing that stops it from
timing a short log is the assertion at line 114.  `results` is a file per
variant: rows (size asked for, size applied by the timed open) and lines of text,
since the error messages of `main` go to stdout as well.  The initial state has
any pool file and either no result files or those of a complete earlier run.  A
process that dies prints nothing, because stdout is a file and not flushed.

**RIPE.**  A form is a record of five options.  `RipeForms` holds the test that
rejects impossible forms, `Elsewhere` its four hand-written lists.
`RipeGenerator` enumerates every combination of values, known and unknown, for
both generators: one creates a pool first and aborts without it, the other
prints a buffer if a byte that was never written has a certain value, and since
the buffer has no terminating zero the print may end the process.  The two
filters are the same, line by line.
In `RipeTester` a run of the generator is one step with three outcomes: it died
before its check, it rejected the form, or it ran and left the marker or not.
`real` is a history variable: how many runs of the current form succeeded and
how many got to the check, whether a marker was there at the start, and how many
successes earlier forms were credited too much.  What the program keeps (marker,
counters, flag) is compared with it.

**pmemkv.**  A row of measurements is represented by the call that printed it
(repeat, position of the value, made by this execution or an earlier one), and a
mean by the set of rows that were added and the number they are divided by.
`files` is a CSV file per repeat; the loops of the script and of `avg.py` share
`run` because they do not run at the same time.  A call may print nothing or
only the first lines of its output.  With a failed call the rows after it move
up, and `avg.py` adds values of different parameters under the label of the
last file: `ShiftsUpOnly` says what remains true.  `CompleteMeansAverage` is
about executions in which all calls succeeded.

**Figures.**  A line of a result file is represented by what printed it
(library, execution, benchmark, x value) and its kind.  The parser is a fold with
the three modes of the code; `entries` maps a name to the lines kept for it.
What Python does with a line of the wrong kind decides what the parser does: a
row taken for an info line has too few words (IndexError), a line of labels has
enough words and gives a count that is no number (ValueError at the next value).
`Cells` is the order in which `plot` hands (benchmark, library) pairs to a
function of `plotters.py`, and `Reference` the variable of that name.  A bar is a
record of where it is drawn, of which row, relative to which row, under which
label.  The ten plot functions differ, apart from their layout, in whether they
draw slowdowns and in the axes that make the legend; a plot that fails is not
saved.

`results` is what an import would take: for each library a block per benchmark,
with the lines it has and the execution that wrote it.  `StartExecution` runs
the benchmarks, over the results of an earlier execution or over none;
`RunPiece` writes what is written at once, which is the whole file of a library
in pmembench (`inner_run`) and one section in pmemkv (`run_variants`), in the
order of the scripts; `StopExecution` ends the execution before a piece or in
it.  A pmembench file ends early (`tee` keeps what was printed, and hides the
status of pmembench) or is missing; the averages of a pmemkv section are empty
or lack a row, so that later ones move up.  The scripts that draw run between
executions.  They may stop after any step and leave `current` (`_result`) and
`archived` (`_result_j`) to the next one.

`ResultArchive` says what the import promises in terms of a `log` of imported
results for each library; in `ResultPlots` this log is the numbered files
followed by the one without a number, in `ResultPlots.log`, and the moves and
copies of the import are steps of the log or stutter.  The rotation itself, in
which the newest result has a number and no file is current, stutters.

## 3. Runs

Every property has a mutant in PROJECT.json: a plausible bug of the mapped
definition that makes the property fail under the run's own configuration.

| Run | Question | Shows |
|---|---|---|
| `pool_use` | does the contract keep its promises under every legal use? | objects do not overlap, the shadow is exact at every instant, and the heap implements `PoolAtomicity` |
| `test_suite` | what is a verdict of `test.sh` worth? | for SafePM, upstream PMDK and every library that lacks one protection: OK means that the faulty line was caught; a library without the protection a test is about does not get OK; a complete library gets OK unless a call failed; nothing but the faulty line is reported; the script reaches its last test whatever fails |
| `test_suite_status` | does status 0 mean that the tests passed? | no (violation) |
| `test_suite_persistence` | does OK of `overflow_persistence.sh` mean that a second process relied on the shadow of the first? | not if `pmemobj_root` failed in stage 1 (violation) |
| `pool_overhead` | is the printed estimate right, does the tool end? | yes, also when success is not monotone |
| `recovery_run` | what do rows, columns and complete files of the recovery benchmark mean? | a row is a recovery of the log it names; rows are where the table expects them; a script that ends leaves complete, fresh files; the script always ends |
| `recovery_table` | is every average one of recovery times? | not if the last repeat of a size fails (violation) |
| `ripe_tester` | what do the four numbers mean? | each form is counted once and rightly, but for one marker left by a killed run |
| `ripe_generator` | are the lists right, is a form performed as asked, in both generators? | yes, but for an unknown technique, which is only reported |
| `pmemkv_bench` | what are the averages averages of? | of complete executions, exactly of the repeats of each value; never of an earlier execution; no row is lost by the removal of the inputs; a failed call only moves rows up |
| `result_plots` | what is a bar of a figure made of? | complete results, of one or several executions, give exactly the figure that is wanted, whatever earlier scripts left; damaged ones never give a bar of another library or benchmark; an older execution is shown only where the newest one did not get to; the import implements `ResultArchive` |
| `result_reference` | is a slowdown always relative to pmdk on the same benchmark? | not if the result of pmdk ends before that benchmark (violation) |

**Bounds.**

* `pool_use`: 11 granules, redzones of 1, sizes 8, 12, 16.  Three objects of one
  granule fit, or two and a hole that is too small; a size that is a multiple of
  8, one that is not, and one of two granules.  Reuse, moves over a hole, and
  an abort that must restore a neighbour all occur.
* `test_suite*`: 17 granules hold the largest set of objects any test has alive
  (the scaled `Stretch` and `BigDummy` stand for the big offsets and the big
  objects of the programs; `Rounds` is the number of allocations of `zalloc`).
  One failing call is enough to take each error path of each test; the tests
  are independent but for the pool file, which every test except stage 2 of the
  persistence test removes.
* `pool_overhead`: an int of 5 bits, a size_t of 6 bits, pools up to 16 and a
  tolerance of 1/4 leave several rounds of doubling and of bisection, and each
  conversion error.
* `recovery_*`: two variants, sizes 1 and 2, two repeats, two failures: the
  boundaries of all three loops, a partial transaction of two objects, and a
  failure after another one has been survived.
* `ripe_tester`: two compilers, a rejected form between two
  accepted ones, two repeats, and two failures, so that a run may be killed twice
  or a form may die in each repeat.
* `ripe_generator`: both generators, all values of all options and one unknown
  value each; nothing is cut down.

* `pmemkv_bench`: all eight sections with their numbers of values and repeats;
  three failures, so that a call fails in every repeat, or an execution is
  killed and the next one has failing calls too.
* `result_*`: all five configurations with all their benchmarks and libraries;
  two rows per block (a first one and a last one, and one that moves up); two
  troubles, each a damaged piece, a stop, or an execution after the first (so
  that pmdk and another library are damaged, or a second execution over the
  results of the first is stopped); three imports of a library between two
  removals, so that `_result_1` exists when the third one rotates.

`CHECK_DEADLOCK FALSE` is set where the program has an end; `pool_use` never ends
and is checked for deadlock.

**Fairness.**  `test_suite` (for `SuiteEnds`), `pool_overhead` (for `Terminates`) and
`recovery_run` (for `ScriptEnds`) state weak fairness of the next-state relation
as a whole: one sequential program, or one script that waits for one child,
takes its next step as long as it has one.  No choice between alternatives is
assumed fair: a library call may fail whenever failures are left.

**Findings.**

1. `test.sh` ends with the status of its last test only; `Readme.md:49` promises
   more (`test_suite_status`).
2. `overflow_persistence.sh` does not check stage 1, which voids what its line 4
   says (`test_suite_persistence`).
3. `recovery_table.sh` counts lines, and a failed run leaves a line that is no
   time: if it is the last repeat, the table shows an average of 0
   (`recovery_table`).
4. The plots keep the reference of the benchmark before where pmdk has no rows
   (`result_reference`).

Behaviour met while modelling that has no run: `pool_overhead` reads POOL_SIZE
through `atoi`, so from 2 GiB on another pool is measured; `ripe_tester.py`
counts an impossible form as FAIL when no run of it gets past the creation of
its pool; `avg.py` prints sums instead of means when the last repeat has no
rows, and fails on an emptied result file when no repeat has any; when pmdk has
a single row of a benchmark, the one height is drawn for all rows of the others.

## 4. Proofs

All theorems hold for every value of the constants that satisfies the named
assumptions of the modules; these say no more than that sizes, widths, repeats
and lists are positive or not empty, that the names in a list differ, for
the bisection what the code's literals give (`SearchAssumption`), for the figures
what all configurations have (`FiguresAssumption`: pmdk is the first library, the
benchmarks drawn are among those that are run, and there are axes for the legend),
and for the test suite three things: about the libraries under test (`SuiteAssumption`, below),
that the heap has room for the two small objects of a program, or for the
one of `zalloc`, wherever they come to lie (`RoomAssumption`: the programs create
pools of 10 MB or more and allocate some bytes), and that it has no room for all
objects of `zalloc` at once (`CrampedAssumption`: 2600 objects of 8 KB in a pool
of 10 MB).  Room alone makes no call succeed: any may still fail.  It is used where
an allocation that no resource prevents has to succeed, in `SoundBuildPassesAlways`
and for `free_tx_abort` in `DefectsNoticedAlways`; the lack of it for `zalloc` in
the latter.

* `PoolUseProofs`.  `ShadowExact` alone is not inductive: an abort repaints the
  objects the transaction freed, which is right only if their place was not
  given away (`NoOverlap`), if they lie in the heap (`Inside`) and if the shadow
  of every live object and of all other memory is known (`Exact`, `Vacant`).
  Together with `TypeOK` and `Quiet` (nothing waits for a commit outside of a
  transaction) this is `IInv`.  Three lemmas say what an allocation, a free and
  a rollback do to the layout; each action of the library is an instance of one
  of them.  `AtomicityHolds` is the refinement of `PoolAtomicity`: initial
  states map to initial states and each call to a step or a stutter (open and
  close stutter, an open with an active log is a `Rollback`).
* `TestSuiteProofs`.  `OKMeansCaught` for any library, any placement of objects
  and any number of failing calls.  Of all programs but two the proof uses only
  their form, which one lemma for each program establishes (`Form`: one close,
  at the end, and a TX_END behind every call that may abort; `CrashForm`: PASS
  right before the faulty line, FAIL right behind it or behind the TX_END that
  follows).  `StepKinds` says that each of the eighteen actions goes on, jumps
  to the next TX_END, dies or exits.  So a process that has printed PASS and not
  FAIL stands between the two flags (`Caught`), and if it died behind the faulty
  line it died of earlier damage, at that TX_END.  Four programs have one.  In
  two the snippet names no shadow byte; `UseAfterFreeTame` and
  `TxAddOverflowTame` follow the heap through the other two.  The last one needs
  `SuiteAssumption`: a library that checks ranges, has a redzone before an object
  and none behind it, and leaves the memory between objects accessible would
  miss the faulty range and still show `00[fa]` when the damage is found, so that
  OK would be wrong.  Neither SafePM nor a library that lacks only one of its
  protections is like that.

  The other half of the suite, that the complete library raises no false alarm
  and passes (`NoFalseAlarm`, `SoundBuildPasses`), needs to know the heap at every
  line of every program.  `TestOutlines` gives each program an outline, as one
  would for a Hoare proof: what each pointer points to before each line (an
  object, a new one, one that is being freed, a place where one was), and how
  crowded the heap is.  `Lawful` is a condition on the text of a program alone:
  each line finds what it relies on and leaves what the next one needs, each call
  that may abort leaves what the line behind its TX_END needs, and the faulty
  line of a crash test is a trap: an access or a free that its outline says must
  be reported, with the snippet the list of `test.sh` expects.  `AllLawful` shows
  it of the sixteen tests.  The heap's part is `HeapSound` (the shadow is exactly
  that of the live objects and of those that were freed and committed, as in
  `PoolUse`, but with failing calls, damage and longjmps).  `ProcessBehaves`
  brings the two together: any step of a lawful program on a sound heap goes on
  to the next line in the state of its outline, leaves its transaction in the
  state of the TX_END, stops at its trap with the report expected, or has an
  excuse (`Spoiled`: a call failed), in which case it ends by an assertion or a
  null pointer.  `RunsOutlined` is that, as an invariant, with `RootKept` for what
  the first process of `overflow_persistence.sh` hands over to the second.

  `DefectsNoticed` asks the opposite: a library that lacks a protection does not
  pass.  The theorem is about every such library, whichever protections it lacks
  and however many.  The outlines do not help, since the heap is no longer sound
  and damage goes on silently.  `Notices` names the one test whose business a
  protection is, and `TellsInTime` is the invariant: that test is not over and on
  its way to go wrong (`Unnoticed`), or it is over and a verdict was not OK.
  What "on its way" means depends on the test, in five ways:

  - Eight tests end on an access.  `Culprit` is the pointer it goes through, from
    the line on that allocates the object, and `LeftBare` says that the granule
    it reaches has the shadow 0 all the way, because nothing paints it in between:
    the object is never poisoned, the redzone on that side was never written, the
    move left the old place alone.  So the faulty line goes through or dies of
    something else, and nothing shows the snippet.
  - `overflow_persistence.sh` is one of them, in two processes.  `PersistenceMissed`
    carries the root object over the close, and the open of the second process
    finds all zeroes.
  - The free of test 1 and the range of test 15 are not checked, so they show no
    report; this needs no invariant.
  - An abort that forgets to undo leaves the object of `alloc_tx_abort` accessible
    (`AllocNotUndone`) and the one of `free_tx_abort` poisoned (`FreeNotUndone`):
    the first misses its report, the second never exits with 0.
  - Without reclaim, what `zalloc` has allocated stays taken.  `NothingReclaimed`
    counts it: at each line the granules in use are a multiple of the `Share` of
    one object, given by the number of rounds, and `CrampedAssumption` says that
    the last round would need more than there is.

  `Orderly` adds what holds of the process in any test: no pool before the
  create, an empty one after it, an aborted transaction on its way to a TX_END.
  `DefectsNoticed` is not inductive, as it speaks of the end of the script only.
  A failing call is no way out but for the two protections of `Maskable`, whose
  test it can make go the way of a sound library: `persist` if the first process
  fails to allocate its root object, `undofree` if the free itself fails.
* `PoolOverheadProofs`.  `Bracketed` needs that the doubling leaves `lb` at 1
  (`LowerBound`), `NoWrap` that what fits is smaller than the pool (`Usable`),
  `EstimateTight` that the bounds are close when they are printed (`Converged`).
  `Shrinks` is an action property from the same invariant.
* `RipeTesterProofs`.  `IInv` is `Shapes` (types, and the place in the loops),
  `Counted` (how many forms and compilers are done), `Rejected` (what flag and
  log say of a rejected form) and `Credit`.  The last is the interesting one:
  the marker is worth one success, so the credit of the current form, past and
  to come, is at most one ahead of what happened, at most once in a run of the
  tester, and only if a marker was found at the start.  `CreditExact` does not
  mention the marker and is not inductive.

* `RecoveryRunProofs`.  That a row names the log it recovered is decided long
  before it is printed.  `Progress` says what the process knows at each point:
  while it has printed nothing and its transaction works, the objects it has
  snapshotted are the log on the medium; once a call has failed, no way leads to
  the row.  `Files` gives the contents of every file from the counters of the
  loops.  With the types (`Shapes`) this is `IInv`; `RowMeansReplay`,
  `ColumnsAligned` and `CompleteAtEnd` follow from it and are not inductive.
* `PmemkvBenchProofs`.  `Written` says what the files of the repeats look like
  while the calls write them: the values grow along a file, and a file none of
  whose calls failed is whole.  `Unread` carries this to the files `avg.py` has
  not read, `Sums` and `AllWell` to its sums.  `NothingLost` and `ShiftsUpOnly`
  need it because a sum goes by the place of a row alone.
* `ResultPlotsProofs`.  `ImportIsArchive` is the refinement of `ResultArchive`.
  The invariant says that the archived files of a library have the numbers 1 to
  n without a gap (`Numbered`), since otherwise the search for a free number
  ends before files that are newer, and that a result is only copied to where
  none is.  Each step of the import is one lemma: the rotation leaves the log
  alone (`MovedToEnd`), the copy appends to it (`Extended`).

  The five invariants of the figures rest on three things.  First, what the
  parser makes of the lines of *any* file, by induction over the lines (`Read`,
  `ParsedLines`): the lines it keeps under a name are a `Segment` of the file
  behind an info line of that name, however far the count of rows is off.  So if
  they can be analysed at all, they are the labels and then rows of one block
  (`AnalysableRows`), because a `Segment` that runs into the next block meets a
  line that is no row.  Of a file with all rows the parser keeps exactly its
  blocks (`CompleteParse`).  Second, the order of the cells (`LaidOut`,
  `CellsLaidOut`): each is of a library and a benchmark that has rows, pmdk is
  the first of its benchmark if it has any, and none is left out; so the last
  pmdk before a library is of the same benchmark (`ReferenceIsPmdk`) unless pmdk
  lost its rows.  Third, the invariant `PlotInv` of the scripts: where they are
  (`Counters`), what the results look like and of which executions they are
  (`ResultsExist`), how full the logs are (`LogsBounded`), that a result which
  exists has been imported by the time it is drawn (`ImportsDone`), and that the
  saved bars are those of the imported files (`PlotsDrawn`).  None of the five is
  inductive: they speak of saved bars, whose origin is decided when the
  benchmarks write.

  The prover cannot use the induction theorems of its library, which take an
  operator as a parameter.  `Induction` states induction for a set of numbers
  instead and follows from the theorem that the order of the numbers is
  well-founded.  With it `ParserReads`, `ChosenStep` and `FlattenStep` show that
  the recursive functions of the model satisfy their equations.
* `RipeGeneratorProofs`.  The invariant is that every option that was read has
  set its own field to the value asked for, but for an unknown technique.  The
  lists are compared with the segments of the pointers in `SegmentLists`, one
  case for each location.

Model-checked only: the liveness properties `SuiteEnds`, `Terminates` and
`ScriptEnds`, which are out of reach of the prover (fairness).

## 5. What is not covered

* PMDK and AddressSanitizer themselves: the contract in `PMHeap` is what the
  programs rely on; where the rows of a report begin, string functions and
  threads are left out.
* Times.  A recovery time is represented by what was recovered.
* How an accepted RIPE form is carried out (machine code and memory layout), the
  LaTeX table; `run-variants.sh` of RIPE (one container per variant, and nothing
  passes from one to the next but a pool that is removed) and `table_4.sh`,
  which prints words 2, 4 and 6 of the summary line: the numbers that
  `RipeTester` is about.
* The layout of the plots: widths, spacing, colours, legends; the moves of the
  finished plots by `figure_*.sh`; more than one variant value in a block.
* A result file that ends within a line.
* Scripts that only start other programs and whose output nobody reads
  (`crash_consistency`, `bugs`, the container of the recovery benchmark,
  `valgrind_summary.sh`), Dockerfiles, patches, build files.  They have no state
  of their own; a model of them would be a list of steps.

PROJECT.json lists each component with its status, and each hazard with the
properties that cover it or the reason why none does.

## 6. Plan

Modelled and checked, in this order: the core (heap, test suite), the tools
(pool overhead, recovery, RIPE), the results (pmemkv averages, executions,
import, parser, plots), the abstract specifications of the heap and of the
import.  Proved: every invariant and action property the passing runs check, and
both refinements; not liveness (section 4).  What could follow:

1. An abstract specification of a figure as a function of complete results
   (now `CompleteFigure`, an invariant), so that import, parser and plots
   together are a refinement of it.
2. Several variant values in a block, when a configuration has them.
