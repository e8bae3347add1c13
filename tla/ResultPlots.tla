----------------------------- MODULE ResultPlots -----------------------------
(***************************************************************************)
(* The figures.  The benchmarks write the results of the libraries one     *)
(* after the other, into the places of an earlier execution or into fresh  *)
(* ones, and may be stopped on the way; benchmarks that die leave files    *)
(* that end early or lack rows.  A script (figure_3.sh to figure_7.sh, or  *)
(* plot_all.sh) imports the results of all libraries, keeping what it      *)
(* finds from earlier imports under another name, draws the plots of a     *)
(* configuration, and removes what it imported.  It stops where a step     *)
(* fails, and leaves what it imported.                                     *)
(***************************************************************************)
EXTENDS ResultParser

CONSTANTS Figures,       \* the configurations looked at
          MaxTrouble,    \* benchmarks that die or are stopped, and executions after the first
          MaxImports     \* imports of a library without a removal between them

ASSUME BoundsAssumption ==
  /\ Rows \in Nat \ {0} /\ MaxTrouble \in Nat /\ MaxImports \in Nat
  /\ \A f \in Figures :
       f.suite \in {"pmembench", "pmemkv"} /\ f.libs \in Seq(STRING) /\ "pmdk" \in ToSet(f.libs)

\* A configuration compares with pmdk, which comes first, names no library and
\* no benchmark twice, draws benchmarks that are run, and has axes enough for
\* its legend.
ASSUME FiguresAssumption ==
  \A f \in Figures :
    /\ Len(f.libs) > 1 /\ f.libs[1] = "pmdk" /\ IsInjective(f.libs)
    /\ f.blocks \in Seq(STRING \ {NotAName}) /\ IsInjective(f.blocks)
    /\ f.benchmarks \in Seq(ToSet(f.blocks)) /\ IsInjective(f.benchmarks)
    /\ f.plots \in Seq([slowdown : BOOLEAN, legend : Nat]) /\ f.plots # <<>>
    /\ \A i \in DOMAIN f.plots : f.plots[i].legend < Len(f.benchmarks)

\* libs: the libraries drawn, in order; blocks: the benchmarks of a result
\* file; benchmarks: those drawn; plots: what is drawn.
Figure(suite, libs, blocks, benchmarks, plots) ==
  [suite |-> suite, libs |-> libs, blocks |-> blocks, benchmarks |-> benchmarks, plots |-> plots]
\* A plot relative to pmdk, or of the values themselves; legend: the index of
\* the axes of which the legend is made, so that there must be that many.
Slowdown(legend) == [slowdown |-> TRUE, legend |-> legend]
Absolute(legend) == [slowdown |-> FALSE, legend |-> legend]

pmembench_tx_plot_single == Slowdown(0)
pmembench_tx_plot_dual == Slowdown(0)
pmembench_tx_plot_single_vertical == Slowdown(0)
pmembench_open_create_plot == Slowdown(1)
pmembench_open_create_plot_time == Absolute(1)
pmembench_open_create_plot_time_log == Absolute(1)
pmembench_map_plot == Slowdown(1)
pmembench_map_partial_cov_plot == Slowdown(0)
pmemkv_plot == Absolute(2)
pmemkv_plot_overhead == Slowdown(2)

plot_config_maps ==
  LET bs == <<"map_insert", "map_get", "map_remove">> IN
  Figure("pmembench", <<"pmdk", "wrappers_only", "asan", "safepm">>, bs, bs,
         <<pmembench_map_plot>>)
plot_config_open_create ==
  LET bs == <<"obj_open", "obj_create">> IN
  Figure("pmembench", <<"pmdk", "wrappers_only", "asan", "safepm">>, bs, bs,
         <<pmembench_open_create_plot, pmembench_open_create_plot_time,
           pmembench_open_create_plot_time_log>>)
plot_config_partial_coverage ==
  Figure("pmembench", <<"pmdk", "safepm">>,
         <<"map_insert_partial_cov", "map_get_partial_cov", "map_remove_partial_cov">>,
         <<"map_insert_partial_cov", "map_remove_partial_cov", "map_get_partial_cov">>,
         <<pmembench_map_partial_cov_plot>>)
plot_config_pmembench_tx ==
  LET bs == <<"atomic_alloc", "tx_alloc", "atomic_free", "tx_free", "atomic_realloc", "tx_realloc">> IN
  Figure("pmembench", <<"pmdk", "safepm">>, bs, bs,
         <<pmembench_tx_plot_single, pmembench_tx_plot_dual, pmembench_tx_plot_single_vertical>>)
plot_config_pmemkv ==
  LET bs == <<"randomreadwrite50", "randomreadwrite95", "read_random", "read_seq">> IN
  Figure("pmemkv", <<"pmdk", "asan", "safepm">>, <<"delete_random", "delete_seq">> \o bs, bs,
         <<pmemkv_plot, pmemkv_plot_overhead>>)

VARIABLES figure,
          step,          \* "idle", "run", "rotate", "copy", "generate", "draw", "clean"
          pos,           \* piece being run, library being imported, or plot being drawn
          executions,    \* executions of the benchmarks so far
          results,       \* library -> the result that an import takes
          trouble,       \* trouble still possible
          current, archived,  \* library -> _result, and number -> _result_<number>
          parsed,        \* library -> parser after its file
          saved          \* number of a plot -> its bars

vars == <<figure, step, pos, executions, results, trouble, current, archived, parsed, saved>>

Libs == ToSet(figure.libs)

-----------------------------------------------------------------------------
(* Result files, and the benchmarks that write them *)

\* What a file has of a block: nothing, its info line, its labels and rows;
\* and the execution it is of.
Block(n, head, rows) == [n |-> n, head |-> head, rows |-> rows]
Complete(n) == Block(n, 2, 1 .. Rows)
NoFile == <<>>

BlockLines(lib, file, b) ==
  LET block == file[b]
      line(kind, x) == Line(kind, lib, block.n, figure.blocks[b], x)
      xs == Chosen([x \in 1 .. Rows |-> x], block.rows)
  IN (IF block.head > 0 THEN <<line("info", 0)>> ELSE <<>>)
     \o (IF block.head > 1 THEN <<line("labels", 0)>> ELSE <<>>)
     \o [i \in DOMAIN xs |-> line("row", xs[i])]

Lines(lib, file) == FlattenSeq([b \in DOMAIN file |-> BlockLines(lib, file, b)])

\* A piece of an execution: the blocks of a library that are written at once.
Piece(lib, blocks) == [lib |-> lib, blocks |-> blocks]

\* pmembench prints all benchmarks of a library into one file.
inner_run ==
  LET order == Chosen(<<"safepm", "wrappers_only", "asan", "pmdk">>, Libs)
  IN [i \in DOMAIN order |-> Piece(order[i], DOMAIN figure.blocks)]

\* pmemkv has a file for each section.
run_all(lib) ==
  LET sections == <<"read_seq", "read_random", "randomreadwrite50", "randomreadwrite95",
                    "delete_seq", "delete_random">>
  IN [i \in DOMAIN sections |->
        Piece(lib, {b \in DOMAIN figure.blocks : figure.blocks[b] = sections[i]})]
run_variants == run_all("pmdk") \o run_all("asan") \o run_all("safepm")

Pieces == IF figure.suite = "pmemkv" THEN run_variants ELSE inner_run

\* Before anything ran: the import of pmemkv writes the info lines, whether
\* there are averages or not.
NoResults ==
  [lib \in Libs |-> IF figure.suite = "pmemkv"
                    THEN [b \in DOMAIN figure.blocks |-> Block(0, 1, {})]
                    ELSE NoFile]

\* pmembench | tee: the file of a benchmark that died or was stopped ends early.
CutFiles(n) ==
  {[b \in DOMAIN figure.blocks |->
      IF b < last THEN Complete(n) ELSE IF b = last THEN block ELSE Block(n, 0, {})]
   : last \in DOMAIN figure.blocks,
     block \in {Block(n, 0, {}), Block(n, 1, {})} \cup {Block(n, 2, 1 .. k) : k \in 0 .. Rows - 1}}

\* avg.py wrote no lines, or a row is missing and the later ones moved up.
ShiftedBlocks(n) ==
  {Block(n, 1, {})} \cup {Block(n, 2, xs) : xs \in SUBSET (1 .. Rows) \ {{}, 1 .. Rows}}

Damaged(piece) ==
  IF figure.suite = "pmemkv" THEN {[b \in piece.blocks |-> block] : block \in ShiftedBlocks(executions)}
  ELSE CutFiles(executions)

\* The other blocks of the library stay as they are.
Written(piece, blocks) ==
  [results EXCEPT ![piece.lib] =
     [b \in DOMAIN figure.blocks |-> IF b \in piece.blocks THEN blocks[b] ELSE @[b]]]

\* The benchmarks are started, over the results of earlier ones or not.
StartExecution ==
  /\ step = "idle" /\ step' = "run" /\ pos' = 1
  /\ executions' = executions + 1
  /\ IF executions = 0 THEN UNCHANGED trouble ELSE trouble > 0 /\ trouble' = trouble - 1
  /\ results' \in {results, NoResults}
  /\ UNCHANGED <<figure, current, archived, parsed, saved>>

\* tee and avg.py truncate what was there.  Nothing notices a benchmark that
\* died: its status is lost in the pipe, or not looked at.
RunPiece ==
  /\ step = "run"
  /\ \/ /\ results' = Written(Pieces[pos], [b \in Pieces[pos].blocks |-> Complete(executions)])
        /\ UNCHANGED trouble
     \/ /\ trouble > 0 /\ trouble' = trouble - 1
        /\ \E blocks \in Damaged(Pieces[pos]) : results' = Written(Pieces[pos], blocks)
  /\ IF pos < Len(Pieces) THEN pos' = pos + 1 /\ UNCHANGED step ELSE pos' = 1 /\ step' = "idle"
  /\ UNCHANGED <<figure, executions, current, archived, parsed, saved>>

\* The execution is stopped, before it writes a piece or on the way.
StopExecution ==
  /\ step = "run" /\ step' = "idle" /\ pos' = 1
  /\ trouble > 0 /\ trouble' = trouble - 1
  /\ \/ UNCHANGED results
     \/ \E blocks \in Damaged(Pieces[pos]) : results' = Written(Pieces[pos], blocks)
  /\ UNCHANGED <<figure, executions, current, archived, parsed, saved>>

-----------------------------------------------------------------------------
(* The import *)

\* The files of a library, in the order of their imports.
log ==
  [lib \in Libs |->
     archived[lib] \o (IF current[lib] = NoFile THEN <<>> ELSE <<current[lib]>>)]

Lib == figure.libs[pos]
NextLib ==
  IF pos < Len(figure.libs) THEN pos' = pos + 1 /\ step' = "rotate"
  ELSE pos' = 1 /\ step' = "generate"

\* Figures are made after the benchmarks.
Start ==
  /\ step = "idle" /\ step' = "rotate" /\ pos' = 1
  /\ executions > 0
  /\ \A lib \in Libs : Len(log[lib]) < MaxImports
  /\ UNCHANGED <<figure, executions, results, trouble, current, archived, parsed, saved>>

\* Deviation: the search for a free number always ends at the first.
FreeNumberFirst(lib) == 1

\* The first number that no file of the library has.
FreeNumber(lib) ==
  CHOOSE j \in 1 .. Cardinality(DOMAIN archived[lib]) + 1 :
    j \notin DOMAIN archived[lib] /\ 1 .. j - 1 \subseteq DOMAIN archived[lib]

\* Deviation: a result that is there already is not moved and not replaced.
KeptOrMissing(lib) == results[lib] = NoFile \/ current[lib] # NoFile

\* import_pmembench.sh goes on with the next one if there is no result.
Skipped(lib) == results[lib] = NoFile

SkipMissing ==
  /\ step = "rotate" /\ Skipped(Lib) /\ NextLib
  /\ UNCHANGED <<figure, executions, results, trouble, current, archived, parsed, saved>>

\* mv of an earlier result, if there is one.
Rotate ==
  /\ step = "rotate" /\ ~Skipped(Lib)
  /\ step' = "copy" /\ UNCHANGED pos
  /\ IF current[Lib] = NoFile THEN UNCHANGED <<current, archived>>
     ELSE /\ archived' = [archived EXCEPT ![Lib] = With(@, FreeNumber(Lib), current[Lib])]
          /\ current' = [current EXCEPT ![Lib] = NoFile]
  /\ UNCHANGED <<figure, executions, results, trouble, parsed, saved>>

Copy ==
  /\ step = "copy" /\ NextLib
  /\ current' = [current EXCEPT ![Lib] = results[Lib]]
  /\ UNCHANGED <<figure, executions, results, trouble, archived, parsed, saved>>

-----------------------------------------------------------------------------
(* generate_plots.py *)

\* The script ends: what was imported stays.
Ended == step' = "idle" /\ pos' = 1 /\ parsed' = <<>> /\ saved' = <<>>

\* Deviation: the libraries come in the opposite order.
LibsReversed(f) == Reverse(f.libs)

\* The order of the libraries in the results, as in the configuration.
LibsInOrder(f) == f.libs

Parsed == [lib \in Libs |-> parse(Lines(lib, current[lib]))]

ParseDies == \E lib \in Libs : current[lib] = NoFile \/ Parsed[lib].mode = "died"

\* The results of all libraries are parsed; a file that is missing or that
\* the parser cannot read ends the script.
Parse ==
  /\ step = "generate"
  /\ IF ParseDies THEN Ended
     ELSE step' = "draw" /\ parsed' = Parsed /\ UNCHANGED <<pos, saved>>
  /\ UNCHANGED <<figure, executions, results, trouble, current, archived>>

CanAnalyse ==
  \A lib \in Libs : \A bench \in Filtered(parsed[lib].entries, figure.benchmarks) :
    Analysable(parsed[lib].entries[bench])

Plot == figure.plots[pos]
PlotCells == Cells(parsed, LibsInOrder(figure), figure.benchmarks)
PlotDies ==
  \/ ~CanAnalyse
  \/ Plot.slowdown /\ SlowdownDies(PlotCells, Plot.legend)
  \/ ~Plot.slowdown /\ AbsoluteDies(PlotCells, Plot.legend)

\* One plot of the configuration.
Draw ==
  /\ step = "draw"
  /\ IF PlotDies THEN Ended
     ELSE /\ saved' = Append(saved, IF Plot.slowdown THEN SlowdownBars(PlotCells)
                                                     ELSE AbsoluteBars(PlotCells))
          /\ IF pos < Len(figure.plots) THEN pos' = pos + 1 /\ UNCHANGED step
             ELSE pos' = 1 /\ step' = "clean"
          /\ UNCHANGED parsed
  /\ UNCHANGED <<figure, executions, results, trouble, current, archived>>

\* rm -rf of the directories of the libraries.
Nothing == [lib \in Libs |-> NoFile]
Clean ==
  /\ step = "clean" /\ Ended
  /\ current' = Nothing
  /\ archived' = [lib \in Libs |-> <<>>]
  /\ UNCHANGED <<figure, executions, results, trouble>>

\* Another step of the script fails, or it is killed.
Stopped ==
  /\ step \notin {"idle", "run"} /\ Ended
  /\ UNCHANGED <<figure, executions, results, trouble, current, archived>>

-----------------------------------------------------------------------------

Init ==
  /\ figure \in Figures
  /\ step = "idle" /\ pos = 1 /\ executions = 0
  /\ results = NoResults
  /\ trouble = MaxTrouble
  /\ current = Nothing
  /\ archived = [lib \in Libs |-> <<>>]
  /\ parsed = <<>> /\ saved = <<>>

Next ==
  \/ StartExecution \/ RunPiece \/ StopExecution
  \/ Start \/ SkipMissing \/ Rotate \/ Copy \/ Parse \/ Draw \/ Clean \/ Stopped

Spec == Init /\ [][Next]_vars

-----------------------------------------------------------------------------
(* Properties *)

HasAllRows(lib) ==
  results[lib] # NoFile /\ \A b \in DOMAIN results[lib] :
    results[lib][b].head = 2 /\ results[lib][b].rows = 1 .. Rows
\* The execution of which the result of a benchmark is, 0 if there is none.
ExecutionOf(lib, bench) ==
  IF results[lib] = NoFile THEN 0
  ELSE results[lib][CHOOSE b \in DOMAIN figure.blocks : figure.blocks[b] = bench].n
SavedBars == UNION {saved[i] : i \in DOMAIN saved}
Slowdowns == {bar \in SavedBars : bar.reference # NoLine}
Own(bar, line, lib) == line.kind = "row" /\ line.lib = lib /\ line.bench = bar.bench

\* Type invariant.
TypeOK ==
  /\ figure \in Figures
  /\ step \in {"idle", "run", "rotate", "copy", "generate", "draw", "clean"}
  /\ pos \in 1 .. Len(figure.libs) \cup 1 .. Len(figure.plots) \cup 1 .. Len(Pieces)
  /\ executions \in 0 .. MaxTrouble + 1 /\ trouble \in 0 .. MaxTrouble
  /\ \A lib \in Libs : results[lib] = NoFile \/ DOMAIN results[lib] = DOMAIN figure.blocks
  /\ \A lib \in Libs : Len(log[lib]) <= MaxImports
  /\ step = "draw" => \A lib \in Libs : \A bench \in DOMAIN parsed[lib].entries :
                        Len(parsed[lib].entries[bench]) <= Rows + 1
  /\ Len(saved) <= Len(figure.plots)

\* The import keeps the promise stated in ResultArchive, whenever scripts and
\* executions of benchmarks are stopped: nothing that was imported is lost or
\* overwritten before all of it is removed, and what is plotted is the last of
\* the log (import_pmembench.sh:25-39, import_pmemkv.sh:17-30).
Archive == INSTANCE ResultArchive
NothingOverwritten == Archive!Spec

\* However damaged the files are: a bar of a library and a benchmark is made
\* of a row that this library printed for this benchmark; lines that were
\* read as something else end the script (parser.py:15-40, analyse.py:67-124).
BarsAreOwn ==
  \A bar \in SavedBars :
    /\ Own(bar, bar.row, bar.lib)
    /\ bar \in Slowdowns => bar.reference.kind = "row" /\ bar.reference.lib = "pmdk"

\* A figure shows an earlier execution only where the newest did not get to,
\* although an execution is stopped between any two results and earlier
\* imports are lying around (import_pmembench.sh:20-23, tee in inner_run.sh).
OldOnlyIfMissing ==
  \A bar \in SavedBars :
    bar.row.execution = executions \/ ExecutionOf(bar.lib, bar.bench) < executions

\* If the result of pmdk has all rows, damage to the others cannot make a
\* slowdown relative to another benchmark, nor, in pmembench, to another row
\* (plotters.py:486-496).
ComparableToPmdk ==
  HasAllRows("pmdk") =>
    \A bar \in Slowdowns :
      /\ bar.reference.bench = bar.bench
      /\ figure.suite = "pmembench" =>
           bar.reference.x = bar.row.x /\ bar.row.x = bar.position /\ bar.tick \in {0, bar.position}

\* The figure that is wanted when there are all results.
Wanted(plot) ==
  {[bench |-> bench, lib |-> lib, position |-> x, tick |-> x,
    row |-> Line("row", lib, ExecutionOf(lib, bench), bench, x),
    reference |-> IF plot.slowdown THEN Line("row", "pmdk", ExecutionOf("pmdk", bench), bench, x)
                  ELSE NoLine]
   : bench \in ToSet(figure.benchmarks), x \in 1 .. Rows,
     lib \in IF plot.slowdown THEN Libs \ {"pmdk"} ELSE Libs}

\* From results that have all rows, of one or several executions, the script
\* draws every plot, with a bar for each library, benchmark and row, of these
\* results and nothing else, whatever earlier imports left behind
\* (figure_3.sh:3-11, generate_plots.py:44-58).
CompleteFigure ==
  (\A lib \in Libs : HasAllRows(lib)) =>
    /\ \A i \in DOMAIN saved : saved[i] = Wanted(figure.plots[i])
    /\ step = "generate" => ~ParseDies
    /\ step = "draw" => ~PlotDies
    /\ step = "clean" => Len(saved) = Len(figure.plots)

\* The label of the axis: "Slowdown w.r.t. native PMDK", of the benchmark in
\* the title of the axes (plotters.py:514-519).
SlowdownOfSameBenchmark == \A bar \in Slowdowns : bar.reference.bench = bar.bench

=============================================================================
