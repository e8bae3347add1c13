---------------------------- MODULE ResultParser ----------------------------
(***************************************************************************)
(* From a result file to the bars of a plot: parser.py reads the lines of  *)
(* one file, filter_out and analyse pick rows and columns, the functions   *)
(* of plotters.py relate the values of a library to those of pmdk.         *)
(*                                                                         *)
(* A result file is a sequence of blocks, one per benchmark: a line with   *)
(* the name and the number of rows, a line of labels, the rows.  A line is *)
(* modelled by where it comes from.  All rows of a block have one value of *)
(* the columns that name a variant.                                        *)
(***************************************************************************)
EXTENDS Integers, Sequences, SequencesExt, FiniteSets

CONSTANT Rows      \* rows of a complete block

NotAName == "not a name"
NotANumber == -1

\* execution: which execution of the benchmarks printed it.
Line(kind, lib, execution, bench, x) ==
  [kind |-> kind, lib |-> lib, execution |-> execution, bench |-> bench, x |-> x]
NoLine == Line("none", "none", 0, NotAName, 0)

\* The elements of s that are in S, in their order.
Chosen(s, S) ==
  LET chosen[i \in 0 .. Len(s)] ==
        IF i = 0 THEN <<>>
        ELSE IF s[i] \in S THEN Append(chosen[i - 1], s[i]) ELSE chosen[i - 1]
  IN chosen[Len(s)]

-----------------------------------------------------------------------------
(* parse *)

\* The state of the loop over the lines; entries maps the name of a benchmark
\* to the lines kept for it, the first of them for its labels.
Parser(mode, name, count, entries) ==
  [mode |-> mode, name |-> name, count |-> count, entries |-> entries]

AtFirstLine == Parser("info", NotAName, 0, <<>>)

With(entries, name, lines) ==
  [n \in DOMAIN entries \cup {name} |-> IF n = name THEN lines ELSE entries[n]]

\* A row has less than the five words an info line is taken apart into; a
\* line of labels has them, and a third word that is no number.
ReadInfo(p, line) ==
  CASE line.kind = "row" -> [p EXCEPT !.mode = "died"]
    [] line.kind = "labels" ->
         Parser("labels", NotAName, NotANumber, With(p.entries, NotAName, <<>>))
    [] line.kind = "info" ->
         Parser("labels", line.bench, Rows, With(p.entries, line.bench, <<>>))

ReadLabels(p, line) ==
  Parser("values", p.name, p.count, With(p.entries, p.name, <<line>>))

\* Deviation: the counter of the rows is compared before it is incremented.
ReadValuesOneMore(p, line) ==
  IF p.count = NotANumber THEN [p EXCEPT !.mode = "died"]
  ELSE LET lines == Append(p.entries[p.name], line) IN
       Parser(IF Len(lines) - 1 = p.count + 1 THEN "info" ELSE "values",
              p.name, p.count, With(p.entries, p.name, lines))

\* The number of rows in the info line says when the next block starts.
ReadValues(p, line) ==
  IF p.count = NotANumber THEN [p EXCEPT !.mode = "died"]
  ELSE LET lines == Append(p.entries[p.name], line) IN
       Parser(IF Len(lines) - 1 = p.count THEN "info" ELSE "values",
              p.name, p.count, With(p.entries, p.name, lines))

ReadLine(p, line) ==
  CASE p.mode = "info" -> ReadInfo(p, line)
    [] p.mode = "labels" -> ReadLabels(p, line)
    [] p.mode = "values" -> ReadValues(p, line)
    [] p.mode = "died" -> p

\* The parser after each line.
parsing(lines) ==
  LET after[i \in 0 .. Len(lines)] ==
        IF i = 0 THEN AtFirstLine ELSE ReadLine(after[i - 1], lines[i])
  IN after

parse(lines) == parsing(lines)[Len(lines)]

-----------------------------------------------------------------------------
(* filter_out and analyse.  results[lib] is the parser after the file of   *)
(* lib.                                                                    *)

\* The columns are found by name in the line of labels, and each row has
\* them; an exception otherwise.
Analysable(lines) ==
  /\ Len(lines) > 0 /\ lines[1].kind = "labels"
  /\ \A i \in 2 .. Len(lines) : lines[i].kind = "row"

Filtered(entries, benchmarks) == DOMAIN entries \cap ToSet(benchmarks)

\* Deviation: the line of labels is taken for a row.
RowsAndLabels(entries, bench) == IF bench \in DOMAIN entries THEN entries[bench] ELSE <<>>

RowsOf(entries, bench) ==
  IF bench \in DOMAIN entries /\ Len(entries[bench]) > 0 THEN Tail(entries[bench]) ELSE <<>>

-----------------------------------------------------------------------------
(* plotters.py *)

\* The (benchmark, library) pairs in the order in which they are drawn: the
\* benchmarks as configured, in each the libraries that have rows of it.
CellsOf(results, libs, bench) ==
  LET HasRows(lib) == RowsOf(results[lib].entries, bench) # <<>>
      present == Chosen(libs, {lib \in ToSet(libs) : HasRows(lib)})
  IN [i \in DOMAIN present |->
        [bench |-> bench, lib |-> present[i], last |-> present[Len(present)],
         rows |-> RowsOf(results[present[i]].entries, bench)]]

Cells(results, libs, benchmarks) ==
  FlattenSeq([b \in DOMAIN benchmarks |-> CellsOf(results, libs, benchmarks[b])])

Drawn(cells) == {cells[i].bench : i \in DOMAIN cells}
IsPmdk(cell) == cell.lib = "pmdk"
References(cells, i) == {j \in 1 .. i : IsPmdk(cells[j])}

\* Deviation: the reference is set once.
ReferenceFirst(cells, i) ==
  cells[CHOOSE j \in References(cells, i) : \A k \in References(cells, i) : j <= k].rows

\* The variable reference: what the last pmdk before left in it.
Reference(cells, i) ==
  cells[CHOOSE j \in References(cells, i) : \A k \in References(cells, i) : k <= j].rows

\* Positions and heights have the same number, or one height is used for all.
Fits(reference, rows) == Len(reference) >= Len(rows) \/ Len(reference) = 1

\* What ends a plot before it is saved.  legend: the index of the axes that
\* make the legend.
SlowdownDies(cells, legend) ==
  \/ Cardinality(Drawn(cells)) <= legend
  \/ \E bench \in Drawn(cells) : Cardinality({i \in DOMAIN cells : cells[i].bench = bench}) = 1
  \/ \E i \in DOMAIN cells :
       /\ ~IsPmdk(cells[i])
       /\ References(cells, i) = {} \/ ~Fits(Reference(cells, i), cells[i].rows)

AbsoluteDies(cells, legend) == Cardinality(Drawn(cells)) <= legend

\* The bar of library cell.lib at position p, with the label of the position.
Bar(cells, i, p, row, reference) ==
  LET lastRows == cells[CHOOSE j \in DOMAIN cells :
                          cells[j].bench = cells[i].bench /\ cells[j].lib = cells[i].last].rows
  IN [bench |-> cells[i].bench, lib |-> cells[i].lib, position |-> p, row |-> row,
      reference |-> reference,
      tick |-> IF p <= Len(lastRows) THEN lastRows[p].x ELSE 0]

\* reference and values are zipped: row by row, up to the shorter one.
SlowdownBars(cells) ==
  UNION {LET reference == Reference(cells, i)
             At(p) == IF Len(reference) = 1 THEN 1 ELSE p
         IN {Bar(cells, i, p, cells[i].rows[At(p)], reference[At(p)]) : p \in DOMAIN cells[i].rows}
         : i \in {j \in DOMAIN cells : ~IsPmdk(cells[j])}}

AbsoluteBars(cells) ==
  UNION {{Bar(cells, i, p, cells[i].rows[p], NoLine) : p \in DOMAIN cells[i].rows}
         : i \in DOMAIN cells}

=============================================================================
