---------------------------- MODULE PmemkvBench ----------------------------
(***************************************************************************)
(* The pmemkv benchmark: one section of a run-pmemkv-bench script for one  *)
(* benchmark.  pmemkv_bench is started for each value of a parameter, the  *)
(* whole series is repeated, each repeat has a CSV file of its own, and    *)
(* avg.py joins the files into an average and a details file and removes   *)
(* them.  The scripts do not stop when a call fails, and may be killed and *)
(* started again; files stay.                                              *)
(*                                                                         *)
(* A row of measurements is modelled by the call that printed it: its      *)
(* repeat, its value (as a position), and whether an earlier execution of  *)
(* the script made it.                                                     *)
(***************************************************************************)
EXTENDS Integers, Sequences, SequencesExt, FiniteSets

CONSTANTS Sections,      \* the sections looked at
          MaxFailures    \* calls of pmemkv_bench that may fail, and kills

\* prefill: fillseq runs first and prints a line of its own; values: how many
\* values the parameter takes.
Section(prefill, values, repeats) ==
  [prefill |-> prefill, values |-> values, repeats |-> repeats]

fill_keysize == Section(FALSE, 3, 3)
fill_valuesize == Section(FALSE, 3, 3)
fill_threads == Section(FALSE, 3, 3)
read == Section(TRUE, 6, 3)
delete == Section(TRUE, 6, 3)
randomreadwrite == Section(TRUE, 6, 3)
numops_old == Section(TRUE, 3, 1)
numops_new == Section(TRUE, 3, 1)

ASSUME SectionsAssumption ==
  /\ \A s \in Sections : s.values \in Nat \ {0} /\ s.repeats \in Nat \ {0} /\ s.prefill \in BOOLEAN
  /\ MaxFailures \in Nat

VARIABLES section,
          step,        \* "bench", "open", "read", "details", "remove", "write", "end", "killed"
          run, value,  \* counters of the two loops; run is also avg.py's position in files
          files,       \* repeat -> lines of its file
          avgDict,     \* line number -> what avg.py has of it
          lastLine,    \* res.line_num of the file read last
          details, result,
          printed,     \* rows that reached a file in this execution
          failures

vars == <<section, step, run, value, files, avgDict, lastLine, details, result, printed, failures>>

-----------------------------------------------------------------------------
(* The script *)

Header == [kind |-> "header", run |-> 0, value |-> 0, old |-> FALSE]
Row(r, v) == [kind |-> "row", run |-> r, value |-> v, old |-> FALSE]
IsRow(line) == line.kind = "row"

\* What a call prints: the header, the line of fillseq, and its own row, or
\* less if it fails.
Output(n) ==
  SubSeq(<<Header>> \o (IF section.prefill THEN <<[Row(run, value) EXCEPT !.kind = "fillseq"]>> ELSE <<>>)
           \o <<Row(run, value)>>, 1, n)
Full == IF section.prefill THEN 3 ELSE 2

\* sed '2d' takes the line of fillseq out, where there is one.
WithoutFillseq(lines) ==
  IF section.prefill /\ Len(lines) > 1
  THEN SubSeq(lines, 1, 1) \o SubSeq(lines, 3, Len(lines))
  ELSE lines

\* Deviation: one line too few is skipped.
OwnRowAndOneMore(lines) == SubSeq(lines, Full - 1, Len(lines))

\* tail -n +3, or +2 without fillseq.
OwnRow(lines) == SubSeq(lines, Full, Len(lines))

Kept(n) == IF value = 1 THEN WithoutFillseq(Output(n)) ELSE OwnRow(Output(n))

\* Deviation: the first call appends as well.
AddToFileAppends(lines) == files' = [files EXCEPT ![run] = @ \o lines]

\* The first call of a repeat creates its file, the others append to it.
AddToFile(lines) ==
  files' = [files EXCEPT ![run] = IF value = 1 THEN lines ELSE @ \o lines]

\* One call of pmemkv_bench and the removal of its pool.
Bench ==
  /\ step = "bench"
  /\ \E n \in 0 .. Full :
       /\ n < Full => failures > 0
       /\ failures' = IF n < Full THEN failures - 1 ELSE failures
       /\ AddToFile(Kept(n))
       /\ printed' = printed \cup {line \in ToSet(Kept(n)) : IsRow(line)}
  /\ IF value < section.values THEN value' = value + 1 /\ UNCHANGED <<run, step>>
     ELSE IF run < section.repeats THEN run' = run + 1 /\ value' = 1 /\ UNCHANGED step
     ELSE step' = "open" /\ UNCHANGED <<run, value>>
  /\ UNCHANGED <<section, avgDict, lastLine, details, result>>

-----------------------------------------------------------------------------
(* avg.py *)

\* No line read yet: nothing summed, no name of a value.
NoLine == [sum |-> {}, label |-> 0]
Lines == 2 .. (section.values + 1)

\* The details file is emptied.
OpenDetails ==
  /\ step = "open" /\ step' = "read" /\ run' = 1
  /\ details' = <<>> /\ avgDict' = <<>> /\ lastLine' = 0
  /\ UNCHANGED <<section, value, files, result, printed, failures>>

\* Deviation: the header is taken for a line of values.
AccumulatedWithHeader(lines) ==
  [k \in DOMAIN avgDict \cup (1 .. Len(lines)) |->
     LET entry == IF k \in DOMAIN avgDict THEN avgDict[k] ELSE NoLine IN
     IF k <= Len(lines)
     THEN [sum |-> entry.sum \cup {lines[k]}, label |-> lines[k].value]
     ELSE entry]

\* Line k of a file with its header adds to the sums of line k, and names the
\* value; without the header, its columns have other names and add nothing.
Accumulated(lines) ==
  [k \in DOMAIN avgDict \cup (2 .. Len(lines)) |->
     LET entry == IF k \in DOMAIN avgDict THEN avgDict[k] ELSE NoLine IN
     IF k <= Len(lines) /\ lines[1].kind = "header"
     THEN [sum |-> entry.sum \cup {lines[k]}, label |-> lines[k].value]
     ELSE entry]

ReadFile ==
  /\ step = "read" /\ step' = "details"
  /\ avgDict' = Accumulated(files[run])
  /\ lastLine' = Len(files[run])
  /\ UNCHANGED <<section, run, value, files, details, result, printed, failures>>

\* Deviation: the details file is opened for writing each time.
AppendDetailsAnew ==
  /\ step = "details" /\ step' = "remove"
  /\ details' = files[run]
  /\ UNCHANGED <<section, run, value, files, avgDict, lastLine, result, printed, failures>>

AppendDetails ==
  /\ step = "details" /\ step' = "remove"
  /\ details' = details \o files[run]
  /\ UNCHANGED <<section, run, value, files, avgDict, lastLine, result, printed, failures>>

RemoveFile ==
  /\ step = "remove"
  /\ files' = [files EXCEPT ![run] = <<>>]
  /\ IF run < section.repeats THEN run' = run + 1 /\ step' = "read"
     ELSE step' = "write" /\ UNCHANGED run
  /\ UNCHANGED <<section, value, avgDict, lastLine, details, result, printed, failures>>

\* Deviation: the sums are not divided.
DivisorMissing(k) == 1

\* Whether a column is divided is looked up in the last line of the last
\* file, whatever line is written.
Divisor(k) ==
  IF lastLine \in DOMAIN avgDict /\ avgDict[lastLine].sum # {} THEN section.repeats ELSE 1

\* Without any line, max fails on the file just truncated.
WriteAverage ==
  /\ step = "write" /\ step' = "end"
  /\ result' = [k \in 1 .. Cardinality(DOMAIN avgDict) |->
                  [sum |-> avgDict[k + 1].sum, label |-> avgDict[k + 1].label,
                   divisor |-> Divisor(k + 1)]]
  /\ UNCHANGED <<section, run, value, files, avgDict, lastLine, details, printed, failures>>

-----------------------------------------------------------------------------

Killed ==
  /\ step \notin {"end", "killed"} /\ failures > 0
  /\ failures' = failures - 1 /\ step' = "killed"
  /\ UNCHANGED <<section, run, value, files, avgDict, lastLine, details, result, printed>>

Aged(line) == [line EXCEPT !.old = TRUE]

\* The script is started again over the files it finds.
Restart ==
  /\ step = "killed" /\ step' = "bench" /\ run' = 1 /\ value' = 1
  /\ files' = [r \in DOMAIN files |-> [k \in DOMAIN files[r] |-> Aged(files[r][k])]]
  /\ details' = [k \in DOMAIN details |-> Aged(details[k])]
  /\ avgDict' = <<>> /\ lastLine' = 0 /\ printed' = {}
  /\ UNCHANGED <<section, result, failures>>

Init ==
  /\ section \in Sections
  /\ step = "bench" /\ run = 1 /\ value = 1
  /\ files = [r \in 1 .. section.repeats |-> <<>>]
  /\ avgDict = <<>> /\ lastLine = 0 /\ details = <<>> /\ result = <<>>
  /\ printed = {} /\ failures = MaxFailures

Next ==
  \/ Bench \/ OpenDetails \/ ReadFile \/ AppendDetails \/ RemoveFile \/ WriteAverage
  \/ Killed \/ Restart

Spec == Init /\ [][Next]_vars

-----------------------------------------------------------------------------
(* Properties *)

AllCalls == {Row(r, v) : r \in 1 .. section.repeats, v \in 1 .. section.values}

\* Type invariant.
TypeOK ==
  /\ section \in Sections
  /\ step \in {"bench", "open", "read", "details", "remove", "write", "end", "killed"}
  /\ run \in 1 .. section.repeats /\ value \in 1 .. section.values
  /\ \A r \in DOMAIN files : Len(files[r]) <= section.values + 1
  /\ DOMAIN avgDict \subseteq Lines /\ lastLine \in 0 .. section.values + 1
  /\ printed \subseteq AllCalls
  /\ failures \in 0 .. MaxFailures

\* When every call of an execution succeeded, whatever happened in earlier
\* ones, line k of the average is the mean of the k-th value over all repeats
\* and carries its name (avg.py:30-76).
CompleteMeansAverage ==
  step = "end" /\ printed = AllCalls =>
    /\ Len(result) = section.values
    /\ \A k \in DOMAIN result :
         result[k] = [sum |-> {Row(r, k) : r \in 1 .. section.repeats},
                      label |-> k, divisor |-> section.repeats]

\* An average is never made of measurements of an earlier execution, although
\* a killed one leaves its files (run-pmemkv-bench-read.sh:29-33).
NothingOld ==
  step = "end" => \A k \in DOMAIN result : \A line \in result[k].sum : ~line.old

\* avg.py removes its inputs (avg.py:57): a measurement of the running
\* execution is at all times in the file of its repeat or in the details.
NothingLost ==
  step # "killed" =>
    \A line \in printed :
      \/ line \in ToSet(files[line.run])
      \/ step \in {"read", "details", "remove", "write", "end"} /\ line \in ToSet(details)

\* A failed call moves later measurements up, never down, and a measurement is
\* summed in one line only: the mean of a line is of calls with the value of
\* the line or a later one (avg.py:38-45 goes by line numbers alone).
ShiftsUpOnly ==
  \A k \in DOMAIN avgDict : \A line \in avgDict[k].sum :
    /\ line.value >= k - 1
    /\ \A j \in DOMAIN avgDict \ {k} : line \notin avgDict[j].sum

=============================================================================
