------------------------- MODULE PmemkvBenchProofs -------------------------
(***************************************************************************)
(* What the averages of the pmemkv benchmark are averages of, for sections *)
(* of every shape, any number of failing calls and kills.                  *)
(***************************************************************************)
EXTENDS PmemkvBench, FiniteSetTheorems, TLAPS

Steps == {"bench", "open", "read", "details", "remove", "write", "end", "killed"}
AnyLine == [kind : {"header", "fillseq", "row"}, run : Nat, value : Nat, old : BOOLEAN]
Repeats == 1 .. section.repeats
Values == 1 .. section.values

Shapes ==
  /\ section \in Sections /\ step \in Steps
  /\ run \in Repeats /\ value \in Values
  /\ files \in [Repeats -> Seq(AnyLine)]
  /\ \A r \in Repeats : Len(files[r]) <= section.values + 1
  /\ lastLine \in 0 .. section.values + 1
  /\ details \in Seq(AnyLine)
  /\ printed \subseteq AllCalls
  /\ failures \in 0 .. MaxFailures

\* The measurements of a repeat of this execution, before value n: the header,
\* if any, comes first, and the values grow along the file.
Grown(lines, r, n) ==
  /\ lines \in Seq(AnyLine) /\ Len(lines) <= n
  /\ \A k \in 1 .. Len(lines) :
       /\ lines[k] = Header \/ \E v \in Values : lines[k] = Row(r, v)
       /\ lines[k].value >= k - 1 /\ lines[k].value < n
       /\ \A j \in 1 .. k - 1 : lines[j].value < lines[k].value

\* The file of a repeat none of whose calls before value n failed.
Whole(r, n) == [k \in 1 .. n |-> IF k = 1 THEN Header ELSE Row(r, k - 1)]
Good(r, n) ==
  /\ Grown(files[r], r, n)
  /\ (\A v \in 1 .. n - 1 : Row(r, v) \in printed) => files[r] = Whole(r, n)

\* The files of the repeats up to the running one.
Written ==
  step = "bench" =>
    /\ \A r \in 1 .. run - 1 : Good(r, section.values + 1)
    /\ value > 1 => Good(run, value)
    /\ \A line \in printed : line.run < run \/ (line.run = run /\ line.value < value)
    /\ avgDict = <<>>

\* The files avg.py has not removed.
Unread ==
  /\ step = "open" => \A r \in Repeats : Good(r, section.values + 1)
  /\ step \in {"read", "details", "remove"} =>
       \A r \in run .. section.repeats : Good(r, section.values + 1)
  /\ step \in {"read", "details", "remove", "write"} =>
       \A r \in Repeats : r < run => files[r] = <<>>
  /\ step = "remove" => \A line \in ToSet(files[run]) : line \in ToSet(details)

\* The repeats avg.py has read.
ReadSoFar == IF step = "read" THEN run - 1 ELSE IF step = "bench" THEN 0 ELSE run

\* The sums of avg.py.
Sums ==
  /\ \E m \in 1 .. section.values + 1 : DOMAIN avgDict = 2 .. m
  /\ \A k \in DOMAIN avgDict : \A line \in avgDict[k].sum :
       \E r \in Repeats, v \in Values :
         line = Row(r, v) /\ v >= k - 1 /\ (step \notin {"killed", "open"} => r <= ReadSoFar)
  /\ \A k \in DOMAIN avgDict : \A j \in DOMAIN avgDict \ {k} :
       avgDict[k].sum \cap avgDict[j].sum = {}

\* The sums when no call failed.
WholeSums(n) ==
  [k \in Lines |-> [sum |-> {Row(r, k - 1) : r \in 1 .. n}, label |-> k - 1]]
AllWell ==
  printed = AllCalls /\ step \in {"read", "details", "remove", "write", "end"} =>
    IF ReadSoFar = 0 THEN avgDict = <<>>
    ELSE avgDict = WholeSums(ReadSoFar) /\ lastLine = section.values + 1

Results ==
  /\ step \in {"write", "end"} => run = section.repeats
  /\ step = "end" =>
       result = [k \in 1 .. Cardinality(DOMAIN avgDict) |->
                  [sum |-> avgDict[k + 1].sum, label |-> avgDict[k + 1].label,
                   divisor |-> Divisor(k + 1)]]

\* The inductive invariant.  NothingLost and ShiftsUpOnly are not inductive:
\* that a measurement is in the file of its repeat, and later in one sum only,
\* rests on the order in which the calls wrote the file.
IInv == Shapes /\ Written /\ Unread /\ NothingLost /\ Sums /\ AllWell /\ Results

-----------------------------------------------------------------------------
(* The initial states, and a new start *)

LEMMA Sizes ==
  ASSUME section \in Sections
  PROVE  /\ section.values \in Nat \ {0} /\ section.repeats \in Nat \ {0}
         /\ section.prefill \in BOOLEAN
BY SectionsAssumption

LEMMA EmptyDomain == DOMAIN <<>> = 2 .. 1
OBVIOUS

THEOREM InitHolds == Init => IInv
<1> SUFFICES ASSUME Init PROVE IInv
  OBVIOUS
<1>1. /\ section \in Sections /\ section.values \in Nat \ {0} /\ section.repeats \in Nat \ {0}
      /\ step = "bench" /\ run = 1 /\ value = 1 /\ printed = {} /\ avgDict = <<>> /\ lastLine = 0
      /\ files = [r \in Repeats |-> <<>>] /\ details = <<>> /\ failures = MaxFailures
  BY Sizes DEF Init, Repeats
<1>2. Shapes
  <2>1. files \in [Repeats -> Seq(AnyLine)] /\ \A r \in Repeats : Len(files[r]) <= section.values + 1
    BY <1>1
  <2> QED
    BY <1>1, <2>1, SectionsAssumption DEF Shapes, Steps, Repeats, Values
<1>3. Written /\ Unread /\ NothingLost /\ AllWell /\ Results
  BY <1>1 DEF Written, Unread, NothingLost, AllWell, Results
<1>4. Sums
  BY <1>1, EmptyDomain DEF Sums
<1> QED
  BY <1>2, <1>3, <1>4 DEF IInv

LEMMA RestartStep == IInv /\ Restart => IInv'
<1> SUFFICES ASSUME IInv, Restart PROVE IInv'
  OBVIOUS
<1>1. /\ section' = section /\ section \in Sections /\ section.values \in Nat \ {0}
      /\ section.repeats \in Nat \ {0} /\ failures' = failures
      /\ step' = "bench" /\ run' = 1 /\ value' = 1 /\ printed' = {} /\ avgDict' = <<>> /\ lastLine' = 0
  BY Sizes DEF Restart, IInv, Shapes
<1>2. \A line \in AnyLine : Aged(line) \in AnyLine
  BY DEF Aged, AnyLine
<1>3. \A lines \in Seq(AnyLine) :
        LET q == [k \in DOMAIN lines |-> Aged(lines[k])] IN
        q \in Seq(AnyLine) /\ Len(q) = Len(lines)
  BY <1>2
<1>4. Shapes'
  <2>1. /\ files' \in [Repeats -> Seq(AnyLine)]
        /\ \A r \in Repeats : Len(files'[r]) <= section.values + 1
    BY <1>3 DEF Restart, IInv, Shapes
  <2>2. details' \in Seq(AnyLine)
    BY <1>3 DEF Restart, IInv, Shapes
  <2> QED
    BY <1>1, <2>1, <2>2 DEF IInv, Shapes, Steps, Repeats, Values
<1>5. Written' /\ Unread' /\ NothingLost' /\ AllWell' /\ Results'
  BY <1>1 DEF Written, Unread, NothingLost, AllWell, Results
<1>6. Sums'
  BY <1>1, EmptyDomain DEF Sums
<1> QED
  BY <1>4, <1>5, <1>6 DEF IInv

LEMMA KilledStep == IInv /\ Killed => IInv'
<1> SUFFICES ASSUME IInv, Killed PROVE IInv'
  OBVIOUS
<1>1. /\ UNCHANGED <<section, run, value, files, avgDict, lastLine, details, result, printed>>
      /\ step' = "killed" /\ failures' \in 0 .. MaxFailures
  BY SectionsAssumption DEF Killed, IInv, Shapes
<1>2. Shapes'
  BY <1>1 DEF IInv, Shapes, Steps, Repeats, Values, AllCalls, Row
<1>3. Written' /\ Unread' /\ NothingLost' /\ AllWell' /\ Results'
  BY <1>1 DEF Written, Unread, NothingLost, AllWell, Results
<1>4. Sums'
  BY <1>1 DEF IInv, Sums, Repeats, Values
<1> QED
  BY <1>2, <1>3, <1>4 DEF IInv

-----------------------------------------------------------------------------
(* The calls of pmemkv_bench *)

LEMMA Concatenated ==
  ASSUME NEW S, NEW p \in Seq(S), NEW q \in Seq(S), NEW r, r = p \o q
  PROVE  /\ r \in Seq(S) /\ Len(r) = Len(p) + Len(q)
         /\ \A k \in 1 .. Len(p) : r[k] = p[k]
         /\ \A k \in 1 .. Len(q) : r[Len(p) + k] = q[k]
OBVIOUS

\* What reaches the file of a call: all it should, or no row.
LEMMA KeptCases ==
  ASSUME Shapes, NEW n \in 0 .. Full, NEW kept, kept = Kept(n)
  PROVE  /\ kept \in Seq(AnyLine)
         /\ value = 1 =>
              /\ n = Full => Len(kept) = 2 /\ kept[1] = Header /\ kept[2] = Row(run, value)
              /\ n # Full => Len(kept) = 0 \/ (Len(kept) = 1 /\ kept[1] = Header)
         /\ value # 1 =>
              /\ n = Full => Len(kept) = 1 /\ kept[1] = Row(run, value)
              /\ n # Full => Len(kept) = 0
<1>1. section.prefill \in BOOLEAN /\ run \in Nat /\ value \in Nat
  BY Sizes DEF Shapes, Repeats, Values
<1> DEFINE fill == [Row(run, value) EXCEPT !.kind = "fillseq"]
           row == Row(run, value)
           out == Output(n)
<1>2. Header \in AnyLine /\ fill \in AnyLine /\ row \in AnyLine
  BY <1>1 DEF Header, Row, AnyLine
<1>3. CASE section.prefill
  <2> DEFINE all == <<Header>> \o <<fill>> \o <<row>>
  <2>0. n \in 0 .. 3 /\ Full = 3
    BY <1>3 DEF Full
  <2>1. out = SubSeq(all, 1, n)
    BY <1>3 DEF Output
  <2> HIDE DEF fill, row
  <2>2. all \in Seq(AnyLine) /\ Len(all) = 3 /\ all[1] = Header /\ all[3] = row
    BY <1>2
  <2> HIDE DEF all
  <2>3. out \in Seq(AnyLine) /\ Len(out) = n /\ (n > 0 => out[1] = Header) /\ (n = 3 => out[3] = row)
    <3>1. Len(out) = n /\ \A k \in 1 .. n : out[k] = all[k]
      BY <2>0, <2>1, <2>2
    <3>2. \A k \in 1 .. n : out[k] \in AnyLine
      BY <2>0, <2>1, <2>2, <3>1
    <3>3. out \in Seq(AnyLine)
      BY <2>0, <2>1, <2>2
    <3> QED
      BY <2>0, <2>1, <2>2, <3>1, <3>3
  <2> HIDE DEF out
  <2>4. CASE value = 1
    <3>1. kept = WithoutFillseq(out)
      BY <2>4 DEF Kept, out
    <3>2. CASE n <= 1
      <4>1. kept = out
        BY <2>0, <2>3, <3>1, <3>2 DEF WithoutFillseq
      <4>2. n = 0 \/ n = 1
        BY <2>0, <3>2
      <4>3. kept \in Seq(AnyLine) /\ (Len(kept) = 0 \/ (Len(kept) = 1 /\ kept[1] = Header))
        BY <2>3, <4>1, <4>2
      <4> QED
        BY <2>0, <2>4, <4>2, <4>3
    <3>3. CASE n > 1
      <4> DEFINE p == SubSeq(out, 1, 1)
                 q == SubSeq(out, 3, Len(out))
      <4>1. kept = p \o q
        BY <1>3, <2>0, <2>3, <3>1, <3>3 DEF WithoutFillseq
      <4>2. p \in Seq(AnyLine) /\ Len(p) = 1 /\ p[1] = Header
        BY <2>0, <2>3, <3>3
      <4>3. q \in Seq(AnyLine) /\ Len(q) = n - 2 /\ (n = 3 => q[1] = row)
        BY <2>0, <2>3, <3>3
      <4> HIDE DEF p, q
      <4>6. /\ kept \in Seq(AnyLine) /\ Len(kept) = Len(p) + Len(q)
            /\ \A k \in 1 .. Len(p) : kept[k] = p[k]
            /\ \A k \in 1 .. Len(q) : kept[Len(p) + k] = q[k]
        BY <4>1, <4>2, <4>3, Concatenated
      <4>4. kept \in Seq(AnyLine) /\ Len(kept) = n - 1 /\ kept[1] = Header
        BY <2>0, <4>2, <4>3, <4>6
      <4>5. n = 3 => kept[2] = row
        BY <2>0, <4>2, <4>3, <4>6
      <4> QED
        BY <2>0, <2>4, <3>3, <4>4, <4>5 DEF row
    <3> QED
      BY <2>0, <3>2, <3>3
  <2>5. CASE value # 1
    <3>1. kept = SubSeq(out, 3, Len(out))
      BY <2>0, <2>5 DEF Kept, OwnRow, out
    <3> QED
      BY <2>0, <2>3, <2>5, <3>1 DEF row
  <2> QED
    BY <2>4, <2>5
<1>4. CASE ~section.prefill
  <2> DEFINE all == <<Header>> \o <<>> \o <<row>>
  <2>0. n \in 0 .. 2 /\ Full = 2
    BY <1>4 DEF Full
  <2>1. out = SubSeq(all, 1, n)
    BY <1>4 DEF Output
  <2> HIDE DEF row
  <2>2. all \in Seq(AnyLine) /\ Len(all) = 2 /\ all[1] = Header /\ all[2] = row
    BY <1>2
  <2> HIDE DEF all
  <2>3. out \in Seq(AnyLine) /\ Len(out) = n /\ (n > 0 => out[1] = Header) /\ (n = 2 => out[2] = row)
    BY <2>0, <2>1, <2>2
  <2> HIDE DEF out
  <2>4. CASE value = 1
    <3>1. kept = out
      BY <1>4, <2>4 DEF Kept, WithoutFillseq, out
    <3>2. n = 0 \/ n = 1 \/ n = 2
      BY <2>0
    <3>3. /\ kept \in Seq(AnyLine) /\ Len(kept) = n
          /\ (n > 0 => kept[1] = Header) /\ (n = 2 => kept[2] = row)
      BY <2>3, <3>1
    <3> QED
      BY <2>0, <2>4, <3>2, <3>3 DEF row
  <2>5. CASE value # 1
    <3>1. kept = SubSeq(out, 2, Len(out))
      BY <2>0, <2>5 DEF Kept, OwnRow, out
    <3> QED
      BY <2>0, <2>3, <2>5, <3>1 DEF row
  <2> QED
    BY <2>4, <2>5
<1> QED
  BY <1>1, <1>3, <1>4

\* A call adds its row, at most, and keeps the rows of the calls before it.
LEMMA BenchFile ==
  ASSUME IInv, Bench
  PROVE  \E f \in Seq(AnyLine) :
           /\ files' = [files EXCEPT ![run] = f]
           /\ Grown(f, run, value + 1)
           /\ \/ printed' = printed
              \/ /\ printed' = printed \cup {Row(run, value)} /\ Row(run, value) \in ToSet(f)
                 /\ (\A v \in 1 .. value - 1 : Row(run, v) \in printed) => f = Whole(run, value + 1)
           /\ \A line \in printed : line.run = run => line \in ToSet(f)
<1> USE DEF IInv
<1>1. PICK n \in 0 .. Full :
        /\ AddToFile(Kept(n)) /\ step = "bench"
        /\ printed' = printed \cup {line \in ToSet(Kept(n)) : IsRow(line)}
  BY DEF Bench
<1>2. /\ run \in Repeats /\ value \in Values /\ value \in Nat /\ value >= 1 /\ run \in Nat
      /\ section.values \in Nat
      /\ files \in [Repeats -> Seq(AnyLine)]
  BY Sizes DEF Shapes, Repeats, Values
<1> DEFINE row == Row(run, value)
<1>3. PICK kept : kept = Kept(n)
  OBVIOUS
<1>4. /\ kept \in Seq(AnyLine)
      /\ value = 1 =>
           /\ n = Full => Len(kept) = 2 /\ kept[1] = Header /\ kept[2] = row
           /\ n # Full => Len(kept) = 0 \/ (Len(kept) = 1 /\ kept[1] = Header)
      /\ value # 1 =>
           /\ n = Full => Len(kept) = 1 /\ kept[1] = row
           /\ n # Full => Len(kept) = 0
  BY <1>3, KeptCases
<1>5. /\ ~IsRow(Header) /\ IsRow(row) /\ Header.value = 0 /\ row.value = value
      /\ \A v : Row(run, v).value = v
  BY DEF IsRow, Header, Row
<1>6. printed' = IF n = Full THEN printed \cup {row} ELSE printed
  <2> HIDE DEF row
  <2>1. \A line : line \in ToSet(kept) <=> \E k \in 1 .. Len(kept) : line = kept[k]
    BY <1>4 DEF ToSet
  <2>2. n = Full => {line \in ToSet(kept) : IsRow(line)} = {row}
    BY <1>4, <1>5, <2>1
  <2>3. n # Full => {line \in ToSet(kept) : IsRow(line)} = {}
    BY <1>4, <1>5, <2>1
  <2> QED
    BY <1>1, <1>3, <2>2, <2>3
<1> HIDE DEF row
<1>7. CASE value = 1
  <2>1. files' = [files EXCEPT ![run] = kept]
    BY <1>1, <1>3, <1>7 DEF AddToFile
  <2>2. Grown(kept, run, value + 1)
    <3>1. \/ Len(kept) = 2 /\ kept[1] = Header /\ kept[2] = row
          \/ Len(kept) = 1 /\ kept[1] = Header
          \/ Len(kept) = 0
      BY <1>4, <1>7
    <3>2. Len(kept) <= 2
      <4>1. Len(kept) = 0 \/ Len(kept) = 1 \/ Len(kept) = 2
        BY <3>1
      <4>2. \A m \in Nat : m = 0 \/ m = 1 \/ m = 2 => m <= 2
        OBVIOUS
      <4>3. Len(kept) \in Nat
        BY <1>4
      <4> QED
        BY <4>1, <4>2, <4>3
    <3>3. ASSUME NEW k \in 1 .. Len(kept)
          PROVE  \/ k = 1 /\ kept[k] = Header
                 \/ k = 2 /\ kept[k] = row /\ kept[1] = Header
      BY <3>1
    <3>4. \A k \in 1 .. Len(kept) :
            /\ kept[k] = Header \/ \E v \in Values : kept[k] = Row(run, v)
            /\ kept[k].value >= k - 1 /\ kept[k].value < 2
            /\ \A j \in 1 .. k - 1 : kept[j].value < kept[k].value
      BY <1>2, <1>5, <1>7, <3>3 DEF row
    <3> QED
      BY <1>4, <1>7, <3>2, <3>4 DEF Grown
  <2>3. n = Full => row \in ToSet(kept) /\ kept = Whole(run, value + 1)
    <3> SUFFICES ASSUME n = Full PROVE row \in ToSet(kept) /\ kept = Whole(run, value + 1)
      OBVIOUS
    <3>1. Len(kept) = 2 /\ kept[1] = Header /\ kept[2] = row /\ DOMAIN kept = 1 .. 2
      BY <1>4, <1>7
    <3>2. \A k \in 1 .. 2 : kept[k] = IF k = 1 THEN Header ELSE Row(run, k - 1)
      BY <1>7, <3>1 DEF row
    <3>3. kept = [k \in 1 .. 2 |-> kept[k]]
      BY <1>4, <3>1
    <3> QED
      BY <1>7, <3>1, <3>2, <3>3 DEF ToSet, Whole
  <2>4. \A line \in printed : line.run # run
    <3>1. \A line \in printed : line.run < run \/ (line.run = run /\ line.value < 1)
      BY <1>1, <1>7 DEF Written
    <3>2. \A line \in printed : line.run \in Nat /\ line.value \in Nat /\ line.value >= 1
      BY DEF Shapes, AllCalls, Row
    <3> QED
      BY <1>2, <3>1, <3>2
  <2> QED
    BY <1>4, <1>6, <2>1, <2>2, <2>3, <2>4 DEF row
<1>8. CASE value # 1
  <2> DEFINE g == files[run]
  <2>1. PICK f : f = g \o kept
    OBVIOUS
  <2>2. g \in Seq(AnyLine) /\ files' = [files EXCEPT ![run] = f]
    BY <1>1, <1>2, <1>3, <1>8, <2>1 DEF AddToFile
  <2>3. Good(run, value)
    BY <1>1, <1>2, <1>8 DEF Written
  <2>4. /\ f \in Seq(AnyLine) /\ Len(f) = Len(g) + Len(kept)
        /\ \A k \in 1 .. Len(g) : f[k] = g[k]
        /\ \A k \in 1 .. Len(kept) : f[Len(g) + k] = kept[k]
    BY <1>4, <2>1, <2>2, Concatenated
  <2>5. Grown(g, run, value) /\ Len(g) \in Nat /\ Len(g) <= value
    BY <2>2, <2>3 DEF Good, Grown
  <2>6. \A line \in printed : line.run = run => line \in ToSet(f)
    <3>1. \A line \in printed : line.run = run => line \in ToSet(g)
      BY <1>1 DEF NothingLost
    <3>2. \A line \in ToSet(g) : line \in ToSet(f)
      <4>1. \A k \in DOMAIN g : k \in DOMAIN f /\ f[k] = g[k]
        BY <1>4, <2>2, <2>4
      <4> QED
        BY <4>1 DEF ToSet
    <3> QED
      BY <3>1, <3>2
  <2> HIDE DEF g
  <2>7. CASE n = Full
    <3>1. Len(kept) = 1 /\ kept[1] = row /\ Len(f) = Len(g) + 1 /\ f[Len(g) + 1] = row
      <4>1. Len(kept) = 1 /\ kept[1] = row
        BY <1>4, <1>8, <2>7
      <4> QED
        BY <2>4, <2>5, <4>1
    <3>2. Grown(f, run, value + 1)
      <4>1. ASSUME NEW k \in 1 .. Len(f)
            PROVE  /\ f[k] = Header \/ \E v \in Values : f[k] = Row(run, v)
                   /\ f[k].value >= k - 1 /\ f[k].value < value + 1
                   /\ \A j \in 1 .. k - 1 : f[j].value < f[k].value
        <5>1. CASE k \in 1 .. Len(g)
          <6>1. f[k] = g[k] /\ \A j \in 1 .. k - 1 : f[j] = g[j]
            BY <2>4, <2>5, <5>1
          <6>2. g[k].value \in Nat
            BY <1>2, <1>5, <2>5, <5>1 DEF Grown, Values
          <6> QED
            <7>1. /\ g[k] = Header \/ \E v \in Values : g[k] = Row(run, v)
                  /\ g[k].value >= k - 1 /\ g[k].value < value
                  /\ \A j \in 1 .. k - 1 : g[j].value < g[k].value
              BY <2>5, <5>1 DEF Grown
            <7> QED
              BY <1>2, <6>1, <6>2, <7>1
        <5>2. CASE k = Len(g) + 1
          <6>1. f[k] = row /\ k - 1 = Len(g)
            BY <2>5, <3>1, <5>2
          <6>2. \A j \in 1 .. k - 1 : f[j].value < value
            BY <2>4, <2>5, <6>1 DEF Grown
          <6> QED
            BY <1>2, <1>5, <2>5, <6>1, <6>2 DEF row
        <5> QED
          BY <2>5, <3>1, <5>1, <5>2
      <4> QED
        BY <1>2, <2>4, <2>5, <3>1, <4>1 DEF Grown
    <3>3. row \in ToSet(f)
      BY <2>4, <2>5, <3>1 DEF ToSet
    <3>4. ASSUME \A v \in 1 .. value - 1 : Row(run, v) \in printed
          PROVE  f = Whole(run, value + 1)
      <4>1. g = Whole(run, value)
        BY <2>3, <3>4 DEF Good, g
      <4>2. Len(g) = value
        BY <1>2, <4>1 DEF Whole
      <4>3. \A k \in 1 .. value + 1 : f[k] = IF k = 1 THEN Header ELSE Row(run, k - 1)
        BY <1>2, <1>8, <2>4, <3>1, <4>1, <4>2 DEF Whole, row
      <4>4. f = [k \in 1 .. value + 1 |-> f[k]]
        BY <1>2, <2>4, <3>1, <4>2
      <4> QED
        BY <4>3, <4>4 DEF Whole
    <3> QED
      BY <1>6, <2>2, <2>4, <2>6, <2>7, <3>2, <3>3, <3>4 DEF row
  <2>8. CASE n # Full
    <3>1. f = g
      BY <1>4, <1>8, <2>1, <2>2, <2>8 DEF g
    <3>2. Grown(g, run, value + 1)
      <4>1. \A k \in 1 .. Len(g) : g[k].value \in Nat
        BY <1>2, <1>5, <2>5 DEF Grown, Values
      <4> QED
        BY <1>2, <2>5, <4>1 DEF Grown
    <3> QED
      BY <1>6, <2>2, <2>4, <2>6, <2>8, <3>1, <3>2
  <2> QED
    BY <2>7, <2>8
<1> QED
  BY <1>7, <1>8

\* A call leaves the files of this execution as they should be.
LEMMA BenchStep == IInv /\ Bench => IInv'
<1> SUFFICES ASSUME IInv, Bench PROVE IInv'
  OBVIOUS
<1> USE DEF IInv
<1> DEFINE row == Row(run, value)
           N == section.values
<1>1. PICK f \in Seq(AnyLine) :
        /\ files' = [files EXCEPT ![run] = f]
        /\ Grown(f, run, value + 1)
        /\ \/ printed' = printed
           \/ /\ printed' = printed \cup {row} /\ row \in ToSet(f)
              /\ (\A v \in 1 .. value - 1 : Row(run, v) \in printed) => f = Whole(run, value + 1)
        /\ \A line \in printed : line.run = run => line \in ToSet(f)
  BY BenchFile
<1>2. /\ run \in Repeats /\ value \in Values /\ N \in Nat \ {0} /\ section.repeats \in Nat \ {0}
      /\ section \in Sections /\ section' = section /\ step = "bench"
      /\ files \in [Repeats -> Seq(AnyLine)] /\ printed \subseteq AllCalls
      /\ UNCHANGED <<avgDict, lastLine, details, result>> /\ avgDict = <<>>
  BY Sizes DEF Shapes, Bench, Written
<1>3. /\ files' \in [Repeats -> Seq(AnyLine)] /\ files'[run] = f
      /\ \A r \in Repeats \ {run} : files'[r] = files[r]
  BY <1>1, <1>2
<1>4. /\ row \in AllCalls /\ row.run = run /\ row.value = value
      /\ \A r, v : Row(r, v) = row => r = run /\ v = value
  <2>1. \A r, v : Row(r, v).run = r /\ Row(r, v).value = v
    BY DEF Row
  <2>2. row \in AllCalls
    BY <1>2 DEF AllCalls, Repeats, Values
  <2> QED
    BY <2>1, <2>2
<1> HIDE DEF row
<1>5. printed' \subseteq AllCalls /\ printed' \subseteq printed \cup {row}
  BY <1>1, <1>2, <1>4
<1>6. \/ value < N /\ value' = value + 1 /\ run' = run /\ step' = "bench"
      \/ value = N /\ run < section.repeats /\ run' = run + 1 /\ value' = 1 /\ step' = "bench"
      \/ value = N /\ run = section.repeats /\ step' = "open" /\ run' = run /\ value' = value
  BY <1>2 DEF Bench, Repeats, Values
<1>7. Shapes'
  <2>1. failures' \in 0 .. MaxFailures
    BY SectionsAssumption DEF Bench, Shapes
  <2>2. run' \in Repeats /\ value' \in Values /\ step' \in Steps
    BY <1>2, <1>6 DEF Repeats, Values, Steps
  <2>3. Len(f) <= N + 1
    BY <1>1, <1>2 DEF Grown, Values
  <2>4. \A r \in Repeats : Len(files'[r]) <= N + 1
    BY <1>3, <2>3 DEF Shapes
  <2>5. AllCalls' = AllCalls /\ Repeats' = Repeats /\ Values' = Values
    BY <1>2 DEF AllCalls, Repeats, Values
  <2> QED
    BY <1>2, <1>3, <1>5, <2>1, <2>2, <2>4, <2>5 DEF Shapes
<1>9. \A lines, r, n : Grown(lines, r, n)' <=> Grown(lines, r, n)
  BY <1>2 DEF Grown, Values, Row, Header, AnyLine
<1>10. ASSUME NEW c, NEW w, c = run, w = value PROVE Good(c, w + 1)'
  <2>1. Grown(f, c, w + 1)
    BY <1>1, <1>10
  <2>2. ASSUME \A v \in 1 .. w : Row(c, v) \in printed'
        PROVE  f = Whole(c, w + 1)
    <3>1. row \in printed'
      BY <1>2, <1>10, <2>2 DEF row, Values
    <3>2. row \notin printed
      <4>1. ~(row.run < run) /\ ~(row.value < value)
        BY <1>2, <1>4 DEF Repeats, Values
      <4> QED
        BY <1>2, <4>1 DEF Written
    <3>3. \A v \in 1 .. w - 1 : Row(c, v) \in printed
      <4> SUFFICES ASSUME NEW v \in 1 .. w - 1 PROVE Row(c, v) \in printed
        OBVIOUS
      <4>1. Row(c, v) # row /\ Row(c, v) \in printed'
        BY <1>2, <1>4, <1>10, <2>2 DEF Values
      <4> QED
        BY <1>5, <4>1
    <3> QED
      BY <1>1, <1>10, <3>1, <3>2, <3>3
  <2>3. (w + 1) - 1 = w
    BY <1>2, <1>10 DEF Values
  <2> QED
    <3>1. files'[c] = f
      BY <1>3, <1>10
    <3>2. Grown(files[c], c, w + 1)'
      BY <1>9, <2>1, <3>1
    <3>3. (\A v \in 1 .. (w + 1) - 1 : Row(c, v) \in printed)' => files'[c] = Whole(c, w + 1)
      BY <2>2, <2>3, <3>1
    <3> QED
      BY <3>2, <3>3 DEF Good, Whole
<1>11. \A r \in 1 .. run - 1 : Good(r, N + 1)'
  <2> SUFFICES ASSUME NEW r \in 1 .. run - 1 PROVE Good(r, N + 1)'
    OBVIOUS
  <2>1. r \in Repeats /\ r # run
    BY <1>2 DEF Repeats
  <2>2. Good(r, N + 1) /\ files'[r] = files[r]
    BY <1>2, <1>3, <2>1 DEF Written
  <2>3. \A v : Row(r, v) \in printed' => Row(r, v) \in printed
    BY <1>4, <1>5, <2>1
  <2> QED
    BY <1>2, <1>9, <2>2, <2>3 DEF Good, Whole
<1>12. Written'
  <2> SUFFICES ASSUME step' = "bench" PROVE Written'
    BY DEF Written
  <2>1. \A line \in printed' : line.run < run' \/ (line.run = run' /\ line.value < value')
    <3>1. \A line \in printed : line.run < run \/ (line.run = run /\ line.value < value)
      BY <1>2 DEF Written
    <3>2. \A line \in printed : line.run \in Nat /\ line.value \in 1 .. N
      BY <1>2 DEF AllCalls, Row
    <3> SUFFICES ASSUME NEW line \in printed'
                 PROVE  line.run < run' \/ (line.run = run' /\ line.value < value')
      OBVIOUS
    <3>3. /\ run \in Nat /\ value \in Nat
          /\ (value' = value + 1 /\ run' = run) \/ run' = run + 1
      BY <1>2, <1>6 DEF Repeats, Values
    <3>4. CASE line = row
      BY <1>4, <3>3, <3>4
    <3>5. CASE line \in printed
      BY <3>1, <3>2, <3>3, <3>5
    <3> QED
      BY <1>5, <3>4, <3>5
  <2>2. CASE value < N
    <3>1. run' = run /\ value' = value + 1
      BY <1>2, <1>6, <2>2 DEF Values
    <3>2. Good(run, value)'
      BY <1>10, <3>1 DEF Good
    <3> QED
      BY <1>2, <1>11, <2>1, <3>1, <3>2 DEF Written
  <2>3. CASE value = N
    <3>1. run' = run + 1 /\ value' = 1
      BY <1>2, <1>6, <2>3
    <3>2. \A r \in 1 .. run' - 1 : r = run \/ r \in 1 .. run - 1
      BY <1>2, <3>1 DEF Repeats
    <3>3. ASSUME NEW r \in 1 .. run' - 1 PROVE Good(r, N + 1)'
      BY <1>2, <1>10, <1>11, <2>3, <3>2
    <3> QED
      BY <1>2, <2>1, <3>1, <3>3 DEF Written
  <2> QED
    BY <1>2, <2>2, <2>3 DEF Values
<1>13. Unread'
  <2>1. CASE step' = "open"
    <3>1. value = N /\ run = section.repeats
      BY <1>2, <1>6, <2>1
    <3>2. \A r \in Repeats : r = run \/ r \in 1 .. run - 1
      BY <1>2, <3>1 DEF Repeats
    <3>3. ASSUME NEW r \in Repeats PROVE Good(r, N + 1)'
      BY <1>2, <1>10, <1>11, <3>1, <3>2
    <3> QED
      BY <1>2, <2>1, <3>3 DEF Unread, Repeats
  <2>2. CASE step' = "bench"
    BY <2>2 DEF Unread
  <2> QED
    BY <1>6, <2>1, <2>2
<1>14. NothingLost'
  <2> SUFFICES ASSUME NEW line \in printed' PROVE line \in ToSet(files'[line.run])
    BY DEF NothingLost
  <2>1. CASE line \in printed
    <3>1. line \in ToSet(files[line.run])
      BY <1>2, <2>1 DEF NothingLost
    <3>2. line.run \in Repeats
      BY <1>2, <2>1 DEF AllCalls, Row, Repeats
    <3> QED
      BY <1>1, <1>3, <2>1, <3>1, <3>2
  <2>2. CASE line = row /\ line \notin printed
    BY <1>1, <1>3, <1>4, <2>2 DEF row
  <2> QED
    BY <1>5, <2>1, <2>2
<1>15. Sums' /\ AllWell' /\ Results'
  <2>1. Sums'
    BY <1>2, EmptyDomain DEF Sums
  <2> QED
    BY <1>6, <2>1 DEF AllWell, Results
<1> QED
  BY <1>7, <1>12, <1>13, <1>14, <1>15

-----------------------------------------------------------------------------
(* The steps of avg.py *)

LEMMA OpenStep == IInv /\ OpenDetails => IInv'
<1> SUFFICES ASSUME IInv, OpenDetails PROVE IInv'
  OBVIOUS
<1> USE DEF IInv
<1>1. /\ step = "open" /\ step' = "read" /\ run' = 1 /\ details' = <<>> /\ avgDict' = <<>>
      /\ lastLine' = 0 /\ UNCHANGED <<section, value, files, result, printed, failures>>
      /\ section.repeats \in Nat \ {0} /\ section.values \in Nat \ {0}
  BY Sizes DEF OpenDetails, Shapes
<1>2. Shapes'
  <2>1. AllCalls' = AllCalls
    BY <1>1 DEF AllCalls
  <2> QED
    BY <1>1, <2>1 DEF Shapes, Steps, Repeats, Values
<1>3. \A r \in Repeats : Good(r, section.values + 1)'
  <2> SUFFICES ASSUME NEW r \in Repeats PROVE Good(r, section.values + 1)'
    OBVIOUS
  <2>1. Good(r, section.values + 1)
    BY <1>1 DEF Unread
  <2> QED
    BY <1>1, <2>1 DEF Good, Grown, Whole, Values
<1>4. Unread'
  BY <1>1, <1>3 DEF Unread, Repeats
<1>5. NothingLost'
  BY <1>1 DEF NothingLost
<1>6. Sums'
  BY <1>1, EmptyDomain DEF Sums
<1>7. Written' /\ AllWell' /\ Results'
  BY <1>1 DEF Written, AllWell, Results, ReadSoFar
<1> QED
  BY <1>2, <1>4, <1>5, <1>6, <1>7

\* The lines of a grown file that avg.py sums are rows of its repeat.
LEMMA SummedLines ==
  ASSUME section \in Sections, NEW r, NEW n \in Nat, NEW lines, Grown(lines, r, n),
         NEW k \in 2 .. Len(lines)
  PROVE  /\ \E v \in Values : lines[k] = Row(r, v) /\ v >= k - 1
         /\ \A j \in 2 .. Len(lines) : j # k => lines[j] # lines[k]
<1>1. /\ Len(lines) \in Nat /\ k \in 1 .. Len(lines) /\ section.values \in Nat
      /\ Header.value = 0 /\ \A v : Row(r, v).value = v
  BY Sizes DEF Grown, Header, Row
<1>2. \A j \in 2 .. Len(lines) : \E v \in Values : lines[j] = Row(r, v) /\ v >= j - 1
  <2> SUFFICES ASSUME NEW j \in 2 .. Len(lines)
               PROVE  \E v \in Values : lines[j] = Row(r, v) /\ v >= j - 1
    OBVIOUS
  <2>1. j \in 1 .. Len(lines) /\ j - 1 >= 1 /\ j \in Nat
    BY <1>1
  <2>2. /\ lines[j] = Header \/ \E v \in Values : lines[j] = Row(r, v)
        /\ lines[j].value >= j - 1
    BY <2>1 DEF Grown
  <2>3. lines[j] # Header
    BY <1>1, <2>1, <2>2
  <2> QED
    BY <1>1, <2>2, <2>3
<1>3. \A j \in 2 .. Len(lines) : lines[j].value \in Nat
  BY <1>1, <1>2 DEF Values
<1>4. ASSUME NEW j \in 2 .. Len(lines), j # k PROVE lines[j] # lines[k]
  <2>1. \/ j \in 1 .. k - 1 /\ lines[j].value < lines[k].value
        \/ k \in 1 .. j - 1 /\ lines[k].value < lines[j].value
    BY <1>1, <1>4 DEF Grown
  <2> QED
    BY <1>3, <2>1
<1> QED
  BY <1>2, <1>4

LEMMA ReadStep == IInv /\ ReadFile => IInv'
<1> SUFFICES ASSUME IInv, ReadFile PROVE IInv'
  OBVIOUS
<1> USE DEF IInv
<1> DEFINE N == section.values
           lines == files[run]
<1>1. /\ step = "read" /\ step' = "details"
      /\ avgDict' = Accumulated(lines) /\ lastLine' = Len(lines)
      /\ UNCHANGED <<section, run, value, files, details, result, printed, failures>>
      /\ section \in Sections /\ section.repeats \in Nat \ {0} /\ N \in Nat \ {0} /\ run \in Repeats
  BY Sizes DEF ReadFile, Shapes
<1>2. Good(run, N + 1) /\ ReadSoFar = run - 1 /\ ReadSoFar' = run
  BY <1>1 DEF Unread, ReadSoFar, Repeats
<1>3. Grown(lines, run, N + 1) /\ Len(lines) \in Nat /\ Len(lines) <= N + 1
  BY <1>2 DEF Good, Grown
<1> HIDE DEF lines
<1>4. Shapes'
  <2>1. AllCalls' = AllCalls
    BY <1>1 DEF AllCalls
  <2> QED
    BY <1>1, <1>3, <2>1 DEF Shapes, Steps, Repeats, Values
<1>5. Unread'
  <2>1. ASSUME NEW r \in run .. section.repeats PROVE Good(r, N + 1)'
    <3>1. Good(r, N + 1)
      BY <1>1, <2>1 DEF Unread
    <3> QED
      BY <1>1, <3>1 DEF Good, Grown, Whole, Values
  <2> QED
    BY <1>1, <2>1 DEF Unread, Repeats
<1>6. NothingLost'
  BY <1>1 DEF NothingLost
<1>7. PICK m \in 1 .. N + 1 : DOMAIN avgDict = 2 .. m
  BY <1>1 DEF Sums
<1>8. /\ DOMAIN avgDict' = DOMAIN avgDict \cup (2 .. Len(lines))
      /\ \A k \in DOMAIN avgDict' :
           LET entry == IF k \in DOMAIN avgDict THEN avgDict[k] ELSE NoLine IN
           avgDict'[k] = IF k <= Len(lines) /\ lines[1].kind = "header"
                         THEN [sum |-> entry.sum \cup {lines[k]}, label |-> lines[k].value]
                         ELSE entry
  BY <1>1 DEF Accumulated
<1>9. \A k \in DOMAIN avgDict' :
        LET old == IF k \in DOMAIN avgDict THEN avgDict[k].sum ELSE {} IN
        \/ avgDict'[k].sum = old
        \/ k \in 2 .. Len(lines) /\ avgDict'[k].sum = old \cup {lines[k]}
  <2> SUFFICES ASSUME NEW k \in DOMAIN avgDict'
               PROVE  LET old == IF k \in DOMAIN avgDict THEN avgDict[k].sum ELSE {} IN
                      \/ avgDict'[k].sum = old
                      \/ k \in 2 .. Len(lines) /\ avgDict'[k].sum = old \cup {lines[k]}
    OBVIOUS
  <2> DEFINE entry == IF k \in DOMAIN avgDict THEN avgDict[k] ELSE NoLine
  <2>1. k \in Int /\ k >= 2
    BY <1>3, <1>7, <1>8
  <2>4. avgDict'[k] = IF k <= Len(lines) /\ lines[1].kind = "header"
                      THEN [sum |-> entry.sum \cup {lines[k]}, label |-> lines[k].value]
                      ELSE entry
    BY <1>8
  <2>5. entry.sum = IF k \in DOMAIN avgDict THEN avgDict[k].sum ELSE {}
    BY DEF NoLine
  <2> HIDE DEF entry
  <2>2. CASE k <= Len(lines) /\ lines[1].kind = "header"
    <3>1. k \in 2 .. Len(lines)
      BY <1>3, <2>1, <2>2
    <3> QED
      BY <2>2, <2>4, <2>5, <3>1
  <2>3. CASE ~(k <= Len(lines) /\ lines[1].kind = "header")
    BY <2>3, <2>4, <2>5
  <2> QED
    BY <2>2, <2>3
<1>10. \A k \in 2 .. Len(lines) :
         /\ \E v \in Values : lines[k] = Row(run, v) /\ v >= k - 1
         /\ \A j \in 2 .. Len(lines) : j # k => lines[j] # lines[k]
  <2>1. N + 1 \in Nat
    BY <1>1
  <2>2. Grown(lines, run, N + 1) /\ section \in Sections
    BY <1>1, <1>3
  <2> HIDE DEF N
  <2> QED
    BY <2>1, <2>2, SummedLines
<1>11. \A k \in DOMAIN avgDict : \A line \in avgDict[k].sum :
         \E r \in Repeats, v \in Values : line = Row(r, v) /\ v >= k - 1 /\ r <= run - 1
  BY <1>1, <1>2 DEF Sums
<1>12. Sums'
  <2>1. \E q \in 1 .. N + 1 : DOMAIN avgDict' = 2 .. q
    <3>1. CASE Len(lines) <= m
      <4>1. DOMAIN avgDict' = 2 .. m
        BY <1>3, <1>7, <1>8, <3>1
      <4> QED
        BY <4>1
    <3>2. CASE m < Len(lines)
      <4>1. DOMAIN avgDict' = 2 .. Len(lines) /\ Len(lines) \in 1 .. N + 1
        BY <1>1, <1>3, <1>7, <1>8, <3>2
      <4> QED
        BY <4>1
    <3> QED
      BY <1>3, <1>7, <3>1, <3>2
  <2>2. ASSUME NEW k \in DOMAIN avgDict', NEW line \in avgDict'[k].sum
        PROVE  \E r \in Repeats, v \in Values : line = Row(r, v) /\ v >= k - 1 /\ r <= run
    <3>1. CASE k \in DOMAIN avgDict /\ line \in avgDict[k].sum
      <4>1. PICK r \in Repeats, v \in Values : line = Row(r, v) /\ v >= k - 1 /\ r <= run - 1
        BY <1>11, <3>1
      <4>2. r <= run
        BY <1>1, <4>1 DEF Repeats
      <4> QED
        BY <4>1, <4>2
    <3>2. CASE k \in 2 .. Len(lines) /\ line = lines[k]
      <4>1. PICK v \in Values : line = Row(run, v) /\ v >= k - 1
        BY <1>10, <3>2
      <4>2. run <= run
        BY <1>1 DEF Repeats
      <4> QED
        BY <1>1, <4>1, <4>2
    <3> QED
      BY <1>9, <2>2, <3>1, <3>2
  <2>3. ASSUME NEW k \in DOMAIN avgDict', NEW j \in DOMAIN avgDict' \ {k}
        PROVE  avgDict'[k].sum \cap avgDict'[j].sum = {}
    <3> DEFINE old(i) == IF i \in DOMAIN avgDict THEN avgDict[i].sum ELSE {}
    <3>1. old(k) \cap old(j) = {}
      BY <2>3 DEF Sums
    <3>2. \A i \in 2 .. Len(lines), h \in DOMAIN avgDict : lines[i] \notin avgDict[h].sum
      <4> SUFFICES ASSUME NEW i \in 2 .. Len(lines), NEW h \in DOMAIN avgDict, lines[i] \in avgDict[h].sum
                   PROVE  FALSE
        OBVIOUS
      <4>1. PICK r \in Repeats, v \in Values : lines[i] = Row(r, v) /\ r <= run - 1
        BY <1>11
      <4>2. PICK u \in Values : lines[i] = Row(run, u)
        BY <1>10
      <4>3. lines[i].run = r /\ lines[i].run = run
        BY <4>1, <4>2 DEF Row
      <4> QED
        BY <1>1, <4>1, <4>3 DEF Repeats
    <3>3. /\ avgDict'[k].sum = old(k) \/ (k \in 2 .. Len(lines) /\ avgDict'[k].sum = old(k) \cup {lines[k]})
          /\ avgDict'[j].sum = old(j) \/ (j \in 2 .. Len(lines) /\ avgDict'[j].sum = old(j) \cup {lines[j]})
      BY <1>9, <2>3
    <3>4. \A i \in 2 .. Len(lines) : lines[i] \notin old(k) /\ lines[i] \notin old(j)
      BY <3>2
    <3>5. k \in 2 .. Len(lines) /\ j \in 2 .. Len(lines) => lines[k] # lines[j]
      BY <1>10, <2>3
    <3> HIDE DEF old
    <3> QED
      BY <3>1, <3>3, <3>4, <3>5
  <2> QED
    BY <1>1, <1>2, <2>1, <2>2, <2>3 DEF Sums, Repeats, Values
<1>13. AllWell'
  <2> SUFFICES ASSUME printed = AllCalls
               PROVE  avgDict' = WholeSums(run) /\ lastLine' = N + 1
    BY <1>1, <1>2 DEF AllWell, AllCalls, Repeats, WholeSums, Lines
  <2>1. lines = Whole(run, N + 1)
    <3>1. \A v \in 1 .. (N + 1) - 1 : Row(run, v) \in printed
      BY <1>1 DEF AllCalls, Repeats
    <3> QED
      BY <1>2, <3>1 DEF Good, lines
  <2>2. /\ Len(lines) = N + 1 /\ lines[1].kind = "header"
        /\ \A k \in 2 .. N + 1 : lines[k] = Row(run, k - 1) /\ lines[k].value = k - 1
    BY <1>1, <2>1 DEF Whole, Header, Row
  <2>3. DOMAIN avgDict' = 2 .. N + 1
    BY <1>1, <1>7, <1>8, <2>2
  <2>4. \A k \in 2 .. N + 1 :
          avgDict'[k] = [sum |-> {Row(r, k - 1) : r \in 1 .. run}, label |-> k - 1]
    <3> SUFFICES ASSUME NEW k \in 2 .. N + 1
                 PROVE  avgDict'[k] = [sum |-> {Row(r, k - 1) : r \in 1 .. run}, label |-> k - 1]
      OBVIOUS
    <3> DEFINE entry == IF k \in DOMAIN avgDict THEN avgDict[k] ELSE NoLine
    <3>1. avgDict'[k] = [sum |-> entry.sum \cup {Row(run, k - 1)}, label |-> k - 1]
      <4>1. k <= Len(lines) /\ lines[k] = Row(run, k - 1) /\ lines[k].value = k - 1
            /\ lines[1].kind = "header" /\ k \in DOMAIN avgDict'
        <5>1. k \in Nat /\ k <= N + 1
          BY <1>1
        <5> QED
          BY <2>2, <2>3, <5>1
      <4> QED
        BY <1>8, <4>1
    <3>2. entry.sum = {Row(r, k - 1) : r \in 1 .. run - 1}
      <4>1. CASE run = 1
        <5>1. avgDict = <<>>
          BY <1>1, <1>2, <4>1 DEF AllWell
        <5> QED
          BY <4>1, <5>1 DEF NoLine
      <4>2. CASE run # 1
        <5>1. run - 1 # 0
          BY <1>1, <4>2 DEF Repeats
        <5>2. avgDict = WholeSums(run - 1)
          BY <1>1, <1>2, <5>1 DEF AllWell
        <5> QED
          BY <5>2 DEF WholeSums, Lines
      <4> QED
        BY <4>1, <4>2
    <3>3. {Row(r, k - 1) : r \in 1 .. run} = {Row(r, k - 1) : r \in 1 .. run - 1} \cup {Row(run, k - 1)}
      <4>1. 1 .. run = (1 .. run - 1) \cup {run}
        BY <1>1 DEF Repeats
      <4> QED
        BY <4>1
    <3> QED
      BY <3>1, <3>2, <3>3
  <2>5. avgDict' = [k \in 2 .. N + 1 |-> avgDict'[k]]
    BY <1>1, <2>3 DEF Accumulated
  <2> QED
    BY <1>1, <2>2, <2>4, <2>5 DEF WholeSums, Lines
<1>14. Written' /\ Results'
  BY <1>1 DEF Written, Results
<1> QED
  BY <1>4, <1>5, <1>6, <1>12, <1>13, <1>14

LEMMA DetailsStep == IInv /\ AppendDetails => IInv'
<1> SUFFICES ASSUME IInv, AppendDetails PROVE IInv'
  OBVIOUS
<1> USE DEF IInv
<1>1. /\ step = "details" /\ step' = "remove" /\ details' = details \o files[run]
      /\ UNCHANGED <<section, run, value, files, avgDict, lastLine, result, printed, failures>>
      /\ details \in Seq(AnyLine) /\ files[run] \in Seq(AnyLine) /\ run \in Repeats
      /\ section \in Sections
  BY DEF AppendDetails, Shapes
<1>2. /\ details' \in Seq(AnyLine) /\ Len(details') = Len(details) + Len(files[run])
      /\ \A k \in 1 .. Len(details) : details'[k] = details[k]
      /\ \A k \in 1 .. Len(files[run]) : details'[Len(details) + k] = files[run][k]
  BY <1>1, Concatenated
<1>3. \A line : line \in ToSet(details) \/ line \in ToSet(files[run]) => line \in ToSet(details')
  <2>1. \A k \in DOMAIN details : k \in DOMAIN details' /\ details'[k] = details[k]
    BY <1>1, <1>2
  <2>2. \A k \in DOMAIN files[run] :
          Len(details) + k \in DOMAIN details' /\ details'[Len(details) + k] = files[run][k]
    BY <1>1, <1>2
  <2> QED
    BY <2>1, <2>2 DEF ToSet
<1>4. Shapes'
  <2>1. AllCalls' = AllCalls
    BY <1>1 DEF AllCalls
  <2> QED
    BY <1>1, <1>2, <2>1 DEF Shapes, Steps, Repeats, Values
<1>5. Unread'
  <2>1. ASSUME NEW r \in run .. section.repeats PROVE Good(r, section.values + 1)'
    <3>1. Good(r, section.values + 1)
      BY <1>1, <2>1 DEF Unread
    <3> QED
      BY <1>1, <3>1 DEF Good, Grown, Whole, Values
  <2> QED
    BY <1>1, <1>3, <2>1 DEF Unread, Repeats
<1>6. NothingLost'
  BY <1>1, <1>3 DEF NothingLost
<1>7. Sums'
  BY <1>1 DEF Sums, ReadSoFar, Repeats, Values
<1>8. Written' /\ AllWell' /\ Results'
  BY <1>1 DEF Written, AllWell, Results, ReadSoFar, AllCalls, WholeSums, Lines
<1> QED
  BY <1>4, <1>5, <1>6, <1>7, <1>8

LEMMA RemoveStep == IInv /\ RemoveFile => IInv'
<1> SUFFICES ASSUME IInv, RemoveFile PROVE IInv'
  OBVIOUS
<1> USE DEF IInv
<1>1. /\ step = "remove" /\ files' = [files EXCEPT ![run] = <<>>]
      /\ \/ run < section.repeats /\ run' = run + 1 /\ step' = "read"
         \/ run = section.repeats /\ run' = run /\ step' = "write"
      /\ UNCHANGED <<section, value, avgDict, lastLine, details, result, printed, failures>>
      /\ section \in Sections /\ run \in Repeats /\ files \in [Repeats -> Seq(AnyLine)]
      /\ section.repeats \in Nat \ {0} /\ section.values \in Nat \ {0}
  BY Sizes DEF RemoveFile, Shapes, Repeats
<1>2. /\ files' \in [Repeats -> Seq(AnyLine)] /\ files'[run] = <<>>
      /\ \A r \in Repeats \ {run} : files'[r] = files[r]
  BY <1>1
<1>3. run' \in Repeats /\ run' >= run /\ ReadSoFar = run /\ ReadSoFar' = run
  BY <1>1 DEF Repeats, ReadSoFar
<1>4. Shapes'
  <2>1. AllCalls' = AllCalls
    BY <1>1 DEF AllCalls
  <2>2. \A r \in Repeats : Len(files'[r]) <= section.values + 1
    BY <1>1, <1>2 DEF Shapes
  <2> QED
    BY <1>1, <1>2, <1>3, <2>1, <2>2 DEF Shapes, Steps, Repeats, Values
<1>5. Unread'
  <2>1. ASSUME NEW r \in run' .. section.repeats, step' = "read" PROVE Good(r, section.values + 1)'
    <3>1. r \in run .. section.repeats /\ r \in Repeats /\ r # run
      BY <1>1, <2>1 DEF Repeats
    <3>2. Good(r, section.values + 1)
      BY <1>1, <3>1 DEF Unread
    <3> QED
      BY <1>1, <1>2, <3>1, <3>2 DEF Good, Grown, Whole, Values
  <2>2. ASSUME NEW r \in Repeats, r < run' PROVE files'[r] = <<>>
    <3>1. r = run \/ r < run
      BY <1>1, <2>2 DEF Repeats
    <3> QED
      BY <1>1, <1>2, <2>2, <3>1 DEF Unread
  <2> QED
    BY <1>1, <2>1, <2>2 DEF Unread, Repeats
<1>6. NothingLost'
  <2> SUFFICES ASSUME NEW line \in printed
               PROVE  line \in ToSet(files'[line.run]) \/ line \in ToSet(details)
    BY <1>1 DEF NothingLost
  <2>1. line \in ToSet(files[line.run]) \/ line \in ToSet(details)
    BY <1>1 DEF NothingLost
  <2>2. line.run \in Repeats
    BY <1>1 DEF Shapes, AllCalls, Row, Repeats
  <2>3. line.run = run /\ line \in ToSet(files[run]) => line \in ToSet(details)
    BY <1>1 DEF Unread
  <2> QED
    BY <1>2, <2>1, <2>2, <2>3
<1>7. Sums'
  BY <1>1, <1>3 DEF Sums, Repeats, Values
<1>8. AllWell'
  BY <1>1, <1>3 DEF AllWell, AllCalls, WholeSums, Lines
<1>9. Written' /\ Results'
  BY <1>1 DEF Written, Results
<1> QED
  BY <1>4, <1>5, <1>6, <1>7, <1>8, <1>9

LEMMA WriteStep == IInv /\ WriteAverage => IInv'
<1> SUFFICES ASSUME IInv, WriteAverage PROVE IInv'
  OBVIOUS
<1> USE DEF IInv
<1>1. /\ step = "write" /\ step' = "end"
      /\ UNCHANGED <<section, run, value, files, avgDict, lastLine, details, printed, failures>>
      /\ run = section.repeats
      /\ result' = [k \in 1 .. Cardinality(DOMAIN avgDict) |->
                      [sum |-> avgDict[k + 1].sum, label |-> avgDict[k + 1].label,
                       divisor |-> Divisor(k + 1)]]
  BY DEF WriteAverage, Results
<1>2. Shapes'
  <2>1. AllCalls' = AllCalls
    BY <1>1 DEF AllCalls
  <2> QED
    BY <1>1, <2>1 DEF Shapes, Steps, Repeats, Values
<1>3. Results'
  <2>1. \A k : Divisor(k)' = Divisor(k)
    BY <1>1 DEF Divisor
  <2> QED
    BY <1>1, <2>1 DEF Results
<1>4. NothingLost'
  BY <1>1 DEF NothingLost
<1>5. Sums'
  BY <1>1 DEF Sums, ReadSoFar, Repeats, Values
<1>6. Written' /\ Unread' /\ AllWell'
  BY <1>1 DEF Written, Unread, AllWell, ReadSoFar, AllCalls, WholeSums, Lines
<1> QED
  BY <1>2, <1>3, <1>4, <1>5, <1>6

-----------------------------------------------------------------------------
(* The theorems *)

THEOREM StepHolds == IInv /\ [Next]_vars => IInv'
<1> SUFFICES ASSUME IInv, [Next]_vars PROVE IInv'
  OBVIOUS
<1>1. CASE UNCHANGED vars
  <2>1. UNCHANGED <<section, step, run, value, files, avgDict, lastLine, details, result, printed, failures>>
    BY <1>1 DEF vars
  <2>2. UNCHANGED <<Repeats, Values, AllCalls, ReadSoFar>>
    BY <2>1 DEF Repeats, Values, AllCalls, ReadSoFar
  <2>3. Shapes' /\ NothingLost' /\ Sums'
    BY <2>1, <2>2 DEF IInv, Shapes, NothingLost, Sums
  <2>4. Written' /\ Unread'
    <3>1. Written'
      <4>1. ASSUME step = "bench" PROVE \A r \in 1 .. run - 1 : Good(r, section.values + 1)'
        <5>1. \A r \in 1 .. run - 1 : Good(r, section.values + 1)
          BY <4>1 DEF IInv, Written
        <5> QED
          BY <2>1, <2>2, <5>1 DEF Good, Grown, Whole
      <4>2. ASSUME NEW c, NEW w, step = "bench", value > 1, c = run, w = value PROVE Good(c, w)'
        <5>1. Good(c, w)
          BY <4>2 DEF IInv, Written
        <5> QED
          BY <2>1, <2>2, <5>1 DEF Good, Grown, Whole
      <4> QED
        BY <2>1, <2>2, <4>1, <4>2 DEF IInv, Written
    <3>2. Unread'
      BY <2>1, <2>2 DEF IInv, Unread, Good, Grown, Whole
    <3> QED
      BY <3>1, <3>2
  <2>5. AllWell' /\ Results'
    <3>1. AllWell'
      BY <2>1, <2>2 DEF IInv, AllWell, WholeSums, Lines
    <3>2. Results'
      BY <2>1 DEF IInv, Results, Divisor
    <3> QED
      BY <3>1, <3>2
  <2> QED
    BY <2>3, <2>4, <2>5 DEF IInv
<1>2. CASE Next
  BY <1>2, BenchStep, OpenStep, ReadStep, DetailsStep, RemoveStep, WriteStep, KilledStep,
     RestartStep DEF Next
<1> QED
  BY <1>1, <1>2

\* The model is well typed for all sections (run-pmemkv-bench-read.sh:24-45).
THEOREM TypeCorrect == Spec => []TypeOK
<1>1. IInv => TypeOK
  <2> SUFFICES ASSUME IInv PROVE TypeOK
    OBVIOUS
  <2>1. DOMAIN avgDict \subseteq Lines
    <3>1. PICK m \in 1 .. section.values + 1 : DOMAIN avgDict = 2 .. m
      BY DEF IInv, Sums
    <3>2. section.values \in Nat
      BY Sizes DEF IInv, Shapes
    <3> QED
      BY <3>1, <3>2 DEF Lines
  <2>2. \A r \in DOMAIN files : Len(files[r]) <= section.values + 1
    BY DEF IInv, Shapes
  <2> QED
    BY <2>1, <2>2 DEF IInv, Shapes, TypeOK, Steps, Repeats, Values
<1> QED
  BY InitHolds, StepHolds, <1>1, PTL DEF Spec

\* No measurement of the running execution is lost before the averages are
\* written, although avg.py removes the files it reads (avg.py:57).
THEOREM NothingIsLost == Spec => []NothingLost
<1>1. IInv => NothingLost
  BY DEF IInv
<1> QED
  BY InitHolds, StepHolds, <1>1, PTL DEF Spec

\* Failing calls move measurements towards the start only, and no measurement
\* counts twice (avg.py:38-45).
THEOREM ShiftsUp == Spec => []ShiftsUpOnly
<1>1. IInv => ShiftsUpOnly
  <2> SUFFICES ASSUME IInv, NEW k \in DOMAIN avgDict, NEW line \in avgDict[k].sum
               PROVE  /\ line.value >= k - 1
                      /\ \A j \in DOMAIN avgDict \ {k} : line \notin avgDict[j].sum
    BY DEF ShiftsUpOnly
  <2>1. PICK r \in Repeats, v \in Values : line = Row(r, v) /\ v >= k - 1
    BY DEF IInv, Sums
  <2>2. line.value = v
    BY <2>1 DEF Row
  <2>3. \A j \in DOMAIN avgDict \ {k} : avgDict[k].sum \cap avgDict[j].sum = {}
    BY DEF IInv, Sums
  <2> QED
    BY <2>1, <2>2, <2>3
<1> QED
  BY InitHolds, StepHolds, <1>1, PTL DEF Spec

\* The lines of the average are the lines avg.py summed, one line up.
LEMMA ResultLines ==
  ASSUME IInv, step = "end"
  PROVE  \A k \in DOMAIN result :
           /\ k + 1 \in DOMAIN avgDict
           /\ result[k] = [sum |-> avgDict[k + 1].sum, label |-> avgDict[k + 1].label,
                           divisor |-> Divisor(k + 1)]
<1>1. PICK m \in 1 .. section.values + 1 : DOMAIN avgDict = 2 .. m
  BY DEF IInv, Sums
<1>2. section.values \in Nat /\ m \in Int /\ m >= 1
  BY Sizes, <1>1 DEF IInv, Shapes
<1>3. Cardinality(DOMAIN avgDict) = m - 1
  <2>1. Cardinality(2 .. m) = IF 2 > m THEN 0 ELSE m - 2 + 1
    BY <1>2, FS_Interval
  <2> QED
    BY <1>1, <1>2, <2>1
<1>4. result = [k \in 1 .. m - 1 |->
                  [sum |-> avgDict[k + 1].sum, label |-> avgDict[k + 1].label,
                   divisor |-> Divisor(k + 1)]]
  BY <1>3 DEF IInv, Results
<1> QED
  BY <1>1, <1>2, <1>4

\* An average is never made of what a killed execution left behind: the first
\* call of each repeat creates the file (run-pmemkv-bench-read.sh:29-33).
THEOREM NothingIsOld == Spec => []NothingOld
<1>1. IInv => NothingOld
  <2> SUFFICES ASSUME IInv, step = "end", NEW k \in DOMAIN result, NEW line \in result[k].sum
               PROVE  ~line.old
    BY DEF NothingOld
  <2>1. k + 1 \in DOMAIN avgDict /\ line \in avgDict[k + 1].sum
    BY ResultLines
  <2>2. PICK r \in Repeats, v \in Values : line = Row(r, v)
    BY <2>1 DEF IInv, Sums
  <2> QED
    BY <2>2 DEF Row
<1> QED
  BY InitHolds, StepHolds, <1>1, PTL DEF Spec

\* An execution without a failing call yields, for each value, the mean over
\* all repeats under the name of the value (avg.py:30-76).
THEOREM CompleteAverages == Spec => []CompleteMeansAverage
<1>1. IInv => CompleteMeansAverage
  <2> DEFINE N == section.values
             R == section.repeats
  <2> SUFFICES ASSUME IInv, step = "end", printed = AllCalls
               PROVE  /\ Len(result) = N
                      /\ \A k \in DOMAIN result :
                           result[k] = [sum |-> {Row(r, k) : r \in 1 .. R}, label |-> k, divisor |-> R]
    BY DEF CompleteMeansAverage
  <2>1. N \in Nat \ {0} /\ R \in Nat \ {0}
    BY Sizes DEF IInv, Shapes
  <2>2. ReadSoFar = R
    BY DEF IInv, Results, ReadSoFar
  <2>3. avgDict = WholeSums(R) /\ lastLine = N + 1
    BY <2>1, <2>2 DEF IInv, AllWell
  <2>4. DOMAIN avgDict = 2 .. N + 1
    BY <2>3 DEF WholeSums, Lines
  <2>5. Cardinality(DOMAIN avgDict) = N
    <3>1. PICK m : m = N + 1
      OBVIOUS
    <3>2. m \in Int
      BY <2>1, <3>1
    <3>3. Cardinality(2 .. m) = IF 2 > m THEN 0 ELSE m - 2 + 1
      BY <3>2, FS_Interval
    <3> QED
      BY <2>1, <2>4, <3>1, <3>3
  <2>6. Len(result) = N /\ DOMAIN result = 1 .. N
    BY <2>1, <2>5 DEF IInv, Results
  <2>7. \A j : Divisor(j) = R
    <3>1. lastLine \in DOMAIN avgDict /\ avgDict[lastLine].sum = {Row(r, N) : r \in 1 .. R}
      BY <2>1, <2>3, <2>4 DEF WholeSums, Lines
    <3>2. Row(1, N) \in avgDict[lastLine].sum
      BY <2>1, <3>1
    <3> QED
      BY <3>1, <3>2 DEF Divisor
  <2>8. ASSUME NEW k \in DOMAIN result
        PROVE  result[k] = [sum |-> {Row(r, k) : r \in 1 .. R}, label |-> k, divisor |-> R]
    <3>1. result[k] = [sum |-> avgDict[k + 1].sum, label |-> avgDict[k + 1].label,
                       divisor |-> Divisor(k + 1)]
      BY <2>8, ResultLines
    <3>2. k \in 1 .. N /\ k + 1 \in 2 .. N + 1 /\ (k + 1) - 1 = k
      BY <2>1, <2>6
    <3>3. avgDict[k + 1].sum = {Row(r, k) : r \in 1 .. R} /\ avgDict[k + 1].label = k
      BY <2>3, <3>2 DEF WholeSums, Lines
    <3> QED
      BY <2>7, <3>1, <3>3
  <2> QED
    BY <2>6, <2>8
<1> QED
  BY InitHolds, StepHolds, <1>1, PTL DEF Spec

=============================================================================
