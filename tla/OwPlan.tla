------------------------------- MODULE OwPlan -------------------------------
(***************************************************************************)
(* The plan of an ow-loadgen run (ow-loadgen/src/main.rs): which rows of   *)
(* the trace are kept, how many invocations each phase has, and the grand  *)
(* total that is printed before the run starts.                            *)
(*                                                                         *)
(* A record of the trace, and a row parsed from it, is a record            *)
(* [bench, rpm]: the type of its benchmark and its requests per minute,    *)
(* which need not be as many as those of other rows (the CSV reader is     *)
(* flexible).                                                              *)
(***************************************************************************)
EXTENDS Integers, Sequences, FiniteSets, FiniteSetsExt

CONSTANTS
  Records,     \* the records of the trace, in order; an entry that is not a
               \* decimal number is -1
  Asked,       \* --minutes, or -1 when it is not given
  MaxPerBench, \* --max-per-bench
  Ramp,        \* the gradual ramp is on (not --no-ramp)
  ScaleNum,    \* --rps-scale-factor is ScaleNum / ScaleDen
  ScaleDen,
  MaxU32,      \* u32::MAX
  Half         \* ticks in 30 s; a minute is 2 * Half

ASSUME PlanAssumption ==
  /\ Len(Records) \in Nat /\ DOMAIN Records = 1 .. Len(Records)
  /\ \A r \in DOMAIN Records : Records[r].rpm \in Seq(Nat \union {-1})
  /\ Asked \in Nat \union {-1}
  /\ MaxPerBench \in Nat
  /\ Ramp \in BOOLEAN
  /\ ScaleNum \in Nat \ {0}
  /\ ScaleDen \in Nat \ {0}
  /\ MaxU32 \in Nat \ {0}
  /\ Half \in Nat \ {0}

BENCH_TO_ACTION == {"disk-rand", "disk-seq", "chameleon", "float", "gzip", "json", "aes"}

\* resolve_action: the benchmarks that have an action.
Resolves(record) == record.bench \in BENCH_TO_ACTION

\* An entry that does not parse as a u32 counts as no request.
ParseU32(entry) == IF entry \in 0 .. MaxU32 THEN entry ELSE 0

\* parse_trace: records of unknown benchmarks are skipped.  A row is known by its
\* position in the trace.
KnownRecords == {r \in DOMAIN Records : Resolves(Records[r])}

Rows == [r \in KnownRecords |->
           [bench |-> Records[r].bench,
            rpm   |-> [m \in DOMAIN Records[r].rpm |-> ParseU32(Records[r].rpm[m])]]]

\* n * scale, rounded half away from zero, saturating.
ScaledRpm(n) ==
  LET r == (2 * n * ScaleNum + ScaleDen) \div (2 * ScaleDen)
  IN  IF r >= MaxU32 THEN MaxU32 ELSE r

\* The two segments of minute 0 ramp up to the rate of the first column.
ScaledRampCount(n, phaseId) ==
  CASE phaseId = 0 -> ScaledRpm(n) \div 5
    [] phaseId = 1 -> ScaledRpm(n) \div 2
    [] OTHER       -> ScaledRpm(n)

\* An entry of a row; rows may be shorter than the first.
Entry(r, m) == IF m \in DOMAIN Rows[r].rpm THEN Rows[r].rpm[m] ELSE 0

RowSum(r) == SumFunction(Rows[r].rpm)

\* The rows of the same benchmark that the stable sort by descending sum puts
\* before a row.
Before(r) ==
  {q \in DOMAIN Rows : /\ Rows[q].bench = Rows[r].bench
                       /\ \/ RowSum(q) > RowSum(r)
                          \/ RowSum(q) = RowSum(r) /\ q < r}

\* filter_rows: the first MaxPerBench rows of every benchmark.  (Their order
\* is not kept: every phase shuffles its invocations.)
Kept == {r \in DOMAIN Rows : Cardinality(Before(r)) < MaxPerBench}

\* The first row, kept or not, says how many minutes there are.
TotalMinutes == IF KnownRecords = {} THEN 0 ELSE Len(Rows[Min(KnownRecords)].rpm)

MinutesToRun == IF Asked = -1 \/ Asked > TotalMinutes THEN TotalMinutes ELSE Asked

\* The phases of a run, in order.  A block is a stretch that starts with its
\* own clock: minute 0, made of the two ramp segments, and every trace minute.
RampPhases ==
  IF Ramp /\ MinutesToRun > 0
  THEN <<[block |-> 0, id |-> 0, offset |-> 0, len |-> Half],
         [block |-> 0, id |-> 1, offset |-> Half, len |-> Half]>>
  ELSE << >>

SteadyPhases ==
  [m \in 1 .. MinutesToRun |-> [block |-> m, id |-> 2, offset |-> 0, len |-> 2 * Half]]

Phases == RampPhases \o SteadyPhases

\* How many invocations each row has in a segment of the ramp, and in a minute.
RampCounts(phaseId) == [r \in Kept |-> ScaledRampCount(Entry(r, 1), phaseId)]
MinuteCounts(m)     == [r \in Kept |-> ScaledRpm(Entry(r, m))]

\* Mutant: the steady minutes read the column after theirs.
PhaseCountNextColumn(p) ==
  SumFunction(IF p.block = 0 THEN RampCounts(p.id) ELSE MinuteCounts(p.block + 1))

\* How many invocations a phase dispatches.
PhaseCount(p) ==
  SumFunction(IF p.block = 0 THEN RampCounts(p.id) ELSE MinuteCounts(p.block))

\* print_plan: per phase and benchmark, then over the benchmarks, then over all.
Benches == {Rows[r].bench : r \in Kept}
KeptOf(b) == {r \in Kept : Rows[r].bench = b}
OverBenches(counts) == SumFunction([b \in Benches |-> SumFunctionOnSet(counts, KeptOf(b))])

RampTotal(phaseId) == OverBenches(RampCounts(phaseId))
MinuteTotal(m)     == OverBenches(MinuteCounts(m))

GrandTotal ==
  (IF Ramp /\ MinutesToRun > 0 THEN RampTotal(0) + RampTotal(1) ELSE 0)
  + SumFunction([m \in 1 .. MinutesToRun |-> MinuteTotal(m)])

\* What a run is to do: its phases with their invocations, and the printed total.
PlanOfRun ==
  [phases |-> [k \in DOMAIN Phases |->
                 [block |-> Phases[k].block, offset |-> Phases[k].offset,
                  len   |-> Phases[k].len,   count  |-> PhaseCount(Phases[k])]],
   total  |-> GrandTotal]
=============================================================================
