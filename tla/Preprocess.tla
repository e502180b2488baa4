----------------------------- MODULE Preprocess -----------------------------
(***************************************************************************)
(* What faasrail-shrinkray/shrinkray/preprocess.py makes of the input      *)
(* files: azure_trace_preprocess joins a day of the Azure trace, and       *)
(* workloads_preprocess groups the profiled workloads.                     *)
(*                                                                         *)
(* A day is a record of two sequences, one row per line of its two files:  *)
(*   durs: [app, fn, avg, p50, na], the durations of a function;           *)
(*   invs: [app, fn, rpm, na], its invocations of each minute.             *)
(* app and fn stand for the three hashes, na says that some cell is empty, *)
(* and invalid durations and counts are negative.  A file of workloads is  *)
(* a sequence of records [mean, bench].                                    *)
(***************************************************************************)
EXTENDS Integers, Sequences, SequencesExt, FiniteSets, FiniteSetsExt

\* The k-th smallest of a set of numbers: groupby sorts its keys.
KthKey(S, k) == CHOOSE x \in S : Cardinality({y \in S : y < x}) = k - 1

\* function_durations_percentiles: rows without empty cells.
FunctionDurations(day) == {d \in DOMAIN day.durs : ~day.durs[d].na}

\* invocations_per_function_md: rows without empty cells and negative minutes.
InvocationsPerFunction(day) ==
  {v \in DOMAIN day.invs :
     /\ ~day.invs[v].na
     /\ \A m \in DOMAIN day.invs[v].rpm : day.invs[v].rpm[m] >= 0}

\* The mean, or the median where the mean is invalid.
DurMs(row) == IF row.avg >= 0 THEN row.avg ELSE row.p50

\* Mutant: functions of different applications are taken for one.
JoinedByFunction(day) ==
  {p \in FunctionDurations(day) \X InvocationsPerFunction(day) :
     /\ day.durs[p[1]].fn = day.invs[p[2]].fn
     /\ DurMs(day.durs[p[1]]) >= 0}

\* joined_func_invoc_df: the pairs of rows of the same function, as positions in
\* the two files, without those that have no valid duration.
Joined(day) ==
  {p \in FunctionDurations(day) \X InvocationsPerFunction(day) :
     /\ day.durs[p[1]].app = day.invs[p[2]].app
     /\ day.durs[p[1]].fn = day.invs[p[2]].fn
     /\ DurMs(day.durs[p[1]]) >= 0}

\* azure_trace_preprocess: the rows of the same duration are summed.
AzureTrace(day) ==
  LET durations == {DurMs(day.durs[p[1]]) : p \in Joined(day)}
      row(dur) ==
        LET same == {p \in Joined(day) : DurMs(day.durs[p[1]]) = dur}
            minute(m) == SumFunction([p \in same |-> day.invs[p[2]].rpm[m]])
            columns == DOMAIN day.invs[1].rpm
        IN  [dur |-> dur,
             rpm |-> [m \in columns |-> minute(m)],
             inv |-> SumFunction([m \in columns |-> minute(m)])]
  IN  [k \in 1 .. Cardinality(durations) |-> row(KthKey(durations, k))]

\* workloads_preprocess: the workloads of each time, in every order in which the
\* unstable sort by time may leave them.
WorkloadTables(file) ==
  LET times == {file[w].mean : w \in DOMAIN file}
      group(k) == {[time |-> KthKey(times, k),
                    wls  |-> [p \in DOMAIN order |-> file[order[p]].bench]] :
                      order \in SetToSeqs({w \in DOMAIN file :
                                             file[w].mean = KthKey(times, k)})}
      upTo[k \in 0 .. Cardinality(times)] ==
        IF k = 0 THEN {<< >>}
        ELSE {Append(t, g) : t \in upTo[k - 1], g \in group(k)}
  IN  upTo[Cardinality(times)]
=============================================================================
