---------------------------- MODULE MCShrinkray ----------------------------
(***************************************************************************)
(* Instances of Shrinkray for TLC: small days and files of workloads.      *)
(***************************************************************************)
EXTENDS Shrinkray

\* The elements of a set in some order.
Listing(S) == FoldSet(LAMBDA x, s : Append(s, x), << >>, S)

Durations(app, fn, avg, p50, na) == [app |-> app, fn |-> fn, avg |-> avg, p50 |-> p50, na |-> na]
Minutes(app, fn, rpm, na) == [app |-> app, fn |-> fn, rpm |-> rpm, na |-> na]

\* A day of one function of each duration.
DayOf(durs, rpm) ==
  LET d == SortSeq(Listing(durs), <)
  IN  [durs |-> [k \in DOMAIN d |-> Durations("a", k, d[k], d[k], FALSE)],
       invs |-> [k \in DOMAIN d |-> Minutes("a", k, rpm[d[k]], FALSE)]]

\* A file of workloads of these times.  Times 98 and 102 have one of each kind
\* of benchmark and the others one.
Profile(times) ==
  Listing({[mean |-> t, bench |-> "aes"] : t \in times \ {99, 101, 200}}
           \union {[mean |-> t, bench |-> "json"] : t \in times \ {100, 149, 150}})

\* Radii that overlap, and one that is apart; 150 is as far from 100 as from 200.
Durs  == {100, 101, 150}
Times == {98, 99, 100, 101, 102, 149, 200}

\* For the mapping: days of all these durations with all these times.
EvenRpm(d) == IF d = 101 THEN <<0, 3, 0, 1>> ELSE <<1, 0, 1, 0>>
MappingFiles ==
  {<<DayOf(D, [d \in Durs |-> EvenRpm(d)]), Profile(W)>> :
      D \in SUBSET Durs \ {{}}, W \in SUBSET Times \ {{}}}

\* For the generator: functions with different minutes over one table.
Rpms == {<<0, 0, 0, 0>>, <<1, 0, 2, 0>>, <<0, 1, 0, 1>>, <<1, 1, 1, 3>>}
RateFiles ==
  {<<DayOf(Durs, [d \in Durs |-> r[d]]), Profile({99, 150})>> : r \in [Durs -> Rpms]}

\* For the preprocessing: a function that is in order and rows with empty cells,
\* and beside them means that are invalid, counts that are, and names that occur
\* twice.
OddDurations == {Durations("a", 2, -1, 100, FALSE), Durations("a", 3, -1, -1, FALSE),
                 Durations("b", 1, 150, 150, FALSE)}
OddMinutes == {Minutes("a", 1, <<0, 1, 0, 1>>, FALSE), Minutes("a", 2, <<-1, 2, 0, 0>>, FALSE),
               Minutes("a", 2, <<1, 1, 0, 0>>, FALSE), Minutes("a", 3, <<0, 0, 1, 0>>, FALSE),
               Minutes("b", 1, <<0, 0, 0, 2>>, FALSE)}
OddFiles ==
  {<<[durs |-> <<Durations("a", 1, 100, 101, FALSE), Durations("a", 1, 98, 98, TRUE)>>
               \o Listing(D),
      invs |-> <<Minutes("a", 1, <<1, 0, 2, 0>>, FALSE), Minutes("b", 1, <<1, 1, 1, 1>>, TRUE)>>
               \o Listing(V)],
     Profile({99, 102})>> : D \in SUBSET OddDurations, V \in SUBSET OddMinutes}

AllFiles  == MappingFiles \union RateFiles \union OddFiles
AllInputs == UNION {{AzureTrace(f[1])} \X WorkloadTables(f[2]) : f \in AllFiles}

Cmd(mode, scaling, rps, first, target) ==
  [mode |-> mode, scaling |-> scaling, rps |-> rps, first |-> first, target |-> target]

AllConfigs ==
  {Cmd("spec", "thumbnails", 1, 1, 1), Cmd("spec", "thumbnails", 2, 1, 2),
   Cmd("spec", "thumbnails", 1, 1, 3), Cmd("spec", "minute_range", 1, 1, 2),
   Cmd("spec", "minute_range", 2, 2, 3), Cmd("smirnov", "thumbnails", 1, 1, 2)}
=============================================================================
