-------------------------- MODULE FunctionMapping --------------------------
(***************************************************************************)
(* FunctionMapping (faasrail-shrinkray/shrinkray/mapping.py): which        *)
(* workload stands for which function of the trace.  Three passes: collect *)
(* the candidates of every function, balance the benchmarks among the      *)
(* functions, and pick one workload for each function.                     *)
(*                                                                         *)
(* Times are whole numbers of ticks.  Table indices count from 1, so the   *)
(* guards of the scan are 0 and N + 1, as in the code.                     *)
(***************************************************************************)
EXTENDS Integers, Sequences, FiniteSets, FiniteSetsExt

CONSTANTS
  Inputs \* the pairs of a trace and a workload table the program may be given

\* What the preprocessing delivers: one row per duration, in order of duration,
\* and for both tables at least one row.
IsTrace(T) ==
  /\ T \in Seq([dur : Nat, rpm : Seq(Nat), inv : Nat]) \ {<< >>}
  /\ \A i, j \in DOMAIN T : i < j => T[i].dur < T[j].dur

IsTable(W) ==
  /\ W \in Seq([time : Nat, wls : Seq(STRING) \ {<< >>}]) \ {<< >>}
  /\ \A j, k \in DOMAIN W : j < k => W[j].time < W[k].time

ASSUME InputsAssumption == \A in \in Inputs : IsTrace(in[1]) /\ IsTable(in[2])

VARIABLES
  trace,      \* functions: duration, requests per minute, inv_count
  table,      \* workloads by time: a group is the benchmarks of one time
  fpc,        \* the loop the constructor is in: "back", "forward" and "collect"
              \* of the scan, "quota", "balance", "pick"; then "mapped", or
              \* "unreachable" when pick_workload raises
  t_idx, s_idx,
  candidates, \* for each function, the indices of groups
  todo,       \* jobs of the greedy balancing that are left
  load, quota,
  scheduling, \* the benchmark chosen for each function
  mapping     \* the workload of each function, as <<group, position>>

fmVars == <<trace, table, fpc, t_idx, s_idx, candidates, todo, load, quota,
            scheduling, mapping>>

N == Len(table)
Jobs == DOMAIN trace
Dur(i) == trace[i].dur
Time(k) == table[k].time

FMStart ==
  /\ fpc = "back" /\ t_idx = 1 /\ s_idx = 1
  /\ candidates = [i \in Jobs |-> << >>]
  /\ todo = {} /\ load = << >> /\ quota = << >>
  /\ scheduling = << >> /\ mapping = << >>

FMInit == (\E in \in Inputs : trace = in[1] /\ table = in[2]) /\ FMStart

-----------------------------------------------------------------------------
(* _pick_candidates: one linear scan with a bit of backtracking *)

\* How group k, guards included, lies to the 1% radius around function i.
AboveLeft(k, i)   == k = N + 1 \/ (k # 0 /\ 100 * Time(k) > 99 * Dur(i))
BelowLeft(k, i)   == k = 0 \/ (k # N + 1 /\ 100 * Time(k) < 99 * Dur(i))
UpToRight(k, i)   == k = 0 \/ (k # N + 1 /\ 100 * Time(k) <= 101 * Dur(i))

\* Mutant: the scan does not go back over the previous function's radius.
GoBackNever ==
  /\ fpc = "back"
  /\ fpc' = "forward"
  /\ UNCHANGED <<trace, table, t_idx, s_idx, candidates, todo, load, quota,
                 scheduling, mapping>>

GoBack ==
  /\ fpc = "back"
  /\ IF AboveLeft(s_idx, t_idx) THEN s_idx' = s_idx - 1 /\ UNCHANGED fpc
                                ELSE fpc' = "forward" /\ UNCHANGED s_idx
  /\ UNCHANGED <<trace, table, t_idx, candidates, todo, load, quota, scheduling,
                 mapping>>

GoForward ==
  /\ fpc = "forward"
  /\ IF BelowLeft(s_idx, t_idx) THEN s_idx' = s_idx + 1 /\ UNCHANGED fpc
                                ELSE fpc' = "collect" /\ UNCHANGED s_idx
  /\ UNCHANGED <<trace, table, t_idx, candidates, todo, load, quota, scheduling,
                 mapping>>

\* Mutant: the left guard counts as a neighbour.
ClosestTakesGuard(k, i) ==
  LET left  == k = 1 \/ k = N + 1 \/ Dur(i) - Time(k - 1) <= Time(k) - Dur(i)
      right == k # N + 1 /\ (k = 1 \/ Dur(i) - Time(k - 1) >= Time(k) - Dur(i))
  IN  (IF left THEN <<k - 1>> ELSE << >>) \o (IF right THEN <<k>> ELSE << >>)

\* Nothing is in the radius: the neighbours of the gap, both when equally far.
Closest(k, i) ==
  LET left  == k # 1 /\ (k = N + 1 \/ Dur(i) - Time(k - 1) <= Time(k) - Dur(i))
      right == k # N + 1 /\ (k = 1 \/ Dur(i) - Time(k - 1) >= Time(k) - Dur(i))
  IN  (IF left THEN <<k - 1>> ELSE << >>) \o (IF right THEN <<k>> ELSE << >>)

\* Take one more group of the radius, or go on to the next function.
Collect ==
  /\ fpc = "collect"
  /\ IF UpToRight(s_idx, t_idx)
     THEN /\ candidates' = [candidates EXCEPT ![t_idx] = Append(@, s_idx)]
          /\ s_idx' = s_idx + 1
          /\ UNCHANGED <<fpc, t_idx>>
     ELSE /\ candidates' = IF candidates[t_idx] # << >> THEN candidates
                           ELSE [candidates EXCEPT ![t_idx] = Closest(s_idx, t_idx)]
          /\ t_idx' = t_idx + 1
          /\ fpc' = IF t_idx = Len(trace) THEN "quota" ELSE "back"
          /\ UNCHANGED s_idx
  /\ UNCHANGED <<trace, table, todo, load, quota, scheduling, mapping>>

-----------------------------------------------------------------------------
(* _unique_benchmarks_per_function, _greedy_glb and _get_mapping *)

Benches(k) == {table[k].wls[p] : p \in DOMAIN table[k].wls}
Permitted(i) == UNION {Benches(candidates[i][j]) : j \in DOMAIN candidates[i]}
Machines == UNION {Permitted(i) : i \in Jobs}
Supply(S) == SumFunctionOnSet([i \in Jobs |-> trace[i].inv], S)

InitialQuota ==
  /\ fpc = "quota"
  /\ fpc' = "balance"
  /\ todo' = Jobs
  /\ load' = [m \in Machines |-> 0]
  /\ quota' = [m \in Machines |-> Supply({i \in Jobs : m \in Permitted(i)})]
  /\ scheduling' = [i \in Jobs |-> ""]
  /\ UNCHANGED <<trace, table, t_idx, s_idx, candidates, mapping>>

\* Mutant: only the chosen benchmark's quota shrinks.
AssignKeepsQuota(i, m) ==
  /\ fpc = "balance"
  /\ i \in todo
  /\ \A j \in todo : trace[j].inv <= trace[i].inv
  /\ m \in Permitted(i)
  /\ \A q \in Permitted(i) : load[m] + quota[m] <= load[q] + quota[q]
  /\ scheduling' = [scheduling EXCEPT ![i] = m]
  /\ load' = [load EXCEPT ![m] = @ + trace[i].inv]
  /\ quota' = [quota EXCEPT ![m] = @ - trace[i].inv]
  /\ todo' = todo \ {i}
  /\ UNCHANGED <<trace, table, fpc, t_idx, s_idx, candidates, mapping>>

\* Mutant: the benchmarks are listed in the order in which they were chosen.
AssignByRank(i, m) ==
  /\ fpc = "balance"
  /\ i \in todo
  /\ \A j \in todo : trace[j].inv <= trace[i].inv
  /\ m \in Permitted(i)
  /\ \A q \in Permitted(i) : load[m] + quota[m] <= load[q] + quota[q]
  /\ scheduling' = [scheduling EXCEPT ![Cardinality(Jobs \ todo) + 1] = m]
  /\ load' = [load EXCEPT ![m] = @ + trace[i].inv]
  /\ quota' = [q \in DOMAIN quota |->
                 IF q \in Permitted(i) THEN quota[q] - trace[i].inv ELSE quota[q]]
  /\ todo' = todo \ {i}
  /\ UNCHANGED <<trace, table, fpc, t_idx, s_idx, candidates, mapping>>

\* The largest job left goes to the permitted benchmark with the least load and
\* remaining quota.  (argsort is not stable and a set of strings has no order:
\* ties go either way.)
Assign(i, m) ==
  /\ fpc = "balance"
  /\ i \in todo
  /\ \A j \in todo : trace[j].inv <= trace[i].inv
  /\ m \in Permitted(i)
  /\ \A q \in Permitted(i) : load[m] + quota[m] <= load[q] + quota[q]
  /\ scheduling' = [scheduling EXCEPT ![i] = m]
  /\ load' = [load EXCEPT ![m] = @ + trace[i].inv]
  /\ quota' = [q \in DOMAIN quota |->
                 IF q \in Permitted(i) THEN quota[q] - trace[i].inv ELSE quota[q]]
  /\ todo' = todo \ {i}
  /\ UNCHANGED <<trace, table, fpc, t_idx, s_idx, candidates, mapping>>

Balanced ==
  /\ fpc = "balance"
  /\ todo = {}
  /\ fpc' = "pick"
  /\ UNCHANGED <<trace, table, t_idx, s_idx, candidates, todo, load, quota,
                 scheduling, mapping>>

\* Where a function's benchmark is among its candidates: the position of the
\* candidate and the position in its group.
Matches(i) ==
  UNION {{<<j, p>> : p \in {p \in DOMAIN table[candidates[i][j]].wls :
                              table[candidates[i][j]].wls[p] = scheduling[i]}}
           : j \in DOMAIN candidates[i]}

IsFirst(c, C) == \A d \in C : c[1] < d[1] \/ (c[1] = d[1] /\ c[2] <= d[2])

\* pick_workload, for one function after the other.
Pick ==
  /\ fpc = "pick"
  /\ Len(mapping) < Len(trace)
  /\ LET i == Len(mapping) + 1
     IN  \/ /\ \E c \in Matches(i) :
                 /\ IsFirst(c, Matches(i))
                 /\ mapping' = Append(mapping, <<candidates[i][c[1]], c[2]>>)
            /\ UNCHANGED fpc
         \/ /\ Matches(i) = {}
            /\ fpc' = "unreachable"
            /\ UNCHANGED mapping
  /\ UNCHANGED <<trace, table, t_idx, s_idx, candidates, todo, load, quota,
                 scheduling>>

Mapped ==
  /\ fpc = "pick"
  /\ Len(mapping) = Len(trace)
  /\ fpc' = "mapped"
  /\ UNCHANGED <<trace, table, t_idx, s_idx, candidates, todo, load, quota,
                 scheduling, mapping>>

\* FunctionMapping.__call__: the workload of the function with that duration;
\* any other duration fails its assertion.
Known(d)      == \E i \in Jobs : Dur(i) = d
WorkloadOf(d) == mapping[CHOOSE i \in Jobs : Dur(i) = d]

FMNext == \/ GoBack \/ GoForward \/ Collect
          \/ InitialQuota
          \/ (\E i \in todo : \E m \in Permitted(i) : Assign(i, m))
          \/ Balanced \/ Pick \/ Mapped

FMSpec == FMInit /\ [][FMNext]_fmVars

-----------------------------------------------------------------------------
(* Correctness *)

Scanning == {"back", "forward", "collect"}

FMTypeOK ==
  /\ fpc \in Scanning \union {"quota", "balance", "pick", "mapped", "unreachable"}
  /\ IsTrace(trace) /\ IsTable(table)
  /\ t_idx \in 1 .. Len(trace) + 1
  /\ s_idx \in 0 .. N + 1
  /\ candidates \in [Jobs -> Seq(1 .. N)]
  /\ todo \subseteq Jobs
  /\ mapping \in Seq(Nat \X Nat)

\* What the docstring promises: all workloads whose times diverge by at most
\* 1%, and when there is none, those with the closest time.
Dist(k, i) == IF Time(k) > Dur(i) THEN Time(k) - Dur(i) ELSE Dur(i) - Time(k)
InRadius(i) == {k \in 1 .. N : 100 * Dist(k, i) <= Dur(i)}
Nearest(i)  == {k \in 1 .. N : \A q \in 1 .. N : Dist(k, i) <= Dist(q, i)}
Suitable(i) == IF InRadius(i) # {} THEN InRadius(i) ELSE Nearest(i)

\* The linear scan finds for every function it has passed exactly the suitable
\* groups, in order of time, wherever overlapping radii made it go back.
CandidatesRight ==
  \A i \in Jobs : i < t_idx =>
    /\ {candidates[i][j] : j \in DOMAIN candidates[i]} = Suitable(i)
    /\ \A j, l \in DOMAIN candidates[i] : j < l => candidates[i][j] < candidates[i][l]

\* The balancing keeps its books: a benchmark's load is the supply of the
\* functions it was given, and its quota the supply it may still be given.
BooksBalance ==
  fpc \in {"balance", "pick", "mapped"} =>
    \A m \in DOMAIN load :
      /\ load[m] = Supply({i \in Jobs \ todo : scheduling[i] = m})
      /\ quota[m] = Supply({i \in todo : m \in Permitted(i)})

\* The "Unreachable" error of pick_workload is unreachable, and every function
\* is mapped to a suitable workload of the benchmark chosen for it.
MappingRight ==
  /\ fpc # "unreachable"
  /\ \A i \in DOMAIN mapping :
       LET c == mapping[i]
       IN  /\ c[1] \in Suitable(i)
           /\ c[2] \in DOMAIN table[c[1]].wls
           /\ table[c[1]].wls[c[2]] = scheduling[i]
=============================================================================
