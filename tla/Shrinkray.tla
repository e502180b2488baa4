----------------------------- MODULE Shrinkray -----------------------------
(***************************************************************************)
(* The program faasrail-shrinkray/shrinkray/main.py with the subcommand    *)
(* trace: it preprocesses a day of the Azure trace and the profiled        *)
(* workloads, maps the functions to workloads and generates a              *)
(* specification.  The preprocessing reads two files and is done before    *)
(* anything else, so it is part of the initial states.                     *)
(***************************************************************************)
EXTENDS RequestGenerator, Preprocess

CONSTANTS
  Files \* the pairs of a day and a file of workloads the program may be given

\* The cells are numbers, and every row of invocations has all minutes: the code
\* asserts that none is missing.
IsDay(day) ==
  /\ IsFiniteSet(DOMAIN day.durs) /\ IsFiniteSet(DOMAIN day.invs) /\ 1 \in DOMAIN day.invs
  /\ \A d \in DOMAIN day.durs : day.durs[d].avg \in Int /\ day.durs[d].p50 \in Int
  /\ \A v \in DOMAIN day.invs :
       day.invs[v].rpm \in Seq(Int) /\ Len(day.invs[v].rpm) = TotalMinutes

IsProfile(file) == file \in Seq([mean : Nat, bench : STRING]) \ {<< >>}

\* At least one function has valid data.
ASSUME FilesAssumption ==
  \A f \in Files : IsDay(f[1]) /\ IsProfile(f[2]) /\ AzureTrace(f[1]) # << >>

VARIABLE files

ShrinkrayInit ==
  /\ files \in Files
  /\ trace = AzureTrace(files[1])
  /\ table \in WorkloadTables(files[2])
  /\ FMStart /\ GenStart

ShrinkrayNext == Next /\ UNCHANGED files

ShrinkraySpec == ShrinkrayInit /\ [][ShrinkrayNext]_<<vars, files>>

-----------------------------------------------------------------------------
(* Correctness *)

SameFunction(a, b) == a.app = b.app /\ a.fn = b.fn

\* The authors have checked that no function's durations are there twice; some
\* functions' invocations are (preprocess.py:136, 155).
DurationsUnique(day) ==
  \A d, e \in FunctionDurations(day) : SameFunction(day.durs[d], day.durs[e]) => d = e

\* The valid durations of a row of invocations, by looking for its function.
DurationsOf(day, v) ==
  {DurMs(d) : d \in {d \in {day.durs[k] : k \in DOMAIN day.durs} :
                       ~d.na /\ SameFunction(d, v) /\ (d.avg >= 0 \/ d.p50 >= 0)}}

Usable(v) == ~v.na /\ \A m \in DOMAIN v.rpm : v.rpm[m] >= 0

\* Every invocation of a usable row whose function has a duration counts once,
\* in its minute and for the trace's row of that duration, although a function
\* may have several rows and a name may occur in several applications; and no
\* other invocation counts.
EachInvocationOnce ==
  LET day    == files[1]
      usable == {v \in DOMAIN day.invs : Usable(day.invs[v])}
  IN  DurationsUnique(day) =>
        /\ \A i \in Jobs : \A m \in 1 .. TotalMinutes :
             trace[i].rpm[m] =
               SumFunctionOnSet([v \in usable |-> day.invs[v].rpm[m]],
                                {v \in usable : Dur(i) \in DurationsOf(day, day.invs[v])})
        /\ \A v \in usable : DurationsOf(day, day.invs[v]) \subseteq {Dur(i) : i \in Jobs}
=============================================================================
