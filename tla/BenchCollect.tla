---------------------------- MODULE BenchCollect ----------------------------
(***************************************************************************)
(* The collector (ow-bench-collect.py): it reads the file that ow-loadgen  *)
(* has written, asks the platform for the record of each activation, and   *)
(* writes a report.  Latencies are whole numbers, percentiles hundredths.  *)
(***************************************************************************)
EXTENDS OwLoadgen

CONSTANTS
  MaxActivations, \* --max-activations, or -1 when it is not given
  Latencies       \* the latencies a record may have

ASSUME CollectAssumption ==
  /\ MaxActivations \in Nat \union {-1}
  /\ Latencies \subseteq Nat

VARIABLES
  cpc,      \* "idle" before the program starts, "fetch", "done", "failed"
  ids,      \* how many activations it asks for
  fetched,  \* ... has asked for
  enriched, \* ... has got the record of
  cold,     \* ... of these, the ones that had a cold start
  below,    \* history: successes of ow-loadgen among the records whose status is
            \* below 200
  report    \* the report: the numbers of all and of the successful invocations,
            \* percentiles of the client-side latency, least and greatest

collectVars == <<cpc, ids, fetched, enriched, cold, below, report>>

NoReport == [total |-> 0, successful |-> 0, min |-> 0, p50 |-> 0, p90 |-> 0, p99 |-> 0,
             max |-> 0]

CollectInit ==
  /\ cpc = "idle" /\ ids = 0 /\ fetched = 0 /\ enriched = 0 /\ cold = 0
  /\ below = 0 /\ report = NoReport

\* Linear interpolation between the two samples around the p-th percentile.
Percentile(sorted, p) ==
  LET k  == (Len(sorted) - 1) * p
      lo == k \div 100
      hi == IF lo + 1 < Len(sorted) THEN lo + 1 ELSE Len(sorted) - 1
  IN  IF sorted = << >> THEN 0
      ELSE 100 * sorted[lo + 1] + (sorted[hi + 1] - sorted[lo + 1]) * (k % 100)

\* The records are loaded.  Some of them name an activation: those whose body
\* could be read.  A limit of 0 is falsy in Python, and so is none.
Load ==
  /\ cpc = "idle"
  /\ ~torn
  /\ cpc' = "fetch"
  /\ \E named \in 0 .. Cardinality(file) :
       ids' = IF MaxActivations \in {-1, 0} \/ named < MaxActivations
              THEN named ELSE MaxActivations
  /\ UNCHANGED <<fetched, enriched, cold, below, report>>

\* json.loads raises on a part of a line: there will be no report.
LoadRaises ==
  /\ cpc = "idle"
  /\ torn
  /\ cpc' = "failed"
  /\ UNCHANGED <<ids, fetched, enriched, cold, below, report>>

\* One activation: its record cannot be had and is skipped, or it is had and
\* tells whether there was a cold start.
Fetch ==
  /\ cpc = "fetch"
  /\ fetched < ids
  /\ fetched' = fetched + 1
  /\ \/ enriched' = enriched + 1 /\ cold' \in {cold, cold + 1}
     \/ UNCHANGED <<enriched, cold>>
  /\ UNCHANGED <<cpc, ids, below, report>>

Ascending(n) ==
  {s \in [1 .. n -> Latencies] : \A i, k \in 1 .. n : i <= k => s[i] <= s[k]}

\* Mutant: every record counts as a success.
ReportAllRecords ==
  /\ cpc = "fetch"
  /\ fetched = ids
  /\ cpc' = "done"
  /\ report' = [NoReport EXCEPT !.total = Cardinality(file),
                                !.successful = Cardinality(file)]
  /\ UNCHANGED <<ids, fetched, enriched, cold, below>>

\* A record is a success if its status is from 200 to 299: not any status below
\* 300, which ow-loadgen counts as ok.
Report ==
  /\ cpc = "fetch"
  /\ fetched = ids
  /\ cpc' = "done"
  /\ below' \in 0 .. Cardinality(file \intersect good)
  /\ \E lats \in Ascending(Cardinality(file)) :
       report' = [total      |-> Cardinality(file),
                  successful |-> Cardinality(file \intersect good) - below',
                  min |-> IF lats = << >> THEN 0 ELSE 100 * lats[1],
                  p50 |-> Percentile(lats, 50),
                  p90 |-> Percentile(lats, 90),
                  p99 |-> Percentile(lats, 99),
                  max |-> IF lats = << >> THEN 0 ELSE 100 * lats[Len(lats)]]
  /\ UNCHANGED <<ids, fetched, enriched, cold>>

CollectNext == Load \/ LoadRaises \/ Fetch \/ Report

-----------------------------------------------------------------------------
(* Properties *)

NoneLeft == InState({"landed", "failed"}) = Dispatched

\* The report never counts more than ow-loadgen counted and printed, in all and of
\* successes.  When every invocation had settled at the end of the run and no write
\* to the file failed, what its total lacks are exactly the requests that got no
\* response, and its successes only those whose status is below 200, which the two
\* programs judge differently.
CountsAgree ==
  /\ report.successful <= ok /\ report.total <= ok + err
  /\ NoneLeft /\ diskOK =>
       /\ report.successful + below = ok
       /\ report.total + Cardinality(InState({"failed"})) = ok + err

\* Skipped activations leave the cold starts within what was asked for, which is
\* no more than there are records.
ColdStartsAgree == cold <= enriched /\ enriched <= ids /\ ids <= report.total

\* Least, percentiles and greatest are in order.
InOrder(r) == r.min <= r.p50 /\ r.p50 <= r.p90 /\ r.p90 <= r.p99 /\ r.p99 <= r.max

\* The report agrees with the run it is about, and with itself.
ReportAgrees == cpc = "done" => CountsAgree /\ ColdStartsAgree /\ InOrder(report)
=============================================================================
