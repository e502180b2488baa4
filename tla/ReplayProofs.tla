---------------------------- MODULE ReplayProofs ----------------------------
(***************************************************************************)
(* Proofs about Replay, for every trace, concurrency and schedule: both    *)
(* load generators implement InvocationPool, dispatch what their plan says *)
(* when it is due, and the collector's report agrees with the run whose    *)
(* file it reads.                                                          *)
(***************************************************************************)
EXTENDS Replay, OwLoadgenProofs

-----------------------------------------------------------------------------
(* wasm-loadgen *)

\* A step of main or of time leaves the tasks alone or appends one.
LEMMA WasmMainSteps ==
  ASSUME WasmMainStep \/ WasmTick \/ Terminating \/ UNCHANGED vars
  PROVE  /\ UNCHANGED <<permits, books>>
         /\ st' = st \/ st' = Append(st, "queued")
<1>1. CASE WasmMainStep
  <2>1. MainStep
    BY <1>1 DEF WasmMainStep, MainStep, WasmBeginMinute, WasmDispatch, WasmMinuteEnds,
                WasmDrain, WasmFinish
  <2>. QED
    BY <2>1, MainSteps
<1>2. CASE WasmTick
  BY <1>2 DEF WasmTick, taskVars
<1>3. CASE Terminating \/ UNCHANGED vars
  BY <1>3, MainSteps
<1>. QED
  BY <1>1, <1>2, <1>3

\* Such a step keeps the invariant.
LEMMA WasmMainKeeps ==
  ASSUME PoolInv, UNCHANGED <<permits, books>>,
         st' = st \/ st' = Append(st, "queued")
  PROVE  PoolInv'
<1>. USE DEF PoolInv, TaskType, PermitsConserved, InState, Dispatched, books, outfile
<1>1. CASE st' = st
  BY <1>1
<1>2. CASE st' = Append(st, "queued")
  <2>1. st' \in Seq(States)
    BY <1>2 DEF States
  <2>2. DOMAIN st \subseteq DOMAIN st'
    BY <1>2
  <2>3. /\ Where(st', {"flight", "body", "write"}) = Where(st, {"flight", "body", "write"})
        /\ Where(st', Counted) = Where(st, Counted)
    BY <1>2, AppendStays DEF Counted
  <2>. QED
    BY <2>1, <2>2, <2>3
<1>. QED
  BY <1>1, <1>2

\* A task takes a permit when it is posted, gives it back when it ends, and is
\* counted as a success only when it has landed.
LEMMA WasmTaskKeeps ==
  ASSUME PoolInv, NEW j \in Dispatched, WasmTaskStep(j)
  PROVE  PoolInv'
<1>. DEFINE B(q) == Cardinality(Where(q, Busy))
            G(q) == Where(q, Counted)
<1>0. /\ st \in Seq(States) /\ j \in DOMAIN st
      /\ B(st) \in Nat /\ permits + B(st) = Concurrency
      /\ permits \in Nat /\ ok \in Nat /\ err \in Nat /\ file \subseteq DOMAIN st
      /\ torn \in BOOLEAN /\ diskOK \in BOOLEAN
      /\ good \subseteq G(st)
  BY WhereFinite
  DEF PoolInv, TaskType, PermitsConserved, Busy, Counted, InState, Dispatched
<1>b. /\ "queued" \notin Busy \union Counted
      /\ {"flight", "body"} \subseteq Busy \ Counted
      /\ "failed" \notin Busy \union Counted
      /\ "landed" \in Counted \ Busy
      /\ {"flight", "body", "landed", "failed"} \subseteq States
  BY DEF Busy, Counted, States
<1>a. SUFFICES /\ st' \in Seq(States) /\ DOMAIN st' = DOMAIN st
               /\ permits' \in Nat /\ ok' \in Nat /\ err' \in Nat
               /\ permits' + B(st') = Concurrency
               /\ outfile' = outfile
               /\ good' \subseteq G(st')
  <2>1. G(st') \subseteq DOMAIN st'
    BY DEF Where
  <2>2. UNCHANGED <<file, torn, diskOK>>
    BY <1>a DEF outfile
  <2>. QED
    BY <1>0, <1>a, <2>1, <2>2
    DEF PoolInv, TaskType, PermitsConserved, Busy, Counted, InState, Dispatched
<1>1. CASE Acquire(j)
  <2>1. st[j] = "queued" /\ Moved(st, st', j, "flight")
    BY <1>0, <1>1 DEF Acquire, Move, Moved
  <2>2. B(st') = B(st) + 1
    BY <1>0, <1>b, <2>1, MoveEnters
  <2>3. G(st') = G(st)
    BY <1>0, <1>b, <2>1, MoveStays
  <2>4. st' \in Seq(States) /\ DOMAIN st' = DOMAIN st
    BY <1>0, <1>b, <2>1, MoveTyped
  <2>5. UNCHANGED <<ok, err, good, outfile>> /\ permits > 0 /\ permits' = permits - 1
    BY <1>1 DEF Acquire, books
  <2>. HIDE DEF B, G
  <2>. QED
    BY <1>0, <2>2, <2>3, <2>4, <2>5
<1>2. CASE Refuse(j)
  <2>1. st[j] = "flight" /\ Moved(st, st', j, "body")
    BY <1>0, <1>2 DEF Refuse, Respond, Move, Moved
  <2>2. B(st') = B(st) /\ G(st') = G(st)
    BY <1>0, <1>b, <2>1, MoveStays
  <2>4. st' \in Seq(States) /\ DOMAIN st' = DOMAIN st
    BY <1>0, <1>b, <2>1, MoveTyped
  <2>5. UNCHANGED <<permits, ok, err, good, outfile>>
    BY <1>2 DEF Refuse, Respond, books
  <2>. HIDE DEF B, G
  <2>. QED
    BY <1>0, <2>2, <2>4, <2>5
<1>3. CASE Succeed(j)
  <2>1. st[j] = "flight" /\ Moved(st, st', j, "landed")
    BY <1>0, <1>3 DEF Succeed, Move, Moved
  <2>2. B(st') = B(st) - 1
    BY <1>0, <1>b, <2>1, MoveLeaves
  <2>3. G(st') = G(st) \union {j}
    BY <1>0, <2>1 DEF Where, Counted, Moved
  <2>4. st' \in Seq(States) /\ DOMAIN st' = DOMAIN st
    BY <1>0, <1>b, <2>1, MoveTyped
  <2>5. /\ UNCHANGED <<err, outfile>> /\ permits' = permits + 1
        /\ ok' = ok + 1 /\ good' = good \union {j}
    BY <1>3 DEF Succeed
  <2>. HIDE DEF B, G
  <2>. QED
    BY <1>0, <2>2, <2>3, <2>4, <2>5
<1>4. CASE Warn(j) \/ Fail(j)
  <2>1. st[j] \in {"flight", "body"} /\ Moved(st, st', j, "failed")
    BY <1>0, <1>4 DEF Warn, Fail, Move, Moved
  <2>2. B(st') = B(st) - 1
    BY <1>0, <1>b, <2>1, MoveLeaves
  <2>3. G(st') = G(st)
    BY <1>0, <1>b, <2>1, MoveStays
  <2>4. st' \in Seq(States) /\ DOMAIN st' = DOMAIN st
    BY <1>0, <1>b, <2>1, MoveTyped
  <2>5. UNCHANGED <<ok, good, outfile>> /\ permits' = permits + 1 /\ err' = err + 1
    BY <1>4 DEF Warn, Fail
  <2>. HIDE DEF B, G
  <2>. QED
    BY <1>0, <2>2, <2>3, <2>4, <2>5
<1>. QED
  BY <1>1, <1>2, <1>3, <1>4 DEF WasmTaskStep

\* Each step of a task is a move of the pool.
LEMMA WasmTaskPool ==
  ASSUME PoolInv, NEW j \in Dispatched, WasmTaskStep(j)
  PROVE  [Pool!Next]_(Pool!poolVars)
<1>0. {"flight", "body", "landed", "failed"} \subseteq States
  BY DEF States
<1>1. CASE Acquire(j) BY <1>0, <1>1, PoolMoves DEF Acquire, Move, books
<1>2. CASE Succeed(j) BY <1>0, <1>2, PoolMoves DEF Succeed, Move
<1>3. CASE Refuse(j) BY <1>0, <1>3, PoolMoves DEF Refuse, Respond, Move, books
<1>4. CASE Warn(j) BY <1>0, <1>4, PoolMoves DEF Warn, Move
<1>5. CASE Fail(j) BY <1>0, <1>5, PoolMoves DEF Fail, Move
<1>. QED
  BY <1>1, <1>2, <1>3, <1>4, <1>5 DEF WasmTaskStep

\* The program starts with no task and all permits.
LEMMA WasmBegins == ASSUME LoadgenAssumption, WasmInit PROVE PoolInv /\ Pool!Init
<1>1. InitWith(Plan!PlanOfRun)
  BY DEF WasmInit
<1>2. /\ st = << >> /\ permits = Concurrency /\ Concurrency \in Nat
      /\ ok = 0 /\ err = 0 /\ good = {} /\ file = {} /\ torn = FALSE /\ diskOK = TRUE
  BY <1>1 DEF InitWith, LoadgenAssumption
<1>3. Cardinality(InState({"flight", "body", "write"})) = 0
  <2>1. InState({"flight", "body", "write"}) = {}
    BY <1>2 DEF InState, Where
  <2>. QED
    BY <2>1, FS_EmptySet
<1>4. PoolInv
  <2>1. TaskType
    <3>1. st \in Seq(States)
      BY <1>2
    <3>. QED
      BY <1>2, <3>1 DEF TaskType, Dispatched
  <2>2. PermitsConserved
    BY <1>2, <1>3 DEF PermitsConserved
  <2>. QED
    BY <1>2, <2>1, <2>2 DEF PoolInv
<1>. QED
  BY <1>1, <1>4, PoolBegins

\* One step of wasm-loadgen: what the theorems below need of it.
LEMMA WasmStepPool ==
  ASSUME PoolInv, [WasmNext]_vars
  PROVE  PoolInv' /\ [Pool!Next]_(Pool!poolVars)
<1>1. CASE WasmMainStep \/ WasmTick \/ Terminating \/ UNCHANGED vars
  BY <1>1, WasmMainSteps, WasmMainKeeps, PoolMain
<1>2. CASE \E j \in Dispatched : WasmTaskStep(j)
  BY <1>2, WasmTaskKeeps, WasmTaskPool
<1>. QED
  BY <1>1, <1>2 DEF WasmNext

\* wasm-loadgen implements the pool: although it counts a success before it would
\* read a body and has no record to write, an invocation starts with a permit, is
\* counted once and then gives the permit back.
THEOREM WasmPool == WasmSpec => PoolSpec
<1>1. WasmInit => PoolInv /\ Pool!Init
  BY WasmBegins, LoadgenAssumption
<1>2. PoolInv /\ [WasmNext]_vars => PoolInv' /\ [Pool!Next]_(Pool!poolVars)
  BY WasmStepPool
<1>. QED
  BY <1>1, <1>2, PTL DEF WasmSpec, PoolSpec, Pool!Spec

-----------------------------------------------------------------------------
(* The plan of wasm-loadgen is one of OwPlan's, of another trace *)

WasmPlan == INSTANCE OwPlanProofs WITH
              Records <- WasmRecords, Ramp <- FALSE, ScaleNum <- 1, ScaleDen <- 1

\* What is proved of every plan is about this one.
LEMMA SamePlan == Plan!PlanOfRun = WasmPlan!PlanOfRun
<1>1. Plan!KnownRecords = WasmPlan!KnownRecords
  BY DEF Plan!KnownRecords, WasmPlan!KnownRecords, Plan!Resolves, WasmPlan!Resolves,
         Plan!BENCH_TO_ACTION, WasmPlan!BENCH_TO_ACTION
<1>2. Plan!Rows = WasmPlan!Rows
  BY <1>1 DEF Plan!Rows, WasmPlan!Rows, Plan!ParseU32, WasmPlan!ParseU32
<1>3. /\ \A S : Plan!Cardinality(S) = WasmPlan!Cardinality(S)
      /\ \A S : Plan!Min(S) = WasmPlan!Min(S)
  BY DEF Plan!Cardinality, WasmPlan!Cardinality, Plan!Min, WasmPlan!Min
<1>4. \A f, S : Plan!SumFunctionOnSet(f, S) = WasmPlan!SumFunctionOnSet(f, S)
  BY DEF Plan!SumFunctionOnSet, WasmPlan!SumFunctionOnSet,
         Plan!FoldFunctionOnSet, WasmPlan!FoldFunctionOnSet,
         Plan!MapThenFoldSet, WasmPlan!MapThenFoldSet
<1>5. \A f : Plan!SumFunction(f) = WasmPlan!SumFunction(f)
  BY <1>4 DEF Plan!SumFunction, WasmPlan!SumFunction
<1>6. /\ \A r, m : Plan!Entry(r, m) = WasmPlan!Entry(r, m)
      /\ \A r : Plan!RowSum(r) = WasmPlan!RowSum(r)
  BY <1>2, <1>5 DEF Plan!Entry, WasmPlan!Entry, Plan!RowSum, WasmPlan!RowSum
<1>7. Plan!Kept = WasmPlan!Kept
  <2>1. \A r : Plan!Before(r) = WasmPlan!Before(r)
    BY <1>2, <1>6 DEF Plan!Before, WasmPlan!Before
  <2>. QED
    BY <1>2, <1>3, <2>1 DEF Plan!Kept, WasmPlan!Kept
<1>8. Plan!MinutesToRun = WasmPlan!MinutesToRun
  BY <1>1, <1>2, <1>3 DEF Plan!MinutesToRun, WasmPlan!MinutesToRun,
                          Plan!TotalMinutes, WasmPlan!TotalMinutes
<1>9. \A n : Plan!ScaledRpm(n) = WasmPlan!ScaledRpm(n)
  BY DEF Plan!ScaledRpm, WasmPlan!ScaledRpm
<1>10. /\ \A i : Plan!RampCounts(i) = WasmPlan!RampCounts(i)
       /\ \A m : Plan!MinuteCounts(m) = WasmPlan!MinuteCounts(m)
  BY <1>6, <1>7, <1>9
  DEF Plan!RampCounts, WasmPlan!RampCounts, Plan!MinuteCounts, WasmPlan!MinuteCounts,
      Plan!ScaledRampCount, WasmPlan!ScaledRampCount
<1>11. \A p : Plan!PhaseCount(p) = WasmPlan!PhaseCount(p)
  BY <1>5, <1>10 DEF Plan!PhaseCount, WasmPlan!PhaseCount
<1>12. /\ Plan!Benches = WasmPlan!Benches
       /\ \A b : Plan!KeptOf(b) = WasmPlan!KeptOf(b)
  BY <1>2, <1>7 DEF Plan!Benches, WasmPlan!Benches, Plan!KeptOf, WasmPlan!KeptOf
<1>13. \A c : Plan!OverBenches(c) = WasmPlan!OverBenches(c)
  BY <1>4, <1>5, <1>12 DEF Plan!OverBenches, WasmPlan!OverBenches
<1>14. /\ \A i : Plan!RampTotal(i) = WasmPlan!RampTotal(i)
       /\ \A m : Plan!MinuteTotal(m) = WasmPlan!MinuteTotal(m)
  BY <1>10, <1>13 DEF Plan!RampTotal, WasmPlan!RampTotal,
                      Plan!MinuteTotal, WasmPlan!MinuteTotal
<1>15. Plan!GrandTotal = WasmPlan!GrandTotal
  BY <1>5, <1>8, <1>14 DEF Plan!GrandTotal, WasmPlan!GrandTotal
<1>16. Plan!Phases = WasmPlan!Phases
  BY <1>8 DEF Plan!Phases, WasmPlan!Phases, Plan!RampPhases, WasmPlan!RampPhases,
              Plan!SteadyPhases, WasmPlan!SteadyPhases
<1>. QED
  BY <1>11, <1>15, <1>16 DEF Plan!PlanOfRun, WasmPlan!PlanOfRun

\* It is a timetable, and its total is the sum of its phases' invocations.
LEMMA WasmPlanIs ==
  /\ Timetable(Plan!PlanOfRun)
  /\ Plan!PlanOfRun.total = CountTo(Plan!PlanOfRun, Len(Plan!PlanOfRun.phases))
<1>1. WasmPlan!PlanAssumption
  BY WasmAssumption, PlanAssumption DEF WasmPlan!PlanAssumption
<1>2. /\ WasmPlan!Timetable(WasmPlan!PlanOfRun)
      /\ WasmPlan!PlanOfRun.total
           = WasmPlan!CountTo(WasmPlan!PlanOfRun, Len(WasmPlan!PlanOfRun.phases))
  BY <1>1, WasmPlan!PlanIsTimetable, WasmPlan!TotalIsSum
<1>3. \A p : WasmPlan!Timetable(p) <=> Timetable(p)
  BY DEF WasmPlan!Timetable, Timetable, WasmPlan!PhaseType, PhaseType,
         WasmPlan!EndOf, EndOf
<1>4. \A p, n : WasmPlan!CountTo(p, n) = CountTo(p, n)
  BY DEF WasmPlan!CountTo, CountTo, WasmPlan!SumFunctionOnSet, SumFunctionOnSet,
         WasmPlan!FoldFunctionOnSet, FoldFunctionOnSet, WasmPlan!MapThenFoldSet,
         MapThenFoldSet
<1>. QED
  BY <1>2, <1>3, <1>4, SamePlan

-----------------------------------------------------------------------------
(* The run of wasm-loadgen goes by the same clock *)

\* What main goes by, in either program.
MainInv == PaceInv /\ CountInv /\ RunType

\* wasm-loadgen's main starts in it, with a plan of its own.
LEMMA WasmMainBegins == ASSUME WasmInit PROVE MainInv
BY WasmPlanIs, PaceBegins, CountBegins, TypeBegins DEF WasmInit, MainInv

\* A step of main is one of ow-loadgen's main; a task touches nothing of it.
LEMMA WasmKeepsMain ==
  ASSUME PoolInv, MainInv, [WasmNext]_vars
  PROVE  MainInv'
<1>. USE DEF MainInv
<1>0. st \in Seq(States) /\ (~Spawn \/ Len(st') # Len(st))
  <2>1. st \in Seq(States)
    BY DEF PoolInv, TaskType
  <2>. QED
    BY <2>1 DEF Spawn
<1>1. CASE WasmMainStep
  <2>1. MainStep
    BY <1>1 DEF WasmMainStep, MainStep, WasmBeginMinute, WasmDispatch, WasmMinuteEnds,
                WasmDrain, WasmFinish
  <2>. QED
    BY <1>0, <2>1, MainKeepsPace, MainCounts, MainTypes
<1>2. ASSUME NEW j \in Dispatched, WasmTaskStep(j) PROVE MainInv'
  <2>1. UNCHANGED <<mainVars, restVars, limit>> /\ Len(st') = Len(st)
    BY <1>0, <1>2 DEF WasmTaskStep, Acquire, Succeed, Refuse, Respond, Warn, Fail, Move
  <2>2. PaceInv' /\ CountInv'
    BY <2>1, OthersKeep, OthersCount DEF mainVars, restVars
  <2>3. RunType'
    BY <1>0, <2>1, OthersTyped DEF mainVars, restVars, LimitStep, RunType
  <2>. QED
    BY <2>2, <2>3
<1>3. CASE WasmTick
  <2>1. /\ ClockTicks /\ UNCHANGED <<st, limit, pressed, notified>>
        /\ starved' \in BOOLEAN
    BY <1>3 DEF WasmTick, ClockTicks, RunType, taskVars
  <2>2. PaceInv' /\ CountInv'
    BY <2>1, TickKeeps, OthersCount DEF ClockTicks
  <2>3. RunType'
    BY <1>0, <2>1, OthersTyped DEF ClockTicks, LimitStep, RunType
  <2>. QED
    BY <2>2, <2>3
<1>4. CASE Terminating \/ UNCHANGED vars
  <2>1. UNCHANGED <<mainVars, taskVars, restVars>>
    BY <1>4 DEF Terminating, vars
  <2>2. PaceInv' /\ CountInv'
    BY <2>1, OthersKeep, OthersCount DEF mainVars, taskVars, restVars
  <2>3. RunType'
    BY <2>1 DEF RunType, mainVars, taskVars, restVars
  <2>. QED
    BY <2>2, <2>3
<1>. QED
  BY <1>1, <1>2, <1>3, <1>4 DEF WasmNext

-----------------------------------------------------------------------------
(* Percentiles *)

\* What the nonlinear arithmetic below comes down to.
LEMMA ProductNat == ASSUME NEW a \in Nat, NEW b \in Nat PROVE a * b \in Nat
OBVIOUS

\* A product splits with its factor.
LEMMA ProductSplits ==
  ASSUME NEW a \in Int, NEW b \in Int, NEW c \in Int, b <= c
  PROVE  a * c = a * b + a * (c - b)
OBVIOUS

\* A number is its hundreds and the rest.
LEMMA DivHundred ==
  ASSUME NEW x \in Nat
  PROVE  /\ x \div 100 \in Nat /\ x % 100 \in Nat /\ x % 100 <= 99
         /\ x = 100 * (x \div 100) + (x % 100)
BY SMT

\* The positions between which the p-th percentile of n samples is interpolated.
Rank(n, p)  == (n - 1) * p
Lower(n, p) == Rank(n, p) \div 100
Upper(n, p) == IF Lower(n, p) + 1 < n THEN Lower(n, p) + 1 ELSE n - 1
Rest(n, p)  == Rank(n, p) % 100

\* They are positions of the samples, and the rest is less than one.
LEMMA Positions ==
  ASSUME NEW n \in Nat \ {0}, NEW p \in 0 .. 100
  PROVE  /\ Rank(n, p) \in Nat
         /\ Lower(n, p) \in 0 .. n - 1 /\ Upper(n, p) \in Lower(n, p) .. n - 1
         /\ Rest(n, p) \in 0 .. 99
         /\ Rank(n, p) = 100 * Lower(n, p) + Rest(n, p)
<1>1. Rank(n, p) \in Nat /\ Rank(n, p) <= (n - 1) * 100
  <2>1. n - 1 \in Nat /\ p \in Nat /\ 100 - p \in Nat /\ 100 \in Int /\ p <= 100
    OBVIOUS
  <2>2. (n - 1) * p \in Nat /\ (n - 1) * (100 - p) \in Nat
    BY <2>1, ProductNat
  <2>3. (n - 1) * 100 = (n - 1) * p + (n - 1) * (100 - p)
    BY <2>1, ProductSplits
  <2>. QED
    BY <2>1, <2>2, <2>3 DEF Rank
<1>2. /\ Lower(n, p) \in Nat /\ Rest(n, p) \in Nat /\ Rest(n, p) <= 99
      /\ Rank(n, p) = 100 * Lower(n, p) + Rest(n, p)
  BY <1>1, DivHundred DEF Lower, Rest
<1>3. Lower(n, p) <= n - 1
  BY <1>1, <1>2
<1>. QED
  BY <1>1, <1>2, <1>3 DEF Upper

\* A percentile lies between the two samples around it, and the interpolation
\* moves with the rank.
LEMMA PercentileIs ==
  ASSUME NEW n \in Nat \ {0}, NEW s \in Ascending(n), NEW p \in 0 .. 100
  PROVE  /\ Percentile(s, p) = 100 * s[Lower(n, p) + 1]
              + (s[Upper(n, p) + 1] - s[Lower(n, p) + 1]) * Rest(n, p)
         /\ Percentile(s, p) \in 100 * s[Lower(n, p) + 1] .. 100 * s[Upper(n, p) + 1]
<1>1. Len(s) = n /\ s # << >>
  BY DEF Ascending
<1>2. Percentile(s, p) = 100 * s[Lower(n, p) + 1]
        + (s[Upper(n, p) + 1] - s[Lower(n, p) + 1]) * Rest(n, p)
  BY <1>1 DEF Percentile, Lower, Upper, Rest, Rank
<1>0. /\ Lower(n, p) \in 0 .. n - 1 /\ Upper(n, p) \in Lower(n, p) .. n - 1
      /\ Rest(n, p) \in 0 .. 99
  BY Positions
<1>s. /\ \A i \in 1 .. n : s[i] \in Nat
      /\ \A i, k \in 1 .. n : i <= k => s[i] <= s[k]
  BY CollectAssumption DEF Ascending
<1>l. /\ Lower(n, p) + 1 \in 1 .. n /\ Upper(n, p) + 1 \in 1 .. n
      /\ Lower(n, p) + 1 <= Upper(n, p) + 1
  BY <1>0
<1>3. PICK a \in Nat, b \in Nat, c \in 0 .. 99 :
        /\ a = s[Lower(n, p) + 1] /\ b = s[Upper(n, p) + 1] /\ c = Rest(n, p)
        /\ a <= b
  BY <1>0, <1>s, <1>l
<1>4. b - a \in Nat /\ c \in Nat /\ 100 - c \in Nat
  BY <1>3
<1>5. (b - a) * c \in Nat /\ (b - a) * (100 - c) \in Nat
  BY <1>4, ProductNat
<1>6. (b - a) * 100 = (b - a) * c + (b - a) * (100 - c)
  <2>1. c \in Int /\ 100 \in Int /\ b - a \in Int /\ c <= 100
    BY <1>3
  <2>. QED
    BY <2>1, ProductSplits
<1>7. Percentile(s, p) = 100 * a + (b - a) * c
  BY <1>2, <1>3
<1>8. 100 * a <= Percentile(s, p) /\ Percentile(s, p) <= 100 * b /\ Percentile(s, p) \in Int
  <2>. DEFINE x == (b - a) * c
              y == (b - a) * (100 - c)
  <2>1. x \in Nat /\ y \in Nat /\ (b - a) * 100 = x + y
    BY <1>5, <1>6
  <2>2. Percentile(s, p) = 100 * a + x
    BY <1>7
  <2>3. (b - a) * 100 = 100 * b - 100 * a /\ a \in Nat /\ b \in Nat
    BY <1>3
  <2>. HIDE DEF x, y
  <2>. QED
    BY <2>1, <2>2, <2>3
<1>. QED
  BY <1>2, <1>3, <1>8

\* Percentiles of the same samples are in the order of their percentages.
LEMMA PercentilesOrdered ==
  ASSUME NEW n \in Nat \ {0}, NEW s \in Ascending(n),
         NEW p \in 0 .. 100, NEW q \in 0 .. 100, p <= q
  PROVE  Percentile(s, p) <= Percentile(s, q)
<1>0. /\ Rank(n, p) \in Nat /\ Rank(n, q) \in Nat
      /\ Lower(n, p) \in 0 .. n - 1 /\ Upper(n, p) \in Lower(n, p) .. n - 1
      /\ Lower(n, q) \in 0 .. n - 1 /\ Upper(n, q) \in Lower(n, q) .. n - 1
      /\ Rest(n, p) \in 0 .. 99 /\ Rest(n, q) \in 0 .. 99
      /\ Rank(n, p) = 100 * Lower(n, p) + Rest(n, p)
      /\ Rank(n, q) = 100 * Lower(n, q) + Rest(n, q)
  BY Positions
<1>1. Rank(n, p) <= Rank(n, q)
  <2>1. n - 1 \in Nat /\ q - p \in Nat /\ n - 1 \in Int /\ p \in Int /\ q \in Int
    OBVIOUS
  <2>2. (n - 1) * (q - p) \in Nat
    BY <2>1, ProductNat
  <2>3. (n - 1) * q = (n - 1) * p + (n - 1) * (q - p)
    BY <2>1, ProductSplits
  <2>4. (n - 1) * q = Rank(n, q) /\ (n - 1) * p = Rank(n, p)
    BY DEF Rank
  <2>. QED
    BY <1>0, <2>2, <2>3, <2>4
<1>2. /\ \A i, k \in 1 .. n : i <= k => s[i] <= s[k]
      /\ \A i \in 1 .. n : s[i] \in Nat
  BY CollectAssumption DEF Ascending
<1>3. /\ Percentile(s, p) \in 100 * s[Lower(n, p) + 1] .. 100 * s[Upper(n, p) + 1]
      /\ Percentile(s, q) \in 100 * s[Lower(n, q) + 1] .. 100 * s[Upper(n, q) + 1]
  BY PercentileIs
<1>4. CASE Lower(n, p) < Lower(n, q)
  <2>1. Upper(n, p) <= Lower(n, q)
    BY <1>0, <1>4 DEF Upper
  <2>2. /\ Upper(n, p) + 1 \in 1 .. n /\ Lower(n, q) + 1 \in 1 .. n
        /\ Lower(n, p) + 1 \in 1 .. n /\ Upper(n, q) + 1 \in 1 .. n
        /\ Upper(n, p) + 1 <= Lower(n, q) + 1
    BY <1>0, <2>1
  <2>3. /\ s[Upper(n, p) + 1] <= s[Lower(n, q) + 1]
        /\ s[Upper(n, p) + 1] \in Nat /\ s[Lower(n, q) + 1] \in Nat
        /\ s[Lower(n, p) + 1] \in Nat /\ s[Upper(n, q) + 1] \in Nat
    BY <1>2, <2>2
  <2>. QED
    BY <1>3, <2>3
<1>5. CASE Lower(n, p) = Lower(n, q)
  <2>1. Upper(n, p) = Upper(n, q) /\ Rest(n, p) <= Rest(n, q)
    BY <1>0, <1>1, <1>5 DEF Upper
  <2>2. /\ Lower(n, p) + 1 \in 1 .. n /\ Upper(n, p) + 1 \in 1 .. n
        /\ Lower(n, p) + 1 <= Upper(n, p) + 1
    BY <1>0
  <2>3. PICK a \in Nat, b \in Nat, c \in Nat, d \in Nat :
          /\ a = s[Lower(n, p) + 1] /\ b = s[Upper(n, p) + 1] /\ a <= b
          /\ c = Rest(n, p) /\ d = Rest(n, q) /\ c <= d
    <3>1. /\ Rest(n, p) \in Nat /\ Rest(n, q) \in Nat
          /\ s[Lower(n, p) + 1] \in Nat /\ s[Upper(n, p) + 1] \in Nat
          /\ s[Lower(n, p) + 1] <= s[Upper(n, p) + 1]
      BY <1>0, <1>2, <2>2
    <3>. QED
      BY <2>1, <3>1
  <2>4. Percentile(s, p) = 100 * a + (b - a) * c
    BY <2>3, PercentileIs
  <2>5. Percentile(s, q) = 100 * a + (b - a) * d
    BY <1>5, <2>1, <2>3, PercentileIs
  <2>6. b - a \in Nat /\ d - c \in Nat /\ b - a \in Int /\ c \in Int /\ d \in Int
    BY <2>3
  <2>7. (b - a) * d = (b - a) * c + (b - a) * (d - c)
    BY <2>3, <2>6, ProductSplits
  <2>8. (b - a) * c \in Nat /\ (b - a) * (d - c) \in Nat
    BY <2>3, <2>6, ProductNat
  <2>. QED
    BY <2>4, <2>5, <2>7, <2>8
<1>6. Lower(n, p) <= Lower(n, q)
  BY <1>0, <1>1
<1>. QED
  BY <1>0, <1>4, <1>5, <1>6

\* No percentile is below the least sample or above the greatest.
LEMMA PercentileWithin ==
  ASSUME NEW n \in Nat \ {0}, NEW s \in Ascending(n), NEW p \in 0 .. 100
  PROVE  100 * s[1] <= Percentile(s, p) /\ Percentile(s, p) <= 100 * s[n]
<1>1. /\ Lower(n, p) \in 0 .. n - 1 /\ Upper(n, p) \in Lower(n, p) .. n - 1
  BY Positions
<1>2. /\ Lower(n, p) + 1 \in 1 .. n /\ Upper(n, p) + 1 \in 1 .. n
      /\ 1 \in 1 .. n /\ n \in 1 .. n
  BY <1>1
<1>3. /\ \A i, k \in 1 .. n : i <= k => s[i] <= s[k]
      /\ \A i \in 1 .. n : s[i] \in Nat
  BY CollectAssumption DEF Ascending
<1>4. /\ s[1] <= s[Lower(n, p) + 1] /\ s[Upper(n, p) + 1] <= s[n]
      /\ s[1] \in Nat /\ s[n] \in Nat
      /\ s[Lower(n, p) + 1] \in Nat /\ s[Upper(n, p) + 1] \in Nat
  BY <1>2, <1>3
<1>5. Percentile(s, p) \in 100 * s[Lower(n, p) + 1] .. 100 * s[Upper(n, p) + 1]
  BY PercentileIs
<1>. QED
  BY <1>4, <1>5

\* Whatever the samples, also none, the report's numbers are in order.
LEMMA ReportInOrder ==
  ASSUME NEW n \in Nat, NEW s \in Ascending(n), NEW r,
         r.min = (IF s = << >> THEN 0 ELSE 100 * s[1]),
         r.p50 = Percentile(s, 50), r.p90 = Percentile(s, 90),
         r.p99 = Percentile(s, 99),
         r.max = (IF s = << >> THEN 0 ELSE 100 * s[Len(s)])
  PROVE  InOrder(r)
<1>1. CASE n = 0
  <2>1. s = << >>
    BY <1>1 DEF Ascending
  <2>2. r.p50 = 0 /\ r.p90 = 0 /\ r.p99 = 0 /\ r.min = 0 /\ r.max = 0
    BY <2>1 DEF Percentile
  <2>. QED
    BY <2>2 DEF InOrder
<1>2. CASE n # 0
  <2>1. n \in Nat \ {0} /\ Len(s) = n /\ s # << >>
    BY <1>2 DEF Ascending
  <2>2. 50 \in 0 .. 100 /\ 90 \in 0 .. 100 /\ 99 \in 0 .. 100
    OBVIOUS
  <2>3. r.p50 <= r.p90 /\ r.p90 <= r.p99
    BY <2>1, <2>2, PercentilesOrdered
  <2>4. 100 * s[1] <= Percentile(s, 50)
    BY <2>1, <2>2, PercentileWithin
  <2>5. Percentile(s, 99) <= 100 * s[n]
    BY <2>1, <2>2, PercentileWithin
  <2>. QED
    BY <2>1, <2>3, <2>4, <2>5 DEF InOrder
<1>. QED
  BY <1>1, <1>2

-----------------------------------------------------------------------------
(* The whole replay *)

\* What the collector has at hand: it starts when ow-loadgen is over, and asks
\* for no more activations than there are records.
CollectInv ==
  /\ cpc \in {"idle", "fetch", "done", "failed"}
  /\ cpc # "idle" => program = "ow" /\ mpc = "done"
  /\ ids \in Nat /\ fetched \in Nat /\ enriched \in Nat /\ cold \in Nat
  /\ cpc = "idle" => ids = 0
  /\ ids <= Cardinality(file)
  /\ cold <= enriched /\ enriched <= fetched /\ fetched <= ids
  /\ ReportAgrees

ReplayInv == PoolInv /\ MainInv /\ (program = "ow" => OwInv) /\ CollectInv

\* The file and the counters, by their sizes.
LEMMA FileAndCounters ==
  ASSUME TaskInv
  PROVE  /\ IsFiniteSet(file) /\ Cardinality(file) \in Nat
         /\ Cardinality(file \intersect good) \in Nat
         /\ Cardinality(file \intersect good) <= ok
         /\ Cardinality(file) <= ok + err
         /\ NoneLeft /\ diskOK =>
              /\ Cardinality(file \intersect good) = ok
              /\ Cardinality(file) + Cardinality(InState({"failed"})) = ok + err
<1>. USE DEF TaskInv, TaskType, Tally, InState
<1>0. /\ st \in Seq(States) /\ file \subseteq Where(st, {"landed"})
      /\ diskOK => file = Where(st, {"landed"})
  OBVIOUS
<1>a. /\ IsFiniteSet(Where(st, {"landed"}))
      /\ IsFiniteSet(Where(st, {"write", "landed"}))
      /\ IsFiniteSet(Where(st, {"failed"})) /\ Cardinality(Where(st, {"failed"})) \in Nat
      /\ IsFiniteSet(Where(st, {"write", "landed", "failed"}))
  BY <1>0, WhereFinite
<1>1. IsFiniteSet(file) /\ Cardinality(file) \in Nat
  BY <1>0, <1>a, FS_Subset, FS_CardinalityType
<1>2. IsFiniteSet(good)
  BY <1>a, FS_Subset
<1>3. /\ Cardinality(file \intersect good) <= Cardinality(good)
      /\ Cardinality(file \intersect good) \in Nat
  <2>1. file \intersect good \subseteq good
    OBVIOUS
  <2>. QED
    BY <1>2, <2>1, FS_Subset, FS_CardinalityType
<1>4. Cardinality(file) <= Cardinality(Where(st, {"write", "landed", "failed"}))
  <2>1. file \subseteq Where(st, {"write", "landed", "failed"})
    BY <1>0 DEF Where
  <2>. QED
    BY <1>a, <2>1, FS_Subset
<1>5. ASSUME NoneLeft, diskOK
      PROVE  /\ Cardinality(file \intersect good) = ok
             /\ Cardinality(file) + Cardinality(InState({"failed"})) = ok + err
  <2>0. file = Where(st, {"landed"})
    BY <1>0, <1>5
  <2>1. \A j \in DOMAIN st : st[j] \in {"landed", "failed"}
    BY <1>5 DEF NoneLeft, Dispatched, Where
  <2>2. file \intersect good = good
    BY <2>0, <2>1 DEF Where
  <2>3. /\ Where(st, {"write", "landed", "failed"}) = file \union Where(st, {"failed"})
        /\ file \intersect Where(st, {"failed"}) = {}
    BY <2>0, <2>1 DEF Where
  <2>4. Cardinality(file \union Where(st, {"failed"}))
          = Cardinality(file) + Cardinality(Where(st, {"failed"})) - Cardinality({})
    BY <1>1, <1>a, <2>3, FS_Union
  <2>5. Cardinality(Where(st, {"write", "landed", "failed"}))
          = Cardinality(file) + Cardinality(Where(st, {"failed"}))
    <3>1. Cardinality({}) = 0
      BY FS_EmptySet
    <3>2. Cardinality(file) + Cardinality(Where(st, {"failed"})) - 0
            = Cardinality(file) + Cardinality(Where(st, {"failed"}))
      BY <1>1, <1>a
    <3>. QED
      BY <2>3, <2>4, <3>1, <3>2
  <2>6. /\ ok = Cardinality(good)
        /\ ok + err = Cardinality(Where(st, {"write", "landed", "failed"}))
    OBVIOUS
  <2>7. Cardinality(file \intersect good) = ok
    BY <2>2, <2>6
  <2>. QED
    BY <2>5, <2>6, <2>7
<1>. QED
  BY <1>1, <1>3, <1>4, <1>5

\* A step of the collector keeps its invariant.
LEMMA CollectKeeps ==
  ASSUME ReplayInv, CollectStep
  PROVE  CollectInv'
<1>. USE DEF CollectStep
<1>0. /\ program = "ow" /\ mpc = "done" /\ TaskInv
      /\ UNCHANGED <<vars, program>>
  BY DEF ReplayInv, OwInv
<1>1. UNCHANGED <<mpc, st, ok, err, good, file, diskOK, program>>
  BY <1>0 DEF vars, mainVars, taskVars, books, outfile
<1>2. Cardinality(file) \in Nat
  BY <1>0, FileAndCounters
<1>3. CASE Load
  <2>1. PICK named \in 0 .. Cardinality(file) :
          ids' = IF MaxActivations \in {-1, 0} \/ named < MaxActivations
                 THEN named ELSE MaxActivations
    BY <1>3 DEF Load
  <2>2. ids' \in Nat /\ ids' <= Cardinality(file)
    BY <1>2, <2>1, CollectAssumption
  <2>3. /\ cpc = "idle" /\ cpc' = "fetch" /\ UNCHANGED <<fetched, enriched, cold>>
    BY <1>3 DEF Load
  <2>. QED
    BY <1>0, <1>1, <1>2, <2>2, <2>3 DEF ReplayInv, CollectInv, ReportAgrees
<1>a. CASE LoadRaises
  BY <1>0, <1>1, <1>2, <1>a DEF LoadRaises, ReplayInv, CollectInv, ReportAgrees
<1>4. CASE Fetch
  BY <1>0, <1>1, <1>2, <1>4 DEF Fetch, ReplayInv, CollectInv, ReportAgrees
<1>5. CASE Report
  <2>1. PICK lats \in Ascending(Cardinality(file)) :
          report' = [total      |-> Cardinality(file),
                     successful |-> Cardinality(file \intersect good) - below',
                     min |-> IF lats = << >> THEN 0 ELSE 100 * lats[1],
                     p50 |-> Percentile(lats, 50),
                     p90 |-> Percentile(lats, 90),
                     p99 |-> Percentile(lats, 99),
                     max |-> IF lats = << >> THEN 0 ELSE 100 * lats[Len(lats)]]
    BY <1>5 DEF Report
  <2>2. /\ cpc = "fetch" /\ fetched = ids /\ cpc' = "done"
        /\ UNCHANGED <<ids, fetched, enriched, cold>>
    BY <1>5 DEF Report
  <2>3. InOrder(report')
    BY <1>2, <2>1, ReportInOrder
  <2>4. CountsAgree'
    <3>1. /\ report'.total = Cardinality(file)
          /\ report'.successful = Cardinality(file \intersect good) - below'
      BY <2>1
    <3>2. below' \in 0 .. Cardinality(file \intersect good)
      BY <1>5 DEF Report
    <3>3. /\ NoneLeft' = NoneLeft /\ diskOK' = diskOK /\ ok' = ok /\ err' = err
          /\ InState({"failed"})' = InState({"failed"})
      BY <1>1 DEF NoneLeft, InState, Dispatched
    <3>4. ok \in Nat /\ err \in Nat
      BY <1>0 DEF TaskInv, TaskType
    <3>. QED
      BY <1>0, <3>1, <3>2, <3>3, <3>4, FileAndCounters DEF CountsAgree
  <2>5. ColdStartsAgree'
    BY <1>2, <2>1, <2>2 DEF ReplayInv, CollectInv, ColdStartsAgree
  <2>. QED
    BY <1>0, <1>1, <2>2, <2>3, <2>4, <2>5
    DEF ReplayInv, CollectInv, ReportAgrees, InOrder
<1>. QED
  BY <1>a, <1>3, <1>4, <1>5 DEF CollectNext

\* While the collector is at work nothing else moves.
LEMMA OwKeepsCollector ==
  ASSUME ReplayInv, OwStep
  PROVE  CollectInv'
<1>. USE DEF OwStep, ReplayInv, OwInv, CollectInv, ReportAgrees
<1>1. UNCHANGED collectVars /\ UNCHANGED program /\ Next
  OBVIOUS
<1>2. UNCHANGED <<cpc, ids, fetched, enriched, cold, below, report>>
  BY <1>1 DEF collectVars
<1>3. CASE cpc = "idle"
  <2>1. ids = 0 /\ fetched = 0 /\ enriched = 0 /\ cold = 0
    BY <1>3
  <2>2. Cardinality(file') \in Nat
    <3>1. TaskInv'
      BY <1>1, OwStepKeeps
    <3>2. IsFiniteSet(file')
      <4>1. st' \in Seq(States) /\ file' \subseteq Where(st', {"landed"})
        BY <3>1 DEF TaskInv, TaskType, Tally, InState
      <4>. QED
        BY <4>1, WhereFinite, FS_Subset
    <3>. QED
      BY <3>2, FS_CardinalityType
  <2>. QED
    BY <1>1, <1>2, <1>3, <2>1, <2>2
<1>4. CASE cpc # "idle"
  <2>1. mpc = "done"
    BY <1>4
  <2>2. UNCHANGED vars
    BY <1>1, <2>1
    DEF Next, MainStep, TaskStep, CtrlC, Tick, Terminating, BeginPhase, Dispatch,
        PhaseTail, Paced, PhaseSlept, BreakRun, NextPhase, EndBlock, DrainEnds, Finish,
        FlushFails, Sleeping
  <2>3. UNCHANGED <<mpc, st, ok, err, good, file, diskOK>>
    BY <2>2 DEF vars, mainVars, taskVars, books, outfile
  <2>. QED
    BY <1>1, <1>2, <1>4, <2>3 DEF CountsAgree, NoneLeft, ColdStartsAgree, InState,
       Dispatched
<1>. QED
  BY <1>3, <1>4

\* wasm-loadgen writes no file.
LEMMA WasmFileKept == ASSUME WasmNext PROVE file' = file
<1>1. CASE WasmMainStep \/ WasmTick \/ Terminating
  BY <1>1, WasmMainSteps DEF books, outfile
<1>2. CASE \E j \in Dispatched : WasmTaskStep(j)
  BY <1>2 DEF WasmTaskStep, Acquire, Succeed, Refuse, Respond, Warn, Fail, books,
               outfile
<1>. QED
  BY <1>1, <1>2 DEF WasmNext

\* A replay starts with no task and no report.
LEMMA ReplayBegins == ASSUME ReplayInit PROVE ReplayInv /\ Pool!Init
<1>. USE LoadgenAssumption DEF ReplayInit, CollectInit
<1>1. program = "ow" \/ program = "wasm"
  BY ReplayAssumption
<1>2. PoolInv /\ Pool!Init /\ MainInv /\ (program = "ow" => OwInv)
  <2>1. CASE program = "ow"
    <3>1. Init /\ OwInv
      BY <2>1, OwBegins
    <3>2. PoolInv /\ Pool!Init
      BY <3>1, InvOfBoth, PoolBegins DEF Init, OwInv
    <3>. QED
      BY <3>1, <3>2 DEF OwInv, MainInv
  <2>2. CASE program = "wasm"
    BY <2>2, WasmBegins, WasmMainBegins
  <2>. QED
    BY <1>1, <2>1, <2>2
<1>3. file = {}
  BY <1>1 DEF Init, WasmInit, InitWith
<1>4. Cardinality(file) = 0
  BY <1>3, FS_EmptySet
<1>5. CollectInv
  BY <1>4 DEF CollectInv, ReportAgrees
<1>. QED
  BY <1>2, <1>5 DEF ReplayInv

\* What a step of either load generator, or none, keeps.
LEMMA ProgramKeeps ==
  ASSUME PoolInv, MainInv, program = "ow" => OwInv, program' = program,
         \/ program = "ow" /\ [Next]_vars
         \/ program = "wasm" /\ [WasmNext]_vars
         \/ UNCHANGED vars
  PROVE  /\ PoolInv' /\ MainInv' /\ (program = "ow" => OwInv)'
         /\ [Pool!Next]_(Pool!poolVars)
<1>1. CASE program = "ow" /\ [Next]_vars
  <2>1. OwInv'
    BY <1>1, OwKeeps
  <2>2. PoolInv'
    BY <2>1, InvOfBoth, PTL DEF OwInv
  <2>. QED
    BY <1>1, <2>1, <2>2, OwStepPool DEF OwInv, MainInv
<1>2. CASE program # "ow" /\ [WasmNext]_vars
  BY <1>2, WasmStepPool, WasmKeepsMain
<1>. QED
  BY <1>1, <1>2

\* Every step of a replay keeps the invariant, and is one of the pool or none.
LEMMA ReplaySteps ==
  ASSUME ReplayInv, [ReplayNext]_replayVars
  PROVE  ReplayInv' /\ [Pool!Next]_(Pool!poolVars)
<1>1. CASE OwStep
  BY <1>1, ProgramKeeps, OwKeepsCollector DEF OwStep, ReplayInv
<1>2. CASE WasmStep
  <2>1. /\ program = "wasm" /\ program' = "wasm" /\ [WasmNext]_vars
        /\ UNCHANGED collectVars
    BY <1>2 DEF WasmStep
  <2>2. CollectInv'
    <3>1. /\ cpc = "idle" /\ UNCHANGED <<cpc, ids, fetched, enriched, cold, below, report>>
      BY <2>1 DEF ReplayInv, CollectInv, collectVars
    <3>2. ids = 0 /\ enriched = 0 /\ cold = 0 /\ fetched = 0
      BY <3>1 DEF ReplayInv, CollectInv
    <3>3. file' = file
      BY <1>2, WasmFileKept DEF WasmStep
    <3>. QED
      BY <2>1, <3>1, <3>2, <3>3 DEF ReplayInv, CollectInv, ReportAgrees
  <2>. QED
    BY <2>1, <2>2, ProgramKeeps DEF ReplayInv
<1>3. CASE CollectStep
  <2>1. UNCHANGED <<vars, program>>
    BY <1>3 DEF CollectStep
  <2>. QED
    BY <1>3, <2>1, CollectKeeps, ProgramKeeps DEF ReplayInv
<1>4. CASE UNCHANGED replayVars
  <2>1. UNCHANGED <<vars, program>> /\ UNCHANGED collectVars
    BY <1>4 DEF replayVars
  <2>2. CollectInv'
    BY <2>1 DEF ReplayInv, CollectInv, ReportAgrees, CountsAgree, NoneLeft,
                ColdStartsAgree, InState, Dispatched, vars, mainVars, taskVars, books,
                outfile, collectVars
  <2>. QED
    BY <2>1, <2>2, ProgramKeeps DEF ReplayInv
<1>. QED
  BY <1>1, <1>2, <1>3, <1>4 DEF ReplayNext

\* ReplayInv is an invariant, whichever load generator runs.
THEOREM ReplayCorrect == ReplaySpec => []ReplayInv
<1>1. ReplayInit => ReplayInv
  BY ReplayBegins
<1>2. ReplayInv /\ [ReplayNext]_replayVars => ReplayInv'
  BY ReplaySteps
<1>. QED
  BY <1>1, <1>2, PTL DEF ReplaySpec

\* Either load generator of a replay implements the pool.
THEOREM ReplayPool == ReplaySpec => PoolSpec
<1>1. ReplayInit => Pool!Init
  BY ReplayBegins
<1>2. ReplayInv /\ [ReplayNext]_replayVars => [Pool!Next]_(Pool!poolVars)
  BY ReplaySteps
<1>. QED
  BY <1>1, <1>2, ReplayCorrect, PTL DEF ReplaySpec, PoolSpec, Pool!Spec

\* The collector's report never exceeds the counters that the run printed, however
\* many requests failed or had not settled, whatever became of the writes and of the
\* flush, and whatever could be fetched.  If all had settled and no write failed it
\* falls short of them by the requests without a response and by the successes with
\* a status below 200, exactly.  Its percentiles are in order for any number of
\* records and any latencies.
THEOREM ReportCorrect == ReplaySpec => []ReportAgrees
<1>1. ReplayInv => ReportAgrees
  BY DEF ReplayInv, CollectInv
<1>. QED
  BY <1>1, ReplayCorrect, PTL

\* Every variable of either load generator keeps its type, and the timeouts are never
\* below zero.
THEOREM ReplayTyped == ReplaySpec => []TypeOK
<1>1. ReplayInv => TypeOK
  BY RunTyped DEF ReplayInv, PoolInv, MainInv
<1>. QED
  BY <1>1, ReplayCorrect, PTL

\* Whichever load generator runs, and whatever its trace: a run that is not interrupted
\* has dispatched, when it ends, the grand total it printed.
THEOREM ReplayHonours == ReplaySpec => []PlanHonoured
<1>1. ReplayInv => PlanHonoured
  BY RunHonours DEF ReplayInv, MainInv
<1>. QED
  BY <1>1, ReplayCorrect, PTL

\* Whichever load generator runs, and however late its main task is: no block ends
\* before its minute is over, nor later than main has been late.
THEOREM ReplayOnTime == ReplaySpec => []BlocksOnTime
<1>1. ReplayInv => BlocksOnTime
  BY RunOnTime DEF ReplayInv, MainInv
<1>. QED
  BY <1>1, ReplayCorrect, PTL

\* Whichever load generator runs: while its main task waits for the next target, what
\* is dispatched of the phase is what is due.
THEOREM ReplayPaced == ReplaySpec => []PaceExact
<1>1. ReplayInv => PaceExact
  BY RunOnTime DEF ReplayInv, MainInv
<1>. QED
  BY <1>1, ReplayCorrect, PTL

\* The pause of ow-loadgen before the flush is long enough, also in a replay whose file
\* the collector reads.
THEOREM ReplaySettles == ReplaySpec => []DrainSettles
<1>1. ReplayInv => DrainSettles
  BY DEF ReplayInv, OwInv, SlackInv, AllSettled, DrainComplete, DrainSettles
<1>. QED
  BY <1>1, ReplayCorrect, PTL
=============================================================================
