# faasrail in TLA+

This directory holds TLA+ modules that model faasrail, TLC configurations that check
them on small instances, and theorems that TLAPS proves for every instance.
Paths are relative to the repository root.

## 1. The system

faasrail shrinks a production FaaS trace to an experiment and replays it.

| part | code | state it keeps | operations | hard because |
|---|---|---|---|---|
| shrinkray (offline) | `faasrail-shrinkray/shrinkray/` | tables of functions, requests per minute, profiled workloads | preprocess the trace, map functions to workloads, generate a specification or sample one | backtracking scan, rounding, off-by-one, table edges |
| source client | `faasrail-loadgen/.../source/client.rs` | JoinSet of Workers, broadcast channel, counters | `new`, `run` (kick, quit, join, reap) | signals and task ends in any order |
| Workers | `.../source/worker.rs` | minute, IAT iterator, timers | wait for the kick, barrier per minute, biased select, issue, log | barrier, timers and quit notifications race |
| invocation logger | `.../source/client.rs` | bounded channel, file | `log` with a 50 ms limit, writer thread | full channel, dead thread |
| IAT generators | `.../source/iat.rs` | random stream | Poisson, uniform, equidistant | rounding, the minute's end, rate 0 |
| sink client | `.../sink/client.rs`, `sink/backend/` | channel to the appender | run backend and appender, join both | early end of one side |
| logger program | `faasrail-loadgen-logger/src/` | requests channel, file, shutdown channel | signals, three joined tasks | signals when nobody listens |
| OpenWhisk load generator | `ow-loadgen/src/main.rs` | semaphore, counters, NDJSON writer, deadline clock | spawn invocations, minutes, ramp, Ctrl-C | stale deadlines, lost notification, drain |
| Wasm load generator | `wasm-loadgen/src/main.rs` | semaphore, counters, deadline clock | spawn invocations, minutes | no ramp, no Ctrl-C, no output file; requests without a limit |
| benchmark collector | `ow-bench-collect.py` | lists of records | percentiles, enrichment, report | partial fetches, denominators |
| benchmarks, profiling scripts | `faasrail-benchmarks/` | none | pure functions, shell | edges of sizes |

How they interact: shrinkray writes the CSV that a load generator reads. The source
client owns one broadcast channel (`quit_tx`, capacity 1) that carries first the kick
and later quit notifications, one `Barrier` of as many parties as the trace has rows, one
`AtomicU64` that numbers invocations, and one `mpsc` channel to the invocation logger.
Whoever embeds the client sends it shutdown notifications over another broadcast channel;
in this repository that is the logger program, which joins a source, a sink and the thread
that writes the requests, and whose signal handler feeds that channel. `ow-loadgen` stands
alone: one task paces the invocations, each invocation is a task, and they share a
semaphore, two counters and a writer behind a mutex. `wasm-loadgen` is its sibling without
the writer. The collector is started when `ow-loadgen` has run, and reads the file it left.

What makes each part correct:

- *source client and Workers*: nothing is issued before the kick; the Workers play the
  range minute by minute and together; ids are unique; no request is issued that no IAT
  stands for; the count `run()` returns and the log agree with what was issued; `run()`
  returns, and leaves no task behind, whatever signals and failures come.
- *IAT generators*: the IATs of a minute end before it does, so that each stands for a
  request that a punctual Worker issues.
- *sink, logger program*: no response and no accepted request is lost between two sides
  that end in any order, nor by a signal while the source is at work; the process ends when
  the source does.
- *ow-loadgen*: what is dispatched is what the plan printed, when it is due, over at most
  `--concurrency` permits, each outcome counted once; the run ends and drains.
- *wasm-loadgen*: the same of its permits and counters, however long a request takes.
- *collector*: its report agrees with what the run counted, with requests that got no
  response, records that could not be written and activations that cannot be fetched.
- *shrinkray*: each valid invocation of the trace counts once; each function is mapped to
  a workload that is near enough; the specification's rates are those of the trace,
  scaled.

The hazards of the code, each with its line and the properties about it, are in
`PROJECT.json`.

## 2. Modules

```
MinuteGate  <-- implemented by --  SourceClient --> InvocationLogger
                                   MCSourceClient, SourceClientProofs

RequestLog  <-- implemented by --  LoggerApp --> SinkClient
                                   MCLoggerApp, LoggerAppProofs

InvocationPool  <-- implemented by --  OwLoadgen --> OwPlan
                                       MCOwLoadgen, OwLoadgenProofs, OwPlanProofs
Replay --> WasmLoadgen --> OwLoadgen
Replay --> BenchCollect --> OwLoadgen  MCReplay, ReplayProofs

Shrinkray --> RequestGenerator --> FunctionMapping
Shrinkray --> Preprocess           MCShrinkray, ShrinkrayProofs

IatGenerator                       MCIatGenerator, IatProofs

SourceClientProofs, OwPlanProofs, ShrinkrayProofs, IatProofs --> SumTheorems
```

An arrow is EXTENDS; to the right stand the module of TLC's instances and that of the
theorems. A definition whose comment begins with "Mutant:" is not part of the
model: it is a plausible bug in the definition after it, kept to show that the properties
notice it.

### SourceClient, InvocationLogger, MinuteGate

`SourceClient` has one action per step of `SourceClient::new` (`Spawn`, `SpawnFails`,
`NewReturns`), of `SourceClient::run` (`Kick`, `HandleShutdown`, `JoinWorker`,
`NoMoreWorkers`, `ReapLogger`) and of `FunctionWorker::run` (`RecvKick`, `KickErr`,
`StartMinute`, the three branches of the biased `select!`, `IssueOk`, `IssueErr`,
`LogInvocation`), and `Cancel` for a task that `abort_all()` or a dropped JoinSet ends at
its next await.

| variable | in the code |
|---|---|
| `cpc`, `members`, `aborted`, `total` | the control of `new()` and `run()`, the JoinSet, the tasks it has aborted, `num_requests` |
| `shut`, `inbox` | what `recv()` of the embedder's channel and of `quit_rx` still has to return: 2 stands for Lagged and then a message |
| `pc`, `minute`, `left`, `gap`, `remain`, `cur`, `reqs` | a Worker's await point, minute, remaining IATs, its two timers, the invocation at hand, its count |
| `arrived` | the parties `Barrier` has counted |
| `nextId` | the AtomicU64 |
| `opened`, `budget`, `issuedOk` | history, for the properties |

`InvocationLogger` is the channel and the thread; `log()`'s 50 ms limit is a choice between
sending and giving up that exists while the channel is full or its receiver gone.
`MinuteGate` is the abstract specification: minutes are opened in order, each only when
nobody is left in the one before. `Gate` in `SourceClient` is the refinement mapping
(`open <- opened`, `inside <-` the Workers between two barriers). `ValidRange` is what
`MinuteRange::new_inclusive` accepts, and an assumption on `First` and `Last`. `Workers` may
be empty: `new()` accepts a CSV that has only its header, and `run()` panics on it (`Kick`),
the one case in which the kick does not reach everybody (`KickReachesAll`).

### IatGenerator

The three generators of `iat.rs` and the inner loop of a Worker that loses no time, for one
minute: `NextIat` takes the next IAT (`NextPoisson` with its `take_while`, `NextCollected`
for the two generators that collect all IATs of a minute beforehand) or the fallback, and
`MinuteElapses` and `Issue` are the branches of the `select!`, in their order. A float is
a whole number of grains, a time is cut to whole microseconds where the code casts to
`u64`, and 0 / 0, NaN in the code, becomes 0 as the cast makes it. `SourceClient` takes any
sequence of IATs instead, whatever the generator and however late the Worker.

### SinkClient, LoggerApp

`SinkClient` is `SinkClient::run`: the appender's thread and the backend's task, the NoOp
backend with and without waiting, and a backend of the crate's user that may send, return,
fail or panic at any time. `LoggerApp` extends it with `main()`, the signal handler, the
`Logger` thread with its `BufWriter`, and `LoggerRef::issue`; `Builds` selects release
builds, where a panic aborts the process, and debug builds, where it ends one task. The
source is what `SourceClient` promises: some requests, then a return or, when a Worker is
stranded at the barrier, none. A signal that finds no receiver makes the handler panic, and
a release build abort, with what the Logger's channel and buffer hold; `AbortLosesOnlyDrain`
says that this cannot happen to a source that is at work. `RequestLog` is the
abstract specification of the Logger: a file that only grows, by requests that were
accepted, is complete when it is closed unless the disk failed, and takes nothing after
that. `Log` in `LoggerApp` is the mapping: the file is open until `Logger::run` has returned.
`MCLoggerApp` is either program a sink is part of: the logger program, whose sink is a NoOp
that does not wait, or a user's program with any backend, of which only the sink is there.

### OwPlan, OwLoadgen

`OwPlan` is the arithmetic: `parse_trace` (records of an unknown benchmark are skipped,
entries that do not parse are 0), `filter_rows`, the scaling of `scaled_rpm`, the segments of
minute 0 and the totals `print_plan` prints. `OwLoadgen` is the run: the loop of `main()`
over phases (`BeginPhase`, `Dispatch` and its sleeps, the tail of a phase), the steps of an
invocation's task (permit, post, head, body, record), the Ctrl-C task and the drain.
Invocations are numbered in order of dispatch, so the shuffle of a phase is only a choice
of names. The variable `plan` holds the phases and what each dispatches, so that the other
load generator can run with a plan of its own; `good` is history, the invocations whose
status was a success. The errors of `write_all` and of `flush` are discarded in the code
(lines 414 and 728), so `Record` may leave the record out, and `FlushFails` leaves out some
of them and may leave a part of a line at the end of the file (`torn`); `diskOK` remembers
that one of the two has happened. What else depends on the file is only the collector.

`InvocationPool` is the abstract specification of a load generator: invocations are
submitted, wait, hold one of `Slots` slots, are counted as a success or a failure exactly
once while they hold it, and let go of it only then. `Pool` is the mapping: who holds a
permit is `running`, and the two counters of the pool are `total_ok` and `total_err`.

### WasmLoadgen, BenchCollect, Replay

`WasmLoadgen` is `wasm-loadgen/src/main.rs`. It has the main task of `OwLoadgen`, with a
`plan` without ramp and scale, and the tasks of its own: `Succeed` counts when the head of
the response is here, `Refuse` and `Warn` read the body of an error first. The source names
a `timeout` for the request that it does not define (line 317), so as it stands it does not
compile; here a request may take any time, or for ever.

`BenchCollect` is `main()` of `ow-bench-collect.py`: `Load` (records, those with an
activation, `--max-activations`, whose 0 means no limit), `Fetch` for each activation, which
may fail, and `Report`, with any latencies for the records. `LoadRaises` is the exception of
`json.loads` on a file that is torn. What the collector calls a success is a status from 200
to 299 (line 212), where `ow-loadgen` counts every status below 300 (`main.rs:392`):
`below` is the number of records on which the two differ, any number up to all successes.
`Percentile` interpolates as the code does, in hundredths.

`Replay` composes the three: `program` says which load generator runs; the collector starts
when `ow-loadgen` is done, on the file that is there.

### Preprocess, FunctionMapping, RequestGenerator, Shrinkray

`Preprocess` is `preprocess.py` as operators on the rows of the two files of a day: the
filters, the join by owner, app and function, the median where the mean is invalid, the
sum of rows of one duration, and the grouping of the workloads by time. `WorkloadTables` is
a set, because the sort that precedes the grouping is not stable.

`FunctionMapping` has the three `while` loops of `_pick_candidates` as actions (`GoBack`,
`GoForward`, `Collect`), `InitialQuota` and `Assign` for `_greedy_glb`, `Pick` for
`pick_workload`. Its indices count from 1, so the guards of the scan are 0 and N + 1 as in
the code and the candidates are one higher than the code's. `WorkloadOf` is the lookup by
duration that the generator makes. `RequestGenerator` goes on when the mapping is complete:
`ScaleTime` and `Normalize` for `spec_generate`, `Draw` and `Sampled` for
`smirnov_generate` with the inverse distribution of `distribution.py`.

`Shrinkray` is `main()` for the subcommand `trace`: its initial states are those after the
preprocessing of a day and a file of workloads, its steps those of the other two. The
theorems are about both: about `RequestGenerator`'s `Spec`, whose `Inputs` are any tables in
order, wherever they come from, and about `ShrinkraySpec`, whose `Files` are any day and any
profile.

## 3. Runs

Twelve runs; six of them end, as expected, in a counterexample (section 6). Distinct
states and seconds are those of two TLC workers on a small machine; they are left out for a run that
stops at a counterexample, which depend on the order of the search.

| run | instance | asks | states | s |
|---|---|---|---|---|
| `Source_run` | 2 Workers, one minute of 2 ticks, IATs of 0 or 1, log of capacity 1, 2 signals, failing generators, backends and writes, a panic aborts the process | is everything about the kick, the ids, the count and the log right, in every order; does `run()` return | 342,254 | 16 |
| `Source_quit` | 2 Workers, minutes 2 to 3 of a trace of 3, each of one tick, 2 signals, failing generators, a panic ends a task | does the barrier keep the minutes apart, is `MinuteGate` implemented; what do quit and abort promise; does `run()` return or stay stranded | 275,414 | 36 |
| `Source_second_signal` | 2 Workers, 2 minutes of one tick, 2 signals, generators do not fail | does a further signal, handled after a Worker has dropped its receiver, abort the rest (no) | | |
| `Source_panic` | the same, one signal | does no Worker panic while `run()` is at work (one does) | | |
| `Iat_run` | a minute of 6 microseconds of 2 grains, rates 0, 1, 2, 4, 7, samples of 0, 1, 3 and 12 grains | which IATs of a minute are issued | 12,799 | 2 |
| `Ow_run` (`MCReplay`) | either program: `ow-loadgen` with a record of an unknown benchmark and 3 rows of which the filter keeps 2, scale 3/2, ramp, one minute, drain of 2 ticks, lateness up to one tick, Ctrl-C; `wasm-loadgen` with 3 minutes of 1, 0 and 2 invocations; one permit; writes and a flush that fail; at most 1 activation, 2 latencies | is the plan honoured and on time, is `InvocationPool` implemented, does the pause before the flush suffice, does the report agree with the run, does all of it end | 2,911,669 | 110 |
| `Ow_ctrlc_minute`, `Ow_ctrlc_lost` | a row with a minute that does not parse and one of two invocations, no ramp | does Ctrl-C do what its message says (no) | | |
| `App_run` (`MCLoggerApp`) | the logger program in release and debug builds, logger channel of capacity 2, 4 requests, 2 quits, panics, disk errors; a user's sink with the three kinds of backend, channel of capacity 2, 4 responses, 2 quits | is a request or a response ever lost, is `RequestLog` implemented, what does an abort cost; does the process end, does the sink's `run()` return | 51,347 | 8 |
| `Shrink_run` | 7 days over 127 files of workloads for the mapping, 64 days for the generator, 256 of odd rows for the preprocessing, 6 command lines | are the joins, the mapping and the rates right | 132,593 | 11 |
| `Shrink_first_minute` | the same | does the range begin where the user asked (no) | | |
| `Shrink_max_rate` | the same | is the target rate a maximum (no) | | |

Why the bounds are enough to make the interesting cases happen:

- *Two Workers* are the smallest number with somebody to wait for at the barrier, somebody
  who leaves early, and a race for the shared id; `MinuteLockstep`, `GateSpec`, `IdsUnique`
  and the others named in section 5 are proved for any number. *Two signals* are what the
  code tells apart (the broadcast, then the abort). *Minutes 2 to 3 of 3* begin after the
  trace's first and end with its last, and one gate has to follow another.
- *IATs of 0 and 1 in a minute of 2* can end before, with and after the minute. *A log of
  capacity one* is full after one record, so the 50 ms limit is reached.
- *`Iat_run`*: rates that divide the minute (1, 2), do not (4, 7) or exceed it (7), and none
  (0); samples that are cut, add up to the minute exactly, or end it by themselves. Six
  samples (`MaxIats`) are more than it takes to fill the minute unless they are all short.
- *`Ow_run`*: the row that is filtered out is the one that fixes the number of minutes,
  another is shorter, 3/2 rounds up and down, minute 0 has an empty segment, and one permit
  for several invocations makes tasks wait beyond their block's end. `wasm-loadgen` has a
  minute with nothing to do between two others, and a request that is never answered keeps
  the only permit. One activation is fewer than the records there may be, and two distinct
  latencies make a percentile fall between samples. Each write may fail, also all of them.
- *Sink and logger*: more responses than the channel holds, so that senders block, and
  requests that are accepted before, between and after the two quits.
- *Shrinkray*: the times lie on the radius's edge (98, 102), inside, far outside and at equal
  distance from two groups; radii overlap (100 and 101) or not (150); all subsets of the
  seven times give the scans that run off either end. The trace of four minutes of two
  seconds is scaled to targets that divide it, do not divide it, and are one minute. The odd
  days join, in every combination, functions without a valid mean or any valid duration,
  rows with a negative count or an empty cell, a function that occurs twice among the
  invocations, and one name in two applications.
- `MaxU32`, `MaxIats`, `MaxRequests`, `MaxResponses`, `MaxLate` cap counters; what they cap
  is named where they are declared. `MaxU32 = 7` is above every product of `Ow_run`.

Deadlock is checked in `Iat_run`, `Ow_*`, `App_run` and `Shrink_*`: there, nothing but the
end of the program stops it. It is not checked in `Source_*`, because `run()` can really
stop, with a Worker stranded at the barrier (`ReturnsOrStranded` says when).

## 4. Fairness

Every fairness condition is weak and stands for one of these:

- the tokio runtime polls a task whose future is ready, and a thread that is not blocked
  gets on (`ClientStep`, `WorkerStep`, `Cancel`, `LoggerStep`, `MainStep`, the steps of an
  invocation, the appender and the logger threads, `CollectStep`);
- timers advance (`Tick`); each has a finite duration;
- a backend call and an HTTP exchange come to an end: in `ow-loadgen` because the request's
  `.timeout()` covers response and body, and so every permit comes back; in
  `FunctionWorker` because the trait asks for a request that is issued, not answered; the
  collector's GET has a timeout of 10 s. No answer is fair in `wasm-loadgen`, whose request
  has none: only its main task, the clock and a task that can have its permit are.

Nothing makes a signal, a failure, a panic or an early answer happen, and a backend of the
crate's user (`AnyTask`) may do nothing for ever: `SinkReturns` therefore says what
follows once the backend has ended or lets go of its sender. In `LoggerApp` the source is
polled (`SourceStarts`, `SourceTold`), but `SourceReturns` is not fair: a Worker may be
stranded at the barrier, which does not listen to signals, and then `run()` does not return.
`AppEnds` therefore says that the program ends or its source stays at work for ever.
`RunReturns` and `ReturnsOrStranded` name the cases in which `run()` need not return:
`Stranded` is a state in which somebody waits at the barrier, nobody who is alive is
elsewhere, and somebody has ended without arriving there; either `run()` ends or that is so
from some moment on.
shrinkray is a sequential program whose loops are bounded by its input; no liveness is
claimed of it.

## 5. What is proved

TLAPS checks `SumTheorems` and the seven `*Proofs` modules, for every value of the constants
that satisfies the named assumptions: `SourceAssumption`, `LogAssumption`, `PlanAssumption`,
`LoadgenAssumption`, `WasmAssumption`, `SinkAssumption`, `LoggerAppAssumption`,
`InputsAssumption`, `GeneratorAssumption`, `FilesAssumption`, `CollectAssumption`,
`ReplayAssumption` and `IatAssumption`. TLC evaluates each of them in some run. Most only say
that a number is a number. Those that say more are:

- `LoadgenAssumption` has `MinTimeout < Drain`: a request's timeout is at least 1 s
  (`main.rs:366`), the pause before the flush is 5 s (`main.rs:723`);
- `SourceAssumption` has `ValidRange(First, Last)`, what `MinuteRange::new_inclusive` accepts.
  It does not ask for a Worker, as `new()` does not;
- `GeneratorAssumption` asks of a row that its total is the sum of its minutes and that it
  has all minutes, `InputsAssumption` that the tables are in order. `ShrinkrayCorrect` needs
  neither: it proves both of the tables that the preprocessing makes;
- `FilesAssumption` says that the two files of a day and the file of workloads are of the
  form that the preprocessing parses (`IsDay`, `IsProfile`), and that at least one function
  has valid data.

Every safety invariant and every refinement that a passing run checks is stated by a
theorem, and each rests on an inductive invariant that the module states and names.

- `SumTheorems` is what the counts and rates rest on. `SumFunctionOnSet` of the community
  modules is a fold, and a fold is a CHOOSE of the function on the subsets that satisfies the
  recursion. That there is such a function, and no other, is proved by induction over a SET,
  of numbers or of subsets (`NatSetInduction`, `SetInduction`), which well-foundedness
  (`WFMin`) gives without an operator as a parameter. From then on a lemma adds one element at
  a time (`SumAdd`, `SetGrows`): the order of sums, sums over the parts of a set, of
  constants, of shifted and of paired terms, sums that count.

- `SourceClientProofs`. `TypeCorrect` comes first; the other invariants are each proved
  with a strengthening of their own.
  - `Lockstep` needs `LockstepInv`: that a Worker is in the open minute does not by itself
    survive the opening of the next. What does is that whoever waits at the barrier waits
    for the next minute and has been counted, and that whoever has been counted is there or
    was cancelled there; when all are counted, nobody can be left in the minute before.
    `Refinement` (`SourceClient` implements `MinuteGate`) follows step by step from it.
  - `AssertionHolds` and `KickFirst` need `KickInv`: until the kick, no Worker has heard
    anything, and those in the JoinSet are exactly those subscribed. So the panic of the
    kick is that of a trace without rows, and there is no other.
  - `NoWorkerLeft` needs `JoinInv`: a live task is in the JoinSet unless `new()` failed.
  - `NoPhantom` needs `BudgetInv`: while a Worker sleeps, the IAT is one the generator
    produced and no request was issued for, or it is the fallback, and then it ends no
    earlier than the minute, whose branch of the `select!` comes first.
  - `UniqueIds` needs `IdsInv`: every id in use is below the shared counter.
  - `CountReturned`: `IssuedInv` says that a Worker's count is the size of the set of pairs a
    backend accepted from it. The sets of two Workers are disjoint, so the counts add up to
    all that was issued (`RequestsAddUp`); `TotalInv` says that `run()` has added those of the
    Workers that were joined and returned Ok.
  - `LogSound`: `LogInv` says of each accepted pair that it is with a Worker that has not
    returned from `log()`, in the channel, in the file or lost, and in no two of these places;
    a thread that has returned Ok has left the channel empty and every Worker ended.
- `IatProofs`: `PoissonInv` bounds what has been slept and what is being slept by the sum of
  the samples, cut to microseconds or not, and that sum by the minute; so the fallback is the
  only IAT that ends a minute (`PoissonIssued`). `EquidistantInv` says that `issued` steps
  have been slept; `StepsFill` says that all of them fill the minute exactly when the rate
  divides it, and then the last loses to the minute's end (`EquidistantIssued`).
  `UniformInv` says that what has passed of the minute, what is being slept and what is
  queued are together no longer than the minute, because the floors of the shares of a
  total are no more than the total (`ScaledFits`); hence `UniformIssued`.
- `OwPlanProofs`: `PlanIsTimetable` says of every trace, filter, scale and ramp that the phases
  of a block follow each other without a gap until its minute is full, and that their numbers
  of invocations are natural numbers. `TotalIsSum` says that the grand total, which is printed
  benchmark by benchmark, is what the phases have: two orders of one double sum.
- `OwLoadgenProofs`: `OwInv` is the invariant of a run (`RunCorrect`), in five parts.
  - `TaskInv` joins the types the tasks write with `PermitsConserved` and `Tally`; each step
    moves one invocation from one state to another, and the lemmas about `InState` say what
    that does to the cardinalities (`PermitsBound`, `CountersExact`). The counters never
    depend on the file; the file is a part of what has landed, and all of it as long as no
    write and no flush failed. `OwPool` is the
    refinement of `InvocationPool`: a task that takes a permit finds a free slot because the
    permits left and those in use add up to `Concurrency` (`PermitIsSlot`).
  - `PaceInv` says, for each place of the main task, how the clock stands to the phase: never
    before its start, after its end by no more than main has been late, past the target of
    the last invocation dispatched. From it follow `BlocksKeepTime` and, because a target
    rounded up to whole ticks has passed exactly when the share of the phase has (`DueAt`),
    `PaceKeepsUp`.
  - `CountInv` says that what has been dispatched is all of the phases before and the part of
    this one that main is in; at the end of an uninterrupted run that is the printed total
    (`PlanKept`).
  - `RunType` has the rest of the types, with the limits of the requests (`OwTyped`).
  - `SlackInv`: as long as nobody has had to wait for a permit, a request that is waiting for
    its answer was posted in the tick it was dispatched in, so its timeout ends with its phase
    or `MinTimeout` after that tick. When main leaves its last phase only the latter can still
    run, and the pause is longer: `PauseSuffices`.
- `ReplayProofs`: `WasmPool` is the same refinement for `wasm-loadgen`, with an invariant of
  its own. Its main task goes by the clock and the plan as `ow-loadgen`'s does, so the part of
  `OwInv` about main (`MainInv`) holds of both programs, and with a collector that touches
  neither, `ReplayInv` holds of the composition: `ReplayPool`, `ReplayTyped`,
  `ReplayHonours`, `ReplayOnTime`, `ReplayPaced`, and `ReplaySettles` of `ow-loadgen`.
  `ReportCorrect` says that the report agrees with the run: the file holds some of the
  invocations that landed, or all, `good` exactly those `total_ok` counted, the collector
  cannot start before both are final. So the report never exceeds the counters, and when all
  invocations had settled and no write failed it differs from them by the requests without
  a response and the successes below 200. That the percentiles are in order is arithmetic about
  `Percentile` (`PercentilesOrdered`, `PercentileWithin`), for latencies in any number.
- `LoggerAppProofs`: `SinkInv` says when the appender may have ended (the channel is empty
  and the backend has let go of its sender), from which `CountExact` follows for the sink on
  its own, and `AppCountExact` for the sink inside the program. `AppInv` adds the types of
  the program (`AppTyped`). `LogInv` accounts for every accepted request (channel, buffer or
  file) and says when the first two are empty, and that what has left the channel was
  counted; `LoggerIsRequestLog` follows from it step by step, and `NothingLost`. `AbortInv`
  adds that nothing is accepted before the source runs and that an aborted process has no
  source at work: `AbortSparesSource`.
- `ShrinkrayProofs`: `ProgramInv` is the invariant of mapping and generation
  (`ProgramInvariant`); its parts that are not properties themselves are:
  - `MapInv` says what the scan knows at each of its three loops: behind
    `s_idx` everything is left of the radius while it goes forward; while it collects, the
    candidates are the consecutive groups `a .. s_idx - 1`, all to the left of `a` lie left
    of the radius and all from `a` on inside it. When the third loop stops, the groups
    collected are the whole radius (`RadiusCollected`), or there are none and the two
    neighbours are the nearest (`ClosestNearest`); both use that the times ascend.
    `LinearScanFinds` follows, for every trace and table, however radii overlap. After the
    scan, every function that has been assigned has a benchmark of one of its candidates, so
    `Matches` is never empty: `EveryFunctionMapped`.
  - `BooksInv` is `BooksBalance` with the domains of the two tallies: an assignment takes a
    function's invocations from the quota of all its benchmarks and adds them to the load of
    the chosen one (`BooksBalanced`).
  - `GenInv` and `ScaleInv` say what the generator starts from. The thumbnails of a day that
    is cut into equal parts are sums over the parts of a set (`ThumbnailsConserved`). The
    error of one rounded rate (`RoundingBound`) is added up over the functions active in a
    minute (`RoundedSum`): `RateIsBounded`.
  - `SampleInv` says that the requests drawn have filled the minutes in order
    (`RateIsConstant`). `SharesAreExact` is about the inverse of the distribution: its
    steps are the running sums of the invocations, so as many numbers fall on a function's
    step as it has invocations.
  - `FilesInv` adds where the tables come from. `DayTrace` proves of every day that what
    `azure_trace_preprocess` returns ascends by duration and has complete rows, `FileTables`
    that every grouping of the workloads ascends by time; the recursive function by which the
    groups are made has a solution (`ListsExist`), again by induction over a set. So
    `ShrinkrayCorrect` states all of the above of the whole program. `InvocationsOnce`
    follows from `DayCounts`: the rows of one duration are summed, and each usable row has
    one.

Only model-checked are the liveness properties (`RunReturns`, `QuitStopsBusyWorker`,
`AbortReturns`, `ReturnsOrStranded`, `ReplayEnds`, `SinkReturns` and `AppEnds`, the last two
as `UserSinkReturns` and `LoggerAppEnds`): the provers here do not reach fairness and ENABLED. `SourceClient`'s `TypeOK` is in no run, because it is proved.

## 6. What the code and its documents disagree about

Six runs end in a counterexample, each against a sentence of the repository (quoted in
`PROJECT.json`):

1. `Source_second_signal`: the comment says that when a further signal is handled and some
   Workers have dropped their receiver, the rest is aborted. It is only while a Worker that
   has quit is not yet joined. In the run one signal is handled, a Worker quits and is joined,
   and a second is handled: the counts agree, nobody is aborted, and a Worker at the barrier,
   which does not listen to `quit_rx`, waits for ever.
2. `Source_panic`: in the run the kick is sent, a signal comes and is broadcast before a
   Worker has taken the kick out of the channel of capacity one; its `recv()` returns Lagged,
   and `expect` panics. (A Worker also panics there when `new()` fails after it was spawned,
   its channel closed; `NoWorkerPanic` is only about the time in which `run()` is at work.)
3. `Ow_ctrlc_minute`: Ctrl-C does not let the current minute finish, as the message says.
4. `Ow_ctrlc_lost`: `notify_waiters()` reaches only who is waiting at that moment.
5. `Shrink_first_minute`: `-f 25` begins with the trace's minute 26, under the label 25.
6. `Shrink_max_rate`: the README, the help of `-r` and the comment "round down" make the
   request rate a maximum. Each function is rounded on its own, up from .35, so the busiest
   minute may exceed it: 5 and 2 requests scaled to 2 in all become 2 and 1. `RateBounded`,
   which holds and is proved, says by how much: at most .65 for each active function.

Four more things the models made visible, about which no document says anything. With
equidistant IATs and a rate that divides the minute, the last request of every minute is
never issued (`EquidistantLosesLast`), so a function with one request a minute is never
invoked. And each minute is generated from a clone of the Worker's generator that is never
advanced (`self.rng.clone()`, `worker.rs:142`): minutes of the same rate have the same IATs.
A trace without rows makes `run()` panic (`client.rs:106`). `ow-loadgen` and the collector do
not agree on what a success is, and neither notices when the disk is full: the printed
counters are right, the report is of the records that are there.

## 7. What is abstracted, and what is left out

Assumptions of the models:

- One poll of a task, up to its next await, is atomic where it touches no state that other
  threads write; where it does, it is split into steps. Timers that have expired by the
  same tick are seen together by one poll, so a biased `select!` decides by its order.
- Whoever embeds `SourceClient` keeps the sender of its shutdown channel.
- `log()`'s limit and a backend's answers may come at any time.
- `ow-loadgen`: the shuffle within a phase and the JSON of the records are left out; the
  lateness of the main task is bounded in all by `MaxLate`, which is what `BlocksOnTime`
  measures against; a task that can run does so before the next tick.
- shrinkray: fractions are exact where the code has float64; a workload is its position in
  the table, and distinct workloads are assumed to have distinct names; ties, which
  `argsort` and Python's sets break in no fixed order, are broken in every way; at least one
  function has valid data, there is a workload, and the first minute is positive. That no
  function has two rows of durations is what the authors checked of their trace
  (`preprocess.py:136`); `EachInvocationOnce` is about such days.
- `IatGenerator`: the Worker is punctual and issuing takes no time.

- `WasmLoadgen`: how long a request may take, as its limit is not defined; a task that can
  have a permit takes it before the next tick.
- `BenchCollect`: any latency goes with any record, in whole numbers; a record has a status
  below 200 or not, whichever it is, although few servers send the former. A file is torn
  only at its end: a `BufWriter` keeps what it could not write and tries it again first.
- `RequestGenerator`: a sample is any number from 0 up to and without 1. `random.uniform(0, 1)`
  computes `0 + (1 - 0) * random()`, and `random()` is less than 1, so the end point that its
  documentation allows in general cannot occur with these two bounds.

Left out, and why:

- the syntax of CSV, JSON and the command line (a failure is `SpawnFails`), and with it the
  two notations of `MinuteRange`: parsing without state;
- the payload fixer (`fixer.rs`) and the workload requests: they overwrite two fields of a
  JSON object if it has them, and a failure is one of `new()`'s failures;
- shrinkray's list of workloads: constants;
- in the collector, the breakdown per function and the statistics of the server side, which
  are the same `percentile` over other lists, and the Prometheus snapshot;
- HTTP and the platforms behind it;
- the benchmarks, which run inside the platform and keep no state between calls, and the
  shell scripts, which call it in sequence.

## 8. Plan

Done, in this order: the source client with its Workers and logger, and `MinuteGate`;
`ow-loadgen`; the sink and the logger program; shrinkray's mapping and generator, then its
preprocessing and the subcommand `trace`; the IAT generators; `InvocationPool` and its
refinement by both load generators; the collector and the replay that composes them;
`RequestLog` and its refinement by the logger program; then theorems for every safety
property of the runs.

What is left:

1. The subcommand `functions` with the payload grids of `benchmarks.py`; the notations of
   `MinuteRange`.
2. The benchmarks that read a file in blocks (`bench-disk-seq`, `bench-disk-rand`), whose
   sizes and generator have edges of their own.
3. A property of the clone of a Worker's generator (section 6), which compares two minutes.
