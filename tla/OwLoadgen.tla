----------------------------- MODULE OwLoadgen -----------------------------
(***************************************************************************)
(* The run of ow-loadgen (ow-loadgen/src/main.rs): the main task paces the *)
(* invocations of every phase of the plan, each invocation is a task that  *)
(* takes a permit of the semaphore, posts, counts and records, and a third *)
(* task turns the first Ctrl-C into one notify_waiters().                  *)
(*                                                                         *)
(* The clock t counts ticks since the current block began.  A task that    *)
(* can run does so before the next tick; the main task may be late, by     *)
(* MaxLate ticks in all.  Invocations are numbered as they are dispatched. *)
(***************************************************************************)
EXTENDS OwPlan

CONSTANTS
  Concurrency, \* --concurrency
  MinTimeout,  \* 1 s in ticks: the least timeout of a request
  Drain,       \* 5 s in ticks: the pause before the file is flushed
  MaxLate,     \* bound: the ticks the main task may be late, in all
  CtrlCs       \* bound: 1 if Ctrl-C may be pressed, 0 if not

ASSUME LoadgenAssumption ==
  /\ Concurrency \in Nat
  /\ MinTimeout \in Nat \ {0}
  /\ Drain \in Nat /\ MinTimeout < Drain
  /\ MaxLate \in Nat
  /\ CtrlCs \in {0, 1}

VARIABLES
  plan,      \* the rows that are kept, and minutes_to_run, as the phases they make
  mpc,       \* where main is: "phase" about to begin a phase, "idle" sleeping
             \* through an empty one, "dispatch", "pace" sleeping until the next
             \* target, "tail" until the end of the phase, "block" until the end
             \* of the block, "next", "drain", "flush", "done"
  ph,        \* index of the current phase in the plan
  t,         \* ticks since trace_block_start
  until,     \* when the sleep of main ends
  notified,  \* main's notified() future has been woken
  late,      \* ticks main has been late so far
  pressed,   \* Ctrl-Cs handled so far
  inPhase,   \* invocations of the phase dispatched so far
  st,        \* where each dispatched invocation is, in order of dispatch:
             \* "queued" for a permit, "flight" posted, "body" the head of
             \* the response is here, "write" counted but not yet recorded,
             \* "landed", "failed" without a response
  limit,     \* ticks until its request times out
  permits,   \* free permits of the semaphore
  ok, err,   \* total_ok and total_err
  good,      \* history: the invocations counted as ok
  file,      \* invocations recorded in the writer, at the end in the file
  torn,      \* the file ends in a part of a line
  diskOK,    \* history: no write to the file has failed
  aborted,   \* history: main has left the block 'run early
  starved    \* history: time has passed while an invocation waited for a permit

mainVars == <<mpc, ph, t, until, notified, late, inPhase, aborted>>
outfile  == <<file, torn, diskOK>>
books == <<ok, err, good, outfile>>
taskVars == <<st, limit, permits, books>>
restVars == <<plan, pressed, starved>>
vars == <<mainVars, taskVars, restVars>>

\* The positions of a sequence that hold a member of S.
Where(q, S) == {j \in DOMAIN q : q[j] \in S}

Dispatched == DOMAIN st
InState(S) == Where(st, S)

Phase    == plan.phases[ph]
Deadline == Phase.offset + Phase.len
BlockLen == 2 * Half
Sleeping == {"idle", "pace", "tail", "block"}

\* The run of a given plan, about to begin.
InitWith(p) ==
  /\ plan = p
  /\ mpc = IF p.phases = << >> THEN "next" ELSE "phase"
  /\ ph = IF p.phases = << >> THEN 0 ELSE 1
  /\ t = 0 /\ until = 0 /\ notified = FALSE /\ late = 0 /\ pressed = 0
  /\ inPhase = 0
  /\ st = << >> /\ limit = << >> /\ permits = Concurrency
  /\ ok = 0 /\ err = 0 /\ good = {}
  /\ file = {} /\ torn = FALSE /\ diskOK = TRUE
  /\ aborted = FALSE /\ starved = FALSE

Init == InitWith(PlanOfRun)

-----------------------------------------------------------------------------
(* The main task *)

\* An await on a sleep and on the shutdown notification together.
Sleep(where, deadline) ==
  /\ mpc' = where
  /\ until' = deadline
  /\ notified' = FALSE

\* The invocations of the phase are built; an empty phase is slept through.
BeginPhase ==
  /\ mpc = "phase"
  /\ inPhase' = 0
  /\ IF Phase.count = 0
     THEN Sleep("idle", t + Phase.len)
     ELSE mpc' = "dispatch" /\ UNCHANGED <<until, notified>>
  /\ UNCHANGED <<ph, t, late, aborted, taskVars, restVars>>

\* Mutant: the timeout is as long as a block, whatever is left of the phase.
SpawnBlockTimeout ==
  /\ st' = Append(st, "queued")
  /\ limit' = Append(limit, BlockLen)
  /\ inPhase' = inPhase + 1

\* spawn_invocation: the timeout is fixed here, the permit is taken later.
Spawn ==
  LET remaining == IF Deadline > t THEN Deadline - t ELSE 0
  IN  /\ st' = Append(st, "queued")
      /\ limit' = Append(limit, IF remaining > MinTimeout THEN remaining
                                                         ELSE MinTimeout)
      /\ inPhase' = inPhase + 1

\* Mutant: the pace is kept from the last dispatch, not from the phase's start.
TargetRelative ==
  LET n == Phase.count
  IN  IF inPhase = 0 THEN Phase.offset ELSE t + Phase.len \div n

\* When the next invocation of the phase is due (the first tick that is not
\* before phase_start + phase_secs * i / n).
Target ==
  LET n == Phase.count
  IN  Phase.offset + (Phase.len * inPhase + n - 1) \div n

\* The head of the dispatch loop: spawn now if the target is not ahead.
Dispatch ==
  /\ mpc = "dispatch"
  /\ inPhase < Phase.count
  /\ IF Target > t
     THEN /\ Sleep("pace", Target)
          /\ UNCHANGED <<inPhase, st, limit>>
     ELSE /\ Spawn
          /\ UNCHANGED <<mpc, until, notified>>
  /\ UNCHANGED <<ph, t, late, aborted, permits, books, restVars>>

\* Mutant: the phase ends with its last dispatch.
PhaseTailDropped ==
  /\ mpc = "dispatch"
  /\ inPhase = Phase.count
  /\ mpc' = "next"
  /\ UNCHANGED <<until, notified>>
  /\ UNCHANGED <<ph, t, late, inPhase, aborted, taskVars, restVars>>

\* All are dispatched: sleep through what is left of the phase.
PhaseTail ==
  /\ mpc = "dispatch"
  /\ inPhase = Phase.count
  /\ IF Deadline > t THEN Sleep("tail", Deadline)
                     ELSE mpc' = "next" /\ UNCHANGED <<until, notified>>
  /\ UNCHANGED <<ph, t, late, inPhase, aborted, taskVars, restVars>>

LastPhase == ph = Len(plan.phases)
EndsBlock == \A q \in DOMAIN plan.phases :
               q = ph + 1 => plan.phases[q].block # Phase.block

\* The block is over: the next one begins with a new clock, or the drain does.
LeaveBlock ==
  IF LastPhase THEN /\ mpc' = "drain" /\ until' = t + Drain
                    /\ UNCHANGED <<ph, t>>
               ELSE /\ mpc' = "phase" /\ ph' = ph + 1 /\ t' = 0
                    /\ UNCHANGED until

\* The select! picks the sleep, even when the notification is there too (which
\* is lost then): the invocation that was due is spawned.
Paced ==
  /\ mpc = "pace"
  /\ t >= until
  /\ Spawn
  /\ mpc' = "dispatch"
  /\ notified' = FALSE
  /\ UNCHANGED <<ph, t, until, late, aborted, permits, books, restVars>>

\* Mutant: an empty phase waits for the notification only.
PhaseSleptTailOnly ==
  /\ mpc \in {"tail", "block"}
  /\ t >= until
  /\ mpc' = "next"
  /\ notified' = FALSE
  /\ UNCHANGED <<ph, t, until, late, inPhase, aborted, taskVars, restVars>>

\* As Paced, for the sleeps that fill a phase and a block.
PhaseSlept ==
  /\ mpc \in {"idle", "tail", "block"}
  /\ t >= until
  /\ mpc' = "next"
  /\ notified' = FALSE
  /\ UNCHANGED <<ph, t, until, late, inPhase, aborted, taskVars, restVars>>

\* The select! picks the notification: break 'run, then the drain begins.
BreakRun ==
  /\ mpc \in Sleeping
  /\ notified
  /\ aborted' = TRUE
  /\ mpc' = "drain"
  /\ until' = t + Drain
  /\ notified' = FALSE
  /\ UNCHANGED <<ph, t, late, inPhase, taskVars, restVars>>

\* After a phase: the next one of the same block, or the rest of the block.
NextPhase ==
  /\ mpc = "next"
  /\ ~EndsBlock
  /\ mpc' = "phase"
  /\ ph' = ph + 1
  /\ UNCHANGED <<t, until, notified, late, inPhase, aborted, taskVars, restVars>>

EndBlock ==
  /\ mpc = "next"
  /\ EndsBlock
  /\ IF ph > 0 /\ BlockLen > t
     THEN Sleep("block", BlockLen) /\ UNCHANGED <<ph, t>>
     ELSE LeaveBlock /\ UNCHANGED notified
  /\ UNCHANGED <<late, inPhase, aborted, taskVars, restVars>>

\* The 5 s pause is over.
DrainEnds ==
  /\ mpc = "drain"
  /\ t >= until
  /\ mpc' = "flush"
  /\ UNCHANGED <<ph, t, until, notified, late, inPhase, aborted, taskVars,
                 restVars>>

\* Flush, print the counters, return; the runtime drops every task left.
Finish ==
  /\ mpc = "flush"
  /\ mpc' = "done"
  /\ UNCHANGED <<ph, t, until, notified, late, inPhase, aborted, taskVars,
                 restVars>>

\* The flush fails, its error is discarded, and the BufWriter's second try when it
\* is dropped fails too: some records are not in the file, and one may be in part.
\* (Which ones is the order of the writes, which nothing here depends on.)
FlushFails ==
  /\ mpc = "flush"
  /\ mpc' = "done"
  /\ \E kept \in (SUBSET file) \ {file} : file' = kept
  /\ torn' \in BOOLEAN
  /\ diskOK' = FALSE
  /\ UNCHANGED <<ph, t, until, notified, late, inPhase, aborted, st, limit, permits,
                 ok, err, good, restVars>>

-----------------------------------------------------------------------------
(* An invocation's task *)

Move(j, s) == st' = [st EXCEPT ![j] = s]

\* Mutant: the permit is not bound to a name and is dropped at once.
AcquireDropsPermit(j) ==
  /\ st[j] = "queued"
  /\ permits > 0
  /\ Move(j, "flight")
  /\ UNCHANGED <<mainVars, limit, permits, books, restVars>>

\* Mutant: the request is posted whether or not there is a permit.
AcquireUnchecked(j) ==
  /\ st[j] = "queued"
  /\ permits' = permits - 1
  /\ Move(j, "flight")
  /\ UNCHANGED <<mainVars, limit, books, restVars>>

\* sem.acquire() returns; the request is posted and its timeout starts.
Acquire(j) ==
  /\ st[j] = "queued"
  /\ permits > 0
  /\ permits' = permits - 1
  /\ Move(j, "flight")
  /\ UNCHANGED <<mainVars, limit, books, restVars>>

\* send() returns Ok: the status is known, the body is still to be read.
Respond(j) ==
  /\ st[j] = "flight"
  /\ Move(j, "body")
  /\ UNCHANGED <<mainVars, limit, permits, books, restVars>>

\* send() returns Err, by timeout or otherwise: only err is counted.
Fail(j) ==
  /\ st[j] = "flight"
  /\ Move(j, "failed")
  /\ err' = err + 1
  /\ permits' = permits + 1
  /\ UNCHANGED <<mainVars, limit, ok, good, outfile, restVars>>

\* The body is read, or reading it fails (unwrap_or_default): the status
\* decides which counter is advanced.  Every status below 300 is a success here.
Count(j) ==
  /\ st[j] = "body"
  /\ Move(j, "write")
  /\ \/ ok' = ok + 1 /\ good' = good \union {j} /\ UNCHANGED err
     \/ err' = err + 1 /\ UNCHANGED <<ok, good>>
  /\ UNCHANGED <<mainVars, limit, permits, outfile, restVars>>

\* The line is written under the writer's lock, or write_all fails, which nobody
\* is told; the task ends and its permit returns.
Record(j) ==
  /\ st[j] = "write"
  /\ Move(j, "landed")
  /\ \/ file' = file \union {j} /\ UNCHANGED diskOK
     \/ diskOK' = FALSE /\ UNCHANGED file
  /\ permits' = permits + 1
  /\ UNCHANGED <<mainVars, limit, ok, err, good, torn, restVars>>

TaskStep(j) ==
  /\ mpc # "done"
  /\ Acquire(j) \/ Respond(j) \/ Fail(j) \/ Count(j) \/ Record(j)

-----------------------------------------------------------------------------
(* Ctrl-C, time, and the composition *)

\* The handler runs once; notify_waiters() reaches main only while it awaits.
CtrlC ==
  /\ mpc # "done"
  /\ pressed < CtrlCs
  /\ pressed' = pressed + 1
  /\ notified' = (mpc \in Sleeping)
  /\ UNCHANGED <<mpc, ph, t, until, late, inPhase, aborted, taskVars, plan,
                 starved>>

\* A task can or must run now.
Prompt ==
  \/ permits > 0 /\ InState({"queued"}) # {}
  \/ \E j \in InState({"flight", "body"}) : limit[j] = 0
  \/ InState({"write"}) # {}

Asleep == mpc \in Sleeping \union {"drain"} /\ t < until /\ ~notified

Tick ==
  /\ mpc # "done"
  /\ ~Prompt
  /\ IF Asleep THEN UNCHANGED late ELSE late < MaxLate /\ late' = late + 1
  /\ t' = t + 1
  /\ limit' = [j \in Dispatched |->
                 IF st[j] \in {"flight", "body"} THEN limit[j] - 1 ELSE limit[j]]
  /\ starved' = (starved \/ InState({"queued"}) # {})
  /\ UNCHANGED <<mpc, ph, until, notified, inPhase, aborted, st, permits, books,
                 plan, pressed>>

MainStep == BeginPhase \/ Dispatch \/ PhaseTail \/ Paced \/ PhaseSlept \/ BreakRun
            \/ NextPhase \/ EndBlock \/ DrainEnds \/ Finish

Terminating == mpc = "done" /\ UNCHANGED vars

Next == \/ MainStep
        \/ FlushFails
        \/ \E j \in Dispatched : TaskStep(j)
        \/ CtrlC
        \/ Tick
        \/ Terminating

Spec == Init /\ [][Next]_vars

-----------------------------------------------------------------------------
(* Properties *)

States == {"queued", "flight", "body", "write", "landed", "failed"}

\* The part of the type that the invocations' tasks write.
TaskType ==
  /\ st \in Seq(States)
  /\ permits \in Nat /\ ok \in Nat /\ err \in Nat
  /\ file \subseteq Dispatched /\ good \subseteq Dispatched
  /\ torn \in BOOLEAN /\ diskOK \in BOOLEAN

\* Every variable has its type; no request outlives its timeout.
TypeOK ==
  /\ mpc \in {"phase", "idle", "dispatch", "pace", "tail", "block", "next", "drain",
              "flush", "done"}
  /\ ph \in 0 .. Len(plan.phases)
  /\ t \in Nat /\ until \in Nat /\ late \in Nat /\ inPhase \in Nat
  /\ notified \in BOOLEAN /\ aborted \in BOOLEAN /\ starved \in BOOLEAN
  /\ pressed \in 0 .. CtrlCs
  /\ TaskType
  /\ limit \in Seq(Nat) /\ Len(limit) = Len(st)

\* The permits out are those of the invocations between their post and their
\* end, so never more than Concurrency requests are in flight.
PermitsConserved ==
  permits + Cardinality(InState({"flight", "body", "write"})) = Concurrency

\* The two counters that are printed count every invocation that got past its
\* request once, whatever became of its body and of its record; those recorded are
\* counted, and unless a write has failed they are all that have landed.
Tally ==
  /\ ok = Cardinality(good) /\ good \subseteq InState({"write", "landed"})
  /\ ok + err = Cardinality(InState({"write", "landed", "failed"}))
  /\ file \subseteq InState({"landed"})
  /\ diskOK => file = InState({"landed"}) /\ ~torn

\* A run that is not interrupted dispatches the grand total of the plan that
\* it printed before, ramp, filter, scale and short rows included.
PlanHonoured ==
  mpc \in {"drain", "flush", "done"} /\ ~aborted => Len(st) = plan.total

\* The invocations of the phase whose time has come.
Due ==
  LET n == Phase.count
  IN  {i \in 0 .. n - 1 : Phase.len * i <= (t - Phase.offset) * n}

\* While main waits for the next target, all that is due has been dispatched
\* and nothing else has: lateness is caught up, never carried along the phase.
PaceExact == mpc = "pace" /\ t < until => inPhase = Cardinality(Due)

\* A block lasts a minute: the next begins neither before the minute is over nor
\* later than main has been late, and the wait for block_deadline is never
\* needed (every phase ends at or after its own deadline).
BlocksOnTime ==
  /\ mpc # "block"
  /\ mpc = "next" /\ ph > 0 =>
       t >= Deadline /\ t <= Deadline + late

\* If the run is not interrupted and no invocation ever waited for a permit, the
\* pause before the flush is long enough: at the end all invocations are settled,
\* their record written or refused by the disk, or failed.
DrainComplete ==
  mpc = "done" /\ ~aborted /\ ~starved => InState({"landed", "failed"}) = Dispatched

-----------------------------------------------------------------------------
(* Refinement: the invocations' tasks are a pool, as InvocationPool says *)

\* The states between the post and the end of the task, and those with an outcome.
Busy    == {"flight", "body", "write"}
Settled == {"write", "landed", "failed"}

Pool == INSTANCE InvocationPool WITH
          Slots <- Concurrency,
          submitted <- Len(st), waiting <- InState({"queued"}),
          running <- InState(Busy), bad <- InState(Settled) \ good,
          succeeded <- ok, failed <- err

\* Every invocation is dispatched, starts, is counted and ends once and in this
\* order, over at most Concurrency slots, and the counters that are printed move
\* with the outcomes and at no other time.
PoolSpec == Pool!Spec

-----------------------------------------------------------------------------
(* What the program says of Ctrl-C *)

\* What the comment and the message of the Ctrl-C handler say: the minute that
\* is running is finished, so all its invocations have been dispatched.
CtrlCFinishesMinute ==
  aborted => inPhase = Phase.count /\ EndsBlock

\* ... and then the run exits: no other minute begins after Ctrl-C.
CtrlCStops ==
  [][pressed > 0 /\ ph' # ph => plan.phases[ph'].block = Phase.block]_vars
=============================================================================
