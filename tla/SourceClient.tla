---------------------------- MODULE SourceClient ----------------------------
(***************************************************************************)
(* The source side of faasrail-loadgen: SourceClient (source/client.rs)    *)
(* and the FunctionWorker tasks it spawns (source/worker.rs), one per row  *)
(* of the trace.  They share                                               *)
(*   - quit_tx, a broadcast channel of capacity 1 that carries first the   *)
(*     kick that starts the Workers and later the quit notifications;      *)
(*   - a Barrier of rows.len() parties at the head of every minute;        *)
(*   - the AtomicU64 that numbers the invocations;                         *)
(*   - the channel of the InvocationLogger.                                *)
(*                                                                         *)
(* Time is kept as count-down timers in abstract ticks.  A tick may pass   *)
(* between any two steps: nothing is urgent, a ready task may run late.    *)
(***************************************************************************)
EXTENDS InvocationLogger, Integers, FiniteSets

CONSTANTS
  Workers,      \* one Worker per row of the trace, which may have none
  NumMinutes,   \* entries of every row's rpm (a csv reader that is not
                \* flexible refuses rows of different lengths)
  First, Last,  \* the inclusive MinuteRange to run
  OneMinute,    \* ticks in a minute
  Gaps,         \* the inter-arrival times a generator may produce, in ticks
  MaxIats,      \* bound: the most IATs generated for one minute
  GenMayFail,   \* may IatGenerator::gen return Err?
  PanicAborts,  \* built with panic = "abort" (release) or unwinding (dev)?
  IdStart,      \* invoc_id_start
  MaxSignals    \* bound: shutdown notifications sent to the client

\* MinuteRange::new_inclusive refuses every other range.
ValidRange(first, last) == first \in Nat \ {0} /\ last \in Nat /\ first <= last

ASSUME SourceAssumption ==
  /\ IsFiniteSet(Workers)
  /\ NumMinutes \in Nat
  /\ ValidRange(First, Last)
  /\ OneMinute \in Nat \ {0}
  /\ Gaps \subseteq Nat
  /\ MaxIats \in Nat
  /\ GenMayFail \in BOOLEAN
  /\ PanicAborts \in BOOLEAN
  /\ IdStart \in Nat
  /\ MaxSignals \in Nat

VARIABLES
  cpc,      \* where SourceClient is: "new", "ready", "loop", "reap", "done";
            \* "failed" new() returned Err, "asserted" run() panicked at the
            \* kick, "crashed" a panic aborted the process
  shut,     \* results that quit_rx.recv() of the client still has to return
  sigs,     \* shutdown notifications sent so far
  members,  \* the JoinSet: spawned Workers that are not joined yet
  aborted,  \* Workers that abort_all() has marked
  total,    \* num_requests of SourceClient::run
  pc,       \* where each Worker is
  inbox,    \* results that quit_rx.recv() of a Worker still has to return
  minute,   \* the minute a Worker is in, or waits for at the barrier
  left,     \* IATs its iterator has not produced yet
  gap,      \* ticks until sleep(iat) completes
  remain,   \* ticks until minute_end completes
  cur,      \* the invocation it is issuing or logging
  reqs,     \* num_requests of FunctionWorker::run
  arrived,  \* parties that the current generation of the Barrier has counted
  nextId,   \* the shared AtomicU64
  opened,   \* history: the minute for which the Barrier opened last
  budget,   \* history: IATs generated for the minute minus requests issued
  issuedOk  \* history: pairs the backend accepted, per Worker

clientVars == <<cpc, shut, sigs, members, aborted, total>>
workerVars == <<pc, inbox, minute, left, gap, remain, cur, reqs>>
sharedVars == <<arrived, nextId>>
history    == <<opened, budget, issuedOk>>
vars == <<clientVars, workerVars, sharedVars, history, logVars>>

\* Nothing of the program runs any more.
Stopped  == {"asserted", "crashed"}

Terminal == {"done", "failed", "panicked", "cancelled"}
Busy     == {"released", "select", "issue", "log"}
Live     == {"kick", "barrier"} \union Busy

\* The Workers whose future still exists, and with it their half of quit_tx.
Subscribed == {w \in Workers : pc[w] \in Live}

\* A broadcast channel of capacity 1: a receiver that is behind by more than
\* one message gets Lagged once and then the newest message.
Notify(n) == IF n = 2 THEN 2 ELSE n + 1

\* quit_tx.send(()).
Broadcast ==
  inbox' = [w \in Workers |-> IF w \in Subscribed THEN Notify(inbox[w])
                                                  ELSE inbox[w]]

Init ==
  /\ cpc = "new" /\ shut = 0 /\ sigs = 0
  /\ members = {} /\ aborted = {} /\ total = 0
  /\ pc = [w \in Workers |-> "none"]
  /\ inbox = [w \in Workers |-> 0]
  /\ minute = [w \in Workers |-> 0]
  /\ left = [w \in Workers |-> 0]
  /\ gap = [w \in Workers |-> 0]
  /\ remain = [w \in Workers |-> 0]
  /\ cur = [w \in Workers |-> IdStart]
  /\ reqs = [w \in Workers |-> 0]
  /\ arrived = {} /\ nextId = IdStart
  /\ opened = 0
  /\ budget = [w \in Workers |-> 0]
  /\ issuedOk = [w \in Workers |-> {}]
  /\ LogInit

-----------------------------------------------------------------------------
(* SourceClient::new *)

\* FunctionWorker::new returns Ok: the Worker of a row, which will do nothing
\* before its receiver of quit_tx has the kick.
NewWorker(w) ==
  /\ pc[w] = "none"
  /\ pc' = [pc EXCEPT ![w] = "kick"]

\* The next row has its Worker; its task is spawned.
Spawn(w) ==
  /\ cpc = "new"
  /\ NewWorker(w)
  /\ members' = members \union {w}
  /\ UNCHANGED <<cpc, shut, sigs, aborted, total, inbox, minute, left, gap,
                 remain, cur, reqs, sharedVars, history, logVars>>

\* FunctionWorker::new fails for a row (or, before the first, opening a file or
\* parsing the CSV): new() returns Err, and dropping the JoinSet aborts the
\* tasks spawned so far.
SpawnFails(w) ==
  /\ cpc = "new"
  /\ pc[w] = "none"
  /\ cpc' = "failed"
  /\ aborted' = members
  /\ members' = {}
  /\ lpc' = "off"
  /\ UNCHANGED <<shut, sigs, total, workerVars, sharedVars, history, logq,
                 logFile, lost>>

\* All rows are spawned; the InvocationLogger starts and new() returns Ok.
NewReturns ==
  /\ cpc = "new"
  /\ members = Workers
  /\ cpc' = "ready"
  /\ LoggerSpawn
  /\ UNCHANGED <<shut, sigs, members, aborted, total, workerVars, sharedVars,
                 history>>

-----------------------------------------------------------------------------
(* SourceClient::run *)

\* The embedder sends a shutdown notification to the client.
Signal ==
  /\ cpc \in {"ready", "loop"}
  /\ sigs < MaxSignals
  /\ sigs' = sigs + 1
  /\ shut' = Notify(shut)
  /\ UNCHANGED <<cpc, members, aborted, total, workerVars, sharedVars,
                 history, logVars>>

\* Does the send on quit_tx report as many receivers as there are tasks left?
AllSubscribed ==
  /\ Subscribed # {}
  /\ Cardinality(Subscribed) = Cardinality(members)

\* The first message on quit_tx is the kick; run() expects that somebody is
\* subscribed and asserts that it reaches every Worker.
Kick ==
  /\ cpc = "ready"
  /\ cpc' = IF AllSubscribed THEN "loop" ELSE "asserted"
  /\ Broadcast
  /\ UNCHANGED <<shut, sigs, members, aborted, total, pc, minute, left, gap,
                 remain, cur, reqs, sharedVars, history, logVars>>

\* Mutant: the tasks are detached from the JoinSet instead of aborted.
HandleShutdownDetach ==
  /\ cpc = "loop"
  /\ shut > 0
  /\ shut' = shut - 1
  /\ Broadcast
  /\ members' = IF AllSubscribed THEN members ELSE {}
  /\ UNCHANGED <<cpc, sigs, aborted, total, pc, minute, left, gap, remain,
                 cur, reqs, sharedVars, history, logVars>>

\* The select! picks quit_rx.recv(); a Lagged result is treated like Ok.
HandleShutdown ==
  /\ cpc = "loop"
  /\ shut > 0
  /\ shut' = shut - 1
  /\ Broadcast
  /\ aborted' = IF AllSubscribed THEN aborted ELSE aborted \union members
  /\ UNCHANGED <<cpc, sigs, members, total, pc, minute, left, gap, remain,
                 cur, reqs, sharedVars, history, logVars>>

\* Mutant: a join error is not taken off the set.
JoinWorkerOnlyOk(w) ==
  /\ cpc = "loop"
  /\ w \in members
  /\ pc[w] \in {"done", "failed"}
  /\ members' = members \ {w}
  /\ total' = IF pc[w] = "done" THEN total + reqs[w] ELSE total
  /\ UNCHANGED <<cpc, shut, sigs, aborted, workerVars, sharedVars, history,
                 logVars>>

\* The select! picks join_next(): only a Worker that returned Ok counts.
JoinWorker(w) ==
  /\ cpc = "loop"
  /\ w \in members
  /\ pc[w] \in Terminal
  /\ members' = members \ {w}
  /\ total' = IF pc[w] = "done" THEN total + reqs[w] ELSE total
  /\ UNCHANGED <<cpc, shut, sigs, aborted, workerVars, sharedVars, history,
                 logVars>>

\* join_next() returns None: leave the loop.
NoMoreWorkers ==
  /\ cpc = "loop"
  /\ members = {}
  /\ cpc' = "reap"
  /\ UNCHANGED <<shut, sigs, members, aborted, total, workerVars, sharedVars,
                 history, logVars>>

\* Await the InvocationLogger, if there is one, and return num_requests.
ReapLogger ==
  /\ cpc = "reap"
  /\ lpc \in {"off", "done", "error"}
  /\ cpc' = "done"
  /\ UNCHANGED <<shut, sigs, members, aborted, total, workerVars, sharedVars,
                 history, logVars>>
-----------------------------------------------------------------------------
(* FunctionWorker::run *)

\* Mutant: off by one, the range's first minute is skipped too.
NextActiveLate(m) == IF m < First THEN First + 1 ELSE m + 1

\* The loop over the minutes of the row skips those before First and stops
\* after the row's last entry or after Last.
NextActive(m) == IF m < First THEN First ELSE m + 1
LastActive    == IF Last < NumMinutes THEN Last ELSE NumMinutes

\* Mutant: the Barrier has one party less.
ArriveOneShort(w, m) ==
  IF Cardinality(arrived \union {w}) + 1 >= Cardinality(Workers)
  THEN /\ pc' = [v \in Workers |-> IF v = w \/ pc[v] = "barrier"
                                   THEN "released" ELSE pc[v]]
       /\ arrived' = {}
       /\ opened' = m
  ELSE /\ pc' = [pc EXCEPT ![w] = "barrier"]
       /\ arrived' = arrived \union {w}
       /\ UNCHANGED opened

\* Mutant: the last party goes on and wakes nobody.
ArriveWakesNobody(w, m) ==
  IF arrived \union {w} = Workers
  THEN /\ pc' = [pc EXCEPT ![w] = "released"]
       /\ arrived' = {}
       /\ opened' = m
  ELSE /\ pc' = [pc EXCEPT ![w] = "barrier"]
       /\ arrived' = arrived \union {w}
       /\ UNCHANGED opened

\* barrier.wait() for minute m.  The last of rows.len() parties opens it for
\* everybody; a party that is cancelled while it waits stays counted.  (The
\* Barrier counts; a Worker arrives at most once per generation, so the count
\* is that of the set.)
Arrive(w, m) ==
  IF arrived \union {w} = Workers
  THEN /\ pc' = [v \in Workers |-> IF v = w \/ pc[v] = "barrier"
                                   THEN "released" ELSE pc[v]]
       /\ arrived' = {}
       /\ opened' = m
  ELSE /\ pc' = [pc EXCEPT ![w] = "barrier"]
       /\ arrived' = arrived \union {w}
       /\ UNCHANGED opened

\* The head of the 'minutes loop: out of minutes, or the IATs of the minute
\* are generated and the Worker waits for the others, or the generator fails.
NextMinute(w) ==
  LET m == NextActive(minute[w])
  IN  \/ /\ m > LastActive
         /\ pc' = [pc EXCEPT ![w] = "done"]
         /\ UNCHANGED <<minute, left, budget, arrived, opened>>
      \/ /\ m <= LastActive
         /\ \E n \in 0 .. MaxIats : /\ left' = [left EXCEPT ![w] = n]
                                   /\ budget' = [budget EXCEPT ![w] = n]
         /\ minute' = [minute EXCEPT ![w] = m]
         /\ Arrive(w, m)
      \/ /\ m <= LastActive
         /\ GenMayFail
         /\ pc' = [pc EXCEPT ![w] = "failed"]
         /\ UNCHANGED <<minute, left, budget, arrived, opened>>

\* Mutant: the Worker starts without being kicked.
RecvKickUnasked(w) ==
  /\ pc[w] = "kick"
  /\ inbox' = [inbox EXCEPT ![w] = 0]
  /\ NextMinute(w)
  /\ UNCHANGED <<clientVars, gap, remain, cur, reqs, nextId, issuedOk,
                 logVars>>

\* The kick arrives.
RecvKick(w) ==
  /\ pc[w] = "kick"
  /\ inbox[w] = 1
  /\ inbox' = [inbox EXCEPT ![w] = 0]
  /\ NextMinute(w)
  /\ UNCHANGED <<clientVars, gap, remain, cur, reqs, nextId, issuedOk,
                 logVars>>

\* recv() returns Err, and expect() panics: a shutdown overtook the kick
\* (Lagged), or new() failed and dropped quit_tx (Closed) while the first
\* poll of the task was under way.
KickErr(w) ==
  /\ pc[w] = "kick"
  /\ inbox[w] = 2 \/ cpc = "failed"
  /\ IF PanicAborts THEN cpc' = "crashed" /\ UNCHANGED pc
                    ELSE pc' = [pc EXCEPT ![w] = "panicked"] /\ UNCHANGED cpc
  /\ UNCHANGED <<shut, sigs, members, aborted, total, inbox, minute, left,
                 gap, remain, cur, reqs, sharedVars, history, logVars>>

\* The head of the inner loop: the next IAT, or a whole minute when the
\* iterator is exhausted; a fresh sleep starts.
NextGap(w) ==
  /\ left' = [left EXCEPT ![w] = IF @ = 0 THEN 0 ELSE @ - 1]
  /\ IF left[w] = 0 THEN gap' = [gap EXCEPT ![w] = OneMinute]
                    ELSE \E g \in Gaps : gap' = [gap EXCEPT ![w] = g]

\* Past the barrier: reset minute_end and enter the inner loop.
StartMinute(w) ==
  /\ pc[w] = "released"
  /\ remain' = [remain EXCEPT ![w] = OneMinute]
  /\ NextGap(w)
  /\ pc' = [pc EXCEPT ![w] = "select"]
  /\ UNCHANGED <<clientVars, inbox, minute, cur, reqs, sharedVars, history,
                 logVars>>

\* The biased select!, first branch: any result of quit_rx.recv().
SelectQuit(w) ==
  /\ pc[w] = "select"
  /\ inbox[w] > 0
  /\ inbox' = [inbox EXCEPT ![w] = @ - 1]
  /\ pc' = [pc EXCEPT ![w] = "done"]
  /\ UNCHANGED <<clientVars, minute, left, gap, remain, cur, reqs, sharedVars,
                 history, logVars>>

\* Mutant: the elapsed minute is looked at before the quit notification.
SelectMinuteEndFirst(w) ==
  /\ pc[w] = "select"
  /\ remain[w] = 0
  /\ NextMinute(w)
  /\ UNCHANGED <<clientVars, inbox, gap, remain, cur, reqs, nextId, issuedOk,
                 logVars>>

\* Second branch: the minute has elapsed.
SelectMinuteEnd(w) ==
  /\ pc[w] = "select"
  /\ inbox[w] = 0
  /\ remain[w] = 0
  /\ NextMinute(w)
  /\ UNCHANGED <<clientVars, inbox, gap, remain, cur, reqs, nextId, issuedOk,
                 logVars>>

\* Mutant: the elapsed IAT is looked at before the elapsed minute.
SelectSleepFirst(w) ==
  /\ pc[w] = "select"
  /\ inbox[w] = 0
  /\ gap[w] = 0
  /\ cur' = [cur EXCEPT ![w] = nextId]
  /\ nextId' = nextId + 1
  /\ budget' = [budget EXCEPT ![w] = @ - 1]
  /\ pc' = [pc EXCEPT ![w] = "issue"]
  /\ UNCHANGED <<clientVars, inbox, minute, left, gap, remain, reqs, arrived,
                 opened, issuedOk, logVars>>

\* Mutant: the shared counter is read and not advanced.
SelectSleepLoad(w) ==
  /\ pc[w] = "select"
  /\ inbox[w] = 0
  /\ remain[w] > 0
  /\ gap[w] = 0
  /\ cur' = [cur EXCEPT ![w] = nextId]
  /\ budget' = [budget EXCEPT ![w] = @ - 1]
  /\ pc' = [pc EXCEPT ![w] = "issue"]
  /\ UNCHANGED <<clientVars, inbox, minute, left, gap, remain, reqs, sharedVars,
                 opened, issuedOk, logVars>>

\* Third branch: the IAT has elapsed; number the invocation and issue it.
SelectSleep(w) ==
  /\ pc[w] = "select"
  /\ inbox[w] = 0
  /\ remain[w] > 0
  /\ gap[w] = 0
  /\ cur' = [cur EXCEPT ![w] = nextId]
  /\ nextId' = nextId + 1
  /\ budget' = [budget EXCEPT ![w] = @ - 1]
  /\ pc' = [pc EXCEPT ![w] = "issue"]
  /\ UNCHANGED <<clientVars, inbox, minute, left, gap, remain, reqs, arrived,
                 opened, issuedOk, logVars>>

Pair(w) == [fn |-> w, id |-> cur[w]]

\* backend.issue() returns Ok.
IssueOk(w) ==
  /\ pc[w] = "issue"
  /\ reqs' = [reqs EXCEPT ![w] = @ + 1]
  /\ issuedOk' = [issuedOk EXCEPT ![w] = @ \union {Pair(w)}]
  /\ IF InvLog THEN /\ pc' = [pc EXCEPT ![w] = "log"]
                    /\ UNCHANGED <<left, gap>>
               ELSE /\ pc' = [pc EXCEPT ![w] = "select"]
                    /\ NextGap(w)
  /\ UNCHANGED <<clientVars, inbox, minute, remain, cur, sharedVars, opened,
                 budget, logVars>>

\* Mutant: a failed request is counted as well.
IssueErrCounted(w) ==
  /\ pc[w] = "issue"
  /\ pc' = [pc EXCEPT ![w] = "select"]
  /\ reqs' = [reqs EXCEPT ![w] = @ + 1]
  /\ NextGap(w)
  /\ UNCHANGED <<clientVars, inbox, minute, remain, cur, sharedVars, history,
                 logVars>>

\* backend.issue() returns Err: the invocation is forgotten.
IssueErr(w) ==
  /\ pc[w] = "issue"
  /\ pc' = [pc EXCEPT ![w] = "select"]
  /\ NextGap(w)
  /\ UNCHANGED <<clientVars, inbox, minute, remain, cur, reqs, sharedVars,
                 history, logVars>>

\* Mutant: log() tries again when the pair was not accepted.
LogInvocationRetry(w) ==
  \/ /\ pc[w] = "log"
     /\ LogSend(Pair(w))
     /\ pc' = [pc EXCEPT ![w] = "select"]
     /\ NextGap(w)
     /\ UNCHANGED <<clientVars, inbox, minute, remain, cur, reqs, sharedVars,
                    history>>
  \/ pc[w] = "log" /\ ~ReceiverAlive /\ UNCHANGED vars

\* inv_log.log() returns, whatever became of the pair.
LogInvocation(w) ==
  /\ pc[w] = "log"
  /\ LogSend(Pair(w)) \/ LogGiveUp(Pair(w))
  /\ pc' = [pc EXCEPT ![w] = "select"]
  /\ NextGap(w)
  /\ UNCHANGED <<clientVars, inbox, minute, remain, cur, reqs, sharedVars,
                 history>>

\* An aborted task is dropped at an await point; what it had numbered, issued
\* or counted is lost with it.
Cancel(w) ==
  /\ cpc \notin Stopped
  /\ w \in aborted
  /\ pc[w] \in Live
  /\ pc' = [pc EXCEPT ![w] = "cancelled"]
  /\ UNCHANGED <<clientVars, inbox, minute, left, gap, remain, cur, reqs,
                 sharedVars, history, logVars>>

-----------------------------------------------------------------------------
(* The environment, and the composition *)

\* Timers that run: minute_end in the whole inner loop, sleep(iat) in select!.
Ticking(w)  == pc[w] \in {"select", "issue", "log"} /\ remain[w] > 0
Sleeping(w) == pc[w] = "select" /\ gap[w] > 0

Tick ==
  /\ cpc \notin Stopped
  /\ \E w \in Workers : Ticking(w) \/ Sleeping(w)
  /\ remain' = [w \in Workers |-> IF Ticking(w) THEN remain[w] - 1
                                                ELSE remain[w]]
  /\ gap' = [w \in Workers |-> IF Sleeping(w) THEN gap[w] - 1 ELSE gap[w]]
  /\ UNCHANGED <<clientVars, pc, inbox, minute, left, cur, reqs, sharedVars,
                 history, logVars>>

AllTerminal == \A w \in Workers : pc[w] \in Terminal

LoggerStep ==
  /\ cpc \notin Stopped
  /\ LoggerWrite \/ LoggerExit(AllTerminal)
  /\ UNCHANGED <<clientVars, workerVars, sharedVars, history>>

LoggerFails ==
  /\ cpc \notin Stopped
  /\ LoggerWriteFails
  /\ UNCHANGED <<clientVars, workerVars, sharedVars, history>>

ClientStep == NewReturns \/ Kick \/ HandleShutdown
              \/ (\E w \in Workers : JoinWorker(w))
              \/ NoMoreWorkers \/ ReapLogger

WorkerStep(w) ==
  /\ cpc \notin Stopped
  /\ \/ RecvKick(w) \/ KickErr(w) \/ StartMinute(w)
     \/ SelectQuit(w) \/ SelectMinuteEnd(w) \/ SelectSleep(w)
     \/ IssueOk(w) \/ IssueErr(w) \/ LogInvocation(w)

\* Nothing is left to do: run() or new() returned and every task is gone, or
\* the client panicked.
Finished ==
  \/ cpc = "done"
  \/ cpc = "failed" /\ \A w \in Workers : pc[w] \notin Live
  \/ cpc \in Stopped

Terminating == Finished /\ UNCHANGED vars

Next ==
  \/ \E w \in Workers : Spawn(w) \/ SpawnFails(w)
  \/ ClientStep
  \/ Signal
  \/ \E w \in Workers : WorkerStep(w) \/ Cancel(w)
  \/ LoggerStep
  \/ LoggerFails
  \/ Tick
  \/ Terminating

\* The runtime polls every task that can make progress and its timers advance;
\* a backend call returns sooner or later.  Signals and failures need not
\* happen.
Fairness ==
  /\ WF_vars(ClientStep)
  /\ WF_vars(LoggerStep)
  /\ WF_vars(Tick)
  /\ \A w \in Workers : /\ WF_vars(Spawn(w))
                        /\ WF_vars(WorkerStep(w))
                        /\ WF_vars(Cancel(w))

Spec == Init /\ [][Next]_vars
FairSpec == Spec /\ Fairness

-----------------------------------------------------------------------------
(* Correctness *)

States == {"none"} \union Live \union Terminal
Pairs  == [fn : Workers, id : Nat]

ClientTypeOK ==
  /\ cpc \in {"new", "ready", "loop", "reap", "done", "failed"} \union Stopped
  /\ shut \in 0 .. 2
  /\ sigs \in 0 .. MaxSignals
  /\ members \subseteq Workers
  /\ aborted \subseteq Workers
  /\ total \in Nat

WorkerTypeOK ==
  /\ pc \in [Workers -> States]
  /\ inbox \in [Workers -> 0 .. 2]
  /\ minute \in [Workers -> 0 .. Last]
  /\ left \in [Workers -> Nat]
  /\ gap \in [Workers -> Nat]
  /\ remain \in [Workers -> 0 .. OneMinute]
  /\ cur \in [Workers -> Nat]
  /\ reqs \in [Workers -> Nat]

SharedTypeOK ==
  /\ arrived \subseteq Workers
  /\ nextId \in Nat
  /\ opened \in 0 .. Last
  /\ budget \in [Workers -> Int]
  /\ issuedOk \in [Workers -> SUBSET Pairs]

TypeOK == ClientTypeOK /\ WorkerTypeOK /\ SharedTypeOK /\ LogTypeOK(Pairs)

\* The Barrier keeps the Workers in step: whoever is between two barriers is in
\* the minute for which the Barrier opened last, which is one of the range;
\* nobody starts a minute while somebody is still in the one before, also
\* when Workers quit, fail or are aborted while others wait.
MinuteLockstep ==
  \A w \in Workers : pc[w] \in Busy =>
    /\ minute[w] = opened
    /\ First <= opened
    /\ opened <= LastActive

\* The fallback IAT of an exhausted iterator loses against minute_end, so a
\* Worker never issues more requests in a minute than IATs were generated.
NoPhantomRequest == \A w \in Workers : budget[w] >= 0

\* No two Workers use the same invocation id, and no Worker reuses one.
IdsUnique ==
  \A v, w \in Workers :
    /\ \A p \in issuedOk[v], q \in issuedOk[w] : p.id = q.id => p = q
    /\ pc[v] = "issue" => \A q \in issuedOk[w] : q.id # cur[v]
    /\ v # w /\ pc[v] = "issue" /\ pc[w] = "issue" => cur[v] # cur[w]

\* While the client is being built nobody issues anything, and never when
\* building it fails: the Workers wait for the kick.
NothingBeforeKick ==
  cpc \in {"new", "ready", "failed"} => \A w \in Workers : issuedOk[w] = {}
                                                         /\ pc[w] # "issue"

\* The assertion of run(): the kick reaches every Worker.  Only a trace without
\* rows makes run() panic there: new() accepts a CSV that has nothing but its
\* header, and then expect() finds that nobody is subscribed.
KickReachesAll == cpc = "asserted" => Workers = {}

\* When run() leaves its loop, and so when it returns, no Worker task is left.
ReturnLeavesNoWorker ==
  cpc \in {"reap", "done"} => \A w \in Workers : pc[w] \notin Live

AllIssued == UNION {issuedOk[w] : w \in Workers}

\* What run() returns: never more than the requests that were issued, and
\* exactly those when every Worker ended by itself.
TotalCountsIssued ==
  /\ total <= Cardinality(AllIssued)
  /\ cpc = "done" /\ (\A w \in Workers : pc[w] = "done")
       => total = Cardinality(AllIssued)

\* The invocation log: a line for no invocation twice and for none that the
\* backend did not accept; and when the logger returned Ok and no Worker was
\* cancelled, every accepted invocation is in the file or was reported lost.
FileIds == {logFile[i] : i \in DOMAIN logFile}
LogIsSound ==
  /\ FileIds \union lost \subseteq AllIssued
  /\ FileIds \intersect lost = {}
  /\ \A i, j \in DOMAIN logFile : logFile[i] = logFile[j] => i = j
  /\ lpc = "done" /\ (\A w \in Workers : pc[w] # "cancelled")
       => AllIssued = FileIds \union lost

-----------------------------------------------------------------------------
(* Refinement: the Workers play the trace as MinuteGate says *)

Inside == {w \in Workers : pc[w] \in Busy}

Gate == INSTANCE MinuteGate WITH
          Parties <- Workers, FirstOpen <- First, LastOpen <- LastActive,
          open <- opened, inside <- Inside

\* Minutes are opened one after the other, each for nobody who is still in the
\* one before.
GateSpec == Gate!Spec

-----------------------------------------------------------------------------
(* Liveness *)

\* Once new() has succeeded, and unless a signal comes or a Worker fails, every
\* Worker ends, the log is closed and run() returns.
RunReturns ==
  cpc = "ready" ~> \/ cpc = "done"
                   \/ sigs > 0
                   \/ \E w \in Workers : pc[w] \in {"failed", "panicked"}

\* A quit notification stops a Worker that is in the middle of a minute.
QuitStopsBusyWorker ==
  \A w \in Workers : (inbox[w] > 0 /\ pc[w] \in Busy) ~> pc[w] \in Terminal

\* After a forceful abortion run() returns.
AbortReturns == (cpc = "loop" /\ aborted # {}) ~> cpc \in {"done", "crashed"}

\* The Workers that are left wait at the barrier, and one that has ended has not
\* arrived there.
Stranded ==
  /\ cpc = "loop"
  /\ \E w \in Workers : pc[w] = "barrier"
  /\ \A w \in Workers : pc[w] \in Live => pc[w] = "barrier"
  /\ \E w \in Workers : pc[w] \in {"done", "failed", "panicked"}
                        /\ w \notin arrived

\* Whatever signals come and whichever Workers fail, either run() returns or from
\* some moment on it is stranded for ever: barrier.wait() is the only thing that
\* keeps run(), and only when a Worker ended without arriving there.
ReturnsOrStranded == <>Finished \/ <>[]Stranded

\* When a further shutdown signal is handled and a Worker has dropped its receiver
\* before, handling it aborts all the others (NOTE in SourceClient::run).  With two
\* signals sent and one result of recv() left, an earlier result was handled.
SecondSignalAborts ==
  [][(sigs > 1 /\ shut = 1 /\ shut' = 0 /\ cpc = "loop" /\ Subscribed # Workers)
       => Subscribed \subseteq aborted']_vars

\* While run() is at work no Worker task panics (the error handling of the kick
\* is a FIXME).
NoWorkerPanic ==
  cpc \in {"loop", "reap", "done"} => \A w \in Workers : pc[w] # "panicked"
=============================================================================
