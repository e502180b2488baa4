----------------------------- MODULE LoggerApp -----------------------------
(***************************************************************************)
(* The faasrail-loadgen-logger program (main.rs, source.rs): a handler     *)
(* task turns every signal into a shutdown notification, a sink and a      *)
(* source run as tasks, and the Logger thread writes the requests that the *)
(* source issues through LoggerRefs.  main() joins the three.              *)
(*                                                                         *)
(* The source is what SourceClient promises: it issues some requests and   *)
(* returns.  A panic of any task aborts the process in the release build   *)
(* (panic = "abort") and ends that task alone in a debug build.            *)
(***************************************************************************)
EXTENDS SinkClient

CONSTANTS
  LoggerCap,   \* Logger::BUFSZ
  MaxRequests, \* bound: requests the source issues
  Builds       \* whether the build aborts on panic: a subset of BOOLEAN

ASSUME LoggerAppAssumption ==
  /\ LoggerCap \in Nat \ {0}
  /\ MaxRequests \in Nat
  /\ Builds \subseteq BOOLEAN

VARIABLES
  aborts,   \* the build aborts on panic
  mpc,      \* main(): "signals", "sink", "new", "logger", "source", "join", then
            \* "exit" while the runtime shuts down, "gone", or "aborted"
  handler,  \* the handler's task: "none", "alive", "dead"
  src,      \* the source: "none", "built" by new(), "spawned", "run", "done",
            \* "panic" (its Workers and their LoggerRefs end with it)
  notice,   \* a notification waits in the receiver of the source
  lpc,      \* the Logger's thread: "none", "run", "ok", "failed"
  logq,     \* requests in the Logger's channel
  accepted, \* requests the channel has accepted
  lost,     \* requests issued that the channel has not accepted
  buffered, \* requests in the BufWriter
  onFile,   \* requests in the file
  counted,  \* num_requests, which run() returns when it does not fail
  diskOK    \* history: no write to the file has failed

sourceVars == <<src, notice>>
loggerVars == <<lpc, logq, accepted, lost, buffered, onFile, counted, diskOK>>
appVars    == <<aborts, mpc, handler, sourceVars, loggerVars>>
vars == <<sinkVars, appVars>>

Init ==
  /\ SinkInit("none")
  /\ aborts \in Builds /\ diskOK = TRUE
  /\ mpc = "signals" /\ handler = "none" /\ src = "none"
  /\ notice = FALSE
  /\ lpc = "none" /\ logq = 0 /\ accepted = 0 /\ lost = 0
  /\ buffered = 0 /\ onFile = 0 /\ counted = 0

Alive == mpc \notin {"exit", "gone", "aborted"}

-----------------------------------------------------------------------------
(* main() *)

SetupSignals ==
  /\ mpc = "signals"
  /\ mpc' = "sink"
  /\ handler' = "alive"
  /\ UNCHANGED <<aborts, sinkVars, sourceVars, loggerVars>>

\* The sink's receiver is subscribed before its task is spawned.
SpawnSink ==
  /\ mpc = "sink"
  /\ mpc' = "new"
  /\ spc' = "start"
  /\ UNCHANGED <<aborts, handler, sourceVars, loggerVars, kind, bpc, apc, toApp,
                 sent, appended, lines, quit, quits, result>>

\* The log file, the trace and the Workers: any of them may fail, and then the
\* runtime drops the sink's tasks.
NewSource ==
  /\ mpc = "new"
  /\ mpc' = "logger"
  /\ src' = "built"
  /\ UNCHANGED <<aborts, handler, sinkVars, loggerVars, notice>>

SpawnLogger ==
  /\ mpc = "logger"
  /\ mpc' = "source"
  /\ lpc' = "run"
  /\ UNCHANGED <<aborts, handler, sinkVars, sourceVars, logq, accepted, lost,
                 buffered, onFile, counted, diskOK>>

\* The source's receiver is subscribed before its task is spawned too.
SpawnSource ==
  /\ mpc = "source"
  /\ mpc' = "join"
  /\ src' = "spawned"
  /\ UNCHANGED <<aborts, handler, sinkVars, loggerVars, notice>>

\* main() returns; the runtime drops the tasks that are left, not the threads.
Return ==
  /\ mpc' = "exit"
  /\ spc' = IF spc \in {"start", "join"} THEN "dropped" ELSE spc
  /\ bpc' = IF bpc \in {"run", "waiting"} THEN "dropped" ELSE bpc
  /\ handler' = "dead"
  /\ UNCHANGED <<aborts, sourceVars, loggerVars, kind, apc, toApp, sent, appended,
                 lines, quit, quits, result>>

NewSourceFails == mpc = "new" /\ Return

JoinAll ==
  /\ mpc = "join"
  /\ src = "done" /\ lpc \in {"ok", "failed"} /\ spc \in {"done", "failed"}
  /\ Return

\* try_join! returns the first JoinError, without waiting for the others.
JoinError == mpc = "join" /\ src = "panic" /\ Return

\* The runtime waits for the threads before the process ends.
RuntimeGone ==
  /\ mpc = "exit"
  /\ lpc # "run" /\ apc # "recv"
  /\ mpc' = "gone"
  /\ UNCHANGED <<aborts, handler, sinkVars, sourceVars, loggerVars>>

-----------------------------------------------------------------------------
(* Signals *)

\* Mutant: the source gives its receiver up with the first signal.
SourceListensOnce == src \in {"spawned", "run"} /\ quits = 0

\* The receiver of the source exists.
SourceListens == src \in {"spawned", "run"}

\* A signal becomes a notification for every receiver there is, and a panic of
\* the handler when there is none.
Signal ==
  /\ Alive
  /\ handler = "alive"
  /\ quits < MaxQuits
  /\ quits' = quits + 1
  /\ IF SinkListens \/ SourceListens
     THEN /\ quit' = (quit \/ SinkListens)
          /\ notice' = (notice \/ SourceListens)
          /\ UNCHANGED <<mpc, handler>>
     ELSE /\ IF aborts THEN mpc' = "aborted" /\ UNCHANGED handler
                            ELSE handler' = "dead" /\ UNCHANGED mpc
          /\ UNCHANGED <<quit, notice>>
  /\ UNCHANGED <<aborts, loggerVars, kind, spc, bpc, apc, toApp, sent, appended,
                 lines, result, src>>

-----------------------------------------------------------------------------
(* The source, seen from outside *)

SourceGoes(to) ==
  /\ Alive
  /\ src' = to
  /\ UNCHANGED <<aborts, mpc, handler, sinkVars, loggerVars, notice>>

SourceStarts  == src = "spawned" /\ SourceGoes("run")
SourceReturns == src = "run" /\ SourceGoes("done")

SourceTold ==
  /\ Alive
  /\ src = "run" /\ notice
  /\ notice' = FALSE
  /\ UNCHANGED <<aborts, mpc, handler, sinkVars, loggerVars, src>>

\* An expect() or assert of run(): the task panics and drops its Workers.
SourcePanics ==
  /\ Alive
  /\ src = "run"
  /\ src' = "panic"
  /\ mpc' = IF aborts THEN "aborted" ELSE mpc
  /\ UNCHANGED <<aborts, handler, sinkVars, loggerVars, notice>>

\* Mutant: the channel has no bound.
IssueUnbounded ==
  /\ Alive
  /\ src = "run"
  /\ accepted + lost < MaxRequests
  /\ logq' = logq + 1 /\ accepted' = accepted + 1
  /\ UNCHANGED lost
  /\ UNCHANGED <<aborts, mpc, handler, sinkVars, sourceVars, lpc, buffered, onFile,
                 counted, diskOK>>

\* LoggerRef::issue: send_timeout is accepted when there is room, and gives up
\* when there is none in time or the Logger is gone.  It returns Ok either way.
Issue ==
  /\ Alive
  /\ src = "run"
  /\ accepted + lost < MaxRequests
  /\ \/ /\ lpc = "run" /\ logq < LoggerCap
        /\ logq' = logq + 1 /\ accepted' = accepted + 1
        /\ UNCHANGED lost
     \/ /\ lpc = "failed" \/ logq = LoggerCap
        /\ lost' = lost + 1
        /\ UNCHANGED <<logq, accepted>>
  /\ UNCHANGED <<aborts, mpc, handler, sinkVars, sourceVars, lpc, buffered, onFile,
                 counted, diskOK>>

-----------------------------------------------------------------------------
(* Logger::run *)

RefsDropped == src \in {"done", "panic"}

LogRequest ==
  /\ mpc \notin {"gone", "aborted"}
  /\ lpc = "run"
  /\ logq > 0
  /\ logq' = logq - 1
  /\ buffered' = buffered + 1
  /\ counted' = counted + 1
  /\ UNCHANGED <<aborts, mpc, handler, sinkVars, sourceVars, lpc, accepted, lost,
                 onFile, diskOK>>

\* A full BufWriter goes to the file.
Spill ==
  /\ mpc \notin {"gone", "aborted"}
  /\ lpc = "run"
  /\ buffered > 0
  /\ onFile' = onFile + buffered
  /\ buffered' = 0
  /\ UNCHANGED <<aborts, mpc, handler, sinkVars, sourceVars, lpc, logq, accepted,
                 lost, counted, diskOK>>

\* Mutant: the process ends without dropping the BufWriter.
LoggerReturnsUnflushed(how) ==
  /\ lpc' = how
  /\ logq' = 0
  /\ buffered' = 0
  /\ diskOK' = (diskOK /\ how = "ok")
  /\ UNCHANGED <<aborts, mpc, handler, sinkVars, sourceVars, accepted, lost, onFile,
                 counted>>

\* run() returns: the receiver and the BufWriter are dropped, and what can be
\* flushed is, without an error being reported.
LoggerReturns(how) ==
  /\ lpc' = how
  /\ logq' = 0
  /\ buffered' = 0
  /\ \/ onFile' = onFile + buffered /\ diskOK' = (diskOK /\ how = "ok")
     \/ onFile' \in onFile .. onFile + buffered /\ diskOK' = FALSE
  /\ UNCHANGED <<aborts, mpc, handler, sinkVars, sourceVars, accepted, lost, counted>>

LoggerFails ==
  /\ mpc \notin {"gone", "aborted"}
  /\ lpc = "run" /\ logq > 0
  /\ LoggerReturns("failed")

\* Mutant: the Logger keeps its own sender, so the channel never closes.
LoggerEndsNever == lpc = "run" /\ lpc = "none" /\ LoggerReturns("ok")

\* Mutant: the Logger stops at the first empty channel once main() is joining.
LoggerEndsEarly ==
  /\ mpc \notin {"gone", "aborted"}
  /\ lpc = "run"
  /\ RefsDropped
  /\ LoggerReturns("ok")

\* The channel is closed and drained.
LoggerEnds ==
  /\ mpc \notin {"gone", "aborted"}
  /\ lpc = "run" /\ logq = 0
  /\ RefsDropped
  /\ LoggerReturns("ok")

-----------------------------------------------------------------------------
Main == \/ SetupSignals \/ SpawnSink \/ NewSource \/ NewSourceFails \/ SpawnLogger
        \/ SpawnSource \/ JoinAll \/ JoinError \/ RuntimeGone
Logger == LogRequest \/ Spill \/ LoggerFails \/ LoggerEnds
Sink == /\ \/ Alive /\ (SinkTasks \/ NoOpTask \/ AnyTask)
           \/ mpc \notin {"gone", "aborted"} /\ SinkThread
        /\ UNCHANGED appVars
Over == mpc \in {"gone", "aborted"} /\ UNCHANGED vars

Next == \/ Main \/ Logger \/ Sink \/ Signal
        \/ SourceStarts \/ SourceTold \/ Issue \/ SourceReturns \/ SourcePanics
        \/ Over

\* Threads and tasks get on.  The source's task is polled, but nothing says that its
\* run() returns: a Worker may wait at the barrier for one that has ended.
Fairness == /\ WF_vars(Main) /\ WF_vars(Logger) /\ WF_vars(Sink)
            /\ WF_vars(SourceStarts) /\ WF_vars(SourceTold)

Spec == Init /\ [][Next]_vars

-----------------------------------------------------------------------------
(* Properties *)

\* Every variable has its type.
TypeOK ==
  /\ SinkTypeOK
  /\ mpc \in {"signals", "sink", "new", "logger", "source", "join", "exit", "gone",
              "aborted"}
  /\ handler \in {"none", "alive", "dead"}
  /\ src \in {"none", "built", "spawned", "run", "done", "panic"}
  /\ aborts \in Builds /\ diskOK \in BOOLEAN
  /\ notice \in BOOLEAN
  /\ lpc \in {"none", "run", "ok", "failed"}
  /\ logq \in 0 .. LoggerCap
  /\ accepted \in Nat /\ lost \in Nat /\ buffered \in Nat /\ onFile \in Nat
  /\ counted \in Nat

\* What Logger::run returns is what its channel accepted, and no less than what is
\* in the file, even when the flush on drop failed and nobody is told; the file has
\* them all when the disk never failed.
CountIsOfLog ==
  lpc = "ok" => counted = accepted /\ onFile <= counted /\ (diskOK => onFile = counted)

\* When the process ends by itself, also because a task panicked, the requests
\* log has every request that the Logger's channel accepted, provided the disk
\* never failed: the thread drains its channel before the runtime is gone.  The
\* number of requests it prints is right too.
NothingLostOnExit ==
  /\ mpc = "gone" /\ diskOK => onFile = accepted /\ logq = 0
  /\ CountIsOfLog

\* The Logger implements RequestLog: whatever signals, panics and disk errors come,
\* the file only grows, by accepted requests, and is complete when run() returns
\* unless the disk failed; nothing is accepted any more then.
Log == INSTANCE RequestLog WITH
         taken <- accepted, filed <- onFile,
         state <- IF lpc \in {"none", "run"} THEN "open"
                  ELSE IF diskOK THEN "complete" ELSE "torn"
LogSpec == Log!Spec

\* A signal that finds nobody subscribed aborts a release build, and so does a panic
\* of the source: then the process does not wait for the Logger, and accepted requests
\* may be missing from the file.  But no signal does it to a source that is at work:
\* it has returned, and the Logger is about to drain, or it has itself panicked.
AbortLosesOnlyDrain ==
  mpc = "aborted" /\ onFile < accepted => src \in {"done", "panic"}

\* main() ends, with signals and panics at any moment, or it is the source that
\* never returns: every sender of every channel is dropped in time, so neither the
\* Logger nor the sink holds it up, nor the runtime's wait for their threads.
AppEnds == <>(mpc \in {"gone", "aborted"}) \/ <>[](src = "run")
=============================================================================
