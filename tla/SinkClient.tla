---------------------------- MODULE SinkClient ----------------------------
(***************************************************************************)
(* SinkClient::run of faasrail-loadgen (sink/client.rs): it spawns a       *)
(* thread that appends responses to a file and a task that runs the sink   *)
(* backend, and joins both.  The backend is the NoOp of the crate, with or *)
(* without waiting (sink/backend/noop.rs), or "any" one that its user      *)
(* writes.  Responses are counted: their content plays no part.            *)
(***************************************************************************)
EXTENDS Integers

CONSTANTS
  Backends,     \* the kinds of backend: a subset of {"noop", "waiting", "any"}
  AppenderCap,  \* capacity of the channel from the backend to the appender
  MaxResponses, \* bound: responses that "any" backend sends
  MaxQuits      \* bound: notifications on the quit channel of a sink alone

ASSUME SinkAssumption ==
  /\ Backends \subseteq {"noop", "waiting", "any"}
  /\ AppenderCap \in Nat \ {0}
  /\ MaxResponses \in Nat
  /\ MaxQuits \in Nat

VARIABLES
  kind,      \* the kind of backend run() was given
  spc,       \* the task of run(): "none" not spawned, "start", "join", "done",
             \* "failed" (the file could not be created), "dropped"
  bpc,       \* the backend's task: "none", "run", "waiting" for the quit, then
             \* "ok", "err", "panic" or "dropped"
  apc,       \* the appender's thread: "none", "recv", "done"
  toApp,     \* responses in the channel
  sent,      \* responses sent by the backend
  appended,  \* responses the appender has received
  lines,     \* of these, the ones written in full
  quit,      \* a notification waits in the receiver of the sink
  quits,     \* notifications so far
  result     \* what run() returned, or -1

sinkVars == <<kind, spc, bpc, apc, toApp, sent, appended, lines, quit, quits, result>>

SinkInit(start) ==
  /\ kind \in Backends
  /\ spc = start
  /\ bpc = "none" /\ apc = "none"
  /\ toApp = 0 /\ sent = 0 /\ appended = 0 /\ lines = 0
  /\ quit = FALSE /\ quits = 0
  /\ result = -1

\* The receiver of the sink exists: run() or its backend holds it.
SinkListens == spc = "start" \/ bpc \in {"run", "waiting"}

\* The file is created, then the thread and the task are spawned.
SinkStart ==
  /\ spc = "start"
  /\ spc' = "join" /\ apc' = "recv" /\ bpc' = "run"
  /\ UNCHANGED <<kind, toApp, sent, appended, lines, quit, quits, result>>

\* create_new fails: run() returns the error.
SinkStartFails ==
  /\ spc = "start"
  /\ spc' = "failed"
  /\ UNCHANGED <<kind, bpc, apc, toApp, sent, appended, lines, quit, quits, result>>

BackendEnds(how) ==
  /\ bpc' = how
  /\ UNCHANGED <<kind, spc, apc, toApp, sent, appended, lines, quit, quits, result>>

NoOpReturns == kind = "noop" /\ bpc = "run" /\ BackendEnds("ok")

\* A waiting NoOp drops its sender first ...
NoOpDrops == kind = "waiting" /\ bpc = "run" /\ BackendEnds("waiting")

\* ... and then waits for the quit channel.
NoOpQuits == bpc = "waiting" /\ quit /\ BackendEnds("ok")

AnyReturns ==
  /\ kind = "any"
  /\ bpc = "run"
  /\ \E how \in {"ok", "err", "panic"} : BackendEnds(how)

AnySends ==
  /\ kind = "any"
  /\ bpc = "run"
  /\ sent < MaxResponses
  /\ toApp < AppenderCap
  /\ sent' = sent + 1
  /\ toApp' = toApp + 1
  /\ UNCHANGED <<kind, spc, bpc, apc, appended, lines, quit, quits, result>>

\* A response that cannot be written is logged and counted all the same.
Append1 ==
  /\ apc = "recv"
  /\ toApp > 0
  /\ toApp' = toApp - 1
  /\ appended' = appended + 1
  /\ lines' \in {lines, lines + 1}
  /\ UNCHANGED <<kind, spc, bpc, apc, sent, quit, quits, result>>

\* Mutant: a waiting NoOp holds its sender until it is told to quit.
AppenderEndsAfterQuit ==
  /\ apc = "recv"
  /\ toApp = 0
  /\ bpc \notin {"run", "waiting"}
  /\ apc' = "done"
  /\ UNCHANGED <<kind, spc, bpc, toApp, sent, appended, lines, quit, quits, result>>

\* The channel is closed and drained: flush and return.
AppenderEnds ==
  /\ apc = "recv"
  /\ toApp = 0
  /\ bpc # "run"
  /\ apc' = "done"
  /\ UNCHANGED <<kind, spc, bpc, toApp, sent, appended, lines, quit, quits, result>>

\* Mutant: run() returns as soon as the backend has.
JoinedBackendOnly ==
  /\ spc = "join"
  /\ bpc \in {"ok", "err"}
  /\ spc' = "done"
  /\ result' = appended
  /\ UNCHANGED <<kind, bpc, apc, toApp, sent, appended, lines, quit, quits>>

\* try_join! has both: the count is the appender's.
Joined ==
  /\ spc = "join"
  /\ apc = "done" /\ bpc \in {"ok", "err"}
  /\ spc' = "done"
  /\ result' = appended
  /\ UNCHANGED <<kind, bpc, apc, toApp, sent, appended, lines, quit, quits>>

\* A panicked task ends try_join! at once, whatever the appender still does.
JoinFails ==
  /\ spc = "join"
  /\ bpc = "panic"
  /\ spc' = "done"
  /\ result' = 0
  /\ UNCHANGED <<kind, bpc, apc, toApp, sent, appended, lines, quit, quits>>

\* A notification for a sink on its own.
QuitSink ==
  /\ quits < MaxQuits
  /\ quits' = quits + 1
  /\ quit' = (quit \/ SinkListens)
  /\ UNCHANGED <<kind, spc, bpc, apc, toApp, sent, appended, lines, result>>

SinkTasks  == SinkStart \/ SinkStartFails \/ Joined \/ JoinFails
NoOpTask   == NoOpReturns \/ NoOpDrops \/ NoOpQuits
AnyTask    == AnyReturns \/ AnySends
SinkThread == Append1 \/ AppenderEnds
SinkStep   == SinkTasks \/ NoOpTask \/ AnyTask \/ SinkThread

SinkNext == SinkStep \/ QuitSink
SinkSpec == SinkInit("start") /\ [][SinkNext]_sinkVars

\* The runtime polls the crate's own tasks; a user's backend may do nothing.
SinkFairness ==
  WF_sinkVars(SinkTasks) /\ WF_sinkVars(NoOpTask) /\ WF_sinkVars(SinkThread)

-----------------------------------------------------------------------------
(* Properties *)

\* Every variable has its type.
SinkTypeOK ==
  /\ kind \in Backends
  /\ spc \in {"none", "start", "join", "done", "failed", "dropped"}
  /\ bpc \in {"none", "run", "waiting", "ok", "err", "panic", "dropped"}
  /\ apc \in {"none", "recv", "done"}
  /\ toApp \in 0 .. AppenderCap
  /\ sent \in Nat /\ appended \in Nat /\ lines \in 0 .. appended
  /\ quit \in BOOLEAN /\ quits \in Nat
  /\ result \in Nat \union {-1}

\* No response is lost between the backend and the appender: the count that run()
\* returns is that of the responses sent, unless the backend's task panicked.
SinkCountExact ==
  /\ sent = toApp + appended
  /\ spc = "done" /\ bpc # "panic" => result = sent

\* Once the backend's task has ended, however it ended, run() returns: the
\* sender it held was the last one, so the appender's thread ends too.  A
\* waiting NoOp lets the appender end before any notification comes.
SinkReturns ==
  /\ bpc \in {"ok", "err", "panic"} ~> spc = "done"
  /\ bpc = "waiting" ~> apc = "done"
=============================================================================
