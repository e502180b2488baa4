-------------------------- MODULE LoggerAppProofs --------------------------
(***************************************************************************)
(* Proofs about the faasrail-loadgen-logger program and its sink, for any  *)
(* number of requests, responses and signals, any channel capacities and   *)
(* every kind of backend: the count that the sink returns is that of the   *)
(* responses sent, no accepted request is lost by a process that ends by   *)
(* itself, and none by a signal while the source is at work.               *)
(***************************************************************************)
EXTENDS LoggerApp, TLAPS

-----------------------------------------------------------------------------
(* The sink on its own *)

\* The appender ends only when the channel is empty and the backend has let go of
\* its sender, and neither can be undone: the backend is started once, together
\* with the appender.
SinkInv ==
  /\ toApp \in Nat /\ sent \in Nat /\ appended \in Nat
  /\ spc \in {"none", "start"} => bpc = "none" /\ apc = "none"
  /\ apc = "done" => toApp = 0 /\ bpc # "run"
  /\ spc = "done" => apc = "done" \/ bpc = "panic"
  /\ SinkCountExact

\* Every step of the sink keeps its invariant.
LEMMA SinkStepKeeps ==
  ASSUME SinkInv, SinkNext \/ UNCHANGED sinkVars
  PROVE  SinkInv'
<1>. USE DEF SinkInv, SinkCountExact
<1>1. CASE SinkStart BY <1>1 DEF SinkStart
<1>2. CASE SinkStartFails BY <1>2 DEF SinkStartFails
<1>3. CASE Joined BY <1>3 DEF Joined
<1>4. CASE JoinFails BY <1>4 DEF JoinFails
<1>5. CASE NoOpTask
  BY <1>5 DEF NoOpTask, NoOpReturns, NoOpDrops, NoOpQuits, BackendEnds
<1>6. CASE AnyReturns BY <1>6 DEF AnyReturns, BackendEnds
<1>7. CASE AnySends BY <1>7 DEF AnySends
<1>8. CASE Append1 BY <1>8 DEF Append1
<1>9. CASE AppenderEnds BY <1>9 DEF AppenderEnds
<1>10. CASE QuitSink BY <1>10 DEF QuitSink
<1>11. CASE UNCHANGED sinkVars BY <1>11 DEF sinkVars
<1>. QED
  BY <1>1, <1>2, <1>3, <1>4, <1>5, <1>6, <1>7, <1>8, <1>9, <1>10, <1>11
     DEF SinkNext, SinkStep, SinkTasks, AnyTask, SinkThread

\* No response is lost on its way to the appender, and the count that run()
\* returns is exact unless the backend's task panicked.
THEOREM CountExact == SinkSpec => []SinkCountExact
<1>1. SinkInit("start") => SinkInv
  BY DEF SinkInit, SinkInv, SinkCountExact
<1>2. SinkInv /\ [SinkNext]_sinkVars => SinkInv'
  BY SinkStepKeeps
<1>3. SinkInv => SinkCountExact
  BY DEF SinkInv
<1>. QED
  BY <1>1, <1>2, <1>3, PTL DEF SinkSpec

-----------------------------------------------------------------------------
(* The Logger *)

Counters == /\ logq \in Nat /\ accepted \in Nat /\ buffered \in Nat /\ onFile \in Nat
            /\ counted \in Nat /\ diskOK \in BOOLEAN

\* Every accepted request is in the channel, in the buffer or in the file; the
\* first two are empty unless the thread runs, which it does not once the
\* process is gone.  What has left the channel has been counted.
LogInv ==
  /\ Counters
  /\ diskOK => accepted = logq + buffered + onFile
  /\ lpc # "run" => logq = 0 /\ buffered = 0
  /\ mpc = "gone" => lpc # "run"
  /\ lpc = "run" => accepted = logq + counted
  /\ lpc = "none" => accepted = 0 /\ onFile = 0 /\ counted = 0
  /\ onFile + buffered <= counted \/ lpc = "failed"
  /\ lpc \in {"none", "run", "ok", "failed"}
  /\ lpc \in {"none", "run"} => diskOK
  /\ mpc \in {"signals", "sink", "new", "logger"} => lpc = "none"
  /\ CountIsOfLog

\* Nothing is left in the channel and the buffer.
LEMMA Drained ==
  ASSUME NEW f \in Nat, NEW q, NEW b, q = 0, b = 0
  PROVE  f + b = f /\ q + b + f = f
OBVIOUS

\* The steps of the Logger's thread.
LEMMA LoggerKeepsLog ==
  ASSUME LogInv, Logger
  PROVE  LogInv'
<1>. USE DEF LogInv, Counters
<1>1. CASE LogRequest
  BY <1>1 DEF LogRequest, CountIsOfLog
<1>2. CASE Spill
  BY <1>2 DEF Spill, CountIsOfLog
<1>3. ASSUME NEW how \in {"ok", "failed"}, LoggerReturns(how), lpc = "run",
             mpc # "gone", how = "ok" => logq = 0
      PROVE  LogInv'
  <2>1. /\ lpc' = how /\ logq' = 0 /\ buffered' = 0
        /\ accepted' = accepted /\ mpc' = mpc /\ counted' = counted
    BY <1>3 DEF LoggerReturns
  <2>2. diskOK' \in BOOLEAN
    <3>1. diskOK' = (diskOK /\ how = "ok") \/ diskOK' = FALSE
      BY <1>3 DEF LoggerReturns
    <3>. QED
      BY <3>1, Zenon
  <2>3. onFile' \in Nat /\ onFile' <= onFile + buffered
    BY <1>3 DEF LoggerReturns
  <2>4. diskOK' => diskOK /\ how = "ok" /\ onFile' = onFile + buffered
    BY <1>3, Zenon DEF LoggerReturns
  <2>5. diskOK' => accepted' = logq' + buffered' + onFile'
    BY <1>3, <2>1, <2>4
  <2>6. onFile + buffered <= counted /\ accepted = logq + counted
    BY <1>3
  <2>7. onFile' <= counted'
    BY <2>1, <2>3, <2>6
  <2>8. onFile' + buffered' = onFile' /\ logq' + buffered' + onFile' = onFile'
    BY <2>1, <2>3, Drained, Zenon
  <2>9. CountIsOfLog'
    <3>1. lpc' = "ok" => counted' = accepted'
      BY <1>3, <2>1, <2>6
    <3>. QED
      BY <2>5, <2>7, <2>8, <3>1, Zenon DEF CountIsOfLog
  <2>10. onFile' + buffered' <= counted'
    BY <2>7, <2>8
  <2>11. /\ lpc' \in {"ok", "failed"}
         /\ mpc' \notin {"signals", "sink", "new", "logger"}
         /\ logq' = 0 /\ buffered' = 0 /\ counted' \in Nat /\ accepted' \in Nat
    BY <1>3, <2>1
  <2>. QED
    BY <2>2, <2>3, <2>5, <2>9, <2>10, <2>11
<1>4. CASE LoggerFails
  BY <1>3, <1>4 DEF LoggerFails
<1>5. CASE LoggerEnds
  BY <1>3, <1>5 DEF LoggerEnds
<1>. QED
  BY <1>1, <1>2, <1>4, <1>5 DEF Logger

\* The steps of main(): only the end of the runtime matters, which waits for the
\* thread, and its start, when nothing has been accepted.
LEMMA MainKeepsLog ==
  ASSUME LogInv, Main
  PROVE  LogInv'
<1>. USE DEF LogInv, CountIsOfLog, Counters, loggerVars
<1>1. CASE SetupSignals BY <1>1 DEF SetupSignals
<1>2. CASE SpawnSink BY <1>2 DEF SpawnSink
<1>3. CASE NewSource BY <1>3 DEF NewSource
<1>4. CASE SpawnLogger BY <1>4 DEF SpawnLogger
<1>5. CASE SpawnSource BY <1>5 DEF SpawnSource
<1>6. CASE NewSourceFails \/ JoinAll \/ JoinError
  BY <1>6 DEF NewSourceFails, JoinAll, JoinError, Return
<1>7. CASE RuntimeGone BY <1>7 DEF RuntimeGone
<1>. QED
  BY <1>1, <1>2, <1>3, <1>4, <1>5, <1>6, <1>7 DEF Main

\* The other steps: only Issue touches the channel, and only while the thread runs.
LEMMA OthersKeepLog ==
  ASSUME LogInv,
         \/ Sink \/ Signal \/ SourceStarts \/ SourceTold \/ Issue \/ SourceReturns
         \/ SourcePanics \/ Over \/ UNCHANGED vars
  PROVE  LogInv'
<1>. USE DEF LogInv, CountIsOfLog, Counters, loggerVars, Alive
<1>1. CASE Sink BY <1>1 DEF Sink, appVars
<1>2. CASE Signal BY <1>2 DEF Signal
<1>3. CASE SourceStarts \/ SourceReturns
  BY <1>3 DEF SourceStarts, SourceReturns, SourceGoes
<1>4. CASE SourceTold BY <1>4 DEF SourceTold
<1>5. CASE Issue
  <2>1. CASE UNCHANGED <<logq, accepted>>
    BY <1>5, <2>1 DEF Issue
  <2>2. CASE lpc = "run" /\ logq' = logq + 1 /\ accepted' = accepted + 1
    BY <1>5, <2>2 DEF Issue
  <2>. QED
    BY <1>5, <2>1, <2>2 DEF Issue
<1>6. CASE SourcePanics BY <1>6 DEF SourcePanics
<1>7. CASE Over \/ UNCHANGED vars BY <1>7 DEF Over, vars, appVars
<1>. QED
  BY <1>1, <1>2, <1>3, <1>4, <1>5, <1>6, <1>7

\* A process that ends by itself, or because a task panicked, has every accepted
\* request in its file, provided no write failed.
THEOREM NothingLost == Spec => []NothingLostOnExit
<1>1. Init => LogInv
  BY DEF Init, LogInv, CountIsOfLog, Counters
<1>2. LogInv /\ [Next]_vars => LogInv'
  BY LoggerKeepsLog, MainKeepsLog, OthersKeepLog DEF Next
<1>3. LogInv => NothingLostOnExit
  BY DEF LogInv, Counters, NothingLostOnExit
<1>. QED
  BY <1>1, <1>2, <1>3, PTL DEF Spec


\* The Logger implements RequestLog.
THEOREM LoggerIsRequestLog == Spec => LogSpec
<1>1. Init => Log!Init
  BY DEF Init, Log!Init
<1>2. LogInv /\ [Next]_vars => [Log!Next]_(Log!logVars)
  <2>. SUFFICES ASSUME LogInv, [Next]_vars
                PROVE  [Log!Next]_(Log!logVars)
    OBVIOUS
  <2>. USE DEF Log!logVars, loggerVars
  <2>. DEFINE Same == UNCHANGED <<lpc, accepted, onFile, diskOK>>
  <2>1. ASSUME Same PROVE UNCHANGED Log!logVars
    BY <2>1
  <2>2. CASE Main
    <3>1. CASE SpawnLogger
      BY <3>1 DEF SpawnLogger, LogInv
    <3>2. CASE ~ SpawnLogger
      BY <2>2, <3>2, <2>1 DEF Main, SetupSignals, SpawnSink, NewSource, SpawnSource,
         NewSourceFails, JoinAll, JoinError, Return, RuntimeGone
    <3>. QED
      BY <3>1, <3>2
  <2>3. CASE LogRequest
    BY <2>1, <2>3 DEF LogRequest
  <2>4. CASE Spill
    <3>1. Log!Write
      BY <2>4 DEF Spill, Log!Write, LogInv, Counters
    <3>. QED
      BY <3>1 DEF Log!Next
  <2>5. ASSUME NEW how \in {"ok", "failed"}, LoggerReturns(how), lpc = "run",
               how = "ok" => logq = 0
        PROVE  Log!Next
    <3>1. /\ lpc' = how /\ accepted' = accepted /\ onFile' \in onFile .. accepted
      BY <2>5 DEF LoggerReturns, LogInv, Counters
    <3>2. diskOK' => diskOK /\ how = "ok" /\ onFile' = onFile + buffered
      BY <2>5, Zenon DEF LoggerReturns
    <3>3. CASE diskOK'
      <4>1. onFile' = accepted
        BY <2>5, <3>2, <3>3 DEF LogInv, Counters
      <4>2. Log!Complete
        BY <2>5, <3>1, <3>3, <4>1 DEF Log!Complete
      <4>. QED
        BY <4>2 DEF Log!Next
    <3>4. CASE ~ diskOK'
      <4>1. Log!Tear
        BY <2>5, <3>1, <3>4 DEF Log!Tear
      <4>. QED
        BY <4>1 DEF Log!Next
    <3>. QED
      BY <3>3, <3>4
  <2>6. CASE LoggerFails \/ LoggerEnds
    BY <2>5, <2>6 DEF LoggerFails, LoggerEnds
  <2>7. CASE Issue
    <3>1. CASE UNCHANGED accepted
      BY <2>1, <2>7, <3>1 DEF Issue
    <3>2. CASE lpc = "run" /\ accepted' = accepted + 1
      <4>1. Log!Accept
        BY <2>7, <3>2 DEF Issue, Log!Accept
      <4>. QED
        BY <4>1 DEF Log!Next
    <3>. QED
      BY <2>7, <3>1, <3>2 DEF Issue
  <2>8. CASE \/ Sink \/ Signal \/ SourceStarts \/ SourceTold \/ SourceReturns
             \/ SourcePanics \/ Over \/ UNCHANGED vars
    BY <2>1, <2>8 DEF Sink, Signal, SourceStarts, SourceTold, SourceReturns, SourceGoes,
       SourcePanics, Over, vars, appVars
  <2>. QED
    BY <2>2, <2>3, <2>4, <2>6, <2>7, <2>8 DEF Next, Logger
<1>3. Init => LogInv
  BY DEF Init, LogInv, CountIsOfLog, Counters
<1>4. LogInv /\ [Next]_vars => LogInv'
  BY LoggerKeepsLog, MainKeepsLog, OthersKeepLog DEF Next
<1>. QED
  BY <1>1, <1>2, <1>3, <1>4, PTL DEF Spec, LogSpec, Log!Spec

-----------------------------------------------------------------------------
\* Nothing is issued before the source runs, and while it does it has a receiver: the
\* process is not aborted then, unless by its own panic.
AbortInv ==
  /\ LogInv
  /\ src \in {"none", "built", "spawned", "run", "done", "panic"}
  /\ mpc \in {"signals", "sink", "new", "logger", "source"} => src \in {"none", "built"}
  /\ src \in {"none", "built", "spawned"} => accepted = 0
  /\ mpc = "aborted" => src \notin {"spawned", "run"}

\* An aborted process has lost nothing unless the source has ended.
LEMMA AbortIsLate == ASSUME AbortInv PROVE AbortLosesOnlyDrain
<1>1. accepted = 0 => ~(onFile < accepted)
  BY DEF AbortInv, LogInv, Counters
<1>. QED
  BY <1>1 DEF AbortInv, AbortLosesOnlyDrain

\* main() builds and spawns the source, before anything is issued, and does not abort.
LEMMA MainKeepsAbort ==
  ASSUME AbortInv, Main
  PROVE  AbortInv'
<1>0. LogInv'
  BY MainKeepsLog DEF AbortInv
<1>. USE <1>0 DEF AbortInv, sourceVars, loggerVars
<1>1. CASE SetupSignals BY <1>1 DEF SetupSignals
<1>2. CASE SpawnSink BY <1>2 DEF SpawnSink
<1>3. CASE NewSource BY <1>3 DEF NewSource
<1>4. CASE SpawnLogger BY <1>4 DEF SpawnLogger
<1>5. CASE SpawnSource BY <1>5 DEF SpawnSource
<1>6. CASE NewSourceFails \/ JoinAll \/ JoinError
  BY <1>6 DEF NewSourceFails, JoinAll, JoinError, Return
<1>7. CASE RuntimeGone BY <1>7 DEF RuntimeGone
<1>. QED
  BY <1>1, <1>2, <1>3, <1>4, <1>5, <1>6, <1>7 DEF Main

\* The steps of the others: a signal aborts only when the source does not listen.
LEMMA OthersKeepAbort ==
  ASSUME AbortInv,
         \/ Logger \/ Sink \/ Signal \/ SourceStarts \/ SourceTold \/ Issue
         \/ SourceReturns \/ SourcePanics \/ Over \/ UNCHANGED vars
  PROVE  AbortInv'
<1>0. LogInv'
  BY LoggerKeepsLog, OthersKeepLog DEF AbortInv
<1>. USE <1>0 DEF AbortInv, sourceVars, loggerVars, Alive
<1>1. CASE Sink BY <1>1 DEF Sink, appVars
<1>2. CASE Signal BY <1>2 DEF Signal, SourceListens
<1>3. CASE SourceStarts \/ SourceReturns
  BY <1>3 DEF SourceStarts, SourceReturns, SourceGoes
<1>4. CASE SourceTold BY <1>4 DEF SourceTold
<1>5. CASE Issue BY <1>5 DEF Issue
<1>6. CASE SourcePanics BY <1>6 DEF SourcePanics
<1>7. CASE Over \/ UNCHANGED vars BY <1>7 DEF Over, vars, appVars
<1>8. CASE Logger
  BY <1>8 DEF Logger, LogRequest, Spill, LoggerFails, LoggerEnds, LoggerReturns
<1>. QED
  BY <1>1, <1>2, <1>3, <1>4, <1>5, <1>6, <1>7, <1>8

\* No signal costs an accepted request while the source is at work, in release and in
\* debug builds: a process that was aborted and whose file is short was aborted after
\* the source had returned or panicked.
THEOREM AbortSparesSource == Spec => []AbortLosesOnlyDrain
<1>1. Init => AbortInv
  BY DEF Init, AbortInv, LogInv, CountIsOfLog, Counters
<1>2. AbortInv /\ [Next]_vars => AbortInv'
  BY MainKeepsAbort, OthersKeepAbort DEF Next
<1>3. AbortInv => AbortLosesOnlyDrain
  BY AbortIsLate
<1>. QED
  BY <1>1, <1>2, <1>3, PTL DEF Spec

-----------------------------------------------------------------------------
(* Types, and the sink inside the program *)

\* The sink's own steps keep the types of its variables: there are never more
\* responses in the channel than it has room for.
LEMMA SinkTypes ==
  ASSUME SinkTypeOK, SinkNext \/ UNCHANGED sinkVars
  PROVE  SinkTypeOK'
<1>. USE SinkAssumption DEF SinkTypeOK
<1>1. CASE SinkTasks
  BY <1>1 DEF SinkTasks, SinkStart, SinkStartFails, Joined, JoinFails
<1>2. CASE NoOpTask
  BY <1>2 DEF NoOpTask, NoOpReturns, NoOpDrops, NoOpQuits, BackendEnds
<1>3. CASE AnyTask
  BY <1>3 DEF AnyTask, AnyReturns, AnySends, BackendEnds
<1>4. CASE SinkThread
  BY <1>4 DEF SinkThread, Append1, AppenderEnds
<1>5. CASE QuitSink
  BY <1>5 DEF QuitSink, SinkListens
<1>6. CASE UNCHANGED sinkVars
  BY <1>6 DEF sinkVars
<1>. QED
  BY <1>1, <1>2, <1>3, <1>4, <1>5, <1>6 DEF SinkNext, SinkStep

\* The sink is not there before main() starts it.
NoSinkYet == mpc \in {"signals", "sink"} => spc = "none"

AppInv == TypeOK /\ SinkInv /\ NoSinkYet

\* What main() and the handler of signals do to the sink: main() starts it, and the
\* runtime drops its tasks when main() returns.
LEMMA AppTouchesSink ==
  ASSUME AppInv, Main \/ Signal
  PROVE  SinkTypeOK' /\ SinkInv' /\ NoSinkYet'
<1>. USE DEF AppInv, NoSinkYet, TypeOK, SinkTypeOK, SinkInv, SinkCountExact, sinkVars
<1>1. CASE SpawnSink
  <2>1. spc = "none"
    BY <1>1 DEF SpawnSink
  <2>. QED
    BY <1>1, <2>1 DEF SpawnSink
<1>2. CASE Return BY <1>2 DEF Return
<1>3. CASE SetupSignals \/ NewSource \/ SpawnLogger \/ SpawnSource \/ RuntimeGone
  BY <1>3 DEF SetupSignals, NewSource, SpawnLogger, SpawnSource, RuntimeGone
<1>4. CASE Signal
  <2>1. quit' \in BOOLEAN
    <3>1. quit' = (quit \/ SinkListens) \/ quit' = quit
      BY <1>4 DEF Signal
    <3>. QED
      BY <3>1, Zenon DEF SinkListens
  <2>2. /\ quits' \in Nat
        /\ UNCHANGED <<kind, spc, bpc, apc, toApp, sent, appended, lines, result>>
        /\ mpc' \in {mpc, "aborted"}
    BY <1>4 DEF Signal
  <2>. QED
    BY <2>1, <2>2
<1>. QED
  BY <1>1, <1>2, <1>3, <1>4 DEF Main, NewSourceFails, JoinAll, JoinError


\* The steps of main() and of the handler.
LEMMA MainTypes ==
  ASSUME AppInv, Main \/ Signal
  PROVE  AppInv'
<1>1. SinkTypeOK' /\ SinkInv' /\ NoSinkYet'
  BY AppTouchesSink
<1>. USE DEF AppInv, TypeOK, sourceVars, loggerVars
<1>2. CASE Main
  BY <1>1, <1>2 DEF Main, SetupSignals, SpawnSink, NewSource, NewSourceFails, SpawnLogger,
                    SpawnSource, JoinAll, JoinError, Return, RuntimeGone
<1>3. CASE Signal
  BY <1>1, <1>3 DEF Signal, SourceListens
<1>. QED
  BY <1>2, <1>3

\* The steps of the sink, the source and the Logger.
LEMMA OthersTyped ==
  ASSUME AppInv,
         \/ Logger \/ Sink \/ SourceStarts \/ SourceTold \/ Issue
         \/ SourceReturns \/ SourcePanics \/ Over \/ UNCHANGED vars
  PROVE  AppInv'
<1>0. SinkTypeOK' /\ SinkInv' /\ NoSinkYet'
  <2>1. CASE Sink
    <3>1. SinkNext
      BY <2>1 DEF Sink, SinkNext, SinkStep
    <3>2. NoSinkYet'
      <4>1. mpc' = mpc
        BY <2>1 DEF Sink, appVars
      <4>2. spc = "none" => spc' = "none"
        BY <2>1
        DEF Sink, SinkTasks, SinkStart, SinkStartFails, Joined, JoinFails, NoOpTask,
            NoOpReturns, NoOpDrops, NoOpQuits, BackendEnds, AnyTask, AnyReturns, AnySends,
            SinkThread, Append1, AppenderEnds
      <4>. QED
        BY <4>1, <4>2 DEF AppInv, NoSinkYet
    <3>. QED
      BY <3>1, <3>2, SinkTypes, SinkStepKeeps DEF AppInv, TypeOK
  <2>2. CASE ~ Sink
    <3>1. UNCHANGED sinkVars
      BY <2>2 DEF Logger, LogRequest, Spill, LoggerFails, LoggerEnds, LoggerReturns,
                  SourceStarts, SourceTold, Issue, SourceReturns, SourceGoes,
                  SourcePanics, Over, vars
    <3>2. mpc' \in {mpc, "aborted"}
      BY <2>2 DEF Logger, LogRequest, Spill, LoggerFails, LoggerEnds, LoggerReturns,
                  SourceStarts, SourceTold, Issue, SourceReturns, SourceGoes,
                  SourcePanics, Over, vars, appVars
    <3>3. NoSinkYet'
      BY <3>1, <3>2 DEF AppInv, NoSinkYet, sinkVars
    <3>. QED
      BY <3>1, <3>3, SinkTypes, SinkStepKeeps DEF AppInv, TypeOK
  <2>. QED
    BY <2>1, <2>2
<1>. USE LoggerAppAssumption DEF AppInv, TypeOK, sourceVars, loggerVars
<1>1. CASE Sink \/ Over \/ UNCHANGED vars
  BY <1>0, <1>1 DEF Sink, Over, vars, appVars
<1>2. CASE LogRequest \/ Spill
  BY <1>0, <1>2 DEF LogRequest, Spill
<1>3. CASE LoggerFails \/ LoggerEnds
  <2>1. PICK how \in {"ok", "failed"} : LoggerReturns(how)
    BY <1>3 DEF LoggerFails, LoggerEnds
  <2>2. diskOK' \in BOOLEAN
    <3>1. diskOK' = (diskOK /\ how = "ok") \/ diskOK' = FALSE
      BY <2>1 DEF LoggerReturns
    <3>. QED
      BY <3>1, Zenon
  <2>. QED
    BY <1>0, <2>1, <2>2 DEF LoggerReturns
<1>4. CASE SourceStarts \/ SourceTold \/ SourceReturns \/ SourcePanics
  <2>1. CASE SourceTold
    BY <1>0, <2>1 DEF SourceTold
  <2>2. CASE SourceStarts \/ SourceReturns
    BY <1>0, <2>2 DEF SourceStarts, SourceReturns, SourceGoes
  <2>3. CASE SourcePanics
    BY <1>0, <2>3 DEF SourcePanics
  <2>. QED
    BY <1>4, <2>1, <2>2, <2>3
<1>5. CASE Issue
  BY <1>0, <1>5 DEF Issue
<1>. QED
  BY <1>1, <1>2, <1>3, <1>4, <1>5 DEF Logger

\* The program starts with nothing spawned, sent or written.
LEMMA AppBegins == ASSUME Init PROVE AppInv
<1>1. SinkTypeOK /\ SinkInv /\ NoSinkYet
  <2>1. /\ kind \in Backends /\ spc = "none" /\ bpc = "none" /\ apc = "none"
        /\ toApp = 0 /\ sent = 0 /\ appended = 0 /\ lines = 0
        /\ quit = FALSE /\ quits = 0 /\ result = -1
    BY DEF Init, SinkInit
  <2>2. toApp \in 0 .. AppenderCap /\ lines \in 0 .. appended
    BY <2>1, SinkAssumption
  <2>3. quit \in BOOLEAN
    BY <2>1
  <2>. QED
    BY <2>1, <2>2, <2>3 DEF SinkTypeOK, SinkInv, SinkCountExact, NoSinkYet
<1>2. diskOK \in BOOLEAN /\ notice \in BOOLEAN
  BY DEF Init
<1>3. /\ aborts \in Builds /\ mpc = "signals" /\ handler = "none" /\ src = "none"
      /\ lpc = "none" /\ logq = 0 /\ accepted = 0 /\ lost = 0
      /\ buffered = 0 /\ onFile = 0 /\ counted = 0
  BY DEF Init
<1>4. logq \in 0 .. LoggerCap
  BY <1>3, LoggerAppAssumption
<1>. QED
  BY <1>1, <1>2, <1>3, <1>4 DEF AppInv, TypeOK

\* AppInv is an invariant, in release and in debug builds and with every backend.
THEOREM AppCorrect == Spec => []AppInv
<1>1. Init => AppInv
  BY AppBegins
<1>2. AppInv /\ [Next]_vars => AppInv'
  BY MainTypes, OthersTyped DEF Next
<1>. QED
  BY <1>1, <1>2, PTL DEF Spec

\* Every variable of the program keeps its type: no channel holds more than it has room
\* for, and the appender never writes more lines than it has received responses.
THEOREM AppTyped == Spec => []TypeOK
<1>1. AppInv => TypeOK
  BY DEF AppInv
<1>. QED
  BY <1>1, AppCorrect, PTL

\* Inside the program too, where main() may return and drop the sink's tasks at any
\* moment, the count of the sink is exact unless its backend panicked.
THEOREM AppCountExact == Spec => []SinkCountExact
<1>1. AppInv => SinkCountExact
  BY DEF AppInv, SinkInv
<1>. QED
  BY <1>1, AppCorrect, PTL
=============================================================================
