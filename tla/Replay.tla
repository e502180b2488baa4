------------------------------- MODULE Replay -------------------------------
(***************************************************************************)
(* A replay of a trace on OpenWhisk: one of the two load generators runs,  *)
(* and when ow-loadgen has run, the collector reads the file it leaves.    *)
(***************************************************************************)
EXTENDS WasmLoadgen, BenchCollect

CONSTANT Programs  \* the load generators: a subset of {"ow", "wasm"}

ASSUME ReplayAssumption == Programs \subseteq {"ow", "wasm"}

VARIABLE program  \* the load generator that runs

replayVars == <<vars, collectVars, program>>

ReplayInit ==
  /\ program \in Programs
  /\ program = "ow" => Init
  /\ program = "wasm" => WasmInit
  /\ CollectInit

OwStep   == program = "ow" /\ Next /\ UNCHANGED <<collectVars, program>>
WasmStep == program = "wasm" /\ WasmNext /\ UNCHANGED <<collectVars, program>>

\* The collector is started on the file of a run that is over.
CollectStep ==
  /\ program = "ow"
  /\ mpc = "done"
  /\ CollectNext
  /\ UNCHANGED <<vars, program>>

ReplayNext == OwStep \/ WasmStep \/ CollectStep

\* Of the load generator that runs: the runtime polls what is ready, and time passes.
\* A request of ow-loadgen ends, by its timeout at the latest; to wasm-loadgen no
\* answer need ever come.  The collector gets on.
ReplayFairness ==
  /\ WF_vars(program = "ow" /\ MainStep)
  /\ WF_vars(program = "ow" /\ Tick)
  /\ \A j \in 1 .. GrandTotal :
       WF_vars(program = "ow" /\ j \in Dispatched /\ TaskStep(j))
  /\ WF_vars(program = "wasm" /\ WasmMainStep)
  /\ WF_vars(program = "wasm" /\ WasmTick)
  /\ \A j \in 1 .. WasmGrandTotal :
       WF_vars(program = "wasm" /\ j \in Dispatched /\ mpc # "done" /\ Acquire(j))
  /\ WF_replayVars(CollectStep)

ReplaySpec == ReplayInit /\ [][ReplayNext]_replayVars /\ ReplayFairness

-----------------------------------------------------------------------------
(* Properties: those of OwLoadgen are about either program *)

\* ow-loadgen's pause before the flush is long enough for all that is in flight,
\* unless an invocation has waited for a permit.  (wasm-loadgen cannot promise it.)
DrainSettles == program = "ow" => DrainComplete

\* Either run ends, whatever becomes of the requests, and the collector's after it:
\* with a report, or without one when the file ends in a part of a line.
ReplayEnds ==
  <>(mpc = "done" /\ (program = "ow" => cpc = "done" \/ (cpc = "failed" /\ torn)))
=============================================================================
