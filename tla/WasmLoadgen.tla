---------------------------- MODULE WasmLoadgen ----------------------------
(***************************************************************************)
(* The run of wasm-loadgen (wasm-loadgen/src/main.rs).  Its loop over the  *)
(* minutes is that of ow-loadgen without a ramp, a scale and a Ctrl-C      *)
(* handler.  Its invocations differ: nothing is recorded, a success is     *)
(* counted as soon as the head of the response is here, and the body is    *)
(* read only when the status is not a success.                             *)
(*                                                                         *)
(* main.rs names a timeout for the requests that it does not define, so    *)
(* it does not compile as it stands.  Here a request may take any time,    *)
(* and may never be answered.                                              *)
(***************************************************************************)
EXTENDS OwLoadgen

CONSTANT WasmRecords  \* the records of the trace given to wasm-loadgen

ASSUME WasmAssumption ==
  /\ Len(WasmRecords) \in Nat /\ DOMAIN WasmRecords = 1 .. Len(WasmRecords)
  /\ \A r \in DOMAIN WasmRecords : WasmRecords[r].rpm \in Seq(Nat \union {-1})

Plan == INSTANCE OwPlan WITH
          Records <- WasmRecords, Ramp <- FALSE, ScaleNum <- 1, ScaleDen <- 1

-----------------------------------------------------------------------------
(* The plan and the main task *)

WasmRows         == Plan!Rows
WasmKept         == Plan!Kept
WasmMinutesToRun == Plan!MinutesToRun
WasmGrandTotal   == Plan!GrandTotal

WasmInit == InitWith(Plan!PlanOfRun)

WasmBeginMinute == BeginPhase

WasmDispatch == Dispatch \/ Paced

\* The rest of the minute, also of an empty one, and the next minute.
WasmMinuteEnds == PhaseTail \/ PhaseSlept \/ EndBlock

WasmDrain  == DrainEnds
WasmFinish == Finish

WasmMainStep ==
  WasmBeginMinute \/ WasmDispatch \/ WasmMinuteEnds \/ WasmDrain \/ WasmFinish

-----------------------------------------------------------------------------
(* An invocation's task: Acquire and Fail are those of ow-loadgen *)

\* A success, or 202: counted, and the task is over.
Succeed(j) ==
  /\ st[j] = "flight"
  /\ Move(j, "landed")
  /\ ok' = ok + 1
  /\ good' = good \union {j}
  /\ permits' = permits + 1
  /\ UNCHANGED <<mainVars, limit, err, outfile, restVars>>

\* Any other status: the body is read for the message ...
Refuse(j) == Respond(j)

\* ... and the error counted when it is here, or cannot be had.
Warn(j) ==
  /\ st[j] = "body"
  /\ Move(j, "failed")
  /\ err' = err + 1
  /\ permits' = permits + 1
  /\ UNCHANGED <<mainVars, limit, ok, good, outfile, restVars>>

WasmTaskStep(j) ==
  /\ mpc # "done"
  /\ Acquire(j) \/ Succeed(j) \/ Refuse(j) \/ Warn(j) \/ Fail(j)

-----------------------------------------------------------------------------
\* Only a task that can have its permit must run now: nothing limits a request.
WasmTick ==
  /\ mpc # "done"
  /\ ~(permits > 0 /\ InState({"queued"}) # {})
  /\ IF Asleep THEN UNCHANGED late ELSE late < MaxLate /\ late' = late + 1
  /\ t' = t + 1
  /\ starved' = (starved \/ InState({"queued"}) # {})
  /\ UNCHANGED <<mpc, ph, until, notified, inPhase, aborted, taskVars, plan,
                 pressed>>

WasmNext == \/ WasmMainStep
            \/ \E j \in Dispatched : WasmTaskStep(j)
            \/ WasmTick
            \/ Terminating

WasmSpec == WasmInit /\ [][WasmNext]_vars
=============================================================================
