-------------------------- MODULE InvocationLogger --------------------------
(***************************************************************************)
(* The optional InvocationLogger of faasrail-loadgen (source/client.rs):   *)
(* a blocking thread that drains one bounded channel of                    *)
(* (FunctionID, InvocationID) pairs into a file, and the sending half the  *)
(* Workers use, which gives up after 50 ms when the channel is full and at *)
(* once when the thread has dropped the receiving half.                    *)
(*                                                                         *)
(* The module declares the logger's state and its operations; SourceClient *)
(* composes them with the Workers.  A pair is a record [fn, id].           *)
(***************************************************************************)
EXTENDS Naturals, Sequences

CONSTANTS
  InvLog,       \* is an invocation log configured (inv_log_path is Some)?
  LogCapacity   \* capacity of the channel (1 << 15 in the code)

ASSUME LogAssumption ==
  /\ InvLog \in BOOLEAN
  /\ LogCapacity \in Nat \ {0}

VARIABLES
  lpc,       \* "off" none configured, "idle" built but not running, "run",
             \* "done" flushed and returned Ok, "error" returned Err
  logq,      \* pairs in the channel
  logFile,   \* lines written, in order
  lost       \* pairs whose sender was told that they were not logged

logVars == <<lpc, logq, logFile, lost>>

LogInit ==
  /\ lpc = IF InvLog THEN "idle" ELSE "off"
  /\ logq = << >>
  /\ logFile = << >>
  /\ lost = {}

\* The receiving half exists until run() returns.
ReceiverAlive == lpc \in {"idle", "run"}

\* send_timeout: the pair enters the channel.
LogSend(pair) ==
  /\ ReceiverAlive
  /\ Len(logq) < LogCapacity
  /\ logq' = Append(logq, pair)
  /\ UNCHANGED <<lpc, logFile, lost>>

\* Mutant: the pair is dropped without a word.
LogGiveUpSilently(pair) ==
  /\ ReceiverAlive => Len(logq) = LogCapacity
  /\ UNCHANGED <<lpc, logq, logFile, lost>>

\* send_timeout: Timeout (the channel stayed full for 50 ms) or Closed; the
\* pair is reported in a warning and forgotten.
LogGiveUp(pair) ==
  /\ ReceiverAlive => Len(logq) = LogCapacity
  /\ lost' = lost \union {pair}
  /\ UNCHANGED <<lpc, logq, logFile>>

\* SourceClient::new has built all Workers and spawns the thread.
LoggerSpawn ==
  /\ lpc' = IF lpc = "idle" THEN "run" ELSE lpc
  /\ UNCHANGED <<logq, logFile, lost>>

\* One iteration of the receive loop.
LoggerWrite ==
  /\ lpc = "run"
  /\ logq # << >>
  /\ logFile' = Append(logFile, Head(logq))
  /\ logq' = Tail(logq)
  /\ UNCHANGED <<lpc, lost>>

\* to_writer or write_all fails: run() returns early and drops the receiver
\* together with every pair still in the channel.
LoggerWriteFails ==
  /\ lpc = "run"
  /\ logq # << >>
  /\ lpc' = "error"
  /\ logq' = << >>
  /\ UNCHANGED <<logFile, lost>>

\* The channel is drained and every sender is gone: flush, then return.
LoggerExit(sendersGone) ==
  /\ lpc = "run"
  /\ sendersGone
  /\ logq = << >>
  /\ lpc' \in {"done", "error"}
  /\ UNCHANGED <<logq, logFile, lost>>

\* The logger's part of a type invariant; Pairs are the pairs that are logged.
LogTypeOK(Pairs) ==
  /\ lpc \in {"off", "idle", "run", "done", "error"}
  /\ logq \in Seq(Pairs)
  /\ Len(logq) <= LogCapacity
  /\ logFile \in Seq(Pairs)
  /\ lost \subseteq Pairs
=============================================================================
