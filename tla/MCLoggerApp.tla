---------------------------- MODULE MCLoggerApp ----------------------------
(***************************************************************************)
(* The two programs a sink is part of, for TLC: the logger program, whose  *)
(* backend is a NoOp that does not wait, and a program of the crate's user *)
(* with any backend, of which only the SinkClient is modelled.             *)
(***************************************************************************)
EXTENDS LoggerApp

VARIABLE program \* "logger" or "user"

MCInit ==
  \/ program = "logger" /\ Init /\ kind = "noop"
  \/ /\ program = "user"
     /\ SinkInit("start")
     /\ aborts \in Builds /\ diskOK = TRUE
     /\ mpc = "signals" /\ handler = "none" /\ src = "none" /\ notice = FALSE
     /\ lpc = "none" /\ logq = 0 /\ accepted = 0 /\ lost = 0
     /\ buffered = 0 /\ onFile = 0 /\ counted = 0

\* The sink is over; its backend, when it has panicked, may leave the appender behind.
SinkOver == spc \in {"done", "failed"} /\ apc # "recv" /\ UNCHANGED sinkVars

MCNext ==
  /\ UNCHANGED program
  /\ \/ program = "logger" /\ Next
     \/ program = "user" /\ (SinkNext \/ SinkOver) /\ UNCHANGED appVars

MCSpec ==
  /\ MCInit
  /\ [][MCNext]_<<vars, program>>
  /\ program = "logger" => Fairness
  /\ program = "user" => SinkFairness

\* What each program promises: the logger program ends ...
LoggerAppEnds == program = "logger" => AppEnds

\* ... and the run() of a sink returns, whatever its backend does.
UserSinkReturns == program = "user" => SinkReturns
=============================================================================
