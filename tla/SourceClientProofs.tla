------------------------- MODULE SourceClientProofs -------------------------
(***************************************************************************)
(* Theorems about SourceClient for every number of Workers, every minute   *)
(* range, every generator and every number of shutdown signals.            *)
(***************************************************************************)
EXTENDS SourceClient, SumTheorems, SequenceTheorems, TLAPS

USE SourceAssumption, LogAssumption DEF SourceAssumption, ValidRange, LogAssumption

-----------------------------------------------------------------------------
(* Types *)

\* The names of the places a Worker can be in.
LEMMA StateNames ==
  /\ "none" \in States /\ "kick" \in States /\ "barrier" \in States
  /\ "released" \in States /\ "select" \in States /\ "issue" \in States
  /\ "log" \in States /\ "done" \in States /\ "failed" \in States
  /\ "panicked" \in States /\ "cancelled" \in States
BY DEF States, Live, Busy, Terminal

\* The head of the minutes' loop assigns values of the right types.
LEMMA NextMinuteType ==
  ASSUME WorkerTypeOK, SharedTypeOK, NEW w \in Workers, NextMinute(w)
  PROVE  /\ pc' \in [Workers -> States]
         /\ minute' \in [Workers -> 0 .. Last]
         /\ left' \in [Workers -> Nat]
         /\ budget' \in [Workers -> Int]
         /\ arrived' \subseteq Workers
         /\ opened' \in 0 .. Last
<1> USE DEF WorkerTypeOK, SharedTypeOK
<1> DEFINE m == NextActive(minute[w])
<1>1. m <= LastActive => m \in 0 .. Last
  BY DEF NextActive, LastActive
<1>2. ASSUME m <= LastActive, Arrive(w, m), minute' = [minute EXCEPT ![w] = m],
             NEW n \in 0 .. MaxIats, left' = [left EXCEPT ![w] = n],
             budget' = [budget EXCEPT ![w] = n]
      PROVE  /\ pc' \in [Workers -> States]
             /\ minute' \in [Workers -> 0 .. Last]
             /\ left' \in [Workers -> Nat]
             /\ budget' \in [Workers -> Int]
             /\ arrived' \subseteq Workers
             /\ opened' \in 0 .. Last
  <2> HIDE DEF m
  <2>1. /\ minute' \in [Workers -> 0 .. Last]
        /\ left' \in [Workers -> Nat]
        /\ budget' \in [Workers -> Int]
    BY <1>1, <1>2
  <2>2. /\ pc' \in [Workers -> States]
        /\ arrived' \subseteq Workers
        /\ opened' \in 0 .. Last
    BY <1>1, <1>2, StateNames DEF Arrive
  <2> QED BY <2>1, <2>2
<1>3. ASSUME NEW s \in {"done", "failed"}, pc' = [pc EXCEPT ![w] = s],
             UNCHANGED <<minute, left, budget, arrived, opened>>
      PROVE  /\ pc' \in [Workers -> States]
             /\ minute' \in [Workers -> 0 .. Last]
             /\ left' \in [Workers -> Nat]
             /\ budget' \in [Workers -> Int]
             /\ arrived' \subseteq Workers
             /\ opened' \in 0 .. Last
  BY <1>3, StateNames
<1> QED BY <1>2, <1>3 DEF NextMinute

\* What a Worker logs is a pair.
LEMMA PairType == ASSUME WorkerTypeOK, NEW w \in Workers PROVE Pair(w) \in Pairs
BY DEF WorkerTypeOK, Pair, Pairs

\* Every state has the declared types.
THEOREM TypeCorrect == Spec => []TypeOK
<1>1. Init => TypeOK
  BY StateNames
     DEF Init, TypeOK, ClientTypeOK, WorkerTypeOK, SharedTypeOK, LogTypeOK, LogInit
<1>2. TypeOK /\ [Next]_vars => TypeOK'
  <2> SUFFICES ASSUME TypeOK, [Next]_vars PROVE TypeOK'
    OBVIOUS
  <2> USE DEF TypeOK, clientVars, workerVars, sharedVars, history, logVars
  <2>1. ASSUME NEW w \in Workers, Spawn(w) PROVE TypeOK'
    <3>1. ClientTypeOK'
      BY <2>1 DEF Spawn, NewWorker, ClientTypeOK
    <3>2. WorkerTypeOK'
      BY <2>1, StateNames DEF Spawn, NewWorker, WorkerTypeOK
    <3>3. SharedTypeOK' /\ LogTypeOK(Pairs)'
      BY <2>1 DEF Spawn, NewWorker, SharedTypeOK, LogTypeOK
    <3> QED BY <3>1, <3>2, <3>3
  <2>2. ASSUME NEW w \in Workers, SpawnFails(w) PROVE TypeOK'
    <3>1. ClientTypeOK'
      BY <2>2 DEF SpawnFails, ClientTypeOK
    <3>2. LogTypeOK(Pairs)'
      BY <2>2 DEF SpawnFails, LogTypeOK
    <3>3. WorkerTypeOK' /\ SharedTypeOK'
      BY <2>2 DEF SpawnFails, WorkerTypeOK, SharedTypeOK
    <3> QED BY <3>1, <3>2, <3>3
  <2>3. CASE NewReturns
    <3>1. ClientTypeOK'
      BY <2>3 DEF NewReturns, ClientTypeOK
    <3>2. LogTypeOK(Pairs)'
      BY <2>3 DEF NewReturns, LoggerSpawn, LogTypeOK
    <3>3. WorkerTypeOK' /\ SharedTypeOK'
      BY <2>3 DEF NewReturns, WorkerTypeOK, SharedTypeOK
    <3> QED BY <3>1, <3>2, <3>3
  <2>4. CASE Kick
    <3>1. ClientTypeOK'
      BY <2>4 DEF Kick, Stopped, ClientTypeOK
    <3>2. WorkerTypeOK'
      BY <2>4 DEF Kick, Broadcast, Notify, WorkerTypeOK
    <3>3. SharedTypeOK' /\ LogTypeOK(Pairs)'
      BY <2>4 DEF Kick, SharedTypeOK, LogTypeOK
    <3> QED BY <3>1, <3>2, <3>3
  <2>5. CASE HandleShutdown
    <3>1. ClientTypeOK'
      BY <2>5 DEF HandleShutdown, ClientTypeOK
    <3>2. WorkerTypeOK'
      BY <2>5 DEF HandleShutdown, Broadcast, Notify, WorkerTypeOK
    <3>3. SharedTypeOK' /\ LogTypeOK(Pairs)'
      BY <2>5 DEF HandleShutdown, SharedTypeOK, LogTypeOK
    <3> QED BY <3>1, <3>2, <3>3
  <2>6. ASSUME NEW w \in Workers, JoinWorker(w) PROVE TypeOK'
    <3>1. ClientTypeOK'
      BY <2>6 DEF JoinWorker, WorkerTypeOK, ClientTypeOK
    <3>2. WorkerTypeOK' /\ SharedTypeOK' /\ LogTypeOK(Pairs)'
      BY <2>6 DEF JoinWorker, WorkerTypeOK, SharedTypeOK, LogTypeOK
    <3> QED BY <3>1, <3>2
  <2>7. CASE NoMoreWorkers
    <3>1. ClientTypeOK'
      BY <2>7 DEF NoMoreWorkers, ClientTypeOK
    <3>2. WorkerTypeOK' /\ SharedTypeOK' /\ LogTypeOK(Pairs)'
      BY <2>7 DEF NoMoreWorkers, WorkerTypeOK, SharedTypeOK, LogTypeOK
    <3> QED BY <3>1, <3>2
  <2>8. CASE ReapLogger
    <3>1. ClientTypeOK'
      BY <2>8 DEF ReapLogger, ClientTypeOK
    <3>2. WorkerTypeOK' /\ SharedTypeOK' /\ LogTypeOK(Pairs)'
      BY <2>8 DEF ReapLogger, WorkerTypeOK, SharedTypeOK, LogTypeOK
    <3> QED BY <3>1, <3>2
  <2>9. CASE Signal
    <3>1. ClientTypeOK'
      BY <2>9 DEF Signal, Notify, ClientTypeOK
    <3>2. WorkerTypeOK' /\ SharedTypeOK' /\ LogTypeOK(Pairs)'
      BY <2>9 DEF Signal, WorkerTypeOK, SharedTypeOK, LogTypeOK
    <3> QED BY <3>1, <3>2
  <2>10. ASSUME NEW w \in Workers, RecvKick(w) PROVE TypeOK'
    <3>1. WorkerTypeOK'
      BY <2>10, NextMinuteType DEF RecvKick, WorkerTypeOK
    <3>2. SharedTypeOK'
      BY <2>10, NextMinuteType DEF RecvKick, SharedTypeOK
    <3>3. ClientTypeOK' /\ LogTypeOK(Pairs)'
      BY <2>10 DEF RecvKick, ClientTypeOK, LogTypeOK
    <3> QED BY <3>1, <3>2, <3>3
  <2>11. ASSUME NEW w \in Workers, KickErr(w) PROVE TypeOK'
    <3>1. ClientTypeOK'
      BY <2>11 DEF KickErr, Stopped, ClientTypeOK
    <3>2. WorkerTypeOK'
      BY <2>11, StateNames DEF KickErr, WorkerTypeOK
    <3>3. SharedTypeOK' /\ LogTypeOK(Pairs)'
      BY <2>11 DEF KickErr, SharedTypeOK, LogTypeOK
    <3> QED BY <3>1, <3>2, <3>3
  <2>12. ASSUME NEW w \in Workers, StartMinute(w) PROVE TypeOK'
    <3>1. WorkerTypeOK'
      BY <2>12, StateNames DEF StartMinute, NextGap, WorkerTypeOK
    <3>2. ClientTypeOK' /\ SharedTypeOK' /\ LogTypeOK(Pairs)'
      BY <2>12 DEF StartMinute, ClientTypeOK, SharedTypeOK, LogTypeOK
    <3> QED BY <3>1, <3>2
  <2>13. ASSUME NEW w \in Workers, SelectQuit(w) PROVE TypeOK'
    <3>1. WorkerTypeOK'
      BY <2>13, StateNames DEF SelectQuit, WorkerTypeOK
    <3>2. ClientTypeOK' /\ SharedTypeOK' /\ LogTypeOK(Pairs)'
      BY <2>13 DEF SelectQuit, ClientTypeOK, SharedTypeOK, LogTypeOK
    <3> QED BY <3>1, <3>2
  <2>14. ASSUME NEW w \in Workers, SelectMinuteEnd(w) PROVE TypeOK'
    <3>1. WorkerTypeOK'
      BY <2>14, NextMinuteType DEF SelectMinuteEnd, WorkerTypeOK
    <3>2. SharedTypeOK'
      BY <2>14, NextMinuteType DEF SelectMinuteEnd, SharedTypeOK
    <3>3. ClientTypeOK' /\ LogTypeOK(Pairs)'
      BY <2>14 DEF SelectMinuteEnd, ClientTypeOK, LogTypeOK
    <3> QED BY <3>1, <3>2, <3>3
  <2>15. ASSUME NEW w \in Workers, SelectSleep(w) PROVE TypeOK'
    <3>1. WorkerTypeOK'
      BY <2>15, StateNames DEF SelectSleep, SharedTypeOK, WorkerTypeOK
    <3>2. SharedTypeOK'
      BY <2>15 DEF SelectSleep, SharedTypeOK
    <3>3. ClientTypeOK' /\ LogTypeOK(Pairs)'
      BY <2>15 DEF SelectSleep, ClientTypeOK, LogTypeOK
    <3> QED BY <3>1, <3>2, <3>3
  <2>16. ASSUME NEW w \in Workers, IssueOk(w) PROVE TypeOK'
    <3>1. WorkerTypeOK'
      BY <2>16, StateNames DEF IssueOk, NextGap, WorkerTypeOK
    <3>2. SharedTypeOK'
      BY <2>16, PairType DEF IssueOk, SharedTypeOK
    <3>3. ClientTypeOK' /\ LogTypeOK(Pairs)'
      BY <2>16 DEF IssueOk, ClientTypeOK, LogTypeOK
    <3> QED BY <3>1, <3>2, <3>3
  <2>17. ASSUME NEW w \in Workers, IssueErr(w) PROVE TypeOK'
    <3>1. WorkerTypeOK'
      BY <2>17, StateNames DEF IssueErr, NextGap, WorkerTypeOK
    <3>2. ClientTypeOK' /\ SharedTypeOK' /\ LogTypeOK(Pairs)'
      BY <2>17 DEF IssueErr, ClientTypeOK, SharedTypeOK, LogTypeOK
    <3> QED BY <3>1, <3>2
  <2>18. ASSUME NEW w \in Workers, LogInvocation(w) PROVE TypeOK'
    <3>1. WorkerTypeOK'
      BY <2>18, StateNames DEF LogInvocation, NextGap, WorkerTypeOK
    <3>2. LogTypeOK(Pairs)'
      <4>1. Pair(w) \in Pairs
        BY PairType
      <4>2. CASE LogSend(Pair(w))
        BY <4>1, <4>2 DEF LogSend, LogTypeOK
      <4>3. CASE LogGiveUp(Pair(w))
        BY <4>1, <4>3 DEF LogGiveUp, LogTypeOK
      <4> QED BY <2>18, <4>2, <4>3 DEF LogInvocation
    <3>3. ClientTypeOK' /\ SharedTypeOK'
      BY <2>18 DEF LogInvocation, ClientTypeOK, SharedTypeOK
    <3> QED BY <3>1, <3>2, <3>3
  <2>19. ASSUME NEW w \in Workers, Cancel(w) PROVE TypeOK'
    <3>1. WorkerTypeOK'
      BY <2>19, StateNames DEF Cancel, WorkerTypeOK
    <3>2. ClientTypeOK' /\ SharedTypeOK' /\ LogTypeOK(Pairs)'
      BY <2>19 DEF Cancel, ClientTypeOK, SharedTypeOK, LogTypeOK
    <3> QED BY <3>1, <3>2
  <2>20. CASE LoggerStep
    <3>1. LogTypeOK(Pairs)'
      <4>1. CASE LoggerWrite
        <5>1. /\ Head(logq) \in Pairs
              /\ Tail(logq) \in Seq(Pairs)
              /\ Len(Tail(logq)) = Len(logq) - 1
          BY <4>1, HeadTailProperties DEF LoggerWrite, LogTypeOK
        <5>2. Append(logFile, Head(logq)) \in Seq(Pairs)
          BY <5>1 DEF LogTypeOK
        <5> QED BY <4>1, <5>1, <5>2 DEF LoggerWrite, LogTypeOK
      <4>2. CASE LoggerExit(AllTerminal)
        BY <4>2 DEF LoggerExit, LogTypeOK
      <4> QED BY <2>20, <4>1, <4>2 DEF LoggerStep
    <3>2. ClientTypeOK' /\ WorkerTypeOK' /\ SharedTypeOK'
      BY <2>20 DEF LoggerStep, ClientTypeOK, WorkerTypeOK, SharedTypeOK
    <3> QED BY <3>1, <3>2
  <2>21. CASE LoggerFails
    <3>1. LogTypeOK(Pairs)'
      BY <2>21 DEF LoggerFails, LoggerWriteFails, LogTypeOK
    <3>2. ClientTypeOK' /\ WorkerTypeOK' /\ SharedTypeOK'
      BY <2>21 DEF LoggerFails, ClientTypeOK, WorkerTypeOK, SharedTypeOK
    <3> QED BY <3>1, <3>2
  <2>22. CASE Tick
    <3>1. WorkerTypeOK'
      BY <2>22 DEF Tick, Ticking, Sleeping, WorkerTypeOK
    <3>2. ClientTypeOK' /\ SharedTypeOK' /\ LogTypeOK(Pairs)'
      BY <2>22 DEF Tick, ClientTypeOK, SharedTypeOK, LogTypeOK
    <3> QED BY <3>1, <3>2
  <2>23. CASE UNCHANGED vars
    BY <2>23 DEF vars, ClientTypeOK, WorkerTypeOK, SharedTypeOK, LogTypeOK
  <2> QED
    BY <2>1, <2>2, <2>3, <2>4, <2>5, <2>6, <2>7, <2>8, <2>9, <2>10, <2>11,
      <2>12, <2>13, <2>14, <2>15, <2>16, <2>17, <2>18, <2>19, <2>20, <2>21,
      <2>22, <2>23 DEF Next, ClientStep, WorkerStep, Terminating
<1> QED BY <1>1, <1>2, PTL DEF Spec

-----------------------------------------------------------------------------
(* The Workers stay in step *)

\* Why MinuteLockstep is inductive: a Worker waits at the barrier for the minute
\* after the one that is open, the Barrier has counted it, and the parties it
\* has counted are at the barrier or were cancelled there; so when it has
\* counted everybody, nobody is left in the minute before.
LockstepInv ==
  /\ opened # 0 => First <= opened /\ opened <= LastActive
  /\ \A w \in Workers :
       /\ pc[w] \in {"none", "kick"} => minute[w] = 0 /\ opened = 0
       /\ pc[w] \in Busy => minute[w] = opened /\ opened # 0
       /\ pc[w] = "barrier" => /\ w \in arrived
                               /\ minute[w] = NextActive(opened)
                               /\ minute[w] <= LastActive
       /\ w \in arrived => pc[w] \in {"barrier", "cancelled"}

\* The head of the minutes' loop keeps the Workers in step.
LEMMA NextMinuteLockstep ==
  ASSUME TypeOK, LockstepInv, NEW w \in Workers, NextMinute(w),
         pc[w] = "kick" \/ pc[w] \in Busy
  PROVE  LockstepInv'
<1> USE DEF TypeOK, WorkerTypeOK, SharedTypeOK
<1> DEFINE m == NextActive(minute[w])
<1>0. minute[w] = opened /\ w \notin arrived
  BY DEF LockstepInv, Busy
<1>1. ASSUME m <= LastActive, Arrive(w, m), minute' = [minute EXCEPT ![w] = m]
      PROVE  LockstepInv'
  <2>1. m \in Nat /\ First <= m /\ m # 0
    BY <1>0 DEF LockstepInv, NextActive
  <2>2. CASE arrived \union {w} = Workers
    <3> HIDE DEF m
    <3>1. \A v \in Workers : v # w => pc[v] \in {"barrier", "cancelled"}
      BY <2>2 DEF LockstepInv
    <3>2. \A v \in Workers : v # w /\ pc[v] = "barrier" => minute[v] = m
      BY <1>0 DEF LockstepInv, m
    <3>3. \A v \in Workers : minute'[v] = m \/ (v # w /\ pc[v] = "cancelled")
      BY <1>1, <3>1, <3>2
    <3>4. \A v \in Workers : pc'[v] \in {"released", "cancelled"}
                           /\ (pc'[v] = "released" => v = w \/ pc[v] = "barrier")
      BY <1>1, <2>2, <3>1 DEF Arrive
    <3>5. arrived' = {} /\ opened' = m
      BY <1>1, <2>2 DEF Arrive
    <3> QED BY <1>1, <2>1, <3>3, <3>4, <3>5 DEF LockstepInv, Busy, LastActive
  <2>3. CASE arrived \union {w} # Workers
    <3>1. /\ pc' = [pc EXCEPT ![w] = "barrier"]
          /\ arrived' = arrived \union {w}
          /\ opened' = opened
      BY <1>1, <2>3 DEF Arrive
    <3> QED BY <1>0, <1>1, <3>1 DEF LockstepInv, Busy, NextActive, LastActive
  <2> QED BY <2>2, <2>3
<1>2. ASSUME NEW s \in {"done", "failed"}, pc' = [pc EXCEPT ![w] = s],
             UNCHANGED <<minute, arrived, opened>>
      PROVE  LockstepInv'
  BY <1>0, <1>2 DEF LockstepInv, Busy, NextActive, LastActive
<1> QED BY <1>1, <1>2 DEF NextMinute

\* So does any step of a Worker within a minute, or its end.
LEMMA OneMovesLockstep ==
  ASSUME TypeOK, LockstepInv, NEW w \in Workers, NEW s,
         pc' = [pc EXCEPT ![w] = s],
         \/ pc[w] = "none" /\ s = "kick"
         \/ pc[w] \in Busy /\ s \in Busy \union Terminal
         \/ pc[w] \in Live /\ s = "cancelled"
         \/ pc[w] = "kick" /\ s = "panicked",
         UNCHANGED <<minute, arrived, opened>>
  PROVE  LockstepInv'
BY DEF TypeOK, WorkerTypeOK, SharedTypeOK, LockstepInv, Busy, Live, Terminal,
       NextActive, LastActive

\* The strengthening is an invariant.
LEMMA LockstepInvariant == Spec => []LockstepInv
<1>1. Init => LockstepInv
  BY DEF Init, LockstepInv, Busy
<1>2. TypeOK /\ LockstepInv /\ [Next]_vars => LockstepInv'
  <2> SUFFICES ASSUME TypeOK, LockstepInv, [Next]_vars PROVE LockstepInv'
    OBVIOUS
  <2> USE DEF clientVars, workerVars, sharedVars, history, Busy, Live, Terminal
  <2>1. ASSUME NEW w \in Workers,
               RecvKick(w) \/ SelectMinuteEnd(w)
        PROVE  LockstepInv'
    BY <2>1, NextMinuteLockstep DEF RecvKick, SelectMinuteEnd
  <2>2. ASSUME NEW w \in Workers, Spawn(w) \/ Cancel(w) PROVE LockstepInv'
    BY <2>2, OneMovesLockstep DEF Spawn, NewWorker, Cancel
  <2>3. ASSUME NEW w \in Workers, KickErr(w) PROVE LockstepInv'
    <3>1. CASE UNCHANGED <<pc, minute, arrived, opened>>
      BY <3>1 DEF LockstepInv, NextActive
    <3>2. CASE pc' = [pc EXCEPT ![w] = "panicked"]
      BY <2>3, <3>2, OneMovesLockstep DEF KickErr
    <3> QED BY <2>3, <3>1, <3>2 DEF KickErr
  <2>4. ASSUME NEW w \in Workers,
               \/ StartMinute(w) \/ SelectQuit(w) \/ SelectSleep(w)
               \/ IssueOk(w) \/ IssueErr(w) \/ LogInvocation(w)
        PROVE  LockstepInv'
    <3>1. PICK s : /\ pc' = [pc EXCEPT ![w] = s]
                   /\ s \in {"select", "issue", "log", "done"}
      BY <2>4 DEF StartMinute, SelectQuit, SelectSleep, IssueOk, IssueErr,
                  LogInvocation
    <3>2. pc[w] \in Busy /\ UNCHANGED <<minute, arrived, opened>>
      BY <2>4 DEF StartMinute, SelectQuit, SelectSleep, IssueOk, IssueErr,
                  LogInvocation
    <3> QED BY <3>1, <3>2, OneMovesLockstep
  <2>5. CASE UNCHANGED <<pc, minute, arrived, opened>>
    BY <2>5 DEF LockstepInv, NextActive
  <2>6. ASSUME NEW w \in Workers, SpawnFails(w) \/ JoinWorker(w)
        PROVE  UNCHANGED <<pc, minute, arrived, opened>>
    BY <2>6 DEF SpawnFails, JoinWorker
  <2>7. CASE NewReturns \/ Kick \/ HandleShutdown \/ NoMoreWorkers
             \/ ReapLogger \/ Signal
    BY <2>5, <2>7 DEF NewReturns, Kick, HandleShutdown, NoMoreWorkers,
                      ReapLogger, Signal
  <2>8. CASE LoggerStep \/ LoggerFails \/ Tick \/ UNCHANGED vars
    BY <2>5, <2>8 DEF LoggerStep, LoggerFails, Tick, vars
  <2> QED
    BY <2>1, <2>2, <2>3, <2>4, <2>5, <2>6, <2>7, <2>8
    DEF Next, ClientStep, WorkerStep, Terminating
<1> QED BY <1>1, <1>2, TypeCorrect, PTL DEF Spec

\* Whoever is between two barriers is in the minute that was opened last, one
\* of the range: worker.rs runs its minutes in lockstep.
THEOREM Lockstep == Spec => []MinuteLockstep
<1>1. TypeOK /\ LockstepInv => MinuteLockstep
  BY DEF LockstepInv, MinuteLockstep
<1> QED BY <1>1, LockstepInvariant, TypeCorrect, PTL

-----------------------------------------------------------------------------
(* The refinement of MinuteGate *)

\* The head of the minutes' loop is a step of the gate.
LEMMA NextMinuteGate ==
  ASSUME TypeOK, LockstepInv, NEW w \in Workers, NextMinute(w),
         pc[w] = "kick" \/ pc[w] \in Busy
  PROVE  Gate!Next \/ UNCHANGED Gate!gateVars
<1> USE DEF TypeOK, WorkerTypeOK, SharedTypeOK
<1> DEFINE m == NextActive(minute[w])
<1>0. m = Gate!Upcoming
  BY DEF LockstepInv, NextActive, Gate!Upcoming, Busy
<1> HIDE DEF m
<1>1. ASSUME NEW s \in {"barrier", "done", "failed"},
             pc' = [pc EXCEPT ![w] = s], UNCHANGED opened
      PROVE  Gate!Next \/ UNCHANGED Gate!gateVars
  <2>1. Inside' = Inside \ {w}
    BY <1>1 DEF Inside, Busy
  <2>2. CASE w \in Inside
    <3>1. Gate!Leave(w)
      BY <1>1, <2>1, <2>2 DEF Gate!Leave
    <3> QED BY <3>1 DEF Gate!Next
  <2>3. CASE w \notin Inside
    BY <1>1, <2>1, <2>3 DEF Gate!gateVars
  <2> QED BY <2>2, <2>3
<1>2. ASSUME m <= LastActive, arrived \union {w} = Workers, Arrive(w, m)
      PROVE  Gate!Next
  <2>1. /\ pc' = [v \in Workers |-> IF v = w \/ pc[v] = "barrier"
                                    THEN "released" ELSE pc[v]]
        /\ opened' = m
    BY <1>2 DEF Arrive
  <2>2. \A v \in Workers : v # w => pc[v] \in {"barrier", "cancelled"}
    BY <1>2 DEF LockstepInv
  <2>3. Inside \subseteq {w}
    BY <2>2 DEF Inside, Busy
  <2>4. Inside' \in SUBSET Workers /\ w \in Inside'
    BY <2>1 DEF Inside, Busy
  <2>5. Gate!Open(w)
    BY <1>0, <1>2, <2>1, <2>3, <2>4 DEF Gate!Open
  <2> QED BY <2>5 DEF Gate!Next
<1>3. CASE m <= LastActive /\ Arrive(w, m)
  BY <1>1, <1>2, <1>3 DEF Arrive
<1>4. CASE /\ \E s \in {"done", "failed"} : pc' = [pc EXCEPT ![w] = s]
           /\ UNCHANGED opened
  BY <1>1, <1>4
<1> QED BY <1>3, <1>4 DEF NextMinute, m

\* Any other step moves at most one Worker, within a minute or out of it.
LEMMA OneMovesGate ==
  ASSUME TypeOK, NEW w \in Workers, NEW s,
         pc' = [pc EXCEPT ![w] = s], UNCHANGED opened,
         pc[w] \in Busy \/ s \notin Busy
  PROVE  Gate!Next \/ UNCHANGED Gate!gateVars
<1>1. CASE pc[w] \in Busy /\ s \notin Busy
  <2>1. w \in Inside /\ Inside' = Inside \ {w}
    BY <1>1 DEF Inside, TypeOK, WorkerTypeOK
  <2>2. Gate!Leave(w)
    BY <2>1 DEF Gate!Leave
  <2> QED BY <2>2 DEF Gate!Next
<1>2. CASE ~(pc[w] \in Busy /\ s \notin Busy)
  BY <1>2 DEF Inside, Gate!gateVars, TypeOK, WorkerTypeOK
<1> QED BY <1>1, <1>2

\* The Workers implement MinuteGate: the range is played minute by minute, each
\* opened when nobody is left in the one before.
THEOREM Refinement == Spec => GateSpec
<1>1. Init => Gate!Init
  BY DEF Init, Gate!Init, Inside, Busy
<1>2. TypeOK /\ LockstepInv /\ [Next]_vars
        => Gate!Next \/ UNCHANGED Gate!gateVars
  <2> SUFFICES ASSUME TypeOK, LockstepInv, [Next]_vars
               PROVE  Gate!Next \/ UNCHANGED Gate!gateVars
    OBVIOUS
  <2> USE DEF clientVars, workerVars, sharedVars, history
  <2>1. ASSUME NEW w \in Workers, RecvKick(w) \/ SelectMinuteEnd(w)
        PROVE  Gate!Next \/ UNCHANGED Gate!gateVars
    BY <2>1, NextMinuteGate DEF RecvKick, SelectMinuteEnd, Busy
  <2>2. ASSUME NEW w \in Workers, Spawn(w) \/ Cancel(w)
        PROVE  Gate!Next \/ UNCHANGED Gate!gateVars
    BY <2>2, OneMovesGate DEF Spawn, NewWorker, Cancel, Busy
  <2>3. ASSUME UNCHANGED <<pc, opened>>
        PROVE  Gate!Next \/ UNCHANGED Gate!gateVars
    BY <2>3 DEF Inside, Gate!gateVars
  <2>4. ASSUME NEW w \in Workers, KickErr(w)
        PROVE  Gate!Next \/ UNCHANGED Gate!gateVars
    BY <2>3, <2>4, OneMovesGate DEF KickErr, Busy
  <2>5. ASSUME NEW w \in Workers,
               \/ StartMinute(w) \/ SelectQuit(w) \/ SelectSleep(w)
               \/ IssueOk(w) \/ IssueErr(w) \/ LogInvocation(w)
        PROVE  Gate!Next \/ UNCHANGED Gate!gateVars
    <3>1. PICK s : pc' = [pc EXCEPT ![w] = s]
      BY <2>5 DEF StartMinute, SelectQuit, SelectSleep, IssueOk, IssueErr,
                  LogInvocation
    <3>2. pc[w] \in Busy /\ UNCHANGED opened
      BY <2>5 DEF StartMinute, SelectQuit, SelectSleep, IssueOk, IssueErr,
                  LogInvocation, Busy
    <3> QED BY <3>1, <3>2, OneMovesGate
  <2>6. ASSUME NEW w \in Workers, SpawnFails(w) \/ JoinWorker(w)
        PROVE  UNCHANGED <<pc, opened>>
    BY <2>6 DEF SpawnFails, JoinWorker
  <2>7. CASE NewReturns \/ Kick \/ HandleShutdown \/ NoMoreWorkers
             \/ ReapLogger \/ Signal
    BY <2>3, <2>7 DEF NewReturns, Kick, HandleShutdown, NoMoreWorkers,
                      ReapLogger, Signal
  <2>8. CASE LoggerStep \/ LoggerFails \/ Tick \/ UNCHANGED vars
    BY <2>3, <2>8 DEF LoggerStep, LoggerFails, Tick, vars
  <2> QED
    BY <2>1, <2>2, <2>3, <2>4, <2>5, <2>6, <2>7, <2>8
    DEF Next, ClientStep, WorkerStep, Terminating
<1> QED
  BY <1>1, <1>2, TypeCorrect, LockstepInvariant, PTL DEF Spec, GateSpec, Gate!Spec

-----------------------------------------------------------------------------
(* Every receiver hears the kick *)

\* Until the kick no Worker has heard anything, and the JoinSet holds exactly
\* the Workers that are subscribed.
KickInv ==
  /\ cpc \in {"new", "ready", "failed"} =>
       \A w \in Workers : /\ issuedOk[w] = {}
                         /\ inbox[w] = 0
                         /\ pc[w] \in {"none", "kick", "panicked", "cancelled"}
  /\ cpc \in {"new", "ready"} => /\ aborted = {}
                                 /\ members = {w \in Workers : pc[w] = "kick"}
                                 /\ \A w \in Workers : pc[w] \in {"none", "kick"}
  /\ cpc = "ready" => members = Workers
  /\ cpc = "asserted" => Workers = {}

\* It is an invariant: only the kick ends the waiting.
LEMMA KickInvariant == Spec => []KickInv
<1>1. Init => KickInv
  BY DEF Init, KickInv
<1>2. TypeOK /\ KickInv /\ [Next]_vars => KickInv'
  <2> SUFFICES ASSUME TypeOK, KickInv, [Next]_vars PROVE KickInv'
    OBVIOUS
  <2> USE DEF clientVars, workerVars, sharedVars, history, TypeOK, WorkerTypeOK
  <2>1. ASSUME NEW w \in Workers, Spawn(w) PROVE KickInv'
    BY <2>1 DEF Spawn, NewWorker, KickInv
  <2>2. ASSUME NEW w \in Workers, SpawnFails(w) PROVE KickInv'
    BY <2>2 DEF SpawnFails, KickInv
  <2>3. CASE NewReturns
    BY <2>3 DEF NewReturns, KickInv
  <2>4. CASE Kick
    <3>1. \A w \in Workers : pc[w] = "kick"
      BY <2>4 DEF Kick, KickInv
    <3>2. Subscribed = Workers /\ members = Workers
      BY <2>4, <3>1 DEF Kick, KickInv, Subscribed, Live
    <3>3. Workers # {} => AllSubscribed
      BY <3>2 DEF AllSubscribed
    <3> QED BY <2>4, <3>3 DEF Kick, KickInv
  <2>5. CASE HandleShutdown \/ NoMoreWorkers \/ ReapLogger
    BY <2>5 DEF HandleShutdown, NoMoreWorkers, ReapLogger, KickInv
  <2>6. ASSUME NEW w \in Workers, JoinWorker(w) PROVE KickInv'
    BY <2>6 DEF JoinWorker, KickInv
  <2>7. CASE Signal
    BY <2>7 DEF Signal, KickInv
  <2>8. ASSUME NEW w \in Workers, RecvKick(w) PROVE KickInv'
    BY <2>8 DEF RecvKick, KickInv
  <2>9. ASSUME NEW w \in Workers, KickErr(w) PROVE KickInv'
    BY <2>9 DEF KickErr, KickInv
  <2>10. ASSUME NEW w \in Workers,
                \/ StartMinute(w) \/ SelectQuit(w) \/ SelectMinuteEnd(w)
                \/ SelectSleep(w) \/ IssueOk(w) \/ IssueErr(w)
                \/ LogInvocation(w)
         PROVE  KickInv'
    <3>1. pc[w] \in Busy /\ UNCHANGED cpc
      BY <2>10 DEF StartMinute, SelectQuit, SelectMinuteEnd, SelectSleep,
                   IssueOk, IssueErr, LogInvocation, Busy
    <3> QED BY <3>1 DEF KickInv, Busy
  <2>11. ASSUME NEW w \in Workers, Cancel(w) PROVE KickInv'
    BY <2>11 DEF Cancel, KickInv
  <2>12. CASE LoggerStep \/ LoggerFails \/ Tick \/ UNCHANGED vars
    BY <2>12 DEF LoggerStep, LoggerFails, Tick, vars, KickInv
  <2> QED
    BY <2>1, <2>2, <2>3, <2>4, <2>5, <2>6, <2>7, <2>8, <2>9, <2>10, <2>11,
       <2>12
    DEF Next, ClientStep, WorkerStep, Terminating
<1> QED BY <1>1, <1>2, TypeCorrect, PTL DEF Spec

\* The kick reaches every Worker, however many there are: run() can panic there
\* only for a trace without rows, where the expect() of the send fails, never
\* because the assertion does.
THEOREM AssertionHolds == Spec => []KickReachesAll
<1>1. KickInv => KickReachesAll
  BY DEF KickInv, KickReachesAll
<1> QED BY <1>1, KickInvariant, PTL

\* No Worker issues anything before run(), nor ever when new() failed.
THEOREM KickFirst == Spec => []NothingBeforeKick
<1>1. KickInv => NothingBeforeKick
  BY DEF KickInv, NothingBeforeKick
<1> QED BY <1>1, KickInvariant, PTL

-----------------------------------------------------------------------------
(* run() leaves no Worker behind *)

\* A task that has not ended is in the JoinSet, unless new() failed.
JoinInv ==
  /\ cpc # "failed" /\ cpc # "crashed" => \A w \in Workers : pc[w] \in Live => w \in members
  /\ cpc \in {"reap", "done"} => members = {}

\* It is an invariant: JoinWorker takes only tasks that have ended.
LEMMA JoinInvariant == Spec => []JoinInv
<1>1. Init => JoinInv
  BY DEF Init, JoinInv, Live, Busy
<1>2. TypeOK /\ JoinInv /\ [Next]_vars => JoinInv'
  <2> SUFFICES ASSUME TypeOK, JoinInv, [Next]_vars PROVE JoinInv'
    OBVIOUS
  <2> USE DEF clientVars, workerVars, sharedVars, history, TypeOK, ClientTypeOK,
              WorkerTypeOK, SharedTypeOK
  <2>1. ASSUME NEW w \in Workers, Spawn(w) \/ SpawnFails(w) PROVE JoinInv'
    BY <2>1 DEF Spawn, NewWorker, SpawnFails, JoinInv
  <2>2. CASE NewReturns \/ Kick \/ HandleShutdown \/ NoMoreWorkers
             \/ ReapLogger \/ Signal
    BY <2>2 DEF NewReturns, Kick, HandleShutdown, NoMoreWorkers, ReapLogger,
                Signal, JoinInv, Live, Busy
  <2>3. ASSUME NEW w \in Workers, JoinWorker(w) PROVE JoinInv'
    BY <2>3 DEF JoinWorker, JoinInv, Live, Busy, Terminal
  <2>4. ASSUME NEW w \in Workers, RecvKick(w) \/ SelectMinuteEnd(w)
        PROVE  JoinInv'
    <3>1. pc[w] \in Live /\ UNCHANGED <<cpc, members>>
      BY <2>4 DEF RecvKick, SelectMinuteEnd, Live, Busy
    <3>2. \A v \in Workers : pc'[v] \in Live => pc[v] \in Live
      <4>1. CASE \E s \in {"done", "failed", "barrier"} : pc' = [pc EXCEPT ![w] = s]
        BY <3>1, <4>1
      <4>2. CASE pc' = [v \in Workers |-> IF v = w \/ pc[v] = "barrier"
                                         THEN "released" ELSE pc[v]]
        BY <3>1, <4>2 DEF Live
      <4> QED BY <2>4, <4>1, <4>2
              DEF RecvKick, SelectMinuteEnd, NextMinute, Arrive
    <3> QED BY <3>1, <3>2 DEF JoinInv
  <2>5. ASSUME NEW w \in Workers,
               \/ StartMinute(w) \/ SelectQuit(w) \/ SelectSleep(w)
               \/ IssueOk(w) \/ IssueErr(w) \/ LogInvocation(w) \/ Cancel(w)
        PROVE  JoinInv'
    <3>1. PICK s : pc' = [pc EXCEPT ![w] = s]
      BY <2>5 DEF StartMinute, SelectQuit, SelectSleep, IssueOk, IssueErr,
                  LogInvocation, Cancel
    <3>2. pc[w] \in Live /\ UNCHANGED <<cpc, members>>
      BY <2>5 DEF StartMinute, SelectQuit, SelectSleep, IssueOk, IssueErr,
                  LogInvocation, Cancel, Live, Busy
    <3> QED BY <3>1, <3>2 DEF JoinInv
  <2>6. ASSUME NEW w \in Workers, KickErr(w) PROVE JoinInv'
    BY <2>6 DEF KickErr, JoinInv, Live, Busy
  <2>7. CASE LoggerStep \/ LoggerFails \/ Tick \/ UNCHANGED vars
    BY <2>7 DEF LoggerStep, LoggerFails, Tick, vars, JoinInv
  <2> QED
    BY <2>1, <2>2, <2>3, <2>4, <2>5, <2>6, <2>7
    DEF Next, ClientStep, WorkerStep, Terminating
<1> QED BY <1>1, <1>2, TypeCorrect, PTL DEF Spec

\* When run() has left its loop no Worker task is left, however it got there.
THEOREM NoWorkerLeft == Spec => []ReturnLeavesNoWorker
<1>1. JoinInv => ReturnLeavesNoWorker
  BY DEF JoinInv, ReturnLeavesNoWorker
<1> QED BY <1>1, JoinInvariant, PTL

-----------------------------------------------------------------------------
(* No phantom request *)

\* While a Worker sleeps, either the IAT is one the generator produced and not
\* issued yet, or it is the fallback, which ends no earlier than the minute.
BudgetInv ==
  \A w \in Workers :
    /\ budget[w] >= 0
    /\ pc[w] \in {"barrier", "released", "issue", "log"} => budget[w] = left[w]
    /\ pc[w] = "select" =>
         \/ budget[w] = left[w] + 1
         \/ budget[w] = 0 /\ left[w] = 0 /\ gap[w] >= remain[w]

\* The head of the inner loop establishes it: a produced IAT is still to be
\* issued, and the fallback is as long as the whole minute.
LEMMA NextGapBudget ==
  ASSUME TypeOK, BudgetInv, NEW w \in Workers, NextGap(w),
         pc[w] \in {"released", "issue", "log"},
         remain'[w] <= OneMinute, remain'[w] \in Nat,
         pc' = [pc EXCEPT ![w] = "select"],
         \A v \in Workers : v # w => remain'[v] = remain[v],
         UNCHANGED budget
  PROVE  BudgetInv'
<1> USE DEF TypeOK, WorkerTypeOK, SharedTypeOK
<1>1. CASE left[w] = 0
  <2>1. left'[w] = 0 /\ gap'[w] = OneMinute /\ pc'[w] = "select"
    BY <1>1 DEF NextGap
  <2>2. budget'[w] = 0
    BY <1>1 DEF BudgetInv
  <2>3. \A v \in Workers : v # w =>
          /\ left'[v] = left[v] /\ gap'[v] = gap[v] /\ pc'[v] = pc[v]
          /\ budget'[v] = budget[v] /\ remain'[v] = remain[v]
    BY <1>1 DEF NextGap
  <2> QED BY <2>1, <2>2, <2>3 DEF BudgetInv
<1>2. CASE left[w] # 0
  <2>1. left'[w] = left[w] - 1 /\ pc'[w] = "select"
    BY <1>2 DEF NextGap
  <2>2. budget'[w] = left'[w] + 1
    BY <1>2, <2>1 DEF BudgetInv
  <2>3. \A v \in Workers : v # w =>
          /\ left'[v] = left[v] /\ gap'[v] = gap[v] /\ pc'[v] = pc[v]
          /\ budget'[v] = budget[v] /\ remain'[v] = remain[v]
    BY <1>2 DEF NextGap
  <2> QED BY <2>1, <2>2, <2>3 DEF BudgetInv
<1> QED BY <1>1, <1>2

\* It is an invariant: the biased select! lets the minute win.
LEMMA BudgetInvariant == Spec => []BudgetInv
<1>1. Init => BudgetInv
  BY DEF Init, BudgetInv
<1>2. TypeOK /\ BudgetInv /\ [Next]_vars => BudgetInv'
  <2> SUFFICES ASSUME TypeOK, BudgetInv, [Next]_vars PROVE BudgetInv'
    OBVIOUS
  <2> USE DEF clientVars, workerVars, sharedVars, history, TypeOK, WorkerTypeOK,
              SharedTypeOK
  <2>1. CASE UNCHANGED <<pc, left, gap, remain, budget>>
    BY <2>1 DEF BudgetInv
  <2>2. ASSUME NEW w \in Workers, Spawn(w) \/ SelectQuit(w) \/ Cancel(w)
        PROVE  BudgetInv'
    BY <2>2 DEF Spawn, NewWorker, SelectQuit, Cancel, BudgetInv
  <2>3. ASSUME NEW w \in Workers, SpawnFails(w) \/ JoinWorker(w)
        PROVE  BudgetInv'
    BY <2>1, <2>3 DEF SpawnFails, JoinWorker
  <2>4. CASE NewReturns \/ Kick \/ HandleShutdown \/ NoMoreWorkers
             \/ ReapLogger \/ Signal
    BY <2>1, <2>4 DEF NewReturns, Kick, HandleShutdown, NoMoreWorkers,
                      ReapLogger, Signal
  <2>5. ASSUME NEW w \in Workers, RecvKick(w) \/ SelectMinuteEnd(w)
        PROVE  BudgetInv'
    <3>1. NextMinute(w) /\ UNCHANGED <<gap, remain>>
      BY <2>5 DEF RecvKick, SelectMinuteEnd
    <3>2. CASE /\ \E x \in {"done", "failed"} : pc' = [pc EXCEPT ![w] = x]
               /\ UNCHANGED <<left, budget>>
      BY <3>1, <3>2 DEF BudgetInv
    <3>3. ASSUME NEW n \in 0 .. MaxIats, left' = [left EXCEPT ![w] = n],
                 budget' = [budget EXCEPT ![w] = n],
                 Arrive(w, NextActive(minute[w]))
          PROVE  BudgetInv'
      <4>1. pc'[w] \in {"barrier", "released"} /\ budget'[w] = n /\ left'[w] = n
        BY <3>3 DEF Arrive
      <4>2. \A v \in Workers : v # w =>
              /\ left'[v] = left[v] /\ budget'[v] = budget[v]
              /\ gap'[v] = gap[v] /\ remain'[v] = remain[v]
              /\ \/ pc'[v] = pc[v]
                 \/ pc[v] = "barrier" /\ pc'[v] = "released"
        BY <3>1, <3>3 DEF Arrive
      <4> QED BY <4>1, <4>2 DEF BudgetInv
    <3> QED BY <3>1, <3>2, <3>3 DEF NextMinute
  <2>6. ASSUME NEW w \in Workers, KickErr(w) PROVE BudgetInv'
    BY <2>6 DEF KickErr, BudgetInv
  <2>7. ASSUME NEW w \in Workers, StartMinute(w) PROVE BudgetInv'
    <3>1. /\ remain'[w] <= OneMinute /\ remain'[w] \in Nat
          /\ \A v \in Workers : v # w => remain'[v] = remain[v]
      BY <2>7 DEF StartMinute
    <3>2. /\ pc[w] = "released" /\ pc' = [pc EXCEPT ![w] = "select"]
          /\ NextGap(w) /\ UNCHANGED budget
      BY <2>7 DEF StartMinute
    <3> QED BY <3>1, <3>2, NextGapBudget
  <2>8. ASSUME NEW w \in Workers, SelectSleep(w) PROVE BudgetInv'
    BY <2>8 DEF SelectSleep, BudgetInv
  <2>9. ASSUME NEW w \in Workers, IssueOk(w) PROVE BudgetInv'
    <3>1. CASE pc' = [pc EXCEPT ![w] = "log"] /\ UNCHANGED <<left, gap>>
      BY <2>9, <3>1 DEF IssueOk, BudgetInv
    <3>2. CASE pc' = [pc EXCEPT ![w] = "select"] /\ NextGap(w)
      <4>1. pc[w] = "issue" /\ remain' = remain /\ UNCHANGED budget
        BY <2>9 DEF IssueOk
      <4>2. remain'[w] <= OneMinute /\ remain'[w] \in Nat
        BY <4>1
      <4> QED BY <3>2, <4>1, <4>2, NextGapBudget
    <3> QED BY <2>9, <3>1, <3>2 DEF IssueOk
  <2>10. ASSUME NEW w \in Workers, IssueErr(w) \/ LogInvocation(w)
         PROVE  BudgetInv'
    BY <2>10, NextGapBudget DEF IssueErr, LogInvocation
  <2>11. CASE Tick
    BY <2>11 DEF Tick, Ticking, Sleeping, BudgetInv
  <2>12. CASE LoggerStep \/ LoggerFails \/ UNCHANGED vars
    BY <2>1, <2>12 DEF LoggerStep, LoggerFails, vars
  <2> QED
    BY <2>2, <2>3, <2>4, <2>5, <2>6, <2>7, <2>8, <2>9, <2>10, <2>11, <2>12
    DEF Next, ClientStep, WorkerStep, Terminating
<1> QED BY <1>1, <1>2, TypeCorrect, PTL DEF Spec

\* A Worker issues in a minute no more requests than IATs were generated for it,
\* however late its task and its timers run.
THEOREM NoPhantom == Spec => []NoPhantomRequest
<1>1. BudgetInv => NoPhantomRequest
  BY DEF BudgetInv, NoPhantomRequest
<1> QED BY <1>1, BudgetInvariant, PTL

-----------------------------------------------------------------------------
(* Invocation ids *)

\* Every id in use is below the shared counter.
IdsInv ==
  /\ IdsUnique
  /\ \A w \in Workers : /\ \A q \in issuedOk[w] : q.id < nextId
                        /\ pc[w] = "issue" => cur[w] < nextId

\* It is an invariant: SelectSleep takes the counter's value and advances it in
\* one step, as fetch_add does.
LEMMA IdsInvariant == Spec => []IdsInv
<1>1. Init => IdsInv
  BY DEF Init, IdsInv, IdsUnique
<1>2. TypeOK /\ IdsInv /\ [Next]_vars => IdsInv'
  <2> SUFFICES ASSUME TypeOK, IdsInv, [Next]_vars PROVE IdsInv'
    OBVIOUS
  <2> USE DEF clientVars, workerVars, sharedVars, history, TypeOK, WorkerTypeOK,
              SharedTypeOK
  <2>1. ASSUME UNCHANGED <<issuedOk, nextId, cur>>,
               \A w \in Workers : pc'[w] = "issue" => pc[w] = "issue"
        PROVE  IdsInv'
    BY <2>1 DEF IdsInv, IdsUnique
  <2>2. ASSUME NEW w \in Workers,
               \/ Spawn(w) \/ SpawnFails(w) \/ JoinWorker(w) \/ KickErr(w)
               \/ StartMinute(w) \/ SelectQuit(w) \/ IssueErr(w)
               \/ LogInvocation(w) \/ Cancel(w)
        PROVE  IdsInv'
    <3>1. UNCHANGED <<issuedOk, nextId, cur>>
      BY <2>2 DEF Spawn, SpawnFails, JoinWorker, KickErr, StartMinute, SelectQuit,
                  IssueErr, LogInvocation, Cancel
    <3>2. \/ UNCHANGED pc
          \/ \E x \in States \ {"issue"} : pc' = [pc EXCEPT ![w] = x]
      BY <2>2, StateNames DEF Spawn, NewWorker, SpawnFails, JoinWorker, KickErr,
                  StartMinute, SelectQuit, IssueErr, LogInvocation, Cancel
    <3> QED BY <2>1, <3>1, <3>2
  <2>3. CASE NewReturns \/ Kick \/ HandleShutdown \/ NoMoreWorkers
             \/ ReapLogger \/ Signal
    BY <2>1, <2>3 DEF NewReturns, Kick, HandleShutdown, NoMoreWorkers,
                      ReapLogger, Signal
  <2>4. ASSUME NEW w \in Workers, RecvKick(w) \/ SelectMinuteEnd(w)
        PROVE  IdsInv'
    <3>1. \A v \in Workers : pc'[v] = "issue" => pc[v] = "issue"
      <4>1. CASE \E x \in {"done", "failed", "barrier"} :
                   pc' = [pc EXCEPT ![w] = x]
        BY <4>1
      <4>2. CASE pc' = [v \in Workers |-> IF v = w \/ pc[v] = "barrier"
                                         THEN "released" ELSE pc[v]]
        BY <4>2
      <4> QED BY <2>4, <4>1, <4>2
              DEF RecvKick, SelectMinuteEnd, NextMinute, Arrive
    <3> QED BY <2>1, <2>4, <3>1 DEF RecvKick, SelectMinuteEnd
  <2>5. ASSUME NEW w \in Workers, SelectSleep(w) PROVE IdsInv'
    <3>1. /\ cur'[w] = nextId /\ nextId' = nextId + 1 /\ issuedOk' = issuedOk
          /\ \A v \in Workers : v # w => pc'[v] = pc[v] /\ cur'[v] = cur[v]
      BY <2>5 DEF SelectSleep
    <3>2. \A v \in Workers : \A q \in issuedOk[v] : q.id \in Nat /\ q.id < nextId
      BY DEF IdsInv, Pairs
    <3> QED BY <3>1, <3>2 DEF IdsInv, IdsUnique
  <2>6. ASSUME NEW w \in Workers, IssueOk(w) PROVE IdsInv'
    <3>1. /\ pc[w] = "issue" /\ pc'[w] # "issue"
          /\ nextId' = nextId /\ cur' = cur
          /\ \A v \in Workers : v # w => pc'[v] = pc[v]
      BY <2>6 DEF IssueOk
    <3>2. /\ issuedOk'[w] = issuedOk[w] \union {Pair(w)}
          /\ \A v \in Workers : v # w => issuedOk'[v] = issuedOk[v]
      BY <2>6 DEF IssueOk
    <3>3. Pair(w).id = cur[w]
      BY DEF Pair
    <3>4. \A v \in Workers : \A q \in issuedOk[v] : q.id # Pair(w).id
      BY <3>1, <3>3 DEF IdsInv, IdsUnique
    <3>5. \A u, v \in Workers :
            \A p \in issuedOk'[u], q \in issuedOk'[v] : p.id = q.id => p = q
      BY <3>2, <3>4 DEF IdsInv, IdsUnique
    <3>6. \A u, v \in Workers :
            pc'[u] = "issue" => \A q \in issuedOk'[v] : q.id # cur[u]
      BY <3>1, <3>2, <3>3 DEF IdsInv, IdsUnique
    <3>7. \A v \in Workers : \A q \in issuedOk'[v] : q.id < nextId
      BY <3>1, <3>2, <3>3 DEF IdsInv
    <3> QED BY <3>1, <3>5, <3>6, <3>7 DEF IdsInv, IdsUnique
  <2>7. CASE LoggerStep \/ LoggerFails \/ Tick \/ UNCHANGED vars
    BY <2>1, <2>7 DEF LoggerStep, LoggerFails, Tick, vars
  <2> QED
    BY <2>2, <2>3, <2>4, <2>5, <2>6, <2>7
    DEF Next, ClientStep, WorkerStep, Terminating
<1> QED BY <1>1, <1>2, TypeCorrect, PTL DEF Spec

\* Every invocation id is used once, by one Worker.
THEOREM UniqueIds == Spec => []IdsUnique
<1>1. IdsInv => IdsUnique
  BY DEF IdsInv
<1> QED BY <1>1, IdsInvariant, PTL

-----------------------------------------------------------------------------
(* What is counted *)

\* A Worker's count is that of the pairs it got accepted, and they bear its name.
IssuedInv ==
  \A w \in Workers : /\ IsFiniteSet(issuedOk[w])
                     /\ \A p \in issuedOk[w] : p.fn = w
                     /\ reqs[w] = Cardinality(issuedOk[w])

\* It is an invariant: an accepted request has an id that no request before it
\* had.
LEMMA IssuedInvariant == Spec => []IssuedInv
<1>1. Init => IssuedInv
  BY FS_EmptySet DEF Init, IssuedInv
<1>2. TypeOK /\ IdsInv /\ IssuedInv /\ [Next]_vars => IssuedInv'
  <2>. SUFFICES ASSUME TypeOK, IdsInv, IssuedInv, [Next]_vars PROVE IssuedInv'
    OBVIOUS
  <2>. USE DEF clientVars, workerVars, sharedVars, history
  <2>1. CASE UNCHANGED <<issuedOk, reqs>>
    BY <2>1 DEF IssuedInv
  <2>2. ASSUME NEW w \in Workers, IssueOk(w) PROVE IssuedInv'
    <3>1. /\ issuedOk \in [Workers -> SUBSET Pairs] /\ reqs \in [Workers -> Nat]
          /\ pc[w] = "issue" /\ reqs' = [reqs EXCEPT ![w] = @ + 1]
          /\ issuedOk' = [issuedOk EXCEPT ![w] = @ \union {Pair(w)}]
      BY <2>2 DEF IssueOk, TypeOK, WorkerTypeOK, SharedTypeOK
    <3>2. Pair(w).id = cur[w] /\ Pair(w).fn = w
      BY DEF Pair
    <3>3. Pair(w) \notin issuedOk[w]
      BY <3>1, <3>2 DEF IdsInv, IdsUnique
    <3>4. /\ IsFiniteSet(issuedOk[w] \union {Pair(w)})
          /\ Cardinality(issuedOk[w] \union {Pair(w)}) = Cardinality(issuedOk[w]) + 1
      BY <3>3, FS_AddElement DEF IssuedInv
    <3>. QED
      BY <3>1, <3>2, <3>4 DEF IssuedInv
  <2>3. ASSUME NEW w \in Workers,
               \/ Spawn(w) \/ SpawnFails(w) \/ JoinWorker(w) \/ RecvKick(w)
               \/ KickErr(w) \/ StartMinute(w) \/ SelectQuit(w)
               \/ SelectMinuteEnd(w) \/ SelectSleep(w) \/ IssueErr(w)
               \/ LogInvocation(w) \/ Cancel(w)
        PROVE  UNCHANGED <<issuedOk, reqs>>
    BY <2>3 DEF Spawn, NewWorker, SpawnFails, JoinWorker, RecvKick, KickErr, StartMinute,
                SelectQuit, SelectMinuteEnd, SelectSleep, IssueErr,
                LogInvocation, Cancel
  <2>4. CASE NewReturns \/ Kick \/ HandleShutdown \/ NoMoreWorkers
             \/ ReapLogger \/ Signal
    BY <2>1, <2>4 DEF NewReturns, Kick, HandleShutdown, NoMoreWorkers,
                      ReapLogger, Signal
  <2>5. CASE LoggerStep \/ LoggerFails \/ Tick \/ UNCHANGED vars
    BY <2>1, <2>5 DEF LoggerStep, LoggerFails, Tick, vars
  <2>. QED
    BY <2>1, <2>2, <2>3, <2>4, <2>5 DEF Next, ClientStep, WorkerStep, Terminating
<1>. QED
  BY <1>1, <1>2, TypeCorrect, IdsInvariant, PTL DEF Spec

\* The requests of all Workers add up to those that were issued: no two Workers
\* have an accepted pair in common.
LEMMA RequestsAddUp ==
  ASSUME TypeOK, IssuedInv
  PROVE  SumFunctionOnSet(reqs, Workers) = Cardinality(AllIssued)
<1>. DEFINE one == [p \in AllIssued |-> 1]
<1>1. /\ AllIssued = UNION {issuedOk[w] : w \in Workers}
      /\ \A p \in AllIssued : one[p] = 1 /\ one[p] \in Int
      /\ \A w \in Workers : issuedOk[w] \subseteq AllIssued
  BY DEF AllIssued
<1>. HIDE DEF one
<1>2. \A w \in Workers : IsFiniteSet(issuedOk[w])
  BY DEF IssuedInv
<1>3. \A v, w \in Workers : v # w => issuedOk[v] \intersect issuedOk[w] = {}
  BY DEF IssuedInv
<1>4. IsFiniteSet(AllIssued)
  <2>. DEFINE All == {issuedOk[w] : w \in Workers}
              f == [w \in Workers |-> issuedOk[w]]
  <2>1. f \in Surjection(Workers, All)
    BY DEF Surjection
  <2>. HIDE DEF f, All
  <2>2. IsFiniteSet(All)
    BY <2>1, FS_Surjection
  <2>3. \A T \in All : IsFiniteSet(T)
    BY <1>2 DEF All
  <2>. QED
    BY <1>1, <2>2, <2>3, FS_UNION DEF All
<1>5. ASSUME NEW w \in Workers
      PROVE  reqs[w] = SumFunctionOnSet(one, issuedOk[w])
  <2>1. SumFunctionOnSet(one, issuedOk[w]) = Cardinality(issuedOk[w]) * 1
    BY <1>1, <1>2, 1 \in Int, SumConstant
  <2>2. reqs[w] = Cardinality(issuedOk[w]) /\ Cardinality(issuedOk[w]) \in Nat
    BY <1>2, FS_CardinalityType DEF IssuedInv
  <2>. QED
    BY <2>1, <2>2
<1>6. SumFunctionOnSet(reqs, Workers) = SumFunctionOnSet(one, AllIssued)
  BY <1>1, <1>2, <1>3, <1>5, SumPartition
<1>7. SumFunctionOnSet(one, AllIssued) = Cardinality(AllIssued) * 1
  BY <1>1, <1>4, 1 \in Int, SumConstant
<1>8. Cardinality(AllIssued) \in Nat
  BY <1>4, FS_CardinalityType
<1>. QED
  BY <1>6, <1>7, <1>8

\* The Workers that returned Ok and were joined.
Joined == {w \in Workers \ members : pc[w] = "done"}

\* run() has added up their counts.
TotalInv == total = SumFunctionOnSet(reqs, Joined)

\* A step that neither joins a Worker nor moves one that was joined adds nothing.
LEMMA SameTotal ==
  ASSUME TypeOK, TotalInv, total' = total, Joined' = Joined,
         reqs' \in [Workers -> Nat],
         \A w \in Joined : reqs'[w] = reqs[w]
  PROVE  TotalInv'
<1>1. IsFiniteSet(Joined) /\ \A w \in Joined : reqs[w] \in Int /\ reqs'[w] = reqs[w]
  BY FS_Subset DEF Joined, TypeOK, WorkerTypeOK
<1>2. SumFunctionOnSet(reqs', Joined) = SumFunctionOnSet(reqs, Joined)
  BY <1>1, SumEqual
<1>. QED
  BY <1>2 DEF TotalInv

\* Who is still at work was not joined.
LEMMA WorkersOut ==
  ASSUME KickInv, JoinInv, NEW w \in Workers, cpc \notin Stopped,
         pc[w] \in Busy \/ (pc[w] = "kick" /\ inbox[w] # 0)
  PROVE  w \in members
BY DEF KickInv, JoinInv, Stopped, Live, Busy

\* TotalInv is an invariant: a Worker's count does not change any more when it is
\* joined, and one that was joined does not come back to work.
LEMMA TotalInvariant == Spec => []TotalInv
<1>1. Init => TotalInv
  <2>. SUFFICES ASSUME Init PROVE TotalInv
    OBVIOUS
  <2>1. Joined = {} /\ total = 0
    BY DEF Init, Joined
  <2>. QED
    BY <2>1, SumEmpty DEF TotalInv
<1>2. TypeOK /\ KickInv /\ JoinInv /\ TotalInv /\ [Next]_vars /\ TypeOK' => TotalInv'
  <2>. SUFFICES ASSUME TypeOK, KickInv, JoinInv, TotalInv, [Next]_vars, TypeOK'
                PROVE  TotalInv'
    OBVIOUS
  <2>. USE DEF clientVars, workerVars, sharedVars, history
  <2>0. /\ pc \in [Workers -> States] /\ reqs \in [Workers -> Nat]
        /\ reqs' \in [Workers -> Nat] /\ members \subseteq Workers
    BY DEF TypeOK, WorkerTypeOK, ClientTypeOK
  <2>1. ASSUME UNCHANGED <<total, reqs>>, Joined' = Joined PROVE TotalInv'
    BY <2>0, <2>1, SameTotal
  <2>2. CASE UNCHANGED <<total, reqs, members, pc>>
    BY <2>1, <2>2 DEF Joined
  <2>3. ASSUME NEW w \in Workers, Spawn(w) PROVE TotalInv'
    <3>1. /\ pc[w] = "none" /\ pc' = [pc EXCEPT ![w] = "kick"]
          /\ members' = members \union {w} /\ UNCHANGED <<total, reqs>>
      BY <2>3 DEF Spawn, NewWorker
    <3>2. Joined' = Joined
      BY <2>0, <3>1 DEF Joined
    <3>. QED
      BY <2>1, <3>1, <3>2
  <2>4. ASSUME NEW w \in Workers, SpawnFails(w) PROVE TotalInv'
    <3>1. \A v \in Workers : pc[v] # "done"
      BY <2>4 DEF SpawnFails, KickInv
    <3>2. UNCHANGED <<total, reqs, pc>>
      BY <2>4 DEF SpawnFails
    <3>3. Joined' = Joined
      BY <3>1, <3>2 DEF Joined
    <3>. QED
      BY <2>1, <3>2, <3>3
  <2>5. ASSUME NEW w \in Workers, JoinWorker(w) PROVE TotalInv'
    <3>1. /\ w \in members /\ members' = members \ {w} /\ UNCHANGED <<pc, reqs>>
          /\ total' = IF pc[w] = "done" THEN total + reqs[w] ELSE total
      BY <2>5 DEF JoinWorker
    <3>2. CASE pc[w] # "done"
      <4>1. Joined' = Joined
        BY <2>0, <3>1, <3>2 DEF Joined
      <4>. QED
        BY <2>1, <3>1, <3>2, <4>1
    <3>3. CASE pc[w] = "done"
      <4>1. Joined' = Joined \union {w} /\ w \notin Joined
        BY <2>0, <3>1, <3>3 DEF Joined
      <4>2. IsFiniteSet(Joined)
        BY FS_Subset DEF Joined
      <4>3. \A v \in Joined \union {w} : reqs[v] \in Int
        BY <2>0 DEF Joined
      <4>4. SumFunctionOnSet(reqs, Joined \union {w})
              = SumFunctionOnSet(reqs, Joined) + reqs[w]
        BY <4>1, <4>2, <4>3, SumAdd
      <4>. QED
        BY <3>1, <3>3, <4>1, <4>4 DEF TotalInv
    <3>. QED
      BY <3>2, <3>3
  <2>6. CASE NewReturns \/ Kick \/ HandleShutdown \/ NoMoreWorkers
             \/ ReapLogger \/ Signal
    BY <2>2, <2>6 DEF NewReturns, Kick, HandleShutdown, NoMoreWorkers,
                      ReapLogger, Signal
  <2>7. ASSUME NEW w \in Workers, cpc \notin Stopped, RecvKick(w) \/ SelectMinuteEnd(w)
        PROVE  TotalInv'
    <3>1. /\ UNCHANGED <<total, reqs, members>> /\ NextMinute(w)
          /\ pc[w] \in Busy \/ (pc[w] = "kick" /\ inbox[w] # 0)
      BY <2>7 DEF RecvKick, SelectMinuteEnd, Busy
    <3>2. w \in members
      BY <2>7, <3>1, WorkersOut
    <3>3. \A v \in Workers : v # w => (pc'[v] = "done" <=> pc[v] = "done")
      <4>1. CASE \E x \in {"done", "failed", "barrier"} :
                   pc' = [pc EXCEPT ![w] = x]
        BY <2>0, <4>1
      <4>2. CASE pc' = [v \in Workers |-> IF v = w \/ pc[v] = "barrier"
                                         THEN "released" ELSE pc[v]]
        BY <2>0, <4>2
      <4>. QED
        BY <3>1, <4>1, <4>2 DEF NextMinute, Arrive
    <3>4. Joined' = Joined
      BY <3>1, <3>2, <3>3 DEF Joined
    <3>. QED
      BY <2>1, <3>1, <3>4
  <2>8. ASSUME NEW w \in Workers, cpc \notin Stopped,
               \/ StartMinute(w) \/ SelectQuit(w) \/ SelectSleep(w)
               \/ IssueOk(w) \/ IssueErr(w) \/ LogInvocation(w)
        PROVE  TotalInv'
    <3>1. PICK s : pc' = [pc EXCEPT ![w] = s]
      BY <2>8 DEF StartMinute, SelectQuit, SelectSleep, IssueOk, IssueErr,
                  LogInvocation
    <3>2. pc[w] \in Busy /\ UNCHANGED <<total, members>>
      BY <2>8 DEF StartMinute, SelectQuit, SelectSleep, IssueOk, IssueErr,
                  LogInvocation, Busy
    <3>3. w \in members
      BY <2>8, <3>2, WorkersOut
    <3>4. \A v \in Workers : v # w => pc'[v] = pc[v]
      BY <2>0, <3>1
    <3>5. Joined' = Joined
      BY <3>2, <3>3, <3>4 DEF Joined
    <3>6. \A v \in Workers : v # w => reqs'[v] = reqs[v]
      BY <2>0, <2>8 DEF StartMinute, SelectQuit, SelectSleep, IssueOk, IssueErr,
                        LogInvocation
    <3>7. \A v \in Joined : reqs'[v] = reqs[v]
      BY <3>3, <3>6 DEF Joined
    <3>. QED
      BY <2>0, <3>2, <3>5, <3>7, SameTotal
  <2>9. ASSUME NEW w \in Workers, KickErr(w) \/ Cancel(w) PROVE TotalInv'
    <3>1. /\ UNCHANGED <<total, reqs, members>>
          /\ pc[w] \in Live
          /\ \/ pc' = pc
             \/ \E s \in {"panicked", "cancelled"} : pc' = [pc EXCEPT ![w] = s]
      BY <2>9 DEF KickErr, Cancel, Live
    <3>2. \A v \in Workers : pc'[v] = "done" <=> pc[v] = "done"
      BY <2>0, <3>1 DEF Live, Busy
    <3>3. Joined' = Joined
      BY <3>1, <3>2 DEF Joined
    <3>. QED
      BY <2>1, <3>1, <3>3
  <2>10. CASE LoggerStep \/ LoggerFails \/ Tick \/ UNCHANGED vars
    BY <2>2, <2>10 DEF LoggerStep, LoggerFails, Tick, vars
  <2>. QED
    BY <2>2, <2>3, <2>4, <2>5, <2>6, <2>7, <2>8, <2>9, <2>10
    DEF Next, ClientStep, WorkerStep, Terminating
<1>. QED
  BY <1>1, <1>2, TypeCorrect, KickInvariant, JoinInvariant, PTL DEF Spec

\* The count that run() returns is never more than the requests that the backends
\* accepted, and exactly those when every Worker returned Ok.
THEOREM CountReturned == Spec => []TotalCountsIssued
<1>1. TypeOK /\ IssuedInv /\ JoinInv /\ TotalInv => TotalCountsIssued
  <2>. SUFFICES ASSUME TypeOK, IssuedInv, JoinInv, TotalInv
                PROVE  TotalCountsIssued
    OBVIOUS
  <2>1. SumFunctionOnSet(reqs, Workers) = Cardinality(AllIssued)
    BY RequestsAddUp
  <2>2. Joined \in SUBSET Workers /\ \A w \in Workers : reqs[w] \in Nat
    BY DEF Joined, TypeOK, WorkerTypeOK
  <2>3. SumFunctionOnSet(reqs, Joined) <= SumFunctionOnSet(reqs, Workers)
    BY <2>2, SumSubset
  <2>4. cpc = "done" /\ (\A w \in Workers : pc[w] = "done") => Joined = Workers
    BY DEF JoinInv, Joined
  <2>. QED
    BY <2>1, <2>3, <2>4 DEF TotalInv, TotalCountsIssued
<1>. QED
  BY <1>1, TypeCorrect, IssuedInvariant, JoinInvariant, TotalInvariant, PTL

-----------------------------------------------------------------------------
(* The invocation log *)

\* What is in a sequence, and that nothing is in it twice.
Lines(s) == {s[i] : i \in DOMAIN s}
Once(s)  == \A i, j \in DOMAIN s : s[i] = s[j] => i = j

\* Appending adds an element, which is there once if it is new.
LEMMA AppendLines ==
  ASSUME NEW S, NEW s \in Seq(S), NEW e \in S
  PROVE  /\ Lines(Append(s, e)) = Lines(s) \union {e}
         /\ Once(s) /\ e \notin Lines(s) => Once(Append(s, e))
<1>. DEFINE n == Len(s)
            a == Append(s, e)
<1>1. /\ n \in Nat /\ DOMAIN s = 1 .. n /\ DOMAIN a = 1 .. n + 1
      /\ \A i \in 1 .. n : a[i] = s[i]
      /\ a[n + 1] = e
  OBVIOUS
<1>. HIDE DEF n, a
<1>2. \A i \in 1 .. n + 1 : i \in 1 .. n \/ i = n + 1
  BY <1>1
<1>3. n + 1 \in 1 .. n + 1 /\ \A i \in 1 .. n : i \in 1 .. n + 1
  BY <1>1
<1>4. Lines(a) = Lines(s) \union {e}
  BY <1>1, <1>2, <1>3 DEF Lines
<1>5. ASSUME Once(s), e \notin Lines(s) PROVE Once(a)
  BY <1>1, <1>2, <1>5 DEF Once, Lines
<1>. QED
  BY <1>4, <1>5 DEF a

\* The head is the element that is not in the tail.
LEMMA TailLines ==
  ASSUME NEW S, NEW s \in Seq(S), s # << >>
  PROVE  /\ Head(s) \in S
         /\ Lines(s) = {Head(s)} \union Lines(Tail(s))
         /\ Once(s) => Once(Tail(s)) /\ Head(s) \notin Lines(Tail(s))
<1>. DEFINE n == Len(s)
            q == Tail(s)
            h == Head(s)
<1>1. /\ n \in Nat \ {0} /\ DOMAIN s = 1 .. n /\ DOMAIN q = 1 .. n - 1
      /\ \A i \in 1 .. n - 1 : q[i] = s[i + 1]
      /\ h = s[1] /\ h \in S
  OBVIOUS
<1>. HIDE DEF n, q, h
<1>2. /\ 1 \in 1 .. n
      /\ \A i \in 1 .. n : i = 1 \/ (i - 1 \in 1 .. n - 1 /\ (i - 1) + 1 = i)
      /\ \A i \in 1 .. n - 1 : i + 1 \in 1 .. n /\ i + 1 # 1
  BY <1>1
<1>3. Lines(s) = {h} \union Lines(q)
  <2>1. ASSUME NEW i \in 1 .. n PROVE s[i] \in {h} \union Lines(q)
    <3>1. CASE i = 1
      BY <1>1, <3>1
    <3>2. CASE i # 1
      <4>1. i - 1 \in 1 .. n - 1 /\ q[i - 1] = s[i]
        BY <1>1, <1>2, <3>2
      <4>. QED
        BY <1>1, <4>1 DEF Lines
    <3>. QED
      BY <3>1, <3>2
  <2>2. ASSUME NEW i \in 1 .. n - 1 PROVE q[i] \in Lines(s)
    BY <1>1, <1>2 DEF Lines
  <2>3. h \in Lines(s)
    BY <1>1, <1>2 DEF Lines
  <2>. QED
    BY <1>1, <2>1, <2>2, <2>3 DEF Lines
<1>4. ASSUME Once(s) PROVE Once(q) /\ h \notin Lines(q)
  <2>1. ASSUME NEW i \in 1 .. n - 1, NEW j \in 1 .. n - 1, q[i] = q[j]
        PROVE  i = j
    <3>1. s[i + 1] = s[j + 1] /\ i + 1 \in DOMAIN s /\ j + 1 \in DOMAIN s
      BY <1>1, <1>2, <2>1
    <3>2. i + 1 = j + 1
      BY <1>4, <3>1 DEF Once
    <3>. QED
      BY <3>2
  <2>2. ASSUME NEW i \in 1 .. n - 1 PROVE q[i] # h
    <3>1. q[i] = s[i + 1] /\ h = s[1] /\ i + 1 \in DOMAIN s /\ 1 \in DOMAIN s /\ i + 1 # 1
      BY <1>1, <1>2
    <3>. QED
      BY <1>4, <3>1 DEF Once
  <2>. QED
    BY <1>1, <2>1, <2>2 DEF Once, Lines
<1>. QED
  BY <1>1, <1>3, <1>4 DEF q, h

\* Every pair that log() has taken or given up, while the thread has not failed.
Accepted == Lines(logFile) \union Lines(logq) \union lost

\* Where the accepted pairs of a Worker are: an invocation whose log() has not
\* returned is nowhere yet, the others are in the file, in the channel or lost,
\* and none in two places.  A thread that returned Ok has left nothing behind.
LogInv ==
  /\ lpc \in {"idle", "run", "done"} => InvLog
  /\ lpc = "done" => AllTerminal /\ logq = << >>
  /\ Accepted \subseteq AllIssued
  /\ Lines(logFile) \intersect Lines(logq) = {}
  /\ (Lines(logFile) \union Lines(logq)) \intersect lost = {}
  /\ Once(logFile) /\ Once(logq)
  /\ \A w \in Workers :
       /\ pc[w] = "log" => Pair(w) \in issuedOk[w] /\ Pair(w) \notin Accepted
       /\ lpc \in {"idle", "run", "done"} /\ pc[w] # "cancelled" =>
            \A p \in issuedOk[w] : p \in Accepted \/ (pc[w] = "log" /\ p = Pair(w))

\* A step that touches neither the log nor what was issued keeps it, unless it
\* takes a Worker out of log() or out of its end.
LEMMA LogApart ==
  ASSUME LogInv, UNCHANGED <<logq, logFile, lost, issuedOk>>,
         lpc' = lpc \/ lpc' = "off" \/ (lpc = "idle" /\ lpc' = "run"),
         \A w \in Workers : /\ pc'[w] = "log" => pc[w] = "log" /\ cur'[w] = cur[w]
                            /\ pc[w] = "log" => pc'[w] \in {"log", "cancelled"}
                            /\ pc[w] = "cancelled" => pc'[w] = "cancelled"
                            /\ pc[w] \in Terminal => pc'[w] \in Terminal
  PROVE  LogInv'
<1>1. Accepted' = Accepted /\ AllIssued' = AllIssued
  BY DEF Accepted, AllIssued
<1>2. \A w \in Workers : pc'[w] = "log" => Pair(w)' = Pair(w)
  BY DEF Pair
<1>3. /\ lpc' \in {"idle", "run", "done"} => lpc \in {"idle", "run", "done"}
      /\ lpc' = "done" => lpc = "done"
  OBVIOUS
<1>4. lpc' = "done" => AllTerminal'
  BY <1>3 DEF LogInv, AllTerminal
<1>5. ASSUME NEW w \in Workers
      PROVE  /\ pc'[w] = "log" => /\ Pair(w)' \in issuedOk[w]
                                  /\ Pair(w)' \notin Accepted
             /\ lpc' \in {"idle", "run", "done"} /\ pc'[w] # "cancelled" =>
                  \A p \in issuedOk[w] :
                    p \in Accepted \/ (pc'[w] = "log" /\ p = Pair(w)')
  BY <1>2, <1>3 DEF LogInv
<1>. QED
  BY <1>1, <1>3, <1>4, <1>5 DEF LogInv

\* One Worker moves, not into log() nor out of it but by being cancelled, and the
\* log stays as it is.
LEMMA OneMovesLog ==
  ASSUME TypeOK, LogInv, NEW w \in Workers, NEW s,
         pc' = [pc EXCEPT ![w] = s],
         \/ pc[w] = "none" /\ s = "kick"
         \/ pc[w] \in {"kick", "released", "select", "issue"}
            /\ s \in {"select", "issue", "done", "failed", "barrier", "panicked"}
         \/ pc[w] \in Live /\ s = "cancelled",
         \A v \in Workers : v # w => cur'[v] = cur[v],
         UNCHANGED <<lpc, logq, logFile, lost, issuedOk>>
  PROVE  LogInv'
<1>1. /\ pc'[w] = s /\ \A v \in Workers : v # w => pc'[v] = pc[v]
  BY DEF TypeOK, WorkerTypeOK
<1>2. ASSUME NEW v \in Workers
      PROVE  /\ pc'[v] = "log" => pc[v] = "log" /\ cur'[v] = cur[v]
             /\ pc[v] = "log" => pc'[v] \in {"log", "cancelled"}
             /\ pc[v] = "cancelled" => pc'[v] = "cancelled"
             /\ pc[v] \in Terminal => pc'[v] \in Terminal
  BY <1>1 DEF Live, Busy, Terminal
<1>. QED
  BY <1>2, LogApart

\* An accepted request is new to the log, and on its way to it if there is one.
LEMMA IssueLogs ==
  ASSUME TypeOK, IdsInv, IssuedInv, LogInv, NEW w \in Workers, IssueOk(w)
  PROVE  LogInv'
<1>. USE DEF clientVars, sharedVars, logVars
<1>1. /\ pc \in [Workers -> States] /\ issuedOk \in [Workers -> SUBSET Pairs]
      /\ pc[w] = "issue" /\ UNCHANGED <<cur, lpc, logq, logFile, lost>>
      /\ issuedOk' = [issuedOk EXCEPT ![w] = @ \union {Pair(w)}]
      /\ pc' = [pc EXCEPT ![w] = IF InvLog THEN "log" ELSE "select"]
  BY DEF IssueOk, TypeOK, WorkerTypeOK, SharedTypeOK
<1>2. /\ issuedOk'[w] = issuedOk[w] \union {Pair(w)}
      /\ pc'[w] = IF InvLog THEN "log" ELSE "select"
      /\ \A v \in Workers : v # w => issuedOk'[v] = issuedOk[v] /\ pc'[v] = pc[v]
  BY <1>1
<1>3. Pair(w) \notin AllIssued
  <2>1. Pair(w).id = cur[w]
    BY DEF Pair
  <2>2. \A v \in Workers : Pair(w) \notin issuedOk[v]
    BY <1>1, <2>1 DEF IdsInv, IdsUnique
  <2>. QED
    BY <2>2 DEF AllIssued
<1>4. /\ Accepted' = Accepted /\ \A v \in Workers : Pair(v)' = Pair(v)
      /\ AllIssued \subseteq AllIssued'
  BY <1>1, <1>2 DEF Accepted, Pair, AllIssued
<1>5. lpc # "done"
  BY <1>1 DEF LogInv, AllTerminal, Terminal
<1>6. Accepted \subseteq AllIssued' /\ Pair(w) \notin Accepted
  BY <1>3, <1>4 DEF LogInv
<1>7. ASSUME NEW v \in Workers
      PROVE  /\ pc'[v] = "log" => Pair(v) \in issuedOk'[v] /\ Pair(v) \notin Accepted
             /\ lpc \in {"idle", "run", "done"} /\ pc'[v] # "cancelled" =>
                  \A p \in issuedOk'[v] :
                    p \in Accepted \/ (pc'[v] = "log" /\ p = Pair(v))
  <2>1. CASE v = w
    BY <1>1, <1>2, <1>6, <2>1 DEF LogInv
  <2>2. CASE v # w
    BY <1>2, <2>2 DEF LogInv
  <2>. QED
    BY <2>1, <2>2
<1>. QED
  BY <1>1, <1>4, <1>5, <1>6, <1>7 DEF LogInv

\* log() puts the pair into the channel or gives it up.
LEMMA LogCallKeeps ==
  ASSUME TypeOK, LogInv, NEW w \in Workers, LogInvocation(w)
  PROVE  LogInv'
<1>. USE DEF clientVars, sharedVars, history
<1>. DEFINE e == Pair(w)
<1>1. /\ pc \in [Workers -> States] /\ logq \in Seq(Pairs) /\ e \in Pairs
      /\ pc[w] = "log" /\ UNCHANGED <<cur, issuedOk, lpc, logFile>>
      /\ pc' = [pc EXCEPT ![w] = "select"]
      /\ \/ logq' = Append(logq, e) /\ lost' = lost
         \/ logq' = logq /\ lost' = lost \union {e}
  BY PairType DEF LogInvocation, LogSend, LogGiveUp, TypeOK, WorkerTypeOK, LogTypeOK
<1>2. /\ pc'[w] = "select" /\ \A v \in Workers : v # w => pc'[v] = pc[v]
      /\ \A v \in Workers : Pair(v)' = Pair(v)
      /\ AllIssued' = AllIssued
  BY <1>1 DEF Pair, AllIssued
<1>3. e \in issuedOk[w] /\ e \in AllIssued /\ e \notin Accepted
  BY <1>1 DEF LogInv, AllIssued
<1>4. lpc # "done"
  BY <1>1 DEF LogInv, AllTerminal, Terminal
<1>5. e.fn = w /\ \A v \in Workers : Pair(v).fn = v
  BY DEF Pair
<1>. HIDE DEF e
<1>6. \/ Lines(logq') = Lines(logq) \union {e} /\ lost' = lost
      \/ Lines(logq') = Lines(logq) /\ lost' = lost \union {e}
  BY <1>1, AppendLines
<1>7. Once(logq')
  <2>1. e \notin Lines(logq) /\ Once(logq)
    BY <1>3 DEF LogInv, Accepted
  <2>2. CASE logq' = Append(logq, e)
    BY <1>1, <2>1, <2>2, AppendLines
  <2>3. CASE logq' = logq
    BY <2>1, <2>3 DEF Once
  <2>. QED
    BY <1>1, <2>2, <2>3
<1>8. Accepted' = Accepted \union {e} /\ Lines(logFile)' = Lines(logFile)
  BY <1>1, <1>6 DEF Accepted
<1>9. /\ Lines(logFile) \intersect Lines(logq') = {}
      /\ (Lines(logFile) \union Lines(logq')) \intersect lost' = {}
  BY <1>3, <1>6 DEF LogInv, Accepted
<1>10. ASSUME NEW v \in Workers
       PROVE  /\ pc'[v] = "log" => Pair(v) \in issuedOk[v] /\ Pair(v) \notin Accepted'
              /\ lpc \in {"idle", "run", "done"} /\ pc'[v] # "cancelled" =>
                   \A p \in issuedOk[v] :
                     p \in Accepted' \/ (pc'[v] = "log" /\ p = Pair(v))
  <2>1. CASE v = w
    BY <1>1, <1>2, <1>8, <2>1 DEF LogInv, e
  <2>2. CASE v # w
    BY <1>2, <1>5, <1>8, <2>2 DEF LogInv
  <2>. QED
    BY <2>1, <2>2
<1>. QED
  BY <1>1, <1>2, <1>3, <1>4, <1>7, <1>8, <1>9, <1>10 DEF LogInv

\* The thread writes a line, ends, or fails.
LEMMA LoggerKeeps ==
  ASSUME TypeOK, LogInv, LoggerStep \/ LoggerFails
  PROVE  LogInv'
<1>. USE DEF clientVars, workerVars, sharedVars, history
<1>1. /\ UNCHANGED <<pc, cur, issuedOk, lost>>
      /\ logFile \in Seq(Pairs) /\ logq \in Seq(Pairs)
  BY DEF LoggerStep, LoggerFails, LoggerWrite, LoggerExit, LoggerWriteFails,
         TypeOK, LogTypeOK
<1>2. AllIssued' = AllIssued /\ \A w \in Workers : Pair(w)' = Pair(w)
  BY <1>1 DEF AllIssued, Pair
<1>3. CASE LoggerWrite
  <2>. DEFINE h == Head(logq)
              q == Tail(logq)
  <2>1. /\ lpc = "run" /\ lpc' = lpc /\ logq # << >>
        /\ logFile' = Append(logFile, h) /\ logq' = q
    BY <1>3 DEF LoggerWrite
  <2>2. /\ h \in Pairs /\ Lines(logq) = {h} \union Lines(q)
        /\ Once(q) /\ h \notin Lines(q)
    BY <1>1, <2>1, TailLines DEF LogInv
  <2>. HIDE DEF h, q
  <2>3. h \notin Lines(logFile) /\ h \notin lost
    BY <2>2 DEF LogInv
  <2>4. Lines(logFile') = Lines(logFile) \union {h} /\ Once(logFile')
    BY <1>1, <2>1, <2>2, <2>3, AppendLines DEF LogInv
  <2>5. Accepted' = Accepted
    BY <1>1, <2>1, <2>2, <2>4 DEF Accepted
  <2>6. /\ Lines(logFile') \intersect Lines(q) = {}
        /\ (Lines(logFile') \union Lines(q)) \intersect lost = {}
    BY <2>2, <2>3, <2>4 DEF LogInv
  <2>. QED
    BY <1>1, <1>2, <2>1, <2>2, <2>4, <2>5, <2>6 DEF LogInv
<1>4. CASE LoggerExit(AllTerminal)
  <2>1. /\ lpc = "run" /\ AllTerminal /\ logq = << >> /\ UNCHANGED <<logq, logFile>>
        /\ lpc' \in {"done", "error"}
    BY <1>4 DEF LoggerExit
  <2>2. Accepted' = Accepted /\ AllTerminal'
    BY <1>1, <2>1 DEF Accepted, AllTerminal
  <2>. QED
    BY <1>1, <1>2, <2>1, <2>2 DEF LogInv
<1>5. CASE LoggerWriteFails
  <2>1. lpc' = "error" /\ logq' = << >> /\ logFile' = logFile
    BY <1>5 DEF LoggerWriteFails
  <2>2. Lines(logq') = {} /\ Once(logq')
    BY <2>1 DEF Lines, Once
  <2>3. Accepted' \subseteq Accepted
    BY <1>1, <2>1, <2>2 DEF Accepted
  <2>. QED
    BY <1>1, <1>2, <2>1, <2>2, <2>3 DEF LogInv
<1>. QED
  BY <1>3, <1>4, <1>5 DEF LoggerStep, LoggerFails

\* It is an invariant.
LEMMA LogInvariant == Spec => []LogInv
<1>1. Init => LogInv
  <2>. SUFFICES ASSUME Init PROVE LogInv
    OBVIOUS
  <2>1. /\ lpc = IF InvLog THEN "idle" ELSE "off"
        /\ logq = << >> /\ logFile = << >> /\ lost = {}
        /\ \A w \in Workers : pc[w] = "none" /\ issuedOk[w] = {}
    BY DEF Init, LogInit
  <2>2. Lines(logq) = {} /\ Lines(logFile) = {} /\ Once(logq) /\ Once(logFile)
    BY <2>1 DEF Lines, Once
  <2>. QED
    BY <2>1, <2>2 DEF LogInv, Accepted
<1>2. TypeOK /\ IdsInv /\ IssuedInv /\ LogInv /\ [Next]_vars => LogInv'
  <2>. SUFFICES ASSUME TypeOK, IdsInv, IssuedInv, LogInv, [Next]_vars PROVE LogInv'
    OBVIOUS
  <2>. USE DEF clientVars, workerVars, sharedVars, history, logVars
  <2>1. CASE UNCHANGED <<pc, cur, lpc, logq, logFile, lost, issuedOk>>
    BY <2>1, LogApart
  <2>2. ASSUME NEW w \in Workers, Spawn(w) \/ Cancel(w) PROVE LogInv'
    BY <2>2, OneMovesLog DEF Spawn, NewWorker, Cancel
  <2>3. ASSUME NEW w \in Workers, SpawnFails(w) PROVE LogInv'
    BY <2>3, LogApart DEF SpawnFails
  <2>4. CASE NewReturns
    BY <2>4, LogApart DEF NewReturns, LoggerSpawn
  <2>5. ASSUME NEW w \in Workers, JoinWorker(w) PROVE LogInv'
    BY <2>1, <2>5 DEF JoinWorker
  <2>6. CASE Kick \/ HandleShutdown \/ NoMoreWorkers \/ ReapLogger \/ Signal
    BY <2>1, <2>6 DEF Kick, HandleShutdown, NoMoreWorkers, ReapLogger, Signal
  <2>7. ASSUME NEW w \in Workers, RecvKick(w) \/ SelectMinuteEnd(w)
        PROVE  LogInv'
    <3>1. /\ pc \in [Workers -> States] /\ pc[w] \in {"kick", "select"}
          /\ UNCHANGED <<cur, lpc, logq, logFile, lost, issuedOk>>
      BY <2>7 DEF RecvKick, SelectMinuteEnd, TypeOK, WorkerTypeOK
    <3>2. CASE \E x \in {"done", "failed", "barrier"} : pc' = [pc EXCEPT ![w] = x]
      BY <3>1, <3>2, OneMovesLog
    <3>3. CASE pc' = [v \in Workers |-> IF v = w \/ pc[v] = "barrier"
                                       THEN "released" ELSE pc[v]]
      <4>1. ASSUME NEW v \in Workers
            PROVE  /\ pc'[v] = "log" => pc[v] = "log"
                   /\ pc[v] = "log" => pc'[v] = "log"
                   /\ pc[v] = "cancelled" => pc'[v] = "cancelled"
                   /\ pc[v] \in Terminal => pc'[v] \in Terminal
        BY <3>1, <3>3 DEF Terminal
      <4>. QED
        BY <3>1, <4>1, LogApart
    <3>. QED
      BY <2>7, <3>2, <3>3 DEF RecvKick, SelectMinuteEnd, NextMinute, Arrive
  <2>8. ASSUME NEW w \in Workers, KickErr(w) PROVE LogInv'
    BY <2>1, <2>8, OneMovesLog DEF KickErr
  <2>9. ASSUME NEW w \in Workers,
               StartMinute(w) \/ SelectQuit(w) \/ SelectSleep(w) \/ IssueErr(w)
        PROVE  LogInv'
    <3>1. /\ pc[w] \in {"released", "select", "issue"}
          /\ UNCHANGED <<lpc, logq, logFile, lost, issuedOk>>
          /\ \E x \in {"select", "issue", "done"} : pc' = [pc EXCEPT ![w] = x]
      BY <2>9 DEF StartMinute, SelectQuit, SelectSleep, IssueErr
    <3>2. \A v \in Workers : v # w => cur'[v] = cur[v]
      BY <2>9 DEF StartMinute, SelectQuit, SelectSleep, IssueErr, TypeOK, WorkerTypeOK
    <3>. QED
      BY <3>1, <3>2, OneMovesLog
  <2>10. ASSUME NEW w \in Workers, IssueOk(w) PROVE LogInv'
    BY <2>10, IssueLogs
  <2>11. ASSUME NEW w \in Workers, LogInvocation(w) PROVE LogInv'
    BY <2>11, LogCallKeeps
  <2>12. CASE LoggerStep \/ LoggerFails
    BY <2>12, LoggerKeeps
  <2>13. CASE Tick \/ UNCHANGED vars
    BY <2>1, <2>13 DEF Tick, vars
  <2>. QED
    BY <2>2, <2>3, <2>4, <2>5, <2>6, <2>7, <2>8, <2>9, <2>10, <2>11, <2>12, <2>13
    DEF Next, ClientStep, WorkerStep, Terminating
<1>. QED
  BY <1>1, <1>2, TypeCorrect, IdsInvariant, IssuedInvariant, PTL DEF Spec

\* No invocation has two lines, none that the backend refused has one, and a log
\* that was closed in order misses none but those that were reported lost.
THEOREM LogSound == Spec => []LogIsSound
<1>1. LogInv => LogIsSound
  <2>. SUFFICES ASSUME LogInv PROVE LogIsSound
    OBVIOUS
  <2>1. FileIds = Lines(logFile)
    BY DEF FileIds, Lines
  <2>2. /\ FileIds \union lost \subseteq AllIssued
        /\ FileIds \intersect lost = {}
        /\ \A i, j \in DOMAIN logFile : logFile[i] = logFile[j] => i = j
    BY <2>1 DEF LogInv, Accepted, Once
  <2>3. ASSUME lpc = "done", \A w \in Workers : pc[w] # "cancelled"
        PROVE  AllIssued \subseteq FileIds \union lost
    <3>1. Lines(logq) = {} /\ \A w \in Workers : pc[w] # "log"
      BY <2>3 DEF LogInv, Lines, AllTerminal, Terminal
    <3>2. \A w \in Workers : issuedOk[w] \subseteq FileIds \union lost
      BY <2>1, <2>3, <3>1 DEF LogInv, Accepted
    <3>. QED
      BY <3>2 DEF AllIssued
  <2>. QED
    BY <2>2, <2>3 DEF LogIsSound
<1>. QED
  BY <1>1, LogInvariant, PTL
=============================================================================
