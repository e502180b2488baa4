-------------------------- MODULE OwLoadgenProofs --------------------------
(***************************************************************************)
(* Proofs about OwLoadgen, for every trace, concurrency, length of a       *)
(* minute, lateness and schedule.                                          *)
(*                                                                         *)
(*   - The invocations' tasks: the semaphore bounds what is in flight, the *)
(*     two printed counters count every settled invocation exactly once,   *)
(*     and the run implements InvocationPool.  Each of these relates a     *)
(*     number to the size of a set of invocations; a task's step moves one *)
(*     invocation from one set to another, so the lemmas say what such a   *)
(*     move, and an append, do to the sizes.                               *)
(*   - The main task: invocations are dispatched when due, and the blocks  *)
(*     last a minute.  PaceInv says where the clock is at each point of    *)
(*     the main task.                                                      *)
(*   - Both: the run dispatches the total of its plan (CountInv says how   *)
(*     much of it at each point), and its last pause outlasts every        *)
(*     request (SlackInv says how long a request can still take).          *)
(***************************************************************************)
EXTENDS OwLoadgen, OwPlanProofs

-----------------------------------------------------------------------------
(* The sizes of sets of invocations *)

\* A step of a task: invocation j goes to state s.
Moved(q, r, j, s) ==
  /\ q \in Seq(States)
  /\ j \in DOMAIN q
  /\ r = [q EXCEPT ![j] = s]

\* The sets that are counted are finite.
LEMMA WhereFinite ==
  ASSUME NEW q \in Seq(States), NEW S
  PROVE  IsFiniteSet(Where(q, S)) /\ Cardinality(Where(q, S)) \in Nat
<1>1. Where(q, S) \subseteq 1 .. Len(q)
  BY DEF Where
<1>2. IsFiniteSet(1 .. Len(q))
  BY FS_Interval
<1>. QED
  BY <1>1, <1>2, FS_Subset, FS_CardinalityType

\* An invocation that enters the set adds one ...
LEMMA MoveEnters ==
  ASSUME NEW q, NEW j, NEW S, NEW s \in States, NEW r, Moved(q, r, j, s),
         q[j] \notin S, s \in S
  PROVE  Cardinality(Where(r, S)) = Cardinality(Where(q, S)) + 1
<1>1. Where(r, S) = Where(q, S) \union {j}
  BY DEF Where, Moved
<1>2. j \notin Where(q, S)
  BY DEF Where, Moved
<1>. QED
  BY <1>1, <1>2, WhereFinite, FS_AddElement DEF Moved

\* ... one that leaves it takes one away ...
LEMMA MoveLeaves ==
  ASSUME NEW q, NEW j, NEW S, NEW s \in States, NEW r, Moved(q, r, j, s),
         q[j] \in S, s \notin S
  PROVE  Cardinality(Where(r, S)) = Cardinality(Where(q, S)) - 1
<1>1. Where(r, S) = Where(q, S) \ {j}
  BY DEF Where, Moved
<1>2. j \in Where(q, S)
  BY DEF Where, Moved
<1>. QED
  BY <1>1, <1>2, WhereFinite, FS_RemoveElement DEF Moved

\* ... and one that stays on its side changes nothing.
LEMMA MoveStays ==
  ASSUME NEW q, NEW j, NEW S, NEW s \in States, NEW r, Moved(q, r, j, s),
         q[j] \in S <=> s \in S
  PROVE  Where(r, S) = Where(q, S)
BY DEF Where, Moved

\* A newly dispatched invocation is queued, which no counted set includes.
LEMMA AppendStays ==
  ASSUME NEW q \in Seq(States), NEW S, "queued" \notin S
  PROVE  Where(Append(q, "queued"), S) = Where(q, S)
<1>1. /\ DOMAIN Append(q, "queued") = 1 .. Len(q) + 1
      /\ \A j \in 1 .. Len(q) : Append(q, "queued")[j] = q[j]
      /\ Append(q, "queued")[Len(q) + 1] = "queued"
      /\ DOMAIN q = 1 .. Len(q) /\ Len(q) \in Nat
  OBVIOUS
<1>. QED
  BY <1>1 DEF Where

\* A move keeps the sequence one of states of the same length.
LEMMA MoveTyped ==
  ASSUME NEW q, NEW j, NEW s \in States, NEW r, Moved(q, r, j, s)
  PROVE  r \in Seq(States) /\ DOMAIN r = DOMAIN q
BY DEF Moved

-----------------------------------------------------------------------------
\* What is proved inductively: the types the tasks write, that the permits out
\* are those of the invocations in flight, and that the counters agree.
TaskInv == TaskType /\ PermitsConserved /\ Tally

Landed  == {"landed"}
Counted == {"write", "landed"}

\* A step of main, of time or of Ctrl-C leaves the tasks alone or appends one.
LEMMA Untouched ==
  ASSUME TaskInv,
         UNCHANGED <<permits, books>>,
         st' = st \/ st' = Append(st, "queued")
  PROVE  TaskInv'
<1>. USE DEF TaskInv, TaskType, PermitsConserved, Tally, InState, Dispatched, books,
            outfile
<1>1. CASE st' = st
  BY <1>1
<1>2. CASE st' = Append(st, "queued")
  <2>1. st' \in Seq(States)
    BY <1>2 DEF States
  <2>2. DOMAIN st \subseteq DOMAIN st'
    BY <1>2
  <2>3. /\ Where(st', {"flight", "body", "write"}) = Where(st, {"flight", "body", "write"})
        /\ Where(st', {"write", "landed", "failed"}) = Where(st, {"write", "landed", "failed"})
        /\ Where(st', {"landed"}) = Where(st, {"landed"})
        /\ Where(st', {"write", "landed"}) = Where(st, {"write", "landed"})
    BY <1>2, AppendStays
  <2>. QED
    BY <2>1, <2>2, <2>3
<1>. QED
  BY <1>1, <1>2

\* Every step of main that dispatches does it through Spawn.
LEMMA MainSteps ==
  ASSUME MainStep \/ CtrlC \/ Tick \/ Terminating \/ UNCHANGED vars
  PROVE  /\ UNCHANGED <<permits, books>>
         /\ st' = st \/ st' = Append(st, "queued")
<1>1. CASE BeginPhase BY <1>1 DEF BeginPhase, taskVars
<1>2. CASE Dispatch BY <1>2 DEF Dispatch, Spawn
<1>3. CASE PhaseTail BY <1>3 DEF PhaseTail, taskVars
<1>4. CASE Paced BY <1>4 DEF Paced, Spawn
<1>5. CASE PhaseSlept BY <1>5 DEF PhaseSlept, taskVars
<1>6. CASE BreakRun BY <1>6 DEF BreakRun, taskVars
<1>7. CASE NextPhase BY <1>7 DEF NextPhase, taskVars
<1>8. CASE EndBlock BY <1>8 DEF EndBlock, taskVars
<1>9. CASE DrainEnds BY <1>9 DEF DrainEnds, taskVars
<1>10. CASE Finish BY <1>10 DEF Finish, taskVars
<1>11. CASE CtrlC BY <1>11 DEF CtrlC, taskVars
<1>12. CASE Tick BY <1>12 DEF Tick
<1>13. CASE Terminating \/ UNCHANGED vars BY <1>13 DEF Terminating, vars, taskVars
<1>. QED
  BY <1>1, <1>2, <1>3, <1>4, <1>5, <1>6, <1>7, <1>8, <1>9, <1>10, <1>11, <1>12,
     <1>13 DEF MainStep

\* A step of an invocation's task moves it to one state, by one of five moves.
LEMMA TaskSteps ==
  ASSUME TaskInv, NEW j \in Dispatched, TaskStep(j)
  PROVE  TaskInv'
<1>. USE DEF TaskInv, InState, Dispatched
<1>. DEFINE B(q) == Cardinality(Where(q, Busy))
            C(q) == Cardinality(Where(q, Settled))
            L(q) == Where(q, Landed)
            G(q) == Where(q, Counted)
            Filed(f, cut, fine, q) == /\ f \subseteq L(q)
                                      /\ fine => f = L(q) /\ ~cut
                                      /\ cut \in BOOLEAN /\ fine \in BOOLEAN
<1>b. /\ "queued" \notin Busy \union Settled \union Landed \union Counted
      /\ {"flight", "body"} \subseteq Busy \ (Settled \union Landed \union Counted)
      /\ "write" \in (Busy \intersect Settled \intersect Counted) \ Landed
      /\ "failed" \in Settled \ (Busy \union Landed \union Counted)
      /\ "landed" \in (Settled \intersect Landed \intersect Counted) \ Busy
      /\ {"flight", "body", "write", "landed", "failed"} \subseteq States
  BY DEF Busy, Settled, Landed, Counted, States
<1>0. /\ st \in Seq(States) /\ j \in DOMAIN st
      /\ B(st) \in Nat /\ C(st) \in Nat
      /\ permits + B(st) = Concurrency /\ ok + err = C(st)
      /\ Filed(file, torn, diskOK, st)
      /\ permits \in Nat /\ ok \in Nat /\ err \in Nat /\ file \subseteq DOMAIN st
      /\ ok = Cardinality(good) /\ good \subseteq G(st)
  BY WhereFinite DEF TaskType, PermitsConserved, Tally, Busy, Settled, Landed, Counted
<1>a. SUFFICES /\ st' \in Seq(States) /\ DOMAIN st' = DOMAIN st
               /\ permits' \in Nat /\ ok' \in Nat /\ err' \in Nat
               /\ permits' + B(st') = Concurrency
               /\ ok' + err' = C(st')
               /\ Filed(file', torn', diskOK', st')
               /\ ok' = Cardinality(good') /\ good' \subseteq G(st')
  <2>1. L(st') \subseteq DOMAIN st' /\ G(st') \subseteq DOMAIN st'
    BY DEF Where
  <2>2. file' \subseteq DOMAIN st' /\ good' \subseteq DOMAIN st'
    BY <1>a, <2>1
  <2>. QED
    BY <1>a, <2>2
    DEF TaskType, PermitsConserved, Tally, Busy, Settled, Landed, Counted
<1>1. CASE Acquire(j)
  <2>1. st[j] = "queued" /\ Moved(st, st', j, "flight")
    BY <1>0, <1>1 DEF Acquire, Move, Moved
  <2>2. B(st') = B(st) + 1
    BY <1>0, <1>b, <2>1, MoveEnters
  <2>3. C(st') = C(st) /\ L(st') = L(st) /\ G(st') = G(st)
    BY <1>0, <1>b, <2>1, MoveStays
  <2>4. st' \in Seq(States) /\ DOMAIN st' = DOMAIN st
    BY <1>0, <1>b, <2>1, MoveTyped
  <2>. HIDE DEF B, C, L, G
  <2>5. UNCHANGED <<ok, err, good, outfile>> /\ permits > 0 /\ permits' = permits - 1
    BY <1>1 DEF Acquire, books
  <2>6. Filed(file', torn', diskOK', st')
    BY <1>0, <2>3, <2>5 DEF outfile
  <2>. HIDE DEF Filed
  <2>. QED
    BY <1>0, <2>2, <2>3, <2>4, <2>5, <2>6
<1>2. CASE Respond(j)
  <2>1. st[j] = "flight" /\ Moved(st, st', j, "body")
    BY <1>0, <1>2 DEF Respond, Move, Moved
  <2>2. B(st') = B(st) /\ C(st') = C(st) /\ L(st') = L(st) /\ G(st') = G(st)
    BY <1>0, <1>b, <2>1, MoveStays
  <2>4. st' \in Seq(States) /\ DOMAIN st' = DOMAIN st
    BY <1>0, <1>b, <2>1, MoveTyped
  <2>. HIDE DEF B, C, L, G
  <2>5. UNCHANGED <<permits, ok, err, good, outfile>>
    BY <1>2 DEF Respond, books
  <2>6. Filed(file', torn', diskOK', st')
    BY <1>0, <2>2, <2>5 DEF outfile
  <2>. HIDE DEF Filed
  <2>. QED
    BY <1>0, <2>2, <2>4, <2>5, <2>6
<1>3. CASE Fail(j)
  <2>1. st[j] = "flight" /\ Moved(st, st', j, "failed")
    BY <1>0, <1>3 DEF Fail, Move, Moved
  <2>2. B(st') = B(st) - 1
    BY <1>0, <1>b, <2>1, MoveLeaves
  <2>3. C(st') = C(st) + 1
    BY <1>0, <1>b, <2>1, MoveEnters
  <2>4. L(st') = L(st) /\ G(st') = G(st)
    BY <1>0, <1>b, <2>1, MoveStays
  <2>5. st' \in Seq(States) /\ DOMAIN st' = DOMAIN st
    BY <1>0, <1>b, <2>1, MoveTyped
  <2>. HIDE DEF B, C, L, G
  <2>6. /\ UNCHANGED <<ok, good, outfile>>
        /\ err' = err + 1 /\ permits' = permits + 1
    BY <1>3 DEF Fail
  <2>7. Filed(file', torn', diskOK', st')
    BY <1>0, <2>4, <2>6 DEF outfile
  <2>8. permits' \in Nat /\ err' \in Nat /\ ok' \in Nat
    BY <1>0, <2>6
  <2>9. permits' + B(st') = Concurrency /\ ok' + err' = C(st')
    BY <1>0, <2>2, <2>3, <2>6
  <2>10. ok' = Cardinality(good') /\ good' \subseteq G(st')
    BY <1>0, <2>4, <2>6
  <2>. HIDE DEF Filed
  <2>. QED
    BY <2>5, <2>7, <2>8, <2>9, <2>10
<1>4. CASE Count(j)
  <2>1. st[j] = "body" /\ Moved(st, st', j, "write")
    BY <1>0, <1>4 DEF Count, Move, Moved
  <2>2. B(st') = B(st) /\ L(st') = L(st)
    BY <1>0, <1>b, <2>1, MoveStays
  <2>3. C(st') = C(st) + 1
    BY <1>0, <1>b, <2>1, MoveEnters
  <2>4. st' \in Seq(States) /\ DOMAIN st' = DOMAIN st
    BY <1>0, <1>b, <2>1, MoveTyped
  <2>5. G(st') = G(st) \union {j} /\ j \notin G(st)
    BY <1>0, <1>b, <2>1 DEF Where, Counted, Moved
  <2>6. IsFiniteSet(good)
    BY <1>0, WhereFinite, FS_Subset
  <2>7. Cardinality(good \union {j}) = Cardinality(good) + 1
    BY <1>0, <2>5, <2>6, FS_AddElement
  <2>. HIDE DEF B, C, L, G
  <2>8. /\ UNCHANGED <<permits, outfile>>
        /\ \/ ok' = ok + 1 /\ good' = good \union {j} /\ err' = err
           \/ err' = err + 1 /\ ok' = ok /\ good' = good
    BY <1>4 DEF Count
  <2>9. ok' \in Nat /\ err' \in Nat /\ ok' + err' = ok + err + 1
    BY <1>0, <2>8
  <2>10. ok' = Cardinality(good')
    BY <1>0, <2>7, <2>8
  <2>11. good' \subseteq G(st')
    BY <1>0, <2>5, <2>8
  <2>12. Filed(file', torn', diskOK', st')
    BY <1>0, <2>2, <2>8 DEF outfile
  <2>. HIDE DEF Filed
  <2>. QED
    BY <1>0, <2>2, <2>3, <2>4, <2>8, <2>9, <2>10, <2>11, <2>12
<1>5. CASE Record(j)
  <2>1. st[j] = "write" /\ Moved(st, st', j, "landed")
    BY <1>0, <1>5 DEF Record, Move, Moved
  <2>2. B(st') = B(st) - 1
    BY <1>0, <1>b, <2>1, MoveLeaves
  <2>3. C(st') = C(st)
    BY <1>0, <1>b, <2>1, MoveStays
  <2>4. L(st') = L(st) \union {j}
    BY <1>0, <2>1 DEF Where, Landed, Moved
  <2>6. G(st') = G(st)
    BY <1>0, <1>b, <2>1, MoveStays
  <2>5. st' \in Seq(States) /\ DOMAIN st' = DOMAIN st
    BY <1>0, <1>b, <2>1, MoveTyped
  <2>. HIDE DEF B, C, L, G
  <2>7. /\ UNCHANGED <<ok, err, good, torn>> /\ permits' = permits + 1
        /\ \/ file' = file \union {j} /\ diskOK' = diskOK
           \/ diskOK' = FALSE /\ file' = file
    BY <1>5 DEF Record
  <2>8. Filed(file', torn', diskOK', st')
    <3>1. CASE file' = file \union {j} /\ diskOK' = diskOK
      BY <1>0, <2>4, <2>7, <3>1
    <3>2. CASE diskOK' = FALSE /\ file' = file
      BY <1>0, <2>4, <2>7, <3>2
    <3>. QED BY <2>7, <3>1, <3>2
  <2>. HIDE DEF Filed
  <2>. QED
    BY <1>0, <2>2, <2>3, <2>5, <2>6, <2>7, <2>8
<1>. QED
  BY <1>1, <1>2, <1>3, <1>4, <1>5 DEF TaskStep

\* The program starts with no task.
LEMMA InitTasks == ASSUME LoadgenAssumption, Init PROVE TaskInv
<1>1. \A S : Where(st, S) = {}
  BY DEF Init, InitWith, Where
<1>2. Cardinality({}) = 0
  BY FS_EmptySet
<1>3. TaskType
  <2>1. st = << >> /\ st \in Seq(States)
    BY DEF Init, InitWith
  <2>. QED
    BY <2>1 DEF Init, InitWith, TaskType, Dispatched, LoadgenAssumption
<1>4. PermitsConserved
  <2>1. Cardinality(InState({"flight", "body", "write"})) = 0
    BY <1>1, <1>2 DEF InState
  <2>. QED
    BY <2>1 DEF PermitsConserved, Init, InitWith, LoadgenAssumption
<1>5. Tally
  <2>1. /\ Cardinality(InState({"write", "landed", "failed"})) = 0
        /\ InState({"landed"}) = {}
    BY <1>1, <1>2 DEF InState
  <2>. QED
    BY <1>2, <2>1 DEF Tally, Init, InitWith
<1>. QED
  BY <1>3, <1>4, <1>5 DEF TaskInv

\* A flush that fails takes records out of the file, and nothing else changes.
LEMMA FlushLoses ==
  ASSUME TaskInv, FlushFails
  PROVE  /\ UNCHANGED <<st, permits, ok, err, good>>
         /\ file' \subseteq file /\ torn' \in BOOLEAN /\ diskOK' = FALSE
         /\ TaskInv'
<1>1. UNCHANGED <<st, permits, ok, err, good>>
  BY DEF FlushFails
<1>2. file' \subseteq file /\ torn' \in BOOLEAN /\ diskOK' = FALSE
  BY DEF FlushFails
<1>3. TaskType'
  BY <1>1, <1>2 DEF TaskInv, TaskType, Dispatched
<1>4. PermitsConserved'
  BY <1>1 DEF TaskInv, PermitsConserved, InState
<1>5. Tally'
  BY <1>1, <1>2 DEF TaskInv, Tally, InState
<1>. QED
  BY <1>1, <1>2, <1>3, <1>4, <1>5 DEF TaskInv

\* Every step of ow-loadgen keeps the invariant.
LEMMA OwStepKeeps == ASSUME TaskInv, [Next]_vars PROVE TaskInv'
<1>1. CASE MainStep \/ CtrlC \/ Tick \/ Terminating \/ UNCHANGED vars
  BY <1>1, MainSteps, Untouched
<1>2. CASE \E j \in Dispatched : TaskStep(j)
  BY <1>2, TaskSteps
<1>3. CASE FlushFails
  BY <1>3, FlushLoses
<1>. QED
  BY <1>1, <1>2, <1>3 DEF Next

\* The inductive invariant holds in every reachable state.
THEOREM TasksCorrect == Spec => []TaskInv
<1>1. Init => TaskInv
  BY InitTasks, LoadgenAssumption
<1>2. TaskInv /\ [Next]_vars => TaskInv'
  BY OwStepKeeps
<1>. QED
  BY <1>1, <1>2, PTL DEF Spec

\* Never more than Concurrency requests are in flight, and no permit is lost:
\* the permit bound to _permit returns on each way out of the task.
THEOREM PermitsBound == Spec => []PermitsConserved
<1>1. TaskInv => PermitsConserved
  BY DEF TaskInv
<1>. QED
  BY <1>1, TasksCorrect, PTL

\* The printed total_ok and total_err count every settled invocation once.  The file
\* has the record of none that has not landed, and when no write and no flush failed
\* it has the records of all that have.
THEOREM CountersExact == Spec => []Tally
<1>1. TaskInv => Tally
  BY DEF TaskInv
<1>. QED
  BY <1>1, TasksCorrect, PTL

-----------------------------------------------------------------------------
(* Refinement of InvocationPool *)

\* What the refinement rests on, also for wasm-loadgen's tasks: the permits, and
\* that only an invocation past its request is counted as a success.
PoolInv ==
  /\ TaskType
  /\ PermitsConserved
  /\ good \subseteq InState(Counted)

\* What holds of ow-loadgen is enough for it.
LEMMA InvOfBoth == TaskInv => PoolInv
BY DEF TaskInv, PoolInv, Tally, Counted

\* While a permit is free fewer than Concurrency invocations hold one.
LEMMA PermitIsSlot ==
  ASSUME PoolInv, permits > 0
  PROVE  Cardinality(InState(Busy)) < Concurrency
<1>1. Cardinality(InState(Busy)) \in Nat /\ permits \in Nat
  BY WhereFinite DEF PoolInv, TaskType, InState
<1>. QED
  BY <1>1 DEF PoolInv, PermitsConserved, Busy

\* A step that leaves the tasks alone is a stutter, a dispatch submits.
LEMMA PoolMain ==
  ASSUME PoolInv,
         UNCHANGED <<permits, books>>,
         st' = st \/ st' = Append(st, "queued")
  PROVE  [Pool!Next]_(Pool!poolVars)
<1>1. CASE st' = st
  BY <1>1 DEF Pool!poolVars, InState, books
<1>2. CASE st' = Append(st, "queued")
  <2>1. st \in Seq(States) /\ Len(st) \in Nat
    BY DEF PoolInv, TaskType
  <2>2. /\ InState(Busy)' = InState(Busy)
        /\ InState(Settled)' = InState(Settled)
    BY <1>2, <2>1, AppendStays DEF InState, Busy, Settled
  <2>3. Len(st') = Len(st) + 1
    BY <1>2, <2>1
  <2>4. InState({"queued"})' = InState({"queued"}) \union {Len(st) + 1}
    <3>1. /\ DOMAIN st' = 1 .. Len(st) + 1
          /\ \A k \in 1 .. Len(st) : st'[k] = st[k]
          /\ st'[Len(st) + 1] = "queued"
          /\ DOMAIN st = 1 .. Len(st)
      BY <1>2, <2>1
    <3>. QED
      BY <2>1, <3>1 DEF InState, Where
  <2>5. Pool!Submit
    BY <2>2, <2>3, <2>4 DEF Pool!Submit, books
  <2>. QED
    BY <2>5 DEF Pool!Next
<1>. QED
  BY <1>1, <1>2

\* A move of one task, by what becomes of its state: it gets a slot, its outcome
\* is counted, or it gives its slot back.
LEMMA PoolMoves ==
  ASSUME PoolInv, NEW j \in Dispatched, NEW s \in States, st' = [st EXCEPT ![j] = s],
         \/ /\ st[j] = "queued" /\ s = "flight" /\ permits > 0
            /\ UNCHANGED <<ok, err, good>>
         \/ /\ st[j] = "flight" /\ s = "body"
            /\ UNCHANGED <<ok, err, good>>
         \/ /\ st[j] \in {"flight", "body"} /\ s \in {"write", "landed"}
            /\ ok' = ok + 1 /\ good' = good \union {j} /\ err' = err
         \/ /\ st[j] \in {"flight", "body"} /\ s \in {"write", "failed"}
            /\ err' = err + 1 /\ ok' = ok /\ good' = good
         \/ /\ st[j] = "write" /\ s = "landed"
            /\ UNCHANGED <<ok, err, good>>
  PROVE  [Pool!Next]_(Pool!poolVars)
<1>. DEFINE Q == InState({"queued"})
            B == InState(Busy)
            C == InState(Settled)
<1>0. /\ st \in Seq(States) /\ j \in 1 .. Len(st) /\ Len(st) \in Nat
      /\ DOMAIN st = 1 .. Len(st)
      /\ good \subseteq InState(Counted)
  BY DEF PoolInv, TaskType, Dispatched
<1>1. Moved(st, st', j, s)
  BY <1>0 DEF Moved
<1>2. /\ s = "queued" => Q' = Q \union {j}
      /\ s # "queued" => Q' = Q \ {j}
      /\ s \in Busy => B' = B \union {j}
      /\ s \notin Busy => B' = B \ {j}
      /\ s \in Settled => C' = C \union {j}
      /\ s \notin Settled => C' = C \ {j}
  <2>1. \A S : /\ s \in S => Where(st', S) = Where(st, S) \union {j}
               /\ s \notin S => Where(st', S) = Where(st, S) \ {j}
    BY <1>1 DEF Moved, Where
  <2>2. Q' = Where(st', {"queued"}) /\ Q = Where(st, {"queued"})
    BY DEF InState
  <2>3. B' = Where(st', Busy) /\ B = Where(st, Busy)
    BY DEF InState, Busy
  <2>4. C' = Where(st', Settled) /\ C = Where(st, Settled)
    BY DEF InState, Settled
  <2>. HIDE DEF Q, B, C
  <2>5. /\ s = "queued" => Q' = Q \union {j}
        /\ s # "queued" => Q' = Q \ {j}
    <3>1. s = "queued" <=> s \in {"queued"}
      OBVIOUS
    <3>. QED
      BY <2>1, <2>2, <3>1
  <2>. QED
    BY <2>1, <2>3, <2>4, <2>5
<1>3. Len(st') = Len(st)
  BY <1>0, <1>1
<1>4. /\ j \in Q <=> st[j] = "queued"
      /\ j \in B <=> st[j] \in Busy
      /\ j \in C <=> st[j] \in Settled
      /\ j \in good => st[j] \in Counted
  BY <1>0 DEF InState, Where
<1>. HIDE DEF Q, B, C
<1>. USE DEF Pool!poolVars, Pool!Next
<1>5. CASE st[j] = "queued" /\ s = "flight" /\ permits > 0 /\ UNCHANGED <<ok, err, good>>
  <2>1. Q' = Q \ {j} /\ B' = B \union {j} /\ C' = C
    BY <1>2, <1>4, <1>5 DEF Busy, Settled, Counted
  <2>2. j \in Q /\ Cardinality(B) < Concurrency
    BY <1>4, <1>5, PermitIsSlot DEF B
  <2>3. good' = good /\ ok' = ok /\ err' = err /\ (C \ good)' = C \ good
    BY <1>5, <2>1
  <2>4. (Concurrency > Cardinality(B)) /\ Q' = Q \ {j} /\ Len(st)' = Len(st)
    BY <1>3, <2>1, <2>2
  <2>5. Pool!Cardinality(B) = Cardinality(B)
    BY DEF Pool!Cardinality, Cardinality
  <2>6. Pool!Start(j)
    BY <2>1, <2>2, <2>3, <2>4, <2>5 DEF Pool!Start, Q, B, C
  <2>. QED
    BY <1>0, <2>6
<1>6. CASE st[j] = "flight" /\ s = "body" /\ UNCHANGED <<ok, err, good>>
  <2>1. Q' = Q /\ B' = B /\ C' = C
    BY <1>2, <1>4, <1>6 DEF Busy, Settled, Counted
  <2>. QED
    BY <1>3, <1>6, <2>1 DEF Q, B, C
<1>7. CASE /\ st[j] \in {"flight", "body"} /\ s \in {"write", "landed"}
           /\ ok' = ok + 1 /\ good' = good \union {j} /\ err' = err
  <2>1. Q' = Q /\ B' \in {B, B \ {j}} /\ C' \ good' = C \ good
    BY <1>2, <1>4, <1>7 DEF Busy, Settled, Counted
  <2>2. j \in B \ (good \union (C \ good))
    BY <1>4, <1>7 DEF Busy, Settled, Counted
  <2>3. Pool!Count(j)
    BY <1>3, <1>7, <2>1, <2>2 DEF Pool!Count, Q, B, C
  <2>. QED
    BY <1>0, <2>3
<1>8. CASE /\ st[j] \in {"flight", "body"} /\ s \in {"write", "failed"}
           /\ err' = err + 1 /\ ok' = ok /\ good' = good
  <2>1. Q' = Q /\ B' \in {B, B \ {j}} /\ C' \ good' = (C \ good) \union {j}
    BY <1>2, <1>4, <1>8 DEF Busy, Settled, Counted
  <2>2. j \in B \ (good \union (C \ good))
    BY <1>4, <1>8 DEF Busy, Settled, Counted
  <2>3. Pool!Count(j)
    BY <1>3, <1>8, <2>1, <2>2 DEF Pool!Count, Q, B, C
  <2>. QED
    BY <1>0, <2>3
<1>9. CASE st[j] = "write" /\ s = "landed" /\ UNCHANGED <<ok, err, good>>
  <2>1. Q' = Q /\ B' = B \ {j} /\ C' \ good' = C \ good
    BY <1>2, <1>4, <1>9 DEF Busy, Settled, Counted
  <2>2. j \in B \intersect (good \union (C \ good))
    BY <1>4, <1>9 DEF Busy, Settled, Counted
  <2>3. Pool!Leave(j)
    BY <1>3, <1>9, <2>1, <2>2 DEF Pool!Leave, Q, B, C
  <2>. QED
    BY <1>0, <2>3
<1>. QED
  BY <1>5, <1>6, <1>7, <1>8, <1>9

\* Each step of ow-loadgen's tasks is one of those moves.
LEMMA OwTaskPool ==
  ASSUME PoolInv, NEW j \in Dispatched, TaskStep(j)
  PROVE  [Pool!Next]_(Pool!poolVars)
<1>0. {"flight", "body", "write", "landed", "failed"} \subseteq States
  BY DEF States
<1>1. CASE Acquire(j) BY <1>0, <1>1, PoolMoves DEF Acquire, Move, books
<1>2. CASE Respond(j) BY <1>0, <1>2, PoolMoves DEF Respond, Move, books
<1>3. CASE Fail(j) BY <1>0, <1>3, PoolMoves DEF Fail, Move
<1>4. CASE Count(j) BY <1>0, <1>4, PoolMoves DEF Count, Move
<1>5. CASE Record(j) BY <1>0, <1>5, PoolMoves DEF Record, Move
<1>. QED
  BY <1>1, <1>2, <1>3, <1>4, <1>5 DEF TaskStep

\* No task, and so nothing submitted.
LEMMA PoolBegins == ASSUME NEW p, InitWith(p) PROVE Pool!Init
<1>1. st = << >> /\ ok = 0 /\ err = 0 /\ good = {}
  BY DEF InitWith
<1>2. \A S : InState(S) = {}
  BY <1>1 DEF InState, Where
<1>3. Len(st) = 0
  BY <1>1
<1>. QED
  BY <1>1, <1>2, <1>3 DEF Pool!Init

\* Every step of ow-loadgen is a step of the pool or none.
LEMMA OwStepPool == ASSUME PoolInv, [Next]_vars PROVE [Pool!Next]_(Pool!poolVars)
<1>1. CASE MainStep \/ CtrlC \/ Tick \/ Terminating \/ UNCHANGED vars
  BY <1>1, MainSteps, PoolMain
<1>2. CASE \E j \in Dispatched : TaskStep(j)
  BY <1>2, OwTaskPool
<1>3. CASE FlushFails
  <2>1. UNCHANGED <<st, ok, err, good>>
    BY <1>3 DEF FlushFails
  <2>. QED
    BY <2>1 DEF Pool!poolVars, InState
<1>. QED
  BY <1>1, <1>2, <1>3 DEF Next

\* ow-loadgen implements the pool: whatever the pace, the requests, Ctrl-C and the
\* order of the tasks, none is forgotten, counted twice or posted without a slot.
THEOREM OwPool == Spec => PoolSpec
<1>1. Init => Pool!Init
  BY PoolBegins DEF Init
<1>2. TaskInv => PoolInv
  BY InvOfBoth
<1>3. PoolInv /\ [Next]_vars => [Pool!Next]_(Pool!poolVars)
  BY OwStepPool
<1>. QED
  BY <1>1, <1>2, <1>3, TasksCorrect, PTL DEF Spec, PoolSpec, Pool!Spec

-----------------------------------------------------------------------------
(* The clock of the main task *)

InPhase == {"phase", "idle", "dispatch", "pace", "tail"}

\* The clock is never behind what main is doing, nor further ahead of it than main
\* has been late; what has been dispatched of the phase was due.
PaceInv ==
  /\ Timetable(plan)
  /\ t \in Nat /\ late \in Nat /\ until \in Nat /\ inPhase \in Nat
  /\ mpc \in InPhase \union {"next", "drain", "flush", "done"}
  /\ mpc \in InPhase => ph \in DOMAIN plan.phases
  /\ mpc = "phase" => Phase.offset <= t /\ t <= Phase.offset + late
  /\ mpc = "idle" => Deadline <= until /\ until <= Deadline + late
  /\ mpc = "tail" => until = Deadline
  /\ mpc = "pace" => until = Target /\ inPhase < Phase.count
  /\ mpc \in {"dispatch", "pace"} =>
       /\ Phase.offset <= t /\ inPhase <= Phase.count
       /\ inPhase > 0 => Phase.len * (inPhase - 1) <= (t - Phase.offset) * Phase.count
  /\ mpc \in {"idle", "dispatch", "pace", "tail"} => t <= Deadline + late
  /\ mpc = "next" => \/ ph = 0 /\ plan.phases = << >>
                     \/ /\ ph \in DOMAIN plan.phases
                        /\ Deadline <= t /\ t <= Deadline + late

-----------------------------------------------------------------------------
(* Arithmetic *)

\* A product is monotone in its second factor.
LEMMA TimesOrder ==
  ASSUME NEW n \in Nat, NEW x \in Int, NEW y \in Int, x <= y
  PROVE  x * n <= y * n
<1>1. PICK d \in Nat : y = x + d
  BY y - x \in Nat
<1>2. y * n = x * n + d * n /\ d * n \in Nat /\ x * n \in Int
  BY <1>1
<1>. QED
  BY <1>2

\* Rounding up to whole ticks: the first tick k with a <= k * n.
LEMMA RoundedUp ==
  ASSUME NEW a \in Nat, NEW n \in Nat \ {0}, NEW k \in Int
  PROVE  /\ (a + n - 1) \div n \in Nat
         /\ (a + n - 1) \div n <= k <=> a <= k * n
<1>. DEFINE q == (a + n - 1) \div n
            r == (a + n - 1) % n
<1>1. q \in Nat /\ r \in 0 .. n - 1 /\ a + n - 1 = q * n + r
  BY SMT
<1>. HIDE DEF q, r
<1>2. q * n \in Nat /\ k * n \in Int /\ (k + 1) * n = k * n + n
  BY <1>1
<1>3. ASSUME q <= k PROVE a <= k * n
  BY <1>1, <1>2, <1>3, TimesOrder
<1>4. ASSUME a <= k * n PROVE q <= k
  <2>1. SUFFICES ASSUME k + 1 <= q PROVE FALSE
    BY <1>1
  <2>2. (k + 1) * n <= q * n
    BY <1>1, <2>1, TimesOrder
  <2>. QED
    BY <1>1, <1>2, <1>4, <2>2
<1>. QED
  BY <1>1, <1>3, <1>4 DEF q

\* Invocation i of the n of a phase is due within the phase, and exactly when the
\* share of the phase that has passed is i / n.
LEMMA DueAt ==
  ASSUME NEW offset \in Nat, NEW len \in Nat, NEW n \in Nat \ {0}, NEW i \in Nat,
         i < n, NEW now \in Int, NEW due, due = offset + (len * i + n - 1) \div n
  PROVE  /\ due \in Nat /\ offset <= due /\ due <= offset + len
         /\ due <= now <=> len * i <= (now - offset) * n
<1>. DEFINE a == len * i
            c == (a + n - 1) \div n
<1>1. a \in Nat /\ now - offset \in Int
  OBVIOUS
<1>2. a <= len * n
  <2>1. i * len <= n * len
    BY TimesOrder
  <2>2. i * len = a /\ n * len = len * n
    OBVIOUS
  <2>. QED
    BY <2>1, <2>2
<1>3. due = offset + c
  OBVIOUS
<1>. HIDE DEF a
<1>4. c \in Nat /\ (c <= now - offset <=> a <= (now - offset) * n)
  BY <1>1, RoundedUp
<1>5. c <= len
  BY <1>1, <1>2, RoundedUp
<1>. HIDE DEF c
<1>6. due <= now <=> c <= now - offset
  BY <1>3, <1>4
<1>. QED
  BY <1>3, <1>4, <1>5, <1>6 DEF a

-----------------------------------------------------------------------------
(* The plan *)

\* The current phase is one of the plan's.
LEMMA PhaseTyped ==
  ASSUME Timetable(plan), ph \in DOMAIN plan.phases
  PROVE  /\ Phase.offset \in Nat /\ Phase.len \in Nat \ {0} /\ Phase.count \in Nat
         /\ Deadline = Phase.offset + Phase.len /\ Deadline \in Nat
         /\ ph \in 1 .. Len(plan.phases) /\ Len(plan.phases) \in Nat
<1>. DEFINE phases == plan.phases
<1>1. phases \in Seq(PhaseType)
  BY DEF Timetable
<1>. HIDE DEF phases
<1>2. ph \in DOMAIN phases /\ Phase = phases[ph]
  BY DEF phases, Phase
<1>3. Len(phases) \in Nat /\ DOMAIN phases = 1 .. Len(phases) /\ Phase \in PhaseType
  BY <1>1, <1>2
<1>4. /\ Phase.offset \in Nat /\ Phase.len \in Nat \ {0} /\ Phase.count \in Nat
  BY <1>3 DEF PhaseType
<1>. QED
  BY <1>2, <1>3, <1>4 DEF Deadline, phases

\* When the next invocation is due, and that it is due within the phase.
LEMMA TargetIs ==
  ASSUME Timetable(plan), ph \in DOMAIN plan.phases, t \in Nat, inPhase \in Nat,
         inPhase < Phase.count
  PROVE  /\ Target \in Nat /\ Phase.offset <= Target /\ Target <= Deadline
         /\ Target <= t <=> Phase.len * inPhase <= (t - Phase.offset) * Phase.count
<1>1. /\ Phase.offset \in Nat /\ Phase.len \in Nat /\ Phase.count \in Nat \ {0}
      /\ Deadline = Phase.offset + Phase.len /\ t \in Int
  BY PhaseTyped
<1>2. Target = Phase.offset + (Phase.len * inPhase + Phase.count - 1) \div Phase.count
  BY DEF Target
<1>. QED
  BY <1>1, <1>2, DueAt

-----------------------------------------------------------------------------
(* The steps of main *)

\* A step that stays in its phase sees the same phase.
LEMMA SamePhase ==
  ASSUME UNCHANGED <<plan, ph>>
  PROVE  Phase' = Phase /\ Deadline' = Deadline /\ Timetable(plan)' = Timetable(plan)
BY DEF Phase, Deadline, Timetable, EndOf

\* A phase begins when its time has come.
LEMMA BeginPhaseKeeps ==
  ASSUME PaceInv, BeginPhase
  PROVE  PaceInv'
<1>. USE DEF PaceInv, BeginPhase, restVars, InPhase
<1>1. /\ Phase' = Phase /\ Deadline' = Deadline /\ Timetable(plan)'
      /\ ph' = ph /\ plan' = plan /\ t' = t /\ late' = late /\ inPhase' = 0
  BY SamePhase
<1>2. /\ Phase.offset \in Nat /\ Phase.len \in Nat \ {0} /\ Phase.count \in Nat
      /\ Deadline = Phase.offset + Phase.len
      /\ Phase.offset <= t /\ t <= Phase.offset + late
  BY PhaseTyped
<1>3. CASE Phase.count = 0
  <2>1. mpc' = "idle" /\ until' = t + Phase.len
    BY <1>3 DEF Sleep
  <2>2. until' \in Nat /\ Deadline <= until' /\ until' <= Deadline + late /\ t <= Deadline + late
    BY <1>2, <2>1
  <2>. QED
    BY <1>1, <2>1, <2>2
<1>4. CASE Phase.count # 0
  <2>1. mpc' = "dispatch" /\ until' = until
    BY <1>4
  <2>2. t <= Deadline + late
    BY <1>2
  <2>. QED
    BY <1>1, <1>2, <2>1, <2>2
<1>. QED
  BY <1>3, <1>4

\* What is dispatched is due: the target is not ahead.
LEMMA SpawnKeeps ==
  ASSUME PaceInv, UNCHANGED <<plan, ph, t, late>>, until' = until,
         mpc \in {"dispatch", "pace"}, mpc' = "dispatch",
         inPhase < Phase.count, Target <= t, Spawn
  PROVE  PaceInv'
<1>. USE DEF PaceInv, InPhase
<1>1. /\ Phase' = Phase /\ Deadline' = Deadline /\ Timetable(plan)'
      /\ ph' = ph /\ plan' = plan /\ t' = t /\ late' = late /\ until' = until
  BY SamePhase
<1>2. /\ Phase.offset \in Nat /\ Phase.count \in Nat
      /\ Phase.len * inPhase <= (t - Phase.offset) * Phase.count
  BY PhaseTyped, TargetIs
<1>3. inPhase' = inPhase + 1
  BY DEF Spawn
<1>4. inPhase' \in Nat /\ inPhase' <= Phase.count /\ inPhase' - 1 = inPhase
  BY <1>2, <1>3
<1>. QED
  BY <1>1, <1>2, <1>4

\* Main dispatches what is due, and sleeps until the target of what is not.
LEMMA DispatchKeeps ==
  ASSUME PaceInv, Dispatch
  PROVE  PaceInv'
<1>. USE DEF PaceInv, Dispatch, restVars, InPhase
<1>1. /\ Phase' = Phase /\ Deadline' = Deadline /\ Timetable(plan)'
      /\ ph' = ph /\ plan' = plan /\ t' = t /\ late' = late
  BY SamePhase
<1>2. Target \in Nat
  BY TargetIs
<1>3. CASE Target > t
  <2>1. mpc' = "pace" /\ until' = Target /\ inPhase' = inPhase
    BY <1>3 DEF Sleep
  <2>2. Target' = Target
    BY <1>1, <2>1 DEF Target
  <2>. QED
    BY <1>1, <1>2, <2>1, <2>2
<1>4. CASE ~(Target > t)
  <2>1. Target <= t
    BY <1>2, <1>4
  <2>. QED
    BY <1>4, <2>1, SpawnKeeps
<1>. QED
  BY <1>3, <1>4

\* Main wakes at a target and dispatches what was due.
LEMMA PacedKeeps ==
  ASSUME PaceInv, Paced
  PROVE  PaceInv'
<1>1. /\ UNCHANGED <<plan, ph, t, late>> /\ until' = until
      /\ mpc = "pace" /\ mpc' = "dispatch" /\ Spawn /\ until <= t
  BY DEF Paced, restVars, PaceInv
<1>2. inPhase < Phase.count /\ Target <= t
  BY <1>1 DEF PaceInv
<1>. QED
  BY <1>1, <1>2, SpawnKeeps

\* A phase is left at its deadline, or as late as main has been.
LEMMA PhaseTailKeeps ==
  ASSUME PaceInv, PhaseTail
  PROVE  PaceInv'
<1>. USE DEF PaceInv, PhaseTail, restVars, InPhase
<1>1. /\ Phase' = Phase /\ Deadline' = Deadline /\ Timetable(plan)'
      /\ ph' = ph /\ plan' = plan /\ t' = t /\ late' = late /\ inPhase' = inPhase
  BY SamePhase
<1>2. Deadline \in Nat /\ t <= Deadline + late
  BY PhaseTyped
<1>3. CASE Deadline > t
  <2>1. mpc' = "tail" /\ until' = Deadline
    BY <1>3 DEF Sleep
  <2>. QED
    BY <1>1, <1>2, <2>1
<1>4. CASE ~(Deadline > t)
  <2>1. mpc' = "next" /\ until' = until /\ Deadline <= t
    BY <1>2, <1>4
  <2>. QED
    BY <1>1, <1>2, <2>1
<1>. QED
  BY <1>3, <1>4

\* Main wakes at the end of a phase.
LEMMA PhaseSleptKeeps ==
  ASSUME PaceInv, PhaseSlept
  PROVE  PaceInv'
<1>. USE DEF PaceInv, PhaseSlept, restVars, InPhase
<1>1. /\ Phase' = Phase /\ Deadline' = Deadline /\ Timetable(plan)'
      /\ ph' = ph /\ plan' = plan /\ t' = t /\ late' = late /\ inPhase' = inPhase
      /\ until' = until
  BY SamePhase
<1>2. /\ mpc \in {"idle", "tail"} /\ until <= t /\ mpc' = "next"
      /\ ph \in DOMAIN plan.phases
  OBVIOUS
<1>3. Deadline \in Nat /\ Deadline <= until /\ t <= Deadline + late
  BY <1>2, PhaseTyped
<1>4. Deadline <= t
  BY <1>2, <1>3
<1>. QED
  BY <1>1, <1>2, <1>3, <1>4

\* After its notification main is out of the timetable.
LEMMA BreakRunKeeps ==
  ASSUME PaceInv, BreakRun
  PROVE  PaceInv'
<1>1. /\ Timetable(plan)' /\ t' = t /\ late' = late /\ inPhase' = inPhase
      /\ until' = t + Drain /\ mpc' = "drain"
  BY SamePhase DEF PaceInv, BreakRun, restVars
<1>2. until' \in Nat
  BY <1>1, LoadgenAssumption DEF PaceInv
<1>. QED
  BY <1>1, <1>2 DEF PaceInv, InPhase

\* The next phase of the block begins where the last one ended.
LEMMA NextPhaseKeeps ==
  ASSUME PaceInv, NextPhase
  PROVE  PaceInv'
<1>1. /\ Timetable(plan) /\ plan' = plan /\ mpc = "next" /\ ~EndsBlock
      /\ t' = t /\ late' = late /\ inPhase' = inPhase /\ until' = until
      /\ ph' = ph + 1 /\ mpc' = "phase"
  BY DEF PaceInv, NextPhase, restVars
<1>2. ph + 1 \in DOMAIN plan.phases /\ plan.phases[ph + 1].block = Phase.block
  BY <1>1 DEF EndsBlock
<1>3. ph \in DOMAIN plan.phases /\ Deadline <= t /\ t <= Deadline + late
  <2>1. plan.phases # << >>
    BY <1>2
  <2>. QED
    BY <1>1, <2>1 DEF PaceInv
<1>4. ph \in 1 .. Len(plan.phases) - 1
  <2>1. DOMAIN plan.phases = 1 .. Len(plan.phases)
    BY <1>1 DEF Timetable
  <2>. QED
    BY <1>1, <1>2, <1>3, <2>1, PhaseTyped
<1>5. plan.phases[ph + 1].offset = Deadline
  BY <1>1, <1>2, <1>4 DEF Timetable, EndOf, Phase, Deadline
<1>6. Phase' = plan.phases[ph + 1] /\ Timetable(plan)'
  BY <1>1 DEF Phase, Timetable, EndOf
<1>7. Phase'.offset <= t' /\ t' <= Phase'.offset + late'
  BY <1>1, <1>3, <1>5, <1>6
<1>. QED
  BY <1>1, <1>2, <1>6, <1>7 DEF PaceInv, InPhase

\* A block that ends has lasted a minute, so main never waits for its end.
LEMMA BlockIsOver ==
  ASSUME PaceInv, mpc = "next", EndsBlock, ph > 0
  PROVE  ~(BlockLen > t)
<1>1. Timetable(plan) /\ ph \in DOMAIN plan.phases /\ Deadline <= t /\ t \in Nat
  <2>1. ph # 0
    OBVIOUS
  <2>. QED
    BY <2>1 DEF PaceInv
<1>2. Deadline = EndOf(plan, ph)
  BY DEF EndOf, Phase, Deadline
<1>3. Deadline = BlockLen
  <2>1. ph \in 1 .. Len(plan.phases) /\ Len(plan.phases) \in Nat
    BY <1>1, PhaseTyped
  <2>2. CASE ph = Len(plan.phases)
    <3>1. plan.phases # << >>
      BY <1>1
    <3>. QED
      BY <1>1, <1>2, <2>2, <3>1 DEF Timetable, BlockLen
  <2>3. CASE ph # Len(plan.phases)
    <3>1. ph \in 1 .. Len(plan.phases) - 1 /\ ph + 1 \in DOMAIN plan.phases
      BY <1>1, <2>1, <2>3 DEF Timetable, BlockLen
    <3>2. plan.phases[ph + 1].block # plan.phases[ph].block
      BY <3>1 DEF EndsBlock, Phase
    <3>. QED
      BY <1>1, <1>2, <3>1, <3>2 DEF Timetable, BlockLen
  <2>. QED
    BY <2>2, <2>3
<1>4. Deadline \in Nat
  BY <1>1, PhaseTyped
<1>. QED
  BY <1>1, <1>3, <1>4

\* The next block begins with a new clock, in its first phase.
LEMMA EndBlockKeeps ==
  ASSUME PaceInv, EndBlock
  PROVE  PaceInv'
<1>1. /\ Timetable(plan) /\ plan' = plan /\ mpc = "next" /\ EndsBlock
      /\ t \in Nat /\ late \in Nat /\ until \in Nat /\ inPhase \in Nat
      /\ late' = late /\ inPhase' = inPhase
  BY DEF PaceInv, EndBlock, restVars
<1>2. ph \in Nat /\ (ph > 0 => ph \in DOMAIN plan.phases)
  <2>1. CASE ph = 0
    BY <2>1
  <2>2. CASE ph \in DOMAIN plan.phases
    BY <1>1, <2>2, PhaseTyped
  <2>. QED
    BY <1>1, <2>1, <2>2 DEF PaceInv
<1>3. LeaveBlock
  BY <1>1, BlockIsOver DEF EndBlock
<1>4. Timetable(plan)'
  BY <1>1 DEF Timetable, EndOf
<1>5. CASE LastPhase
  <2>1. mpc' = "drain" /\ until' = t + Drain /\ t' = t
    BY <1>3, <1>5 DEF LeaveBlock
  <2>2. until' \in Nat
    BY <1>1, <2>1, LoadgenAssumption
  <2>. QED
    BY <1>1, <1>4, <2>1, <2>2 DEF PaceInv, InPhase
<1>6. CASE ~LastPhase
  <2>1. mpc' = "phase" /\ ph' = ph + 1 /\ t' = 0 /\ until' = until
    BY <1>3, <1>6 DEF LeaveBlock
  <2>2. /\ ph \in DOMAIN plan.phases
        /\ ph \in 1 .. Len(plan.phases) - 1 /\ ph + 1 \in DOMAIN plan.phases
    <3>1. ph > 0
      <4>1. CASE ph = 0 /\ plan.phases = << >>
        BY <1>6, <4>1 DEF LastPhase
      <4>2. CASE ph \in DOMAIN plan.phases
        BY <1>1, <4>2, PhaseTyped
      <4>. QED
        BY <1>1, <4>1, <4>2 DEF PaceInv
    <3>2. ph \in 1 .. Len(plan.phases) /\ Len(plan.phases) \in Nat
      BY <1>1, <1>2, <3>1, PhaseTyped
    <3>3. ph # Len(plan.phases)
      BY <1>6 DEF LastPhase
    <3>. QED
      BY <1>1, <3>2, <3>3 DEF Timetable
  <2>3. plan.phases[ph + 1].block # plan.phases[ph].block
    BY <1>1, <2>2 DEF EndsBlock, Phase
  <2>4. plan.phases[ph + 1].offset = 0
    BY <1>1, <2>2, <2>3 DEF Timetable
  <2>5. Phase' = plan.phases[ph + 1]
    BY <1>1, <2>1 DEF Phase
  <2>6. Phase'.offset <= t' /\ t' <= Phase'.offset + late' /\ t' \in Nat
    BY <1>1, <2>1, <2>4, <2>5
  <2>. QED
    BY <1>1, <1>4, <2>1, <2>2, <2>6 DEF PaceInv, InPhase
<1>. QED
  BY <1>5, <1>6

\* After the last phase, the clock does not matter any more.
LEMMA DrainEndsKeeps ==
  ASSUME PaceInv, DrainEnds \/ Finish
  PROVE  PaceInv'
<1>1. /\ mpc' \in {"flush", "done"} /\ plan' = plan
      /\ UNCHANGED <<ph, t, until, late, inPhase>>
  BY DEF DrainEnds, Finish, restVars
<1>. QED
  BY <1>1, SamePhase DEF PaceInv, InPhase

-----------------------------------------------------------------------------
(* The other steps *)

\* The tasks of the invocations and Ctrl-C do not touch what main goes by.
LEMMA OthersKeep ==
  ASSUME PaceInv, UNCHANGED <<plan, mpc, ph, t, until, late, inPhase>>
  PROVE  PaceInv'
<1>1. /\ Phase' = Phase /\ Deadline' = Deadline /\ Timetable(plan)'
      /\ plan' = plan /\ mpc' = mpc /\ ph' = ph /\ t' = t /\ until' = until
      /\ late' = late /\ inPhase' = inPhase /\ Target' = Target
  BY SamePhase DEF PaceInv, Target
<1>. QED
  BY <1>1 DEF PaceInv

\* What was due stays due.
LEMMA StaysDue ==
  ASSUME NEW x \in Int, NEW y \in Int, x <= y, NEW n \in Nat, NEW a \in Int,
         a <= x * n
  PROVE  a <= y * n
<1>1. x * n <= y * n /\ x * n \in Int /\ y * n \in Int
  BY TimesOrder
<1>. QED
  BY <1>1

\* A tick of the clock, in either program.
ClockTicks ==
  /\ t' = t + 1
  /\ IF Asleep THEN late' = late ELSE late' = late + 1
  /\ UNCHANGED <<plan, mpc, ph, until, inPhase, aborted>>

\* A tick passes while main sleeps until a moment to come, or main is late.
LEMMA TickKeeps ==
  ASSUME PaceInv, ClockTicks
  PROVE  PaceInv'
<1>1. /\ Phase' = Phase /\ Deadline' = Deadline /\ Timetable(plan)'
      /\ plan' = plan /\ mpc' = mpc /\ ph' = ph /\ until' = until
      /\ inPhase' = inPhase /\ Target' = Target
  BY SamePhase DEF PaceInv, ClockTicks, Target
<1>2. /\ t \in Nat /\ late \in Nat /\ t' = t + 1
      /\ \/ late' = late /\ mpc \in Sleeping \union {"drain"} /\ t < until
         \/ late' = late + 1
  BY DEF PaceInv, ClockTicks, Asleep
<1>3. t' \in Nat /\ late' \in Nat /\ late <= late' /\ t <= t'
  BY <1>2
<1>4. /\ Timetable(plan) /\ until \in Nat /\ inPhase \in Nat
      /\ mpc \in InPhase \union {"next", "drain", "flush", "done"}
      /\ mpc \in InPhase => ph \in DOMAIN plan.phases
  BY DEF PaceInv
<1>5. CASE mpc \in {"drain", "flush", "done"}
  BY <1>1, <1>3, <1>4, <1>5 DEF PaceInv, InPhase
<1>6. CASE mpc = "next"
  <2>1. late' = late + 1
    BY <1>2, <1>6 DEF Sleeping
  <2>2. ASSUME ph \in DOMAIN plan.phases, Deadline <= t, t <= Deadline + late
        PROVE  Deadline <= t' /\ t' <= Deadline + late'
    BY <1>2, <2>1, <2>2, <1>4, PhaseTyped
  <2>. QED
    BY <1>1, <1>3, <1>4, <1>6, <2>2 DEF PaceInv, InPhase
<1>7. CASE mpc \in InPhase
  <2>1. /\ Phase.offset \in Nat /\ Phase.len \in Nat \ {0} /\ Phase.count \in Nat
        /\ Deadline = Phase.offset + Phase.len /\ Deadline \in Nat
    BY <1>4, <1>7, PhaseTyped
  <2>2. CASE mpc = "phase"
    <3>1. late' = late + 1
      BY <1>2, <2>2 DEF Sleeping
    <3>2. Phase.offset <= t' /\ t' <= Phase.offset + late'
      BY <1>2, <2>1, <2>2, <3>1 DEF PaceInv
    <3>. QED
      BY <1>1, <1>3, <1>4, <2>2, <3>2 DEF PaceInv, InPhase
  <2>3. CASE mpc = "idle"
    <3>1. Deadline <= until /\ until <= Deadline + late /\ t <= Deadline + late
      BY <2>3 DEF PaceInv
    <3>2. until <= Deadline + late' /\ t' <= Deadline + late'
      BY <1>2, <1>4, <2>1, <3>1
    <3>. QED
      BY <1>1, <1>3, <1>4, <2>3, <3>1, <3>2 DEF PaceInv, InPhase
  <2>4. CASE mpc = "tail"
    <3>1. until = Deadline /\ t <= Deadline + late
      BY <2>4 DEF PaceInv
    <3>2. t' <= Deadline + late'
      BY <1>2, <1>4, <2>1, <3>1
    <3>. QED
      BY <1>1, <1>3, <1>4, <2>4, <3>1, <3>2 DEF PaceInv, InPhase
  <2>5. CASE mpc \in {"dispatch", "pace"}
    <3>1. /\ Phase.offset <= t /\ inPhase <= Phase.count /\ t <= Deadline + late
          /\ inPhase > 0 => Phase.len * (inPhase - 1) <= (t - Phase.offset) * Phase.count
      BY <2>5 DEF PaceInv
    <3>2. Phase.offset <= t'
      BY <1>2, <2>1, <3>1
    <3>3. ASSUME inPhase > 0
          PROVE  Phase.len * (inPhase - 1) <= (t' - Phase.offset) * Phase.count
      <4>1. /\ Phase.len * (inPhase - 1) \in Int
            /\ t - Phase.offset \in Int /\ t' - Phase.offset \in Int
            /\ t - Phase.offset <= t' - Phase.offset
        BY <1>2, <1>4, <2>1
      <4>. QED
        BY <2>1, <3>1, <3>3, <4>1, StaysDue
    <3>4. mpc = "pace" => until = Target /\ inPhase < Phase.count
      BY DEF PaceInv
    <3>5. t' <= Deadline + late'
      <4>1. CASE late' = late + 1
        BY <1>2, <2>1, <3>1, <4>1
      <4>2. CASE late' = late /\ mpc \in Sleeping /\ t < until
        <5>1. mpc = "pace" /\ until = Target
          BY <2>5, <3>4, <4>2 DEF Sleeping
        <5>2. Target <= Deadline
          BY <1>2, <1>4, <1>7, <3>4, <5>1, TargetIs
        <5>. QED
          BY <1>2, <1>4, <2>1, <4>2, <5>1, <5>2
      <4>. QED
        BY <1>2, <2>5, <4>1, <4>2
    <3>. QED
      BY <1>1, <1>3, <1>4, <2>5, <3>1, <3>2, <3>3, <3>4, <3>5 DEF PaceInv, InPhase
  <2>. QED
    BY <1>7, <2>2, <2>3, <2>4, <2>5 DEF InPhase
<1>. QED
  BY <1>4, <1>5, <1>6, <1>7

\* No step of main breaks the timetable.
LEMMA MainKeepsPace ==
  ASSUME PaceInv, MainStep
  PROVE  PaceInv'
<1>1. CASE BeginPhase BY <1>1, BeginPhaseKeeps
<1>2. CASE Dispatch BY <1>2, DispatchKeeps
<1>3. CASE PhaseTail BY <1>3, PhaseTailKeeps
<1>4. CASE Paced BY <1>4, PacedKeeps
<1>5. CASE PhaseSlept BY <1>5, PhaseSleptKeeps
<1>6. CASE BreakRun BY <1>6, BreakRunKeeps
<1>7. CASE NextPhase BY <1>7, NextPhaseKeeps
<1>8. CASE EndBlock BY <1>8, EndBlockKeeps
<1>9. CASE DrainEnds \/ Finish BY <1>9, DrainEndsKeeps
<1>. QED
  BY <1>1, <1>2, <1>3, <1>4, <1>5, <1>6, <1>7, <1>8, <1>9 DEF MainStep

\* A run of a timetable begins in its first phase.
LEMMA PaceBegins ==
  ASSUME NEW p, Timetable(p), InitWith(p)
  PROVE  PaceInv
<1>1. /\ plan = p /\ Timetable(plan)
      /\ t = 0 /\ until = 0 /\ late = 0 /\ inPhase = 0
  BY DEF InitWith
<1>2. CASE plan.phases = << >>
  <2>1. mpc = "next" /\ ph = 0
    BY <1>1, <1>2 DEF InitWith
  <2>. QED
    BY <1>1, <1>2, <2>1 DEF PaceInv, InPhase
<1>3. CASE plan.phases # << >>
  <2>1. mpc = "phase" /\ ph = 1
    BY <1>1, <1>3 DEF InitWith
  <2>2. plan.phases \in Seq(PhaseType) /\ plan.phases[1].offset = 0
    BY <1>1, <1>3 DEF Timetable
  <2>3. ph \in DOMAIN plan.phases /\ Phase.offset = 0
    BY <1>3, <2>1, <2>2 DEF Phase
  <2>. QED
    BY <1>1, <2>1, <2>3 DEF PaceInv, InPhase
<1>. QED
  BY <1>2, <1>3

-----------------------------------------------------------------------------
(* What is due has been dispatched *)

\* The invocations that are due are those before the first that is not.
LEMMA DueIs ==
  ASSUME PaceInv, mpc = "pace", t < until
  PROVE  inPhase = Cardinality(Due)
<1>1. /\ Timetable(plan) /\ ph \in DOMAIN plan.phases
      /\ t \in Nat /\ inPhase \in Nat /\ inPhase < Phase.count
      /\ until = Target
      /\ inPhase > 0 => Phase.len * (inPhase - 1) <= (t - Phase.offset) * Phase.count
  BY DEF PaceInv, InPhase
<1>. DEFINE n == Phase.count
            len == Phase.len
            share == (t - Phase.offset) * n
<1>2. len \in Nat \ {0} /\ n \in Nat /\ Phase.offset \in Nat /\ share \in Int
  BY <1>1, PhaseTyped
<1>3. Target \in Nat /\ ~(len * inPhase <= share)
  BY <1>1, TargetIs
<1>4. Due = {i \in 0 .. n - 1 : len * i <= share}
  BY DEF Due
<1>5. inPhase > 0 => len * (inPhase - 1) <= share
  BY <1>1
<1>. HIDE DEF n, len, share
<1>6. ASSUME NEW i \in 0 .. n - 1
      PROVE  len * i <= share <=> i < inPhase
  <2>0. /\ i \in Int /\ i * len = len * i /\ i * len \in Int
        /\ inPhase * len = len * inPhase /\ inPhase * len \in Int
        /\ (inPhase - 1) * len = len * (inPhase - 1) /\ (inPhase - 1) * len \in Int
    BY <1>1, <1>2
  <2>1. CASE i < inPhase
    <3>1. i * len <= (inPhase - 1) * len
      BY <1>1, <1>2, <2>0, <2>1, TimesOrder
    <3>2. len * (inPhase - 1) <= share
      BY <1>1, <1>5, <2>0, <2>1
    <3>. QED
      BY <1>2, <2>0, <2>1, <3>1, <3>2
  <2>2. CASE inPhase <= i
    <3>1. inPhase * len <= i * len
      BY <1>1, <1>2, <2>0, <2>2, TimesOrder
    <3>. QED
      BY <1>1, <1>2, <1>3, <2>0, <2>2, <3>1
  <2>. QED
    BY <1>1, <2>0, <2>1, <2>2
<1>7. Due = 0 .. inPhase - 1
  BY <1>1, <1>2, <1>4, <1>6 DEF n
<1>8. Cardinality(0 .. inPhase - 1) = inPhase
  BY <1>1, FS_Interval
<1>. QED
  BY <1>7, <1>8

-----------------------------------------------------------------------------
(* How much of the plan has been dispatched *)

\* What has been dispatched is all the phases before, and the part of this one.
CountInv ==
  /\ plan.total = CountTo(plan, Len(plan.phases))
  /\ Len(st) \in Nat
  /\ mpc \in {"phase", "idle"} => Len(st) = CountTo(plan, ph - 1)
  /\ mpc = "idle" => Phase.count = 0
  /\ mpc \in {"dispatch", "pace"} => Len(st) = CountTo(plan, ph - 1) + inPhase
  /\ mpc \in {"tail", "next"} => Len(st) = CountTo(plan, ph)
  /\ mpc \in {"drain", "flush", "done"} /\ ~aborted => Len(st) = plan.total

\* The first n phases have as many invocations as the n - 1 before and the last.
LEMMA CountToIs ==
  ASSUME NEW p, Timetable(p)
  PROVE  /\ CountTo(p, 0) = 0
         /\ \A n \in DOMAIN p.phases :
              /\ CountTo(p, n - 1) \in Nat
              /\ CountTo(p, n) = CountTo(p, n - 1) + p.phases[n].count
<1>. DEFINE phases == p.phases
            c == [k \in DOMAIN phases |-> phases[k].count]
<1>1. phases \in Seq(PhaseType) /\ DOMAIN phases = 1 .. Len(phases) /\ Len(phases) \in Nat
  BY DEF Timetable
<1>2. \A n : CountTo(p, n) = SumFunctionOnSet(c, 1 .. n)
  BY DEF CountTo
<1>3. \A k \in 1 .. Len(phases) : c[k] \in Nat /\ c[k] = p.phases[k].count
  <2>. HIDE DEF phases
  <2>1. \A k \in 1 .. Len(phases) : phases[k] \in PhaseType
    BY <1>1
  <2>2. \A k \in 1 .. Len(phases) : c[k] = phases[k].count
    BY <1>1
  <2>. QED
    BY <2>1, <2>2 DEF PhaseType, phases
<1>. HIDE DEF c
<1>4. CountTo(p, 0) = 0
  <2>1. 1 .. 0 = {}
    OBVIOUS
  <2>. QED
    BY <1>2, <2>1, SumEmpty
<1>5. ASSUME NEW n \in 1 .. Len(phases)
      PROVE  /\ CountTo(p, n - 1) \in Nat
             /\ CountTo(p, n) = CountTo(p, n - 1) + p.phases[n].count
  <2>. DEFINE m == n - 1
  <2>1. m \in Nat /\ m + 1 = n
    BY <1>1
  <2>2. \A k \in 1 .. m + 1 : c[k] \in Int /\ c[k] \in Nat
    BY <1>1, <1>3, <2>1
  <2>. HIDE DEF m
  <2>3. SumFunctionOnSet(c, 1 .. m + 1) = SumFunctionOnSet(c, 1 .. m) + c[m + 1]
    BY <2>1, <2>2, SumUpTo
  <2>4. SumFunctionOnSet(c, 1 .. m) \in Nat
    <3>1. IsFiniteSet(1 .. m)
      BY <2>1, FS_Interval
    <3>2. \A k \in 1 .. m : c[k] \in Nat
      BY <2>1, <2>2
    <3>. QED
      BY <3>1, <3>2, SumNat
  <2>. QED
    BY <1>2, <1>3, <2>1, <2>3, <2>4 DEF m
<1>. QED
  BY <1>1, <1>4, <1>5

\* The current phase, with what is dispatched before it and after it.
LEMMA PhaseAdds ==
  ASSUME PaceInv, ph \in DOMAIN plan.phases
  PROVE  /\ CountTo(plan, ph - 1) \in Nat /\ Phase.count \in Nat /\ ph \in Nat
         /\ CountTo(plan, ph) = CountTo(plan, ph - 1) + Phase.count
BY CountToIs, PhaseTyped DEF PaceInv, Phase

\* A step that leaves main where it is and dispatches nothing.
LEMMA OthersCount ==
  ASSUME CountInv, UNCHANGED <<plan, mpc, ph, inPhase, aborted>>, Len(st') = Len(st)
  PROVE  CountInv'
BY DEF CountInv, CountTo, Phase

\* Each step of main dispatches one, or none.
LEMMA MainCounts ==
  ASSUME PaceInv, CountInv, st \in Seq(States), MainStep
  PROVE  CountInv'
<1>. USE DEF CountInv, InPhase
<1>0. plan' = plan
  BY DEF MainStep, BeginPhase, Dispatch, PhaseTail, Paced, PhaseSlept, BreakRun, NextPhase,
         EndBlock, DrainEnds, Finish, restVars
<1>a. /\ \A n : CountTo(plan, n)' = CountTo(plan, n')
      /\ plan.total = CountTo(plan, Len(plan.phases))
  BY <1>0 DEF CountTo
<1>1. CASE BeginPhase
  <2>1. /\ st' = st /\ ph' = ph /\ Phase' = Phase /\ mpc = "phase" /\ inPhase' = 0
        /\ \/ mpc' = "idle" /\ Phase.count = 0
           \/ mpc' = "dispatch"
    BY <1>0, <1>1 DEF BeginPhase, taskVars, Sleep, Phase
  <2>. QED
    BY <1>0, <1>a, <2>1
<1>b. ASSUME Spawn PROVE Len(st') = Len(st) + 1 /\ inPhase' = inPhase + 1
  BY <1>b DEF Spawn
<1>2. CASE Dispatch
  <2>1. /\ ph' = ph /\ Phase' = Phase /\ mpc = "dispatch" /\ aborted' = aborted
        /\ inPhase \in Nat /\ ph \in DOMAIN plan.phases
        /\ \/ mpc' = "pace" /\ inPhase' = inPhase /\ st' = st
           \/ mpc' = "dispatch" /\ Spawn
    BY <1>0, <1>2 DEF Dispatch, Sleep, Phase, PaceInv
  <2>2. CountTo(plan, ph - 1) \in Nat
    BY <2>1, PhaseAdds
  <2>. QED
    BY <1>0, <1>a, <1>b, <2>1, <2>2
<1>3. CASE PhaseTail
  <2>1. /\ st' = st /\ ph' = ph /\ Phase' = Phase /\ mpc = "dispatch"
        /\ inPhase = Phase.count /\ ph \in DOMAIN plan.phases
        /\ mpc' \in {"tail", "next"}
    BY <1>0, <1>3 DEF PhaseTail, taskVars, Sleep, Phase, PaceInv
  <2>. QED
    BY <1>0, <1>a, <2>1, PhaseAdds
<1>4. CASE Paced
  <2>1. /\ ph' = ph /\ Phase' = Phase /\ mpc = "pace" /\ mpc' = "dispatch"
        /\ inPhase \in Nat /\ ph \in DOMAIN plan.phases /\ Spawn
    BY <1>0, <1>4 DEF Paced, Phase, PaceInv
  <2>2. CountTo(plan, ph - 1) \in Nat
    BY <2>1, PhaseAdds
  <2>. QED
    BY <1>0, <1>a, <1>b, <2>1, <2>2
<1>5. CASE PhaseSlept
  <2>1. /\ st' = st /\ ph' = ph /\ Phase' = Phase /\ mpc \in {"idle", "tail"}
        /\ ph \in DOMAIN plan.phases /\ mpc' = "next"
    BY <1>0, <1>5 DEF PhaseSlept, taskVars, Phase, PaceInv
  <2>. QED
    BY <1>0, <1>a, <2>1, PhaseAdds
<1>6. CASE BreakRun
  BY <1>0, <1>a, <1>6 DEF BreakRun, taskVars
<1>7. CASE NextPhase
  <2>1. st' = st /\ ph' = ph + 1 /\ mpc = "next" /\ mpc' = "phase"
    BY <1>7 DEF NextPhase, taskVars
  <2>2. ph' - 1 = ph
    <3>1. ph \in Nat
      BY <2>1, PhaseAdds DEF PaceInv
    <3>. QED
      BY <2>1, <3>1
  <2>. QED
    BY <1>0, <1>a, <2>1, <2>2
<1>8. CASE EndBlock
  <2>1. /\ st' = st /\ mpc = "next" /\ aborted' = aborted
        /\ ~(ph > 0 /\ BlockLen > t) /\ LeaveBlock
    BY <1>8, BlockIsOver DEF EndBlock, taskVars
  <2>2. CASE LastPhase
    BY <1>0, <1>a, <2>1, <2>2 DEF LeaveBlock, LastPhase
  <2>3. CASE ~LastPhase
    <3>1. ph' = ph + 1 /\ mpc' = "phase"
      BY <2>1, <2>3 DEF LeaveBlock
    <3>2. ph' - 1 = ph
      <4>1. ph \in Nat
        BY <2>1, PhaseAdds DEF PaceInv
      <4>. QED
        BY <3>1, <4>1
    <3>. QED
      BY <1>0, <1>a, <2>1, <3>1, <3>2
  <2>. QED
    BY <2>2, <2>3
<1>9. CASE DrainEnds \/ Finish
  BY <1>0, <1>a, <1>9 DEF DrainEnds, Finish, taskVars
<1>. QED
  BY <1>1, <1>2, <1>3, <1>4, <1>5, <1>6, <1>7, <1>8, <1>9 DEF MainStep

\* Nothing is dispatched of a plan that is about to begin.
LEMMA CountBegins ==
  ASSUME NEW p, Timetable(p), p.total = CountTo(p, Len(p.phases)), InitWith(p)
  PROVE  CountInv
<1>1. plan = p /\ st = << >> /\ CountTo(p, 0) = 0
  BY CountToIs DEF InitWith
<1>2. Len(st) = 0
  BY <1>1
<1>3. \/ mpc = "next" /\ ph = 0
      \/ mpc = "phase" /\ ph = 1
  BY DEF InitWith
<1>4. 1 - 1 = 0
  OBVIOUS
<1>. QED
  BY <1>1, <1>2, <1>3, <1>4 DEF CountInv

-----------------------------------------------------------------------------
(* The types of what main and the timeouts go by *)

RunType ==
  /\ ph \in Nat /\ ph <= Len(plan.phases)
  /\ notified \in BOOLEAN /\ aborted \in BOOLEAN /\ starved \in BOOLEAN
  /\ pressed \in 0 .. CtrlCs
  /\ limit \in Seq(Nat) /\ Len(limit) = Len(st)

\* What a step does to the timeouts: none, one more for what it dispatches, or a tick
\* less for each that runs and has not run out.
LimitStep ==
  \/ limit' = limit /\ Len(st') = Len(st)
  \/ Spawn
  \/ /\ st' = st
     /\ limit' = [j \in Dispatched |->
                    IF st[j] \in {"flight", "body"} THEN limit[j] - 1 ELSE limit[j]]
     /\ \A j \in InState({"flight", "body"}) : limit[j] # 0

\* Remaining times stay natural numbers: a request has its timeout when it is
\* spawned, and time passes only while none in flight has run out.
LEMMA LimitsTyped ==
  ASSUME st \in Seq(States), limit \in Seq(Nat), Len(limit) = Len(st),
         Spawn => PaceInv /\ ph \in DOMAIN plan.phases, LimitStep
  PROVE  limit' \in Seq(Nat) /\ Len(limit') = Len(st')
<1>0. Len(st) \in Nat /\ DOMAIN st = 1 .. Len(st) /\ DOMAIN limit = 1 .. Len(st)
  OBVIOUS
<1>1. CASE limit' = limit /\ Len(st') = Len(st)
  BY <1>1
<1>2. CASE Spawn
  <2>. DEFINE remaining == IF Deadline > t THEN Deadline - t ELSE 0
              more == IF remaining > MinTimeout THEN remaining ELSE MinTimeout
  <2>1. Deadline \in Nat /\ t \in Nat /\ MinTimeout \in Nat
    BY <1>2, PhaseTyped, LoadgenAssumption DEF PaceInv
  <2>2. more \in Nat
    BY <2>1
  <2>3. limit' = Append(limit, more) /\ st' = Append(st, "queued")
    BY <1>2 DEF Spawn
  <2>. HIDE DEF more
  <2>. QED
    BY <2>2, <2>3
<1>3. CASE /\ st' = st
           /\ limit' = [j \in Dispatched |->
                          IF st[j] \in {"flight", "body"} THEN limit[j] - 1 ELSE limit[j]]
           /\ \A j \in InState({"flight", "body"}) : limit[j] # 0
  <2>1. \A j \in 1 .. Len(st) : limit'[j] \in Nat
    BY <1>0, <1>3 DEF InState, Where, Dispatched
  <2>2. limit' \in [1 .. Len(st) -> Nat]
    BY <1>0, <1>3, <2>1 DEF Dispatched
  <2>. QED
    BY <1>0, <1>3, <2>2
<1>. QED
  BY <1>1, <1>2, <1>3 DEF LimitStep

\* Main counts its phases up to the last one.
LEMMA MainTypes ==
  ASSUME PaceInv, RunType, st \in Seq(States), MainStep
  PROVE  RunType'
<1>. USE DEF RunType
<1>0. plan' = plan /\ pressed' = pressed /\ starved' = starved
  BY DEF MainStep, BeginPhase, Dispatch, PhaseTail, Paced, PhaseSlept, BreakRun, NextPhase,
         EndBlock, DrainEnds, Finish, restVars
<1>1. notified' \in BOOLEAN /\ aborted' \in BOOLEAN
  BY DEF MainStep, BeginPhase, Dispatch, PhaseTail, Paced, PhaseSlept, BreakRun, NextPhase,
         EndBlock, DrainEnds, Finish, Sleep
<1>2. LimitStep /\ (Spawn => ph \in DOMAIN plan.phases)
  <2>1. CASE Dispatch \/ Paced
    <3>1. ph \in DOMAIN plan.phases
      BY <2>1 DEF Dispatch, Paced, PaceInv, InPhase
    <3>. QED
      BY <2>1, <3>1 DEF Dispatch, Paced, LimitStep
  <2>2. CASE ~(Dispatch \/ Paced)
    <3>1. st' = st /\ limit' = limit
      BY <2>2 DEF MainStep, BeginPhase, PhaseTail, PhaseSlept, BreakRun, NextPhase, EndBlock,
                  DrainEnds, Finish, taskVars
    <3>2. ~Spawn
      <4>1. Len(Append(st, "queued")) # Len(st)
        OBVIOUS
      <4>. QED
        BY <3>1, <4>1 DEF Spawn
    <3>. QED
      BY <3>1, <3>2 DEF LimitStep
  <2>. QED
    BY <2>1, <2>2
<1>3. limit' \in Seq(Nat) /\ Len(limit') = Len(st')
  BY <1>2, LimitsTyped
<1>4. ph' \in Nat /\ ph' <= Len(plan.phases)
  <2>1. CASE NextPhase
    <3>1. ph + 1 \in DOMAIN plan.phases /\ ph' = ph + 1
      BY <2>1 DEF NextPhase, EndsBlock
    <3>2. DOMAIN plan.phases = 1 .. Len(plan.phases)
      BY DEF PaceInv, Timetable
    <3>. QED
      BY <3>1, <3>2
  <2>2. CASE EndBlock
    <3>1. ph' = ph \/ (~LastPhase /\ ph' = ph + 1)
      BY <2>2 DEF EndBlock, LeaveBlock
    <3>2. Len(plan.phases) \in Nat
      BY DEF PaceInv, Timetable
    <3>. QED
      BY <3>1, <3>2 DEF LastPhase
  <2>3. CASE ~(NextPhase \/ EndBlock)
    BY <2>3 DEF MainStep, BeginPhase, Dispatch, PhaseTail, Paced, PhaseSlept, BreakRun,
                DrainEnds, Finish
  <2>. QED
    BY <2>1, <2>2, <2>3
<1>. QED
  BY <1>0, <1>1, <1>3, <1>4

\* The other steps leave the phase alone.
LEMMA OthersTyped ==
  ASSUME RunType, st \in Seq(States), UNCHANGED <<plan, ph, aborted>>,
         notified' \in BOOLEAN, starved' \in BOOLEAN, pressed' \in 0 .. CtrlCs,
         LimitStep, ~Spawn
  PROVE  RunType'
<1>1. limit' \in Seq(Nat) /\ Len(limit') = Len(st')
  BY LimitsTyped DEF RunType
<1>. QED
  BY <1>1 DEF RunType

\* Nothing has been spawned or signalled at first.
LEMMA TypeBegins ==
  ASSUME NEW p, Timetable(p), InitWith(p)
  PROVE  RunType
<1>1. /\ plan = p /\ notified = FALSE /\ aborted = FALSE /\ starved = FALSE
      /\ pressed = 0 /\ st = << >> /\ limit = << >>
  BY DEF InitWith
<1>2. 0 \in 0 .. CtrlCs
  BY LoadgenAssumption
<1>3. ph \in Nat /\ ph <= Len(plan.phases)
  <2>1. plan.phases \in Seq(PhaseType)
    BY <1>1 DEF Timetable
  <2>2. CASE plan.phases = << >>
    BY <2>1, <2>2, <1>1 DEF InitWith
  <2>3. CASE plan.phases # << >>
    <3>1. ph = 1 /\ Len(plan.phases) \in Nat /\ Len(plan.phases) # 0
      BY <1>1, <2>1, <2>3 DEF InitWith
    <3>. QED
      BY <3>1
  <2>. QED
    BY <2>2, <2>3
<1>4. notified \in BOOLEAN /\ aborted \in BOOLEAN /\ starved \in BOOLEAN
  BY <1>1
<1>5. limit \in Seq(Nat) /\ Len(limit) = Len(st)
  BY <1>1
<1>. QED
  BY <1>1, <1>2, <1>3, <1>4, <1>5 DEF RunType

-----------------------------------------------------------------------------
(* How long a request can still take *)

Waiting    == {"queued", "flight", "body"}
AllSettled == InState({"landed", "failed"}) = Dispatched

\* If no invocation has waited for a permit, then each was posted in the tick it was
\* dispatched in, and its timeout ends with its phase, or MinTimeout after it was
\* dispatched.  When main leaves a phase only the latter can still run, and the pause
\* before the flush is longer.
SlackInv ==
  ~aborted /\ ~starved =>
    /\ mpc \in InPhase => \A j \in InState(Waiting) :
         limit[j] <= MinTimeout \/ limit[j] <= Deadline - t
    /\ mpc = "next" => \A j \in InState(Waiting) : limit[j] <= MinTimeout
    /\ mpc = "drain" /\ t < until => \A j \in InState(Waiting) : limit[j] < until - t
    /\ mpc = "drain" /\ until <= t => AllSettled
    /\ mpc \in {"flush", "done"} => AllSettled

\* What is still waiting after a step was so before, with the same timeout.
LEMMA FewerWait ==
  ASSUME SlackInv, UNCHANGED <<plan, mpc, ph, t, until, aborted, starved, limit>>,
         \A j \in InState(Waiting)' : j \in InState(Waiting),
         AllSettled => AllSettled'
  PROVE  SlackInv'
<1>1. Deadline' = Deadline
  BY DEF Deadline, Phase
<1>. QED
  BY <1>1 DEF SlackInv

\* A task's step never makes its invocation wait again, nor one that is settled move.
LEMMA TaskSlack ==
  ASSUME SlackInv, st \in Seq(States), NEW j \in Dispatched, TaskStep(j)
  PROVE  SlackInv'
<1>1. PICK s \in {"flight", "body", "failed", "write", "landed"} :
        /\ st' = [st EXCEPT ![j] = s]
        /\ st[j] \in Waiting \union {"write"}
        /\ s \in Waiting => st[j] \in Waiting
  BY DEF TaskStep, Acquire, Respond, Fail, Count, Record, Move, Waiting
<1>2. UNCHANGED <<plan, mpc, ph, t, until, aborted, starved, limit>>
  BY DEF TaskStep, Acquire, Respond, Fail, Count, Record, mainVars, restVars
<1>3. \A k \in InState(Waiting)' : k \in InState(Waiting)
  BY <1>1 DEF InState, Where, Waiting, Dispatched
<1>4. ~AllSettled
  BY <1>1 DEF AllSettled, InState, Where, Waiting, Dispatched
<1>. QED
  BY <1>2, <1>3, <1>4, FewerWait

\* A tick takes one off every timeout that runs; when it ends the pause, no request
\* is left: its timeout would have ended before.
LEMMA TickSlack ==
  ASSUME SlackInv, PaceInv, RunType, st \in Seq(States), Tick
  PROVE  SlackInv'
<1>0. /\ UNCHANGED <<plan, mpc, ph, until, aborted, st>> /\ t' = t + 1 /\ ~Prompt
      /\ \A j \in Dispatched :
           limit'[j] = IF st[j] \in {"flight", "body"} THEN limit[j] - 1 ELSE limit[j]
      /\ starved' = (starved \/ InState({"queued"}) # {})
  BY DEF Tick
<1>1. SUFFICES ASSUME ~aborted, ~starved' PROVE SlackInv'
  BY <1>0 DEF SlackInv
<1>2. ~starved /\ InState({"queued"}) = {}
  BY <1>0, <1>1
<1>3. ASSUME NEW j \in InState(Waiting)
      PROVE  /\ j \in Dispatched /\ limit[j] \in Nat \ {0} /\ limit'[j] = limit[j] - 1
             /\ j \in InState({"flight", "body"})
  <2>1. j \in Dispatched /\ st[j] \in {"flight", "body"}
    BY <1>2 DEF InState, Where, Waiting, Dispatched
  <2>2. j \in InState({"flight", "body"}) /\ limit[j] # 0
    BY <1>0, <2>1 DEF Prompt, InState, Where, Dispatched
  <2>3. limit[j] \in Nat
    BY <2>1 DEF RunType, Dispatched
  <2>. QED
    BY <1>0, <2>1, <2>2, <2>3
<1>4. /\ InState(Waiting)' = InState(Waiting) /\ Deadline' = Deadline
      /\ AllSettled' = AllSettled
  BY <1>0 DEF InState, AllSettled, Dispatched, Deadline, Phase
<1>5. t \in Nat /\ until \in Nat /\ MinTimeout \in Nat
  BY LoadgenAssumption DEF PaceInv
<1>6. CASE mpc \in InPhase
  <2>1. Deadline \in Nat
    BY <1>6, PhaseTyped DEF PaceInv
  <2>2. ASSUME NEW j \in InState(Waiting)
        PROVE  limit'[j] <= MinTimeout \/ limit'[j] <= Deadline - t'
    <3>1. limit[j] <= MinTimeout \/ limit[j] <= Deadline - t
      BY <1>1, <1>2, <1>6 DEF SlackInv
    <3>. QED
      BY <1>0, <1>3, <1>5, <2>1, <3>1
  <2>. QED
    BY <1>0, <1>4, <1>6, <2>2 DEF SlackInv, InPhase
<1>7. CASE mpc = "next"
  <2>1. ASSUME NEW j \in InState(Waiting) PROVE limit'[j] <= MinTimeout
    <3>1. limit[j] <= MinTimeout
      BY <1>1, <1>2, <1>7 DEF SlackInv
    <3>. QED
      BY <1>3, <1>5, <3>1
  <2>. QED
    BY <1>0, <1>4, <1>7, <2>1 DEF SlackInv, InPhase
<1>8. CASE mpc = "drain"
  <2>1. CASE until <= t
    <3>1. AllSettled /\ until <= t' /\ ~(t' < until)
      BY <1>0, <1>1, <1>2, <1>5, <1>8, <2>1 DEF SlackInv
    <3>. QED
      BY <1>0, <1>4, <1>8, <3>1 DEF SlackInv, InPhase
  <2>2. CASE t < until
    <3>1. \A j \in InState(Waiting) : limit[j] < until - t
      BY <1>1, <1>2, <1>8, <2>2 DEF SlackInv
    <3>2. \A j \in InState(Waiting) : limit'[j] < until - t'
      BY <1>0, <1>3, <1>5, <3>1
    <3>3. ASSUME until <= t' PROVE AllSettled
      <4>1. until - t = 1
        BY <1>0, <1>5, <2>2, <3>3
      <4>2. InState(Waiting) = {}
        BY <1>3, <3>1, <4>1
      <4>3. InState({"write"}) = {}
        BY <1>0 DEF Prompt
      <4>. QED
        <5>1. \A j \in DOMAIN st : st[j] \in States
          OBVIOUS
        <5>. QED
          BY <4>2, <4>3, <5>1
          DEF InState, Where, Waiting, AllSettled, Dispatched, States
    <3>. QED
      BY <1>0, <1>4, <1>8, <3>2, <3>3 DEF SlackInv, InPhase
  <2>. QED
    BY <1>5, <2>1, <2>2
<1>9. CASE mpc \in {"flush", "done"}
  <2>1. AllSettled
    BY <1>1, <1>2, <1>9 DEF SlackInv
  <2>. QED
    BY <1>0, <1>4, <1>9, <2>1 DEF SlackInv, InPhase
<1>. QED
  BY <1>6, <1>7, <1>8, <1>9 DEF PaceInv

\* An invocation is dispatched with a timeout that ends with its phase, or MinTimeout
\* from now.
LEMMA SpawnSlack ==
  ASSUME SlackInv, PaceInv, RunType, st \in Seq(States),
         mpc \in {"dispatch", "pace"}, mpc' = "dispatch", Spawn,
         UNCHANGED <<plan, ph, t, aborted, starved>>
  PROVE  SlackInv'
<1>. DEFINE remaining == IF Deadline > t THEN Deadline - t ELSE 0
            more == IF remaining > MinTimeout THEN remaining ELSE MinTimeout
<1>1. SUFFICES ASSUME ~aborted, ~starved
               PROVE  \A j \in InState(Waiting)' :
                        limit'[j] <= MinTimeout \/ limit'[j] <= Deadline - t
  <2>1. Deadline' = Deadline
    BY DEF Deadline, Phase
  <2>. QED
    BY <1>1, <2>1 DEF SlackInv, InPhase
<1>2. Deadline \in Nat /\ t \in Nat /\ MinTimeout \in Nat
  BY PhaseTyped, LoadgenAssumption DEF PaceInv, InPhase
<1>3. more \in Nat /\ (more <= MinTimeout \/ more <= Deadline - t)
  BY <1>2
<1>4. st' = Append(st, "queued") /\ limit' = Append(limit, more)
  BY DEF Spawn
<1>. HIDE DEF more
<1>5. /\ DOMAIN st' = 1 .. Len(st) + 1 /\ DOMAIN st = 1 .. Len(st)
      /\ \A j \in 1 .. Len(st) : st'[j] = st[j] /\ limit'[j] = limit[j]
      /\ limit'[Len(st) + 1] = more
  BY <1>3, <1>4 DEF RunType
<1>6. \A j \in InState(Waiting) : limit[j] <= MinTimeout \/ limit[j] <= Deadline - t
  BY <1>1 DEF SlackInv, InPhase
<1>7. ASSUME NEW j \in InState(Waiting)'
      PROVE  limit'[j] <= MinTimeout \/ limit'[j] <= Deadline - t
  <2>1. j \in 1 .. Len(st) + 1 /\ st'[j] \in Waiting
    BY <1>5 DEF InState, Where, Waiting
  <2>2. CASE j = Len(st) + 1
    BY <1>3, <1>5, <2>2
  <2>3. CASE j # Len(st) + 1
    <3>1. j \in 1 .. Len(st)
      BY <2>1, <2>3
    <3>2. j \in InState(Waiting) /\ limit'[j] = limit[j]
      BY <1>5, <2>1, <3>1 DEF InState, Where
    <3>. QED
      BY <1>6, <3>2
  <2>. QED
    BY <2>2, <2>3
<1>. QED
  BY <1>7

\* Main leaves a phase when its deadline is over, and the last one with a pause that
\* is longer than what is left of any timeout.
LEMMA MainSlack ==
  ASSUME SlackInv, PaceInv, RunType, st \in Seq(States), MainStep
  PROVE  SlackInv'
<1>0. plan' = plan /\ starved' = starved
  BY DEF MainStep, BeginPhase, Dispatch, PhaseTail, Paced, PhaseSlept, BreakRun, NextPhase,
         EndBlock, DrainEnds, Finish, restVars
<1>1. CASE Spawn /\ (Dispatch \/ Paced)
  <2>1. /\ mpc \in {"dispatch", "pace"} /\ mpc' = "dispatch" /\ Spawn
        /\ UNCHANGED <<ph, t, aborted>>
    <3>1. inPhase' # inPhase
      BY <1>1 DEF Spawn, PaceInv
    <3>. QED
      BY <1>1, <3>1 DEF Dispatch, Paced
  <2>. QED
    BY <1>0, <2>1, SpawnSlack
<1>2. CASE BreakRun
  BY <1>2 DEF BreakRun, SlackInv
<1>3. CASE ~BreakRun /\ ~(Spawn /\ (Dispatch \/ Paced))
  <2>1. st' = st /\ limit' = limit /\ aborted' = aborted
    BY <1>3 DEF MainStep, BeginPhase, Dispatch, PhaseTail, Paced, PhaseSlept, NextPhase,
                EndBlock, DrainEnds, Finish, taskVars
  <2>2. SUFFICES ASSUME ~aborted, ~starved PROVE SlackInv'
    BY <1>0, <2>1 DEF SlackInv
  <2>3. InState(Waiting)' = InState(Waiting) /\ AllSettled' = AllSettled
    BY <2>1 DEF InState, AllSettled, Dispatched
  <2>4. \A j \in InState(Waiting) : limit[j] \in Nat /\ limit'[j] = limit[j]
    BY <2>1 DEF RunType, InState, Where
  <2>5. /\ t \in Nat /\ until \in Nat /\ MinTimeout \in Nat /\ Drain \in Nat
        /\ MinTimeout < Drain
    BY LoadgenAssumption DEF PaceInv
  <2>6. CASE BeginPhase \/ Dispatch
    <3>1. /\ mpc \in InPhase /\ mpc' \in InPhase /\ ph' = ph /\ t' = t
          /\ Deadline' = Deadline
      BY <1>0, <1>3, <2>6 DEF BeginPhase, Dispatch, Sleep, InPhase, Deadline, Phase
    <3>. QED
      BY <2>2, <2>3, <2>4, <3>1 DEF SlackInv, InPhase
  <2>7. CASE PhaseTail \/ PhaseSlept
    <3>1. /\ mpc \in InPhase /\ ph' = ph /\ t' = t /\ Deadline' = Deadline
          /\ ph \in DOMAIN plan.phases /\ Deadline \in Nat
          /\ \/ mpc' = "tail"
             \/ mpc' = "next" /\ Deadline <= t
      <4>1. /\ mpc \in InPhase /\ ph \in DOMAIN plan.phases
        BY <2>7 DEF PhaseTail, PhaseSlept, PaceInv, InPhase
      <4>2. Deadline \in Nat
        BY <4>1, PhaseTyped DEF PaceInv
      <4>3. CASE PhaseTail
        BY <1>0, <2>5, <4>1, <4>2, <4>3 DEF PhaseTail, Sleep, Deadline, Phase
      <4>4. CASE PhaseSlept
        <5>1. Deadline <= until /\ until <= t
          BY <2>5, <4>2, <4>4 DEF PhaseSlept, PaceInv, InPhase
        <5>. QED
          BY <1>0, <2>5, <4>1, <4>2, <4>4, <5>1 DEF PhaseSlept, Deadline, Phase
      <4>. QED
        BY <2>7, <4>3, <4>4
    <3>2. \A j \in InState(Waiting) : limit[j] <= MinTimeout \/ limit[j] <= Deadline - t
      BY <2>2, <3>1 DEF SlackInv
    <3>3. CASE mpc' = "tail"
      BY <2>3, <2>4, <3>1, <3>2, <3>3 DEF SlackInv, InPhase
    <3>4. CASE mpc' = "next" /\ Deadline <= t
      <4>1. \A j \in InState(Waiting) : limit[j] <= MinTimeout
        BY <2>4, <2>5, <3>1, <3>2, <3>4
      <4>. QED
        BY <2>3, <2>4, <3>4, <4>1 DEF SlackInv, InPhase
    <3>. QED
      BY <3>1, <3>3, <3>4
  <2>8. CASE NextPhase \/ EndBlock
    <3>1. \A j \in InState(Waiting) : limit[j] <= MinTimeout
      BY <2>2, <2>8 DEF SlackInv, NextPhase, EndBlock
    <3>2. \/ mpc' = "phase"
          \/ mpc' = "drain" /\ t' = t /\ until' = t + Drain
      BY <2>8, BlockIsOver DEF NextPhase, EndBlock, LeaveBlock
    <3>3. CASE mpc' = "phase"
      BY <2>3, <2>4, <3>1, <3>3 DEF SlackInv, InPhase
    <3>4. CASE mpc' = "drain" /\ t' = t /\ until' = t + Drain
      <4>1. until' - t' = Drain /\ ~(until' <= t')
        BY <2>5, <3>4
      <4>2. \A j \in InState(Waiting) : limit[j] < Drain
        BY <2>4, <2>5, <3>1
      <4>. QED
        BY <2>3, <2>4, <3>4, <4>1, <4>2 DEF SlackInv, InPhase
    <3>. QED
      BY <3>2, <3>3, <3>4
  <2>9. CASE DrainEnds \/ Finish
    <3>1. AllSettled
      BY <2>2, <2>5, <2>9 DEF SlackInv, DrainEnds, Finish
    <3>2. mpc' \in {"flush", "done"}
      BY <2>9 DEF DrainEnds, Finish
    <3>. QED
      BY <2>3, <3>1, <3>2 DEF SlackInv, InPhase
  <2>. QED
    BY <1>3, <2>6, <2>7, <2>8, <2>9 DEF MainStep, Paced
<1>. QED
  BY <1>1, <1>2, <1>3

-----------------------------------------------------------------------------
(* The theorems about the whole run *)

\* The inductive invariant of a run of ow-loadgen.
OwInv == TaskInv /\ PaceInv /\ CountInv /\ RunType /\ SlackInv

\* A run starts in it.
LEMMA OwBegins == ASSUME LoadgenAssumption, Init PROVE OwInv
<1>1. /\ InitWith(PlanOfRun) /\ Timetable(PlanOfRun)
      /\ PlanOfRun.total = CountTo(PlanOfRun, Len(PlanOfRun.phases))
  BY PlanIsTimetable, TotalIsSum DEF Init
<1>2. SlackInv
  BY <1>1 DEF InitWith, SlackInv, InState, Where
<1>. QED
  BY <1>1, <1>2, InitTasks, PaceBegins, CountBegins, TypeBegins DEF OwInv

\* Every step keeps it: main's, the tasks', the signal's and the clock's.
LEMMA OwKeeps == ASSUME OwInv, [Next]_vars PROVE OwInv'
<1>. USE DEF OwInv
<1>0. TaskInv' /\ st \in Seq(States)
  BY OwStepKeeps DEF TaskInv, TaskType
<1>a. ~Spawn \/ Len(st') # Len(st)
  BY <1>0 DEF Spawn
<1>1. CASE MainStep
  BY <1>0, <1>1, MainKeepsPace, MainCounts, MainTypes, MainSlack
<1>2. ASSUME NEW j \in Dispatched, TaskStep(j) PROVE OwInv'
  <2>1. UNCHANGED <<mainVars, restVars, limit>> /\ Len(st') = Len(st)
    BY <1>0, <1>2 DEF TaskStep, Acquire, Respond, Fail, Count, Record, Move
  <2>2. PaceInv' /\ CountInv'
    BY <2>1, OthersKeep, OthersCount DEF mainVars, restVars
  <2>3. RunType'
    BY <1>0, <1>a, <2>1, OthersTyped DEF mainVars, restVars, LimitStep, RunType
  <2>. QED
    BY <1>0, <1>2, <2>2, <2>3, TaskSlack
<1>3. CASE CtrlC
  <2>1. /\ UNCHANGED <<plan, mpc, ph, t, until, late, inPhase, aborted, starved, st, limit>>
        /\ notified' \in BOOLEAN
    BY <1>3 DEF CtrlC, taskVars
  <2>2. pressed' \in 0 .. CtrlCs
    BY <1>3, LoadgenAssumption DEF CtrlC, RunType
  <2>3. PaceInv' /\ CountInv'
    BY <2>1, OthersKeep, OthersCount
  <2>4. RunType'
    BY <1>0, <1>a, <2>1, <2>2, OthersTyped DEF LimitStep, RunType
  <2>5. SlackInv'
    BY <2>1, FewerWait DEF InState, AllSettled, Dispatched
  <2>. QED
    BY <1>0, <2>3, <2>4, <2>5
<1>4. CASE Tick
  <2>1. ClockTicks /\ UNCHANGED <<st, pressed, notified>> /\ starved' \in BOOLEAN
    BY <1>4 DEF Tick, ClockTicks, RunType
  <2>2. PaceInv' /\ CountInv'
    BY <2>1, TickKeeps, OthersCount DEF ClockTicks
  <2>3. LimitStep
    BY <1>4 DEF Tick, LimitStep, Prompt
  <2>4. RunType'
    BY <1>0, <1>a, <2>1, <2>3, OthersTyped DEF ClockTicks, RunType
  <2>. QED
    BY <1>0, <1>4, <2>2, <2>4, TickSlack
<1>5. CASE Terminating \/ UNCHANGED vars
  <2>1. UNCHANGED <<mainVars, taskVars, restVars>>
    BY <1>5 DEF Terminating, vars
  <2>2. PaceInv' /\ CountInv'
    BY <2>1, OthersKeep, OthersCount DEF mainVars, taskVars, restVars
  <2>3. RunType'
    BY <2>1 DEF RunType, mainVars, taskVars, restVars
  <2>4. SlackInv'
    BY <2>1, FewerWait DEF mainVars, taskVars, restVars, InState, AllSettled, Dispatched
  <2>. QED
    BY <1>0, <2>2, <2>3, <2>4
<1>6. CASE FlushFails
  <2>1. /\ mpc = "flush" /\ mpc' = "done"
        /\ UNCHANGED <<plan, ph, t, until, notified, late, inPhase, aborted, pressed,
                      starved, st, limit>>
    BY <1>6 DEF FlushFails, restVars
  <2>2. PaceInv'
    BY <2>1 DEF PaceInv, InPhase
  <2>3. CountInv'
    BY <2>1 DEF CountInv, InPhase
  <2>4. RunType' /\ SlackInv'
    BY <2>1 DEF RunType, SlackInv, InPhase, InState, AllSettled, Dispatched
  <2>. QED
    BY <1>0, <2>2, <2>3, <2>4
<1>. QED
  BY <1>1, <1>2, <1>3, <1>4, <1>5, <1>6 DEF Next

\* OwInv is an invariant of ow-loadgen, for every trace, concurrency, lateness and
\* schedule.
THEOREM RunCorrect == Spec => []OwInv
<1>1. Init => OwInv
  BY OwBegins, LoadgenAssumption
<1>2. OwInv /\ [Next]_vars => OwInv'
  BY OwKeeps
<1>. QED
  BY <1>1, <1>2, PTL DEF Spec

\* What is true of a run by its parts.
LEMMA RunTyped == ASSUME TaskType, PaceInv, RunType PROVE TypeOK
BY DEF RunType, PaceInv, InPhase, TypeOK

\* What main dispatched and what was printed are both read off CountInv.
LEMMA RunHonours == ASSUME CountInv PROVE PlanHonoured
BY DEF CountInv, PlanHonoured

\* When a block ends, and how many are due at a time, are read off PaceInv.
LEMMA RunOnTime == ASSUME PaceInv PROVE BlocksOnTime /\ PaceExact
BY DueIs DEF PaceInv, InPhase, BlocksOnTime, PaceExact

\* Every variable keeps its type, and no request outlives its timeout.
THEOREM OwTyped == Spec => []TypeOK
<1>1. OwInv => TypeOK
  BY RunTyped DEF OwInv, TaskInv
<1>. QED
  BY <1>1, RunCorrect, PTL

\* Of every trace, with whatever filter, ramp and scale: a run that is not interrupted
\* has dispatched, when it ends, the grand total that it printed before it began.
THEOREM PlanKept == Spec => []PlanHonoured
<1>1. OwInv => PlanHonoured
  BY RunHonours DEF OwInv
<1>. QED
  BY <1>1, RunCorrect, PTL

\* Of every trace, and however late main is: no block ends before its minute is over,
\* nor later than main has been late in all, and the wait for block_deadline is never
\* needed.
THEOREM BlocksKeepTime == Spec => []BlocksOnTime
<1>1. OwInv => BlocksOnTime
  BY RunOnTime DEF OwInv
<1>. QED
  BY <1>1, RunCorrect, PTL

\* Of every trace, and however late main is: when main sleeps until the next target,
\* the invocations dispatched of the phase are as many as are due, so that the
\* rounding of the targets loses none and lateness is made up for.
THEOREM PaceKeepsUp == Spec => []PaceExact
<1>1. OwInv => PaceExact
  BY RunOnTime DEF OwInv
<1>. QED
  BY <1>1, RunCorrect, PTL

\* If the run is not interrupted and no invocation had to wait for a permit, every
\* invocation is recorded, or has failed, before the file is flushed: the pause is
\* longer than what is left of any timeout when the last phase ends.
THEOREM PauseSuffices == Spec => []DrainComplete
<1>1. OwInv => DrainComplete
  BY DEF OwInv, SlackInv, AllSettled, DrainComplete
<1>. QED
  BY <1>1, RunCorrect, PTL
=============================================================================
