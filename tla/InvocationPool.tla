--------------------------- MODULE InvocationPool ---------------------------
(***************************************************************************)
(* What a load generator promises about its invocations: none that was     *)
(* submitted is forgotten, at most Slots of them run at a time, and each   *)
(* is counted at most once, while it runs, as a success or as a failure.   *)
(* The two counters are the numbers that the program prints.               *)
(***************************************************************************)
EXTENDS Naturals, FiniteSets

CONSTANT Slots  \* how many may run at a time

VARIABLES
  submitted,         \* invocations submitted so far: 1 .. submitted
  waiting, running,  \* the ones that have not started; that hold a slot
  good, bad,         \* those counted as a success, as a failure
  succeeded, failed  \* the counters

poolVars == <<submitted, waiting, running, good, bad, succeeded, failed>>

Init ==
  /\ submitted = 0
  /\ waiting = {} /\ running = {} /\ good = {} /\ bad = {}
  /\ succeeded = 0 /\ failed = 0

Submit ==
  /\ submitted' = submitted + 1
  /\ waiting' = waiting \union {submitted + 1}
  /\ UNCHANGED <<running, good, bad, succeeded, failed>>

Start(j) ==
  /\ j \in waiting
  /\ Cardinality(running) < Slots
  /\ waiting' = waiting \ {j}
  /\ running' = running \union {j}
  /\ UNCHANGED <<submitted, good, bad, succeeded, failed>>

\* An outcome is counted; the slot may be free at once or later.
Count(j) ==
  /\ j \in running \ (good \union bad)
  /\ \/ /\ good' = good \union {j} /\ succeeded' = succeeded + 1
        /\ UNCHANGED <<bad, failed>>
     \/ /\ bad' = bad \union {j} /\ failed' = failed + 1
        /\ UNCHANGED <<good, succeeded>>
  /\ running' \in {running, running \ {j}}
  /\ UNCHANGED <<submitted, waiting>>

\* A slot is not freed before the outcome is counted.
Leave(j) ==
  /\ j \in running \intersect (good \union bad)
  /\ running' = running \ {j}
  /\ UNCHANGED <<submitted, waiting, good, bad, succeeded, failed>>

Next == Submit \/ \E j \in 1 .. submitted : Start(j) \/ Count(j) \/ Leave(j)

Spec == Init /\ [][Next]_poolVars
=============================================================================
