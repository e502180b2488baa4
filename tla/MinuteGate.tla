----------------------------- MODULE MinuteGate -----------------------------
(***************************************************************************)
(* What the Workers of SourceClient promise together: the trace is played  *)
(* one minute at a time, in order, none of the range left out, and a       *)
(* minute is opened only when nobody is left in the one before.            *)
(***************************************************************************)
EXTENDS Naturals

CONSTANTS
  Parties,             \* who plays the trace
  FirstOpen, LastOpen  \* the minutes that are played

VARIABLES
  open,   \* the minute that was opened last, 0 before the first
  inside  \* the parties that are in it

gateVars == <<open, inside>>

Upcoming == IF open < FirstOpen THEN FirstOpen ELSE open + 1

Init == open = 0 /\ inside = {}

\* A party is through with the minute, or gives up in the middle of it.
Leave(p) ==
  /\ p \in inside
  /\ inside' = inside \ {p}
  /\ UNCHANGED open

\* The last party to leave a minute may be the one that opens the next; who has
\* given up does not enter any more.
Open(p) ==
  /\ inside \subseteq {p}
  /\ Upcoming <= LastOpen
  /\ open' = Upcoming
  /\ inside' \in SUBSET Parties
  /\ p \in inside'

Next == \E p \in Parties : Leave(p) \/ Open(p)

Spec == Init /\ [][Next]_gateVars
=============================================================================
