----------------------------- MODULE RequestLog -----------------------------
(***************************************************************************)
(* What the Logger promises about its file: it holds requests that were    *)
(* accepted and never gives one up; when it is closed it is complete,      *)
(* unless the disk failed, and from then on nothing is accepted.           *)
(***************************************************************************)
EXTENDS Naturals

VARIABLES
  taken,  \* requests accepted
  filed,  \* requests in the file
  state   \* "open", then "complete" or "torn"

logVars == <<taken, filed, state>>

Init == taken = 0 /\ filed = 0 /\ state = "open"

Accept ==
  /\ state = "open"
  /\ taken' = taken + 1
  /\ UNCHANGED <<filed, state>>

Write ==
  /\ state = "open"
  /\ filed' \in filed .. taken
  /\ UNCHANGED <<taken, state>>

Complete ==
  /\ state = "open"
  /\ filed' = taken
  /\ state' = "complete"
  /\ UNCHANGED taken

Tear ==
  /\ state = "open"
  /\ filed' \in filed .. taken
  /\ state' = "torn"
  /\ UNCHANGED taken

Next == Accept \/ Write \/ Complete \/ Tear

Spec == Init /\ [][Next]_logVars
=============================================================================
