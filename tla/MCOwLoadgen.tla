---------------------------- MODULE MCOwLoadgen ----------------------------
(***************************************************************************)
(* Instances of OwLoadgen for TLC: traces of a few rows.                   *)
(***************************************************************************)
EXTENDS OwLoadgen

\* A minute that does not parse, then a minute of two invocations.
IdleRows == <<[bench |-> "json", rpm |-> <<-1, 2>>]>>

AllMinutes == -1
=============================================================================
