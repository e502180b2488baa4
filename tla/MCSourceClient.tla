--------------------------- MODULE MCSourceClient ---------------------------
(***************************************************************************)
(* Instances of SourceClient for TLC.                                      *)
(***************************************************************************)
EXTENDS SourceClient

CONSTANTS w1, w2

TwoWorkers == {w1, w2}

NoGap     == {0}
ShortGaps == {0, 1}
=============================================================================
