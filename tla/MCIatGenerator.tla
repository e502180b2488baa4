--------------------------- MODULE MCIatGenerator ---------------------------
(***************************************************************************)
(* Instances of IatGenerator for TLC: a minute of six microseconds of two  *)
(* grains.                                                                 *)
(***************************************************************************)
EXTENDS IatGenerator

\* Some divide the minute, some do not, one is above it.
SmallRates == {0, 1, 2, 4, 7}

\* Whole and broken microseconds, and one that ends the minute by itself.
SmallSamples == {0, 1, 3, 12}
=============================================================================
