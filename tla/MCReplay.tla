------------------------------ MODULE MCReplay ------------------------------
(***************************************************************************)
(* An instance of Replay for TLC.                                          *)
(***************************************************************************)
EXTENDS Replay

\* The first record has no action.  One row of a type is kept, so the first gzip
\* row is filtered out, although it says how many minutes there are; the row of
\* aes is shorter than it.  With a scale of 3/2, minute 0 has an empty segment and
\* one of a single invocation, the trace's minute has two.
ShortRows == <<[bench |-> "matmul", rpm |-> <<1, 1>>],
               [bench |-> "gzip",   rpm |-> <<0>>],
               [bench |-> "gzip",   rpm |-> <<1>>],
               [bench |-> "aes",    rpm |-> << >>]>>

\* For wasm-loadgen: one invocation, an empty minute, and two; the first gzip row
\* is filtered out, the row of aes is shorter than the others.
WasmRows3 == <<[bench |-> "gzip", rpm |-> <<1, 0, 0>>],
               [bench |-> "gzip", rpm |-> <<0, 0, 2>>],
               [bench |-> "aes",  rpm |-> <<1>>]>>

TwoLatencies == {1, 4}

Both == {"ow", "wasm"}

NotGiven == -1
=============================================================================
