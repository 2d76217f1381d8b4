------------------------------- MODULE MCStream ------------------------------
(***************************************************************************)
(* Instances of Stream for TLC.                                            *)
(***************************************************************************)
EXTENDS Stream

CONSTANTS a, b

\* A stream that begins while the drive is busy, and one that repeats a chunk.
MCStreams == {[chunks |-> <<a, b>>, from |-> 2, to |-> 2, waits |-> TRUE],
              [chunks |-> <<a, a, b>>, from |-> 1, to |-> 2, waits |-> FALSE]}

==============================================================================
