---------------------------- MODULE MCGeneration ----------------------------
(* Instances of Generation for TLC. *)
EXTENDS Generation

CONSTANTS g1, w1, w2

\* the documented boundary: 95 of 100 pass, 94 do not; a limit hit in one
\* run of the same job and not in the other makes the difference
AtThreshold  == [status |-> "COMPLETED", agreeing |-> 95]
BelowByOne   == [status |-> "COMPLETED", agreeing |-> 94]

EitherSide == [j \in Jobs |-> {AtThreshold, BelowByOne}]
=============================================================================
