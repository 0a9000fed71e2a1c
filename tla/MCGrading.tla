----------------------------- MODULE MCGrading -----------------------------
(* Instances of Grading for TLC. *)
EXTENDS Grading, TLC

CONSTANTS s1, s2, j1, j2, c1, c2

Accepted     == [status |-> "COMPLETED", cases |-> <<"AC", "AC">>]
TimedOutCase == [status |-> "COMPLETED", cases |-> <<"AC", "TLE">>]
NotCompiled  == [status |-> "COMPILE_ERROR", cases |-> <<"none", "none">>]

\* the same source judged twice may hit a limit in one run only
Flaky  == [s \in Submissions |-> {Accepted, TimedOutCase}]
\* the compile stage has a wall-clock limit of its own
FlakyCompile == [s \in Submissions |-> {TimedOutCase, NotCompiled}]
Stable == [s \in Submissions |-> {TimedOutCase}]
=============================================================================
