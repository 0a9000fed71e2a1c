---------------------------- MODULE MCEvaluation ----------------------------
(***************************************************************************)
(* An instance of Evaluation for TLC: a notice that may be delivered twice *)
(* stands for two notices as well.  Nobody submits to the second question, *)
(* so that the judge can only be late with the first.                      *)
(***************************************************************************)
EXTENDS Evaluation

\* the cases the score distinguishes on a program that was not accepted
MCAssessments == {[correct |-> TRUE, severity |-> "minor"], [correct |-> FALSE, severity |-> "none"]}

MCInit == Init /\ verdict[2] = "unsubmitted"

MCSpec == MCInit /\ [][Next]_vars /\ Fairness
=============================================================================
