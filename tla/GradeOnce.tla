----------------------------- MODULE GradeOnce -----------------------------
(***************************************************************************)
(* What the grading pipeline promises, without queues, workers or          *)
(* consumers: a submission is accepted, and at some later moment receives  *)
(* one result, for good.                                                   *)
(***************************************************************************)
CONSTANTS Submissions,
          Results,       \* the results that make sense on their own
          NoResult

VARIABLES phase,         \* [Submissions -> {"none", "queued", "graded"}]
          result         \* [Submissions -> Results \cup {NoResult}]

Init == /\ phase  = [s \in Submissions |-> "none"]
        /\ result = [s \in Submissions |-> NoResult]

Accept(s) == /\ phase[s] = "none"
             /\ phase' = [phase EXCEPT ![s] = "queued"]
             /\ UNCHANGED result

Grade(s) == /\ phase[s] = "queued"
            /\ phase' = [phase EXCEPT ![s] = "graded"]
            /\ result'[s] \in Results
            /\ result' = [result EXCEPT ![s] = result'[s]]

Next == \E s \in Submissions : Accept(s) \/ Grade(s)

Spec == Init /\ [][Next]_<<phase, result>>
=============================================================================
