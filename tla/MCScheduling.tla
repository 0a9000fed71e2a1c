---------------------------- MODULE MCScheduling ----------------------------
(***************************************************************************)
(* An instance of CandidateAccess for TLC.  A scene chosen once says what  *)
(* may overlap, so that the state space is a sum: requests of examiners    *)
(* one at a time with failures, two at a time without, and candidates.     *)
(***************************************************************************)
EXTENDS CandidateAccess, TLC

VARIABLE scene

SceneInit == AccessInit /\ scene \in {"one at a time", "overlapping", "candidates"}

Busy == Cardinality({r \in Requests : request'[r].pc # "idle"})

Within ==
  /\ (scene # "overlapping") => Busy <= 1
  /\ (scene = "overlapping") => faults' = 0
  /\ (scene # "candidates") => UNCHANGED accessVars
  /\ (scene = "candidates") => slot' = NoSlots

SceneSpec == SceneInit /\ [][AccessNext /\ Within /\ UNCHANGED scene]_<<vars, accessVars, scene>>

\* no failures are needed for a commit over rows that changed meanwhile
StaleInit == AccessInit /\ scene = "stale"
StaleNext == AccessNext /\ faults' = 0 /\ open' /\ UNCHANGED scene
StaleSpec == StaleInit /\ [][StaleNext]_<<vars, accessVars, scene>>

Symmetry == Permutations(Requests) \cup Permutations(Exchanges)
=============================================================================
