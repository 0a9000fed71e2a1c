----------------------------- MODULE Difficulty -----------------------------
(***************************************************************************)
(* The adaptive difficulty of one session, in half steps: a value in Redis *)
(* that the ai service reads, moves and writes for every signal, and the   *)
(* copy the exam service keeps of the answer.  The exam service sends one  *)
(* signal at a time but stops waiting for an answer after its timeout, and *)
(* goes on to the next verdict while the ai service may still be working.  *)
(***************************************************************************)
EXTENDS Integers

CONSTANTS
  Unset,
  Signals,     \* requests at the ai service that may be under way together
  MaxSignals   \* bound on the signals

ASSUME DifficultyAssumption == Unset \notin Signals /\ MaxSignals \in Nat

VARIABLES
  value,     \* in Redis; Unset before the first signal and after a day
  row,       \* current_difficulty of the session
  signal,    \* progress of each request: [pc, delta, read]
  awaited,   \* the request the exam service waits for
  sent,      \* signals sent
  unheard,   \* an answer was given up, or the key expired, since the last one
  overlaps   \* an abandoned request was still at work during another

difficultyVars == <<value, row, signal, awaited, sent, unheard, overlaps>>

DefaultDifficulty == 6
MinDifficulty == 2
MaxDifficulty == 10

\* compute_next_difficulty: how far a verdict moves the difficulty (the exam
\* service gives no complexity hint; the route accepts one), and where to
Delta(verdict, pace, hint) ==
  IF verdict = "AC" THEN (IF pace # "fast" THEN 0 ELSE IF hint = "optimal" THEN 2 ELSE 1)
  ELSE IF pace = "slow" THEN -2 ELSE 0

\* faulty variant: the scale has no ends
MovedFreely(d, delta) == d + delta

Moved(d, delta) ==
  IF d + delta > MaxDifficulty THEN MaxDifficulty
  ELSE IF d + delta < MinDifficulty THEN MinDifficulty ELSE d + delta

Band(d) == IF d <= 4 THEN "easy" ELSE IF d <= 6 THEN "medium" ELSE "hard"

Current == IF value = Unset THEN DefaultDifficulty ELSE value
Ready == [pc |-> "idle", delta |-> 0, read |-> DefaultDifficulty]
AtWork == {s \in Signals : signal[s].pc \in {"read", "write"}}

DifficultyInit ==
  /\ value = Unset /\ row = [difficulty |-> Unset, band |-> Unset]
  /\ signal = [s \in Signals |-> Ready] /\ awaited = Unset /\ sent = 0
  /\ unheard = FALSE /\ overlaps = FALSE

\* the consumer's _signal_difficulty, for a graded submission
SendSignal(s, verdict, pace, hint) ==
  /\ awaited = Unset /\ signal[s].pc = "idle" /\ sent < MaxSignals
  /\ signal' = [signal EXCEPT ![s] = [Ready EXCEPT !.pc = "read", !.delta = Delta(verdict, pace, hint)]]
  /\ awaited' = s /\ sent' = sent + 1
  /\ overlaps' = (overlaps \/ AtWork # {})
  /\ UNCHANGED <<value, row, unheard>>

ReadDifficulty(s) ==
  /\ signal[s].pc = "read"
  /\ signal' = [signal EXCEPT ![s].pc = "write", ![s].read = Current]
  /\ UNCHANGED <<value, row, awaited, sent, unheard, overlaps>>

SetDifficulty(s) ==
  LET next == Moved(signal[s].read, signal[s].delta)
  IN  /\ signal[s].pc = "write"
      /\ value' = next
      /\ signal' = [signal EXCEPT ![s].pc = IF awaited = s THEN "answer" ELSE "idle", ![s].read = next]
      /\ UNCHANGED <<row, awaited, sent, unheard, overlaps>>

\* the exam service commits the answer to the session's row
KeepAnswer(s) ==
  /\ signal[s].pc = "answer" /\ awaited = s
  /\ row' = [difficulty |-> signal[s].read, band |-> Band(signal[s].read)]
  /\ signal' = [signal EXCEPT ![s] = Ready] /\ awaited' = Unset
  /\ unheard' = FALSE
  /\ UNCHANGED <<value, sent, overlaps>>

\* a timeout or a failed commit: logged, and the consumer goes on
GiveUp(s) ==
  /\ awaited = s /\ awaited' = Unset
  /\ unheard' = TRUE
  /\ signal' = IF signal[s].pc = "answer" THEN [signal EXCEPT ![s] = Ready] ELSE signal
  /\ UNCHANGED <<value, row, sent, overlaps>>

\* the day is over, or Redis lost the key
KeyExpires ==
  /\ value # Unset /\ value' = Unset
  /\ unheard' = TRUE
  /\ UNCHANGED <<row, signal, awaited, sent, overlaps>>

DifficultyNext ==
  \/ KeyExpires
  \/ \E s \in Signals :
       \/ ReadDifficulty(s) \/ SetDifficulty(s) \/ KeepAnswer(s) \/ GiveUp(s)
       \/ \E verdict \in {"AC", "WA"}, pace \in {"fast", "usual", "slow"}, hint \in {"optimal", "unknown"} :
            SendSignal(s, verdict, pace, hint)

Levels == MinDifficulty..MaxDifficulty

DifficultyTypeOK ==
  /\ value \in Levels \cup {Unset} /\ row.difficulty \in Levels \cup {Unset}
  /\ \A s \in Signals : /\ signal[s].pc \in {"idle", "read", "write", "answer"}
                        /\ signal[s].read \in Levels
  /\ awaited \in Signals \cup {Unset} /\ sent \in 0..MaxSignals

(***************************************************************************)
(* Between signals the exam's copy is the value in Redis, with its band:   *)
(* an answer that was given up is made good by the next one, as long as no *)
(* abandoned request was still at work during another.                     *)
(***************************************************************************)
BandsAgree ==
  (awaited = Unset /\ ~unheard /\ ~overlaps /\ value # Unset) =>
    row = [difficulty |-> value, band |-> Band(value)]
=============================================================================
