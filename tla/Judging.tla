------------------------------ MODULE Judging ------------------------------
(***************************************************************************)
(* What the judge makes of a run in its sandbox, in both lanes.  The       *)
(* generation lane runs a reference and a brute-force solution against     *)
(* each other and captures what they agree on; that becomes the expected   *)
(* output of a test case, against which the live lane judges submissions.  *)
(* Bytes are members of a small set with the blank among them.             *)
(***************************************************************************)
EXTENDS Integers, Sequences, SequencesExt

CONSTANTS
  Blank,       \* the byte that is white space
  Outputs,     \* what programs print, as sequences of bytes
  OutputCap,   \* limits.output_bytes: MAX_OUTPUT_BYTES and the fsize ulimit
  CaptureCap,  \* _DISAGREEMENT_OUTPUT_CAP
  MaxCases     \* bound on the test cases

ASSUME JudgingAssumption ==
  Outputs \subseteq Seq(STRING) /\ {OutputCap, CaptureCap, MaxCases} \subseteq Nat

VARIABLES
  lane,      \* "gen", "live" or "over"
  mode,      \* compare_mode of the question
  kept,      \* the agreed cases: [run, expected]
  results,   \* the live verdicts: [verdict, and of the run: again, that it was
             \* the reference's, undisturbed; clean, that it ended well]
  summary    \* summary_verdict of the message, "pending" until it is sent

judgingVars == <<lane, mode, kept, results, summary>>

\* how the program ends; "ok" with more output than the cap is a program that
\* ignores the error the ulimit gives it
Endings == {"ok", "error", "killed", "slow", "ok after oom"}
Runs == [ending : Endings, output : Outputs]

\* what happens to its container meanwhile: nothing, the worker's wall
\* timeout, the whole cgroup out of memory, a failure of docker
Events == {"none", "wall", "cgroup", "docker"}
Modes == {"exact", "whitespace"}

Cut(s, cap) == IF Len(s) <= cap THEN s ELSE SubSeq(s, 1, cap)

ExitCode(run) == CASE run.ending = "error" -> 1
                   [] run.ending = "killed" -> -9
                   [] run.ending = "slow" -> 124
                   [] OTHER -> 0

\* entrypoint.py run; the file cannot grow beyond the fsize ulimit
Envelope(run) ==
  LET file == Cut(run.output, OutputCap)
  IN  [exit_code |-> ExitCode(run), timed_out |-> run.ending = "slow",
       oom_killed |-> run.ending = "ok after oom",
       truncated |-> Len(file) > OutputCap, output |-> Cut(file, OutputCap)]

\* run_container
Outcome(run, event) ==
  [killed_by_worker |-> event = "wall",
   returncode |-> CASE event = "wall" -> -1 [] event = "cgroup" -> 137
                    [] event = "docker" -> 125 [] OTHER -> 0,
   envelope |-> IF event = "none" THEN <<Envelope(run)>> ELSE <<>>]

Breaks(outcome) == ~outcome.killed_by_worker /\ outcome.envelope = <<>>
                     /\ outcome.returncode \notin {137, -9}

NextByte(t, c) ==
  IF c = Blank THEN [words |-> t.words \o t.word, word |-> <<>>]
  ELSE [words |-> t.words,
        word |-> IF t.word = <<>> THEN <<<<c>>>> ELSE <<Append(t.word[1], c)>>]

Texts == {Cut(s, n) : s \in Outputs, n \in {CaptureCap, OutputCap} \cup {Len(t) : t \in Outputs}}

\* bytes.split(): the words between the blanks
Words == [s \in Texts |->
  LET t == FoldLeft(NextByte, [words |-> <<>>, word |-> <<>>], s)
  IN  t.words \o t.word]

OutputsMatch(actual, expected, how) ==
  IF how = "exact" THEN actual = expected ELSE Words[actual] = Words[expected]

\* _verdict_for_case, for an outcome that does not break the judge
VerdictForCase(outcome, expected) ==
  IF outcome.killed_by_worker THEN "TLE"
  ELSE IF outcome.envelope = <<>> THEN "MLE"
  ELSE LET env == outcome.envelope[1]
       IN  IF env.oom_killed \/ env.exit_code = -9 THEN "MLE"
           ELSE IF env.timed_out THEN "TLE"
           ELSE IF env.exit_code # 0 THEN "RE"
           ELSE IF ~env.truncated /\ OutputsMatch(env.output, expected, mode) THEN "AC"
           ELSE "WA"

\* faulty variant: an outcome counts as clean whatever the exit code
ClassifyOutput(outcome) ==
  IF outcome.envelope = <<>> THEN <<>>
  ELSE LET env == outcome.envelope[1]
       IN  IF env.oom_killed \/ env.timed_out \/ env.truncated THEN <<>> ELSE <<env.output>>

\* _classify_run: the output of a clean run, or nothing
ClassifyRun(outcome) ==
  IF outcome.envelope = <<>> THEN <<>>
  ELSE LET env == outcome.envelope[1]
       IN  IF env.oom_killed \/ env.timed_out \/ env.exit_code # 0 \/ env.truncated
           THEN <<>> ELSE <<env.output>>

\* a case both solutions ran through with equal output
Agree(ref, bf) == ref # <<>> /\ bf # <<>> /\ OutputsMatch(ref[1], bf[1], "whitespace")

\* the first verdict that is not an acceptance
Summary(verdicts) ==
  LET bad == {i \in DOMAIN verdicts : verdicts[i] # "AC"}
  IN  IF bad = {} THEN "AC" ELSE verdicts[Min(bad)]

JudgingInit == lane = "gen" /\ mode = "whitespace" /\ kept = <<>> /\ results = <<>> /\ summary = "pending"

\* _run_one and what its caller makes of it
GenRun == [run \in Runs |-> [event \in Events \ {"docker"} |-> ClassifyRun(Outcome(run, event))]]

\* one input of run_diff and what finalize_factory_result keeps of it
DiffCase(ref, bf, e1, e2) ==
  /\ lane = "gen" /\ Len(kept) < MaxCases
  /\ Agree(GenRun[ref][e1], GenRun[bf][e2])
  /\ kept' = Append(kept, [run |-> ref, expected |-> Cut(GenRun[ref][e1][1], CaptureCap)])
  /\ UNCHANGED <<lane, mode, results, summary>>

\* a compile error, or a container that breaks: no case is kept
DiffFails ==
  /\ lane = "gen" /\ kept' = <<>>
  /\ UNCHANGED <<lane, mode, results, summary>>

\* a submission for a version without test cases is refused before
BeginLive ==
  /\ lane = "gen" /\ kept # <<>> /\ lane' = "live" /\ mode' \in Modes
  /\ UNCHANGED <<kept, results, summary>>

JudgeCase(run, event) ==
  LET case == kept[Len(results) + 1]
  IN  /\ lane = "live" /\ Len(results) < Len(kept) /\ ~Breaks(Outcome(run, event))
      /\ results' = Append(results,
           [verdict |-> VerdictForCase(Outcome(run, event), case.expected),
            again |-> event = "none" /\ run = case.run,
            clean |-> event = "none" /\ run.ending = "ok"])
      /\ UNCHANGED <<lane, mode, kept, summary>>

\* the container fails: the message is left on the queue, and the whole
\* submission is judged again
JudgeBreaks ==
  /\ lane = "live" /\ results # <<>> /\ results' = <<>>
  /\ UNCHANGED <<lane, mode, kept, summary>>

SendVerdict ==
  /\ lane = "live" /\ Len(results) = Len(kept)
  /\ lane' = "over" /\ summary' = Summary([i \in DOMAIN results |-> results[i].verdict])
  /\ UNCHANGED <<mode, kept, results>>

CompileFails ==
  /\ lane = "live" /\ results = <<>>
  /\ lane' = "over" /\ summary' = "CE"
  /\ UNCHANGED <<mode, kept, results>>

JudgingNext ==
  \/ \E ref, bf \in Runs, e1, e2 \in Events \ {"docker"} : DiffCase(ref, bf, e1, e2)
  \/ \E run \in Runs, event \in Events : JudgeCase(run, event)
  \/ DiffFails \/ BeginLive \/ JudgeBreaks \/ SendVerdict \/ CompileFails

JudgingTypeOK ==
  /\ lane \in {"gen", "live", "over"} /\ mode \in Modes /\ Len(results) <= Len(kept) /\ Len(kept) <= MaxCases
  /\ \A i \in DOMAIN kept : kept[i].run \in Runs
  /\ \A i \in DOMAIN results : results[i].verdict \in {"AC", "WA", "RE", "TLE", "MLE"}
  /\ summary \in {"pending", "AC", "WA", "RE", "TLE", "MLE", "CE"}

(***************************************************************************)
(* The two lanes agree: the reference, run again undisturbed as a          *)
(* submission, is accepted on every case the generation lane kept of it,   *)
(* in either compare mode, as long as its output is within what is         *)
(* captured; a program that ended badly is never accepted; and a           *)
(* submission is accepted when every case is.                              *)
(***************************************************************************)
KeptCasesAccept ==
  /\ \A i \in DOMAIN results :
       /\ (results[i].again /\ Len(kept[i].run.output) <= CaptureCap) => results[i].verdict = "AC"
       /\ results[i].verdict = "AC" => results[i].clean
  /\ summary = "AC" <=> (lane = "over" /\ Len(results) = Len(kept)
                           /\ \A i \in DOMAIN results : results[i].verdict = "AC")
=============================================================================
