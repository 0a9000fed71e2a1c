------------------------------ MODULE Scoring ------------------------------
(***************************************************************************)
(* What an evaluation says of a question without asking the model: the     *)
(* candidate's behaviour, from the list of submissions, and the nesting of *)
(* loops in a Java or C++ program, from its braces and keywords alone.     *)
(* The list and the program grow here one record and one token at a time,  *)
(* next to what somebody who reads them properly would know.               *)
(***************************************************************************)
EXTENDS Integers, FiniteSets, SequencesExt

CONSTANTS MaxRecords, MaxText  \* bounds on the submissions and on the tokens

ASSUME ScoringAssumption == {MaxRecords, MaxText} \subseteq Nat

VARIABLES
  records,  \* submissions to the question, oldest first: [mode, verdict]
  signals,  \* its row: [runs, tested, response, seen, missed], or nothing
  text,     \* the tokens the scan finds in the program
  blocks,   \* what each open brace stands for
  depth,    \* the deepest nesting of loops so far
  loose     \* keywords and braces that do not stand for a loop with its block

scoringVars == <<records, signals, text, blocks, depth, loose>>

-----------------------------------------------------------------------------
(* behavioural.py *)

Accepted(r)   == r.mode = "submit" /\ r.verdict = "AC"
SubmitsOf(rs) == {i \in DOMAIN rs : rs[i].mode = "submit"}

\* faulty variant: every run counts
AllRuns(rs) == Cardinality({i \in DOMAIN rs : rs[i].mode = "run"})

RunsBeforeAc(rs) ==
  LET count[i \in 1..(Len(rs) + 1)] ==
        IF i = Len(rs) + 1 THEN 0
        ELSE IF rs[i].mode = "run" THEN 1 + count[i + 1]
        ELSE IF Accepted(rs[i]) THEN 0 ELSE count[i + 1]
  IN  count[1]

EdgeCasesTested(rs) ==
  LET final == IF SubmitsOf(rs) = {} THEN Len(rs) + 1 ELSE Max(SubmitsOf(rs))
  IN  \E i \in 1..(final - 1) : rs[i].mode = "run"

FailureResponse(rs) ==
  LET last    == Max(SubmitsOf(rs))
      earlier == SubmitsOf(rs) \ {last}
      between == {rs[i].mode : i \in (Max(earlier) + 1)..(last - 1)}
  IN  IF ~Accepted(rs[last]) THEN "no_further_attempt"
      ELSE IF earlier = {} \/ Accepted(rs[Max(earlier)]) THEN "none"
      ELSE IF "run" \in between THEN "ran_before_resubmitting" ELSE "resubmitted_immediately"

-----------------------------------------------------------------------------
(* complexity.py: what each open brace stands for, and the next one *)

Nesting(bs) == Cardinality({i \in DOMAIN bs : bs[i] # "block"})

Scanned(s, token) ==
  LET opened == Append(s.stack, s.next)
  IN  IF token = "loop" THEN [s EXCEPT !.next = "loop"]
      ELSE IF token = "{"
           THEN [stack |-> opened, next |-> "block", best |-> Max({s.best, Nesting(opened)})]
      ELSE IF s.stack = <<>> THEN s ELSE [s EXCEPT !.stack = Front(@)]

Scan(tokens) ==
  LET scan[n \in 0..Len(tokens)] ==
        IF n = 0 THEN [stack |-> <<>>, next |-> "block", best |-> 0]
        ELSE Scanned(scan[n - 1], tokens[n])
  IN  scan

BraceHeuristic(tokens) == Scan(tokens)[Len(tokens)].best

-----------------------------------------------------------------------------
ScoringInit ==
  /\ records = <<>> /\ signals = <<>>
  /\ text = <<>> /\ blocks = <<>> /\ depth = 0 /\ loose = 0

\* a submission is queued, and graded whenever the judge is done with it
TakesRecord(mode) ==
  /\ Len(records) < MaxRecords
  /\ records' = Append(records, [mode |-> mode, verdict |-> "pending"])
  /\ UNCHANGED <<signals, text, blocks, depth, loose>>

RecordGraded(i, v) ==
  /\ records[i].verdict = "pending"
  /\ records' = [records EXCEPT ![i].verdict = v]
  /\ UNCHANGED <<signals, text, blocks, depth, loose>>

\* the row is inserted once; a question without a submit gets an empty one
ScoreRecords ==
  /\ signals = <<>> /\ SubmitsOf(records) # {}
  /\ signals' = <<[runs |-> RunsBeforeAc(records), tested |-> EdgeCasesTested(records),
                   response |-> FailureResponse(records), seen |-> Len(records),
                   missed |-> {i \in SubmitsOf(records) : records[i].verdict = "pending"}]>>
  /\ UNCHANGED <<records, text, blocks, depth, loose>>

\* Only one of the two grows: they meet in no definition.
Writes(tokens) ==
  /\ records = <<>> /\ Len(text) + Len(tokens) <= MaxText
  /\ text' = text \o tokens
  /\ UNCHANGED <<records, signals>>

Opens(kind, tokens, strays) ==
  /\ Writes(tokens) /\ loose' = loose + strays
  /\ blocks' = Append(blocks, kind) /\ depth' = Max({depth, Nesting(blocks')})

\* for (...) {     {     do {
OpensBlock == Opens("loop", <<"loop", "{">>, 0) \/ Opens("block", <<"{">>, 0) \/ Opens("do", <<"{">>, 1)

ClosesBlock ==
  /\ blocks # <<>> /\ blocks' = Front(blocks)
  /\ Writes(IF Last(blocks) = "do" THEN <<"}", "loop">> ELSE <<"}">>)
  /\ UNCHANGED <<depth, loose>>

\* for (...) statement;
LoopsWithoutBlock ==
  /\ Writes(<<"loop">>) /\ loose' = loose + 1
  /\ depth' = Max({depth, Nesting(blocks) + 1}) /\ UNCHANGED blocks

\* in a comment or a string, where no loop and no block is meant
Mentions ==
  /\ \E token \in {"loop", "{", "}"} : Writes(<<token>>)
  /\ loose' = loose + 1 /\ UNCHANGED <<blocks, depth>>

ScoringNext ==
  \/ \E mode \in {"run", "submit"} : text = <<>> /\ TakesRecord(mode)
  \/ \E i \in DOMAIN records, v \in {"AC", "WA"} : RecordGraded(i, v)
  \/ ScoreRecords \/ OpensBlock \/ ClosesBlock \/ LoopsWithoutBlock \/ Mentions

ScoringTypeOK ==
  /\ \A i \in DOMAIN records : records[i] \in [mode : {"run", "submit"}, verdict : {"pending", "AC", "WA"}]
  /\ Len(signals) <= 1 /\ \A i \in DOMAIN blocks : blocks[i] \in {"loop", "block", "do"}
  /\ {depth, loose} \subseteq 0..MaxText

-----------------------------------------------------------------------------
\* runs nobody had been accepted before
RunsDue(rs) ==
  Cardinality({i \in DOMAIN rs : rs[i].mode = "run" /\ \A j \in 1..i : ~Accepted(rs[j])})

\* between a failed submit and the accepted one that ended the list
ResponseDue(rs) ==
  LET last   == Max(SubmitsOf(rs))
      before == {i \in SubmitsOf(rs) : i < last}
  IN  IF ~Accepted(rs[last]) THEN "no_further_attempt"
      ELSE IF before = {} \/ Accepted(rs[Max(before)]) THEN "none"
      ELSE IF last = Max(before) + 1 THEN "resubmitted_immediately" ELSE "ran_before_resubmitting"

(***************************************************************************)
(* The signals an evaluation stores stay true of the submissions it saw,   *)
(* whatever verdicts arrive later, unless one that it took for a failure   *)
(* turns out to be an acceptance; the runs are then counted too high and   *)
(* never too low.  The nesting of a program is exact where every loop has  *)
(* a block and no brace or keyword is only mentioned, and is off by no     *)
(* more than the loops and mentions of the other kind.                     *)
(***************************************************************************)
SignalsAreSound ==
  /\ signals # <<>> =>
       LET s    == signals[1]
           rs   == SubSeq(records, 1, s.seen)
           late == \E i \in s.missed : Accepted(rs[i])
       IN  /\ s.runs >= RunsDue(rs) /\ (~late => s.runs = RunsDue(rs))
           /\ s.tested = (\E i, j \in 1..s.seen : i < j /\ rs[i].mode = "run" /\ rs[j].mode = "submit")
           /\ ~late => s.response = ResponseDue(rs)
  /\ (BraceHeuristic(text) - depth) \in (-loose)..loose
=============================================================================
