------------------------------ MODULE Factory ------------------------------
(***************************************************************************)
(* The test-case factory of the ai service.  A job drafts inputs with the  *)
(* language model, lets judge-gen run the stored reference and brute-force *)
(* solutions on them, and attaches the cases on which both agree to the    *)
(* question.  An asynchronous job ends its task when its diff job is sent; *)
(* the shared result consumer does the rest, from an at-least-once queue   *)
(* without a redrive policy (MaxReceives bounds what is explored of it).   *)
(* A synchronous one stays in its request, waits on a reply queue of its   *)
(* own until a deadline and does the rest itself.  The diff job too is in  *)
(* an at-least-once queue: every try of judge-gen at it sends a report.    *)
(*                                                                         *)
(* The question service appears as the operations it offers, each of which *)
(* is one transaction; how they overlap inside is module QuestionVersions. *)
(* Between creating the row of a case and uploading its two files the      *)
(* factory makes remote calls, and so do others.                           *)
(***************************************************************************)
EXTENDS Sqs, Sequences, FiniteSets

CONSTANTS
  SyncJobs, AsyncJobs, \* the factory jobs, each started at most once
  None,                \* absent value
  NumCases,            \* bound: candidate inputs the model drafts per job
  Lineage,             \* whether a succeeded generation job exists
  MaxFaults            \* bound: failures

Jobs    == SyncJobs \cup AsyncJobs
Numbers == 1..NumCases
Tries   == 1..MaxFaults + 1   \* of judge-gen at one diff job

ASSUME FactoryAssumption ==
  /\ SyncJobs \cap AsyncJobs = {}
  /\ NumCases \in Nat /\ MaxFaults \in Nat /\ Lineage \in BOOLEAN

VARIABLES
  question,  \* the versions of the question and the number of the published one
  filled,    \* test cases whose input and output files are stored
  status,    \* test_case_generation_jobs.status; "none": no row
  kept,      \* test_case_generation_jobs.kept_case_count
  inputs,    \* numbers of the uploaded candidate inputs, None before
  diff,      \* the diff job: "none" or "sent"
  report,    \* by try: numbers found to agree, None when it did not complete
  result,    \* by try: the message that carries the report
  run,       \* progress of the code that works on a job, and the try it works on
  faults     \* failures so far

jobVars     == <<status, kept, inputs, diff, report, result, run>>
factoryVars == <<question, filled, jobVars, faults>>

-----------------------------------------------------------------------------
(* The question service: a version is its constraint text and its cases. *)

Current(q) == Len(q.versions)

\* ensure_mutable_version: a published version is copied, a draft is not
Forked(q) == IF Current(q) = q.published
             THEN [q EXCEPT !.versions = Append(@, @[Len(@)])] ELSE q

WithText(q, text) == LET f == Forked(q)
                     IN  [f EXCEPT !.versions[Current(f)].text = text]
WithCase(q, row)  == LET f == Forked(q)
                     IN  [f EXCEPT !.versions[Current(f)].cases = @ \cup {row}]
Publishable(q)    == Current(q) # q.published
Published(q)      == [q EXCEPT !.published = Current(q)]

Lowest(S) == CHOOSE n \in S : \A m \in S : n <= m

\* a test case by job, number, and the round of attaching that created it
Row(j) == <<j, Lowest(run[j].todo), run[j].round>>

-----------------------------------------------------------------------------
Waits == [pc |-> "idle", todo |-> {}, round |-> 0, of |-> 1]

FactoryInit ==
  /\ question = [versions |-> <<[text |-> None, cases |-> {}]>>, published |-> 1]
  /\ filled = {} /\ faults = 0
  /\ status = [j \in Jobs |-> "none"]
  /\ kept   = [j \in Jobs |-> 0]
  /\ inputs = [j \in Jobs |-> None]
  /\ diff   = [j \in Jobs |-> "none"]
  /\ report = [j \in Jobs |-> [t \in Tries |-> None]]
  /\ result = [j \in Jobs |-> [t \in Tries |-> Unsent]]
  /\ run    = [j \in Jobs |-> Waits]

Fault == faults < MaxFaults /\ faults' = faults + 1

At(j, pc)   == run[j].pc = pc
Goes(j, pc) == run' = [run EXCEPT ![j].pc = pc]
Says(j, s)  == status' = [status EXCEPT ![j] = s]

\* a request that runs a synchronous job ends; the consumer has to delete
AfterFinalize(j) == IF j \in SyncJobs THEN "over" ELSE "ack"

Working(j)   == run[j].pc \in {"attach", "upload", "ack"}
ConsumerFree == \A j \in AsyncJobs : ~Working(j)

-----------------------------------------------------------------------------
(* Drafting. *)

\* start_factory_job: without a source job there is nothing to run
StartFactory(j) ==
  /\ At(j, "idle") /\ Lineage
  /\ Says(j, "queued") /\ Goes(j, "draft")
  /\ UNCHANGED <<question, filled, kept, inputs, diff, report, result, faults>>

BeginGenerating(j) ==
  /\ At(j, "draft")
  /\ Says(j, "generating") /\ Goes(j, "model")
  /\ UNCHANGED <<question, filled, kept, inputs, diff, report, result, faults>>

\* what is left of the model's test cases: those that satisfy the input
\* specification, numbered; perhaps none
Drafts == {{}} \cup {1..n : n \in Numbers}

\* the drafts are uploaded; without any the job is over, and successful
DraftInputs(j) ==
  /\ At(j, "model")
  /\ \E drafted \in Drafts :
       IF drafted = {}
       THEN Says(j, "succeeded") /\ Goes(j, "over") /\ UNCHANGED inputs
       ELSE /\ inputs' = [inputs EXCEPT ![j] = drafted]
            /\ Says(j, "validating") /\ Goes(j, "send")
  /\ UNCHANGED <<question, filled, kept, diff, report, result, faults>>

AfterSend(j) == IF j \in SyncJobs THEN "poll" ELSE "away"

SendDiffJob(j) ==
  /\ At(j, "send")
  /\ diff' = [diff EXCEPT ![j] = "sent"]
  /\ Goes(j, AfterSend(j))
  /\ UNCHANGED <<question, filled, status, kept, inputs, report, result, faults>>

\* judge-gen runs both solutions on each input and sends its report to the
\* queue the job names
SendReport(j, t) ==
  /\ \E r \in (SUBSET inputs[j]) \cup {None} : report' = [report EXCEPT ![j][t] = r]
  /\ result' = [result EXCEPT ![j][t] = Sent]
  /\ UNCHANGED <<question, filled, status, kept, inputs, diff, run>>

JudgeInputs(j) ==
  /\ diff[j] = "sent" /\ result[j][1] = Unsent
  /\ SendReport(j, 1) /\ UNCHANGED faults

\* the worker died, or outlasted the visibility timeout, between the send and
\* the delete: the job is received and judged once more, perhaps otherwise
JudgeAgain(j, t) ==
  /\ t > 1 /\ result[j][t - 1] # Unsent /\ result[j][t] = Unsent
  /\ SendReport(j, t) /\ Fault

-----------------------------------------------------------------------------
(* The report arrives. *)

Finalizes(j, t) ==
  IF report[j][t] = None
  THEN /\ Says(j, "failed")
       /\ run' = [run EXCEPT ![j] = [pc |-> AfterFinalize(j), todo |-> {},
                                     round |-> @.round + 1, of |-> t]]
  ELSE /\ run' = [run EXCEPT ![j] = [pc |-> "attach", todo |-> report[j][t],
                                     round |-> @.round + 1, of |-> t]]
       /\ UNCHANGED status

\* _poll_for_result: the message is deleted before it is used
PollResult(j) ==
  /\ At(j, "poll")
  /\ \E t \in Tries : /\ CanReceive(result[j][t]) /\ Finalizes(j, t)
                      /\ result' = [result EXCEPT ![j][t].state = "deleted"]
  /\ UNCHANGED <<question, filled, kept, inputs, diff, report, faults>>

\* faulty variant: a status the column does not have
PollTimesOutUnknown(j) ==
  /\ At(j, "poll")
  /\ Says(j, "timeout") /\ Goes(j, "over")
  /\ UNCHANGED <<question, filled, kept, inputs, diff, report, result, faults>>

\* the deadline of the synchronous variant
PollTimesOut(j) ==
  /\ At(j, "poll")
  /\ Says(j, "failed") /\ Goes(j, "over")
  /\ UNCHANGED <<question, filled, kept, inputs, diff, report, result, faults>>

\* the gen-result consumer hands a factory result to finalize_factory_result,
\* whatever the job's status is by now
ReceiveResult(j) ==
  /\ j \in AsyncJobs /\ run[j].pc \in {"away", "over"} /\ ConsumerFree
  /\ \E t \in Tries : /\ CanReceive(result[j][t]) /\ Finalizes(j, t)
                      /\ result' = [result EXCEPT ![j][t] = Received(@)]
  /\ UNCHANGED <<question, filled, kept, inputs, diff, report, faults>>

\* the row goes to whatever version is current now
CreateCase(j) ==
  /\ At(j, "attach") /\ run[j].todo # {}
  /\ question' = WithCase(question, Row(j))
  /\ Goes(j, "upload")
  /\ UNCHANGED <<filled, status, kept, inputs, diff, report, result, faults>>

\* faulty variant: the upload is left to somebody else
UploadCaseNever(j) ==
  /\ At(j, "upload")
  /\ run' = [run EXCEPT ![j].pc = "attach", ![j].todo = @ \ {Row(j)[2]}]
  /\ UNCHANGED <<question, filled, status, kept, inputs, diff, report, result, faults>>

\* two PUTs, whose status nobody looks at
UploadCase(j) ==
  /\ At(j, "upload")
  /\ run' = [run EXCEPT ![j].pc = "attach", ![j].todo = @ \ {Row(j)[2]}]
  /\ \/ filled' = filled \cup {Row(j)} /\ UNCHANGED faults
     \/ faults < MaxFaults /\ faults' = faults + 1 /\ UNCHANGED filled
  /\ UNCHANGED <<question, status, kept, inputs, diff, report, result>>

CompleteFactory(j) ==
  /\ At(j, "attach") /\ run[j].todo = {}
  /\ Says(j, "succeeded")
  /\ kept' = [kept EXCEPT ![j] = Cardinality(report[j][run[j].of])]
  /\ Goes(j, AfterFinalize(j))
  /\ UNCHANGED <<question, filled, inputs, diff, report, result, faults>>

\* the consumer is alone, so the receipt it holds is the latest
DeleteResult(j) ==
  /\ At(j, "ack")
  /\ result' = [result EXCEPT ![j][run[j].of].state = "deleted"]
  /\ Goes(j, "away")
  /\ UNCHANGED <<question, filled, status, kept, inputs, diff, report, faults>>

-----------------------------------------------------------------------------
(* Failures. *)

\* an exception: the task or the request writes failed, the consumer leaves
\* the message; a send may have gone through although it raised
RunFails(j) ==
  /\ Fault
  /\ IF j \in AsyncJobs /\ Working(j)
     THEN Goes(j, "away") /\ UNCHANGED <<status, diff>>
     ELSE /\ run[j].pc \in {"draft", "model", "send", "poll", "attach", "upload"}
          /\ Says(j, "failed") /\ Goes(j, "over")
          /\ IF At(j, "send") THEN \E d \in {"none", "sent"} : diff' = [diff EXCEPT ![j] = d]
                              ELSE UNCHANGED diff
  /\ UNCHANGED <<question, filled, kept, inputs, report, result>>

\* the service restarts: tasks and requests are gone, rows stay as they are
AiStops ==
  /\ Fault
  /\ \E j \in Jobs : run[j].pc \notin {"idle", "over", "away"}
  /\ run' = [j \in Jobs |-> IF run[j].pc \in {"idle", "away"} THEN run[j]
             ELSE [run[j] EXCEPT !.pc = IF j \in AsyncJobs /\ Working(j) THEN "away" ELSE "over"]]
  /\ UNCHANGED <<question, filled, status, kept, inputs, diff, report, result>>

\* a result that was received and neither deleted nor worked on comes back
ResultReturns(j) ==
  /\ \E t \in Tries : /\ result[j][t].state = "inflight" /\ ~(Working(j) /\ run[j].of = t)
                      /\ result' = [result EXCEPT ![j][t] = TimedOut(@)]
  /\ UNCHANGED <<question, filled, status, kept, inputs, diff, report, run, faults>>

FactoryStep(j) ==
  \/ BeginGenerating(j) \/ DraftInputs(j) \/ SendDiffJob(j) \/ JudgeInputs(j)
  \/ PollResult(j) \/ PollTimesOut(j) \/ ReceiveResult(j)
  \/ CreateCase(j) \/ UploadCase(j) \/ CompleteFactory(j) \/ DeleteResult(j)
  \/ ResultReturns(j)

FactoryFails(j) == RunFails(j) \/ \E t \in Tries : JudgeAgain(j, t)

FactoryNext == \/ \E j \in Jobs : StartFactory(j) \/ FactoryStep(j) \/ FactoryFails(j)
               \/ AiStops

FactorySpec == FactoryInit /\ [][FactoryNext]_factoryVars

-----------------------------------------------------------------------------
(* Properties *)

Rows(j, n) == {row \in question.versions[Current(question)].cases : row[1] = j /\ row[2] = n}

\* Every failure of the consumer, of its delete or of judge-gen's costs at most
\* one more copy of a case; and a job that says it succeeded has the number of
\* cases it kept from a report with every agreeing case on the question, once
\* and with its files unless something failed on the way.
KeptIsAttached ==
  \A j \in Jobs :
    /\ \A n \in Numbers : Cardinality(Rows(j, n)) <= 1 + faults
    /\ status[j] = "succeeded" /\ inputs[j] # None =>
         \E t \in Tries :
           /\ report[j][t] # None /\ kept[j] = Cardinality(report[j][t])
           /\ \A n \in report[j][t] :
                Rows(j, n) # {} /\ (faults = 0 => Rows(j, n) \subseteq filled)

\* Unless something fails, an asynchronous job ends with a status that says
\* how: nobody waits for it, whoever polls it must not poll for ever.
JobsReachAnEnd ==
  \A j \in AsyncJobs : status[j] = "queued" ~> status[j] \in {"succeeded", "failed"} \/ faults > 0
=============================================================================
