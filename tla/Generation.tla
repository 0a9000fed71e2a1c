----------------------------- MODULE Generation -----------------------------
(***************************************************************************)
(* AI question generation.  A detached task of the ai service drafts a     *)
(* question once, then queues a DiffJob: two solutions and inputs to       *)
(* compare them on.  Workers of the judge-gen lane run it and queue the    *)
(* report.  The one result consumer of the ai service creates the          *)
(* question, starts another attempt with new solutions, or gives up.       *)
(* A commit, a remote call and a send are a step each; a failure may come  *)
(* between any two.  The lane's queues have no redrive policy: MaxReceives *)
(* only bounds the deliveries of a behaviour here.                         *)
(***************************************************************************)
EXTENDS Sqs, Sequences, FiniteSets

CONSTANTS
  Jobs,            \* generation_jobs rows
  Workers,         \* judge-gen worker processes
  None,            \* absent value
  MaxAttempts,     \* settings.generation_max_attempts
  NumInputs,       \* settings.generation_input_count
  Threshold,       \* settings.generation_agreement_threshold, in percent
  Reports,         \* Reports[j]: reports the judge may reach for job j
  BatchSize,       \* messages one receive of the consumer may return
  MaxFaults,       \* bound: failures of workers and late deletes
  MaxAiFaults      \* bound: failures of the ai service

Attempts  == 1..MaxAttempts
Runs      == 1..MaxReceives
DiffIds   == Jobs \X Attempts
ResultIds == Jobs \X Attempts \X Runs     \* <<j, a, n>>: n-th run of DiffJob <<j, a>>

Report == [status : {"COMPLETED", "REFERENCE_COMPILE_ERROR", "BRUTE_FORCE_COMPILE_ERROR"},
           agreeing : 0..NumInputs]

ASSUME GenerationAssumption ==
  /\ MaxAttempts \in Nat \ {0} /\ NumInputs \in Nat \ {0} /\ Threshold \in 1..100
  /\ Reports \in [Jobs -> SUBSET Report]
  /\ BatchSize \in Nat \ {0} /\ MaxFaults \in Nat /\ MaxAiFaults \in Nat
  /\ None \notin DiffIds /\ None \notin ResultIds /\ None \notin Report
  /\ None \notin {"queued", "drafting", "validating", "succeeded", "failed"}

VARIABLES
  status,     \* the job row's status, None before the row exists
  attempt,    \* the job row's attempt
  solution,   \* the attempt whose two solutions the row holds, 0 for none
  question,   \* the row's question_id, as an index of created[j], 0 when null
  created,    \* created[j]: questions made for j, each by the solution of that time
  diffs,      \* judge-gen queue, one message per attempt of a job
  results,    \* judge-gen-results queue, one message per run of the judge
  body,       \* report carried by each result message
  task,       \* progress of the detached drafting task of each job
  worker,     \* what each judge-gen worker is doing
  consumer,   \* what the result consumer is doing
  faults,     \* failures of workers and late deletes so far
  aiFaults    \* failures of the ai service so far

row     == <<status, attempt, solution, question>>
judging == <<diffs, results, body, worker>>
vars    == <<row, created, judging, task, consumer, faults, aiFaults>>

-----------------------------------------------------------------------------
(* Helpers *)

\* faulty variant: the boundary itself does not pass
PassesAbove(report) ==
  report.status = "COMPLETED" /\ 100 * report.agreeing > Threshold * NumInputs

Passes(report) ==
  report.status = "COMPLETED" /\ 100 * report.agreeing >= Threshold * NumInputs

IdleWorker   == [pc |-> "idle", diff |-> None, receipt |-> 0]
IdleConsumer == [pc |-> "idle", held |-> {}, cur |-> None, receipt |-> 0]
Released     == [IdleConsumer EXCEPT !.held = consumer.held]

DiffHeld(d) == \E w \in Workers : worker[w].diff = d /\ worker[w].receipt = diffs[d].receives
ResultHeld(id) == \/ <<id, results[id].receives>> \in consumer.held
                  \/ consumer.cur = id /\ consumer.receipt = results[id].receives

Fault   == faults < MaxFaults /\ faults' = faults + 1 /\ UNCHANGED aiFaults
AiFault == aiFaults < MaxAiFaults /\ aiFaults' = aiFaults + 1 /\ UNCHANGED faults
NoFault == UNCHANGED <<faults, aiFaults>>

Init ==
  /\ status   = [j \in Jobs |-> None]
  /\ attempt  = [j \in Jobs |-> 0]
  /\ solution = [j \in Jobs |-> 0]
  /\ question = [j \in Jobs |-> 0]
  /\ created  = [j \in Jobs |-> <<>>]
  /\ diffs    = [d \in DiffIds |-> Unsent]
  /\ results  = [id \in ResultIds |-> Unsent]
  /\ body     = [id \in ResultIds |-> None]
  /\ task     = [j \in Jobs |-> "idle"]
  /\ worker   = [w \in Workers |-> IdleWorker]
  /\ consumer = IdleConsumer
  /\ faults = 0 /\ aiFaults = 0

-----------------------------------------------------------------------------
(* The drafting task: start_generation, _draft_and_start and the first     *)
(* _submit_attempt.                                                        *)

StartGeneration(j) ==
  /\ status[j] = None
  /\ status' = [status EXCEPT ![j] = "queued"]
  /\ task'   = [task EXCEPT ![j] = "start"]
  /\ NoFault /\ UNCHANGED <<attempt, solution, question, created, judging, consumer>>

BeginDraft(j) ==
  /\ task[j] = "start"
  /\ status' = [status EXCEPT ![j] = "drafting"]
  /\ task'   = [task EXCEPT ![j] = "draft"]
  /\ NoFault /\ UNCHANGED <<attempt, solution, question, created, judging, consumer>>

\* static validation rejects the draft, or attempt 1 begins
Draft(j) ==
  /\ task[j] = "draft"
  /\ \/ /\ status' = [status EXCEPT ![j] = "failed"]
        /\ task'   = [task EXCEPT ![j] = "done"]
        /\ UNCHANGED attempt
     \/ /\ status'  = [status EXCEPT ![j] = "validating"]
        /\ attempt' = [attempt EXCEPT ![j] = 1]
        /\ task'    = [task EXCEPT ![j] = "submit"]
  /\ NoFault /\ UNCHANGED <<solution, question, created, judging, consumer>>

\* solutions from the language model, inputs to S3, commit of the solutions
StoreSolutions(j) ==
  /\ task[j] = "submit"
  /\ solution' = [solution EXCEPT ![j] = attempt[j]]
  /\ task'     = [task EXCEPT ![j] = "send"]
  /\ NoFault /\ UNCHANGED <<status, attempt, question, created, judging, consumer>>

SendDiff(j) ==
  /\ task[j] = "send"
  /\ diffs' = [diffs EXCEPT ![<<j, 1>>] = Sent]
  /\ task'  = [task EXCEPT ![j] = "done"]
  /\ NoFault /\ UNCHANGED <<row, created, results, body, worker, consumer>>

\* an exception marks the job failed; a send that raised may have sent
TaskFails(j) ==
  /\ task[j] \in {"start", "draft", "submit", "send"}
  /\ AiFault
  /\ status' = [status EXCEPT ![j] = "failed"]
  /\ task'   = [task EXCEPT ![j] = "done"]
  /\ \/ UNCHANGED diffs
     \/ task[j] = "send" /\ diffs' = [diffs EXCEPT ![<<j, 1>>] = Sent]
  /\ UNCHANGED <<attempt, solution, question, created, results, body, worker, consumer>>

-----------------------------------------------------------------------------
(* A judge-gen worker: receive one DiffJob, run it, send the report, delete *)
(* the message.  Any exception leaves it to its visibility timeout.        *)

ReceiveDiff(w, d) ==
  /\ worker[w].pc = "idle"
  /\ CanReceive(diffs[d])
  /\ diffs'  = [diffs EXCEPT ![d] = Received(diffs[d])]
  /\ worker' = [worker EXCEPT ![w] =
                  [pc |-> "running", diff |-> d, receipt |-> diffs[d].receives + 1]]
  /\ NoFault /\ UNCHANGED <<row, created, results, body, task, consumer>>

SendResult(w) ==
  LET d  == worker[w].diff
      id == <<d[1], d[2], worker[w].receipt>>
  IN  /\ worker[w].pc = "running"
      /\ \E report \in Reports[d[1]] : body' = [body EXCEPT ![id] = report]
      /\ results' = [results EXCEPT ![id] = Sent]
      /\ worker'  = [worker EXCEPT ![w].pc = "sent"]
      /\ NoFault /\ UNCHANGED <<row, created, diffs, task, consumer>>

DeleteDiff(w) ==
  LET d == worker[w].diff
  IN  /\ worker[w].pc = "sent"
      /\ \E m \in AfterDelete(diffs[d], worker[w].receipt) : diffs' = [diffs EXCEPT ![d] = m]
      /\ worker' = [worker EXCEPT ![w] = IdleWorker]
      /\ NoFault /\ UNCHANGED <<row, created, results, body, task, consumer>>

\* faulty variant: the message is deleted although the run failed
WorkerFailsAndDeletes(w) ==
  LET d == worker[w].diff
  IN  /\ worker[w].pc # "idle"
      /\ Fault
      /\ \E m \in AfterDelete(diffs[d], worker[w].receipt) : diffs' = [diffs EXCEPT ![d] = m]
      /\ worker' = [worker EXCEPT ![w] = IdleWorker]
      /\ UNCHANGED <<row, created, results, body, task, consumer>>

WorkerFails(w) ==
  /\ worker[w].pc # "idle"
  /\ Fault
  /\ worker' = [worker EXCEPT ![w] = IdleWorker]
  /\ UNCHANGED <<row, created, diffs, results, body, task, consumer>>

-----------------------------------------------------------------------------
(* The result consumer: receive a batch, then for each report decide,      *)
(* carry the decision out, delete the message.                             *)

ReceiveResults ==
  /\ consumer = IdleConsumer
  /\ \E batch \in SUBSET {id \in ResultIds : CanReceive(results[id])} :
        /\ batch # {} /\ Cardinality(batch) <= BatchSize
        /\ results' = [id \in ResultIds |-> IF id \in batch THEN Received(results[id])
                                                            ELSE results[id]]
        /\ consumer' = [consumer EXCEPT !.held =
                           {<<id, results[id].receives + 1>> : id \in batch}]
  /\ NoFault /\ UNCHANGED <<row, created, diffs, body, worker, task>>

Begin(m, pc) == consumer' = [pc |-> pc, held |-> consumer.held \ {m}, cur |-> m[1],
                             receipt |-> m[2]]

\* faulty variant: one attempt too many
DecideOneMore(m, j, a, report) ==
  \/ /\ attempt[j] # a
     /\ Begin(m, "delete") /\ UNCHANGED <<status, attempt>>
  \/ /\ attempt[j] = a /\ ~Passes(report)
     /\ attempt' = [attempt EXCEPT ![j] = attempt[j] + 1]
     /\ Begin(m, "submit") /\ UNCHANGED status

\* a report for another attempt than the row's is dropped; a passing one
\* creates the question; else the next attempt is counted, or none is left
Decide(m, j, a, report) ==
  \/ /\ attempt[j] # a
     /\ Begin(m, "delete") /\ UNCHANGED <<status, attempt>>
  \/ /\ attempt[j] = a /\ Passes(report)
     /\ Begin(m, "create") /\ UNCHANGED <<status, attempt>>
  \/ /\ attempt[j] = a /\ ~Passes(report) /\ attempt[j] < MaxAttempts
     /\ attempt' = [attempt EXCEPT ![j] = attempt[j] + 1]
     /\ Begin(m, "submit") /\ UNCHANGED status
  \/ /\ attempt[j] = a /\ ~Passes(report) /\ attempt[j] >= MaxAttempts
     /\ status' = [status EXCEPT ![j] = "failed"]
     /\ Begin(m, "delete") /\ UNCHANGED attempt

\* faulty variant: reports of superseded attempts count as well
DecideAnyAttempt(m) ==
  LET j == m[1][1]
  IN  /\ consumer.pc = "idle" /\ m \in consumer.held
      /\ Decide(m, j, attempt[j], body[m[1]])
      /\ NoFault /\ UNCHANGED <<solution, question, created, judging, task>>

ProcessResult(m) ==
  /\ consumer.pc = "idle" /\ m \in consumer.held
  /\ Decide(m, m[1][1], m[1][2], body[m[1]])
  /\ NoFault /\ UNCHANGED <<solution, question, created, judging, task>>

\* POST /internal/questions does not know of an earlier call for the same job
NewQuestion(j) == Append(created[j], solution[j])

\* the remote call that creates the question, in a transaction of its own
CreateQuestion ==
  LET j == consumer.cur[1]
  IN  /\ consumer.pc = "create"
      /\ created'  = [created EXCEPT ![j] = NewQuestion(j)]
      /\ consumer' = [consumer EXCEPT !.pc = "record"]
      /\ NoFault /\ UNCHANGED <<row, judging, task>>

RecordSuccess ==
  LET j == consumer.cur[1]
  IN  /\ consumer.pc = "record"
      /\ question' = [question EXCEPT ![j] = Len(created[j])]
      /\ status'   = [status EXCEPT ![j] = "succeeded"]
      /\ consumer' = [consumer EXCEPT !.pc = "delete"]
      /\ NoFault /\ UNCHANGED <<attempt, solution, created, judging, task>>

\* faulty variant: the next attempt is sent with the solutions left in the row
ResubmitKeepingSolutions ==
  /\ consumer.pc = "submit"
  /\ consumer' = [consumer EXCEPT !.pc = "send"]
  /\ NoFault /\ UNCHANGED <<row, created, judging, task>>

\* the next attempt's solutions and inputs
ResubmitSolutions ==
  LET j == consumer.cur[1]
  IN  /\ consumer.pc = "submit"
      /\ solution' = [solution EXCEPT ![j] = attempt[j]]
      /\ consumer' = [consumer EXCEPT !.pc = "send"]
      /\ NoFault /\ UNCHANGED <<status, attempt, question, created, judging, task>>

NextDiffSent == diffs' = [diffs EXCEPT ![<<consumer.cur[1], attempt[consumer.cur[1]]>>] = Sent]

ResendDiff ==
  /\ consumer.pc = "send"
  /\ NextDiffSent
  /\ consumer' = [consumer EXCEPT !.pc = "delete"]
  /\ NoFault /\ UNCHANGED <<row, created, results, body, worker, task>>

\* faulty variant: the message is left in the queue
DeleteResultNever ==
  /\ consumer.pc = "delete"
  /\ consumer' = Released
  /\ NoFault /\ UNCHANGED <<row, created, judging, task>>

DeleteResult ==
  LET id == consumer.cur
  IN  /\ consumer.pc = "delete"
      /\ \E m \in AfterDelete(results[id], consumer.receipt) :
            results' = [results EXCEPT ![id] = m]
      /\ consumer' = Released
      /\ NoFault /\ UNCHANGED <<row, created, diffs, body, worker, task>>

\* an exception on one message; the loop goes on, the message is redelivered
ConsumerFails ==
  /\ AiFault
  /\ \/ \E m \in consumer.held : /\ consumer.pc = "idle"
                                 /\ consumer' = [consumer EXCEPT !.held = @ \ {m}]
                                 /\ UNCHANGED diffs
     \/ /\ consumer.pc \in {"create", "record", "submit", "send"}
        /\ consumer' = Released
        /\ \/ UNCHANGED diffs
           \/ consumer.pc = "send" /\ NextDiffSent
  /\ UNCHANGED <<row, created, results, body, worker, task>>

\* an error of SQS outside the try: the loop ends for good
ConsumerEnds ==
  /\ \/ consumer = IdleConsumer
     \/ consumer.pc = "delete"
  /\ AiFault
  /\ consumer' = [IdleConsumer EXCEPT !.pc = "ended"]
  /\ UNCHANGED <<row, created, judging, task>>

\* the service stops and starts again: no task is resumed, the batch is lost
AiStops ==
  /\ AiFault
  /\ task' = [j \in Jobs |-> IF task[j] = "idle" THEN "idle" ELSE "done"]
  /\ consumer' = IdleConsumer
  /\ <<task, consumer>>' # <<task, consumer>>
  /\ UNCHANGED <<row, created, judging>>

-----------------------------------------------------------------------------
(* The queues' own steps.  A delivery that is still being worked on times  *)
(* out only as a fault.                                                    *)

DiffTimeout(d) ==
  /\ diffs[d].state = "inflight"
  /\ \/ ~DiffHeld(d) /\ NoFault
     \/ DiffHeld(d) /\ Fault
  /\ diffs' = [diffs EXCEPT ![d] = TimedOut(diffs[d])]
  /\ UNCHANGED <<row, created, results, body, worker, task, consumer>>

ResultTimeout(id) ==
  /\ results[id].state = "inflight"
  /\ \/ ~ResultHeld(id) /\ NoFault
     \/ ResultHeld(id) /\ Fault
  /\ results' = [results EXCEPT ![id] = TimedOut(results[id])]
  /\ UNCHANGED <<row, created, diffs, body, worker, task, consumer>>

\* nothing is left to do: not a deadlock
Quiescent ==
  /\ \A j \in Jobs : task[j] = "done"
  /\ \A d \in DiffIds : diffs[d].state \in {"unsent", "deleted"}
  /\ \A id \in ResultIds : results[id].state \in {"unsent", "deleted"} \/ consumer.pc = "ended"
  /\ \A w \in Workers : worker[w] = IdleWorker
  /\ consumer \in {IdleConsumer, [IdleConsumer EXCEPT !.pc = "ended"]}
  /\ UNCHANGED vars

-----------------------------------------------------------------------------
TaskProgress(j) == BeginDraft(j) \/ Draft(j) \/ StoreSolutions(j) \/ SendDiff(j)

WorkerProgress(w) == (\E d \in DiffIds : ReceiveDiff(w, d)) \/ SendResult(w) \/ DeleteDiff(w)

ConsumerProgress ==
  \/ ReceiveResults
  \/ \E m \in consumer.held : ProcessResult(m)
  \/ CreateQuestion \/ RecordSuccess \/ ResubmitSolutions \/ ResendDiff \/ DeleteResult

Next ==
  \/ \E j \in Jobs : StartGeneration(j) \/ TaskProgress(j) \/ TaskFails(j)
  \/ \E w \in Workers : WorkerProgress(w) \/ WorkerFails(w)
  \/ ConsumerProgress \/ ConsumerFails \/ ConsumerEnds \/ AiStops
  \/ \E d \in DiffIds : DiffTimeout(d)
  \/ \E id \in ResultIds : ResultTimeout(id)
  \/ Quiescent

Spec == Init /\ [][Next]_vars

(***************************************************************************)
(* Fairness: the event loop resumes tasks and the consumer, the workers    *)
(* loop, the queue service honours its timeouts.  Nothing must fail.       *)
(***************************************************************************)
FairSpec ==
  /\ Spec
  /\ \A j \in Jobs : WF_vars(TaskProgress(j))
  /\ \A w \in Workers : WF_vars(WorkerProgress(w))
  /\ WF_vars(ConsumerProgress)
  /\ \A d \in DiffIds : WF_vars(~DiffHeld(d) /\ DiffTimeout(d))
  /\ \A id \in ResultIds : WF_vars(~ResultHeld(id) /\ ResultTimeout(id))

-----------------------------------------------------------------------------
(* Properties *)

\* Types of the rows, the queues and the control state of every process.
TypeOK ==
  /\ status   \in [Jobs -> {None, "queued", "drafting", "validating", "succeeded", "failed"}]
  /\ attempt  \in [Jobs -> 0..MaxAttempts]
  /\ solution \in [Jobs -> 0..MaxAttempts]
  /\ question \in [Jobs -> Nat]
  /\ created  \in [Jobs -> Seq(0..MaxAttempts)]
  /\ diffs    \in [DiffIds -> Message]
  /\ results  \in [ResultIds -> Message]
  /\ body     \in [ResultIds -> Report \cup {None}]
  /\ task     \in [Jobs -> {"idle", "start", "draft", "submit", "send", "done"}]
  /\ worker   \in [Workers -> [pc : {"idle", "running", "sent"},
                               diff : DiffIds \cup {None}, receipt : 0..MaxReceives]]
  /\ consumer \in [pc : {"idle", "create", "record", "submit", "send", "delete", "ended"},
                   held : SUBSET (ResultIds \X Runs), cur : ResultIds \cup {None},
                   receipt : 0..MaxReceives]
  /\ faults \in 0..MaxFaults /\ aiFaults \in 0..MaxAiFaults

Agreed(r)    == r # None /\ r.status = "COMPLETED" /\ 100 * r.agreeing >= Threshold * NumInputs
Disagreed(r) == r # None /\ (r.status # "COMPLETED" \/ 100 * r.agreeing < Threshold * NumInputs)

\* A question is created only for solutions that agreed: whichever reports
\* are late or doubled, the solutions in the row at that moment are those of
\* an attempt with a report at or above the threshold (process_gen_result).
QuestionsAgreed ==
  \A j \in Jobs : \A i \in DOMAIN created[j] :
     \E n \in Runs : created[j][i] # 0 /\ Agreed(body[<<j, created[j][i], n>>])

\* No attempt is spent without a disagreement: the row is at attempt a only
\* after a report below the threshold, or a compile error, for each earlier
\* one; a doubled report never costs a second attempt.
AttemptsAreSpentOnDisagreement ==
  \A j \in Jobs : \A a \in 1..(attempt[j] - 1) : \E n \in Runs : Disagreed(body[<<j, a, n>>])

\* One run of the pipeline makes one question: each further one is owed to a
\* failure or a late delete (delete-only-on-success in both loops).
ExtraQuestionsNeedFaults ==
  \A j \in Jobs : Len(created[j]) <= 1 + faults + aiFaults

\* While the ai service itself does not fail, every job ends, whatever the
\* workers and the queues do ("max attempts", redelivery in gen_worker.py).
JobsFinish ==
  [](aiFaults = 0) =>
     \A j \in Jobs : status[j] = "queued" ~> status[j] \in {"succeeded", "failed"}

\* The solutions kept with a succeeded job are replaced only if a job was
\* judged twice and its reports differ: a report that is merely delivered
\* again changes nothing (the attempt check of process_gen_result).
WinnerIsKeptUnlessJudgedTwice ==
  [][\A j \in Jobs : status[j] = "succeeded" /\ solution'[j] # solution[j] =>
        \E a \in Attempts : \E m, n \in Runs :
           Agreed(body[<<j, a, m>>]) /\ Disagreed(body[<<j, a, n>>])]_vars

\* The consumer deletes a report only when it was dealt with
\* ("delete-only-on-success", gen_consumer.py): once every report of an
\* attempt is out of the queue, the DiffJob of the attempt counted after it
\* has been sent.
DeletedOnlyOnSuccess ==
  \A j \in Jobs :
     /\ attempt[j] >= 2
     /\ \A n \in Runs : results[<<j, attempt[j] - 1, n>>].state \in {"unsent", "deleted"}
     => diffs[<<j, attempt[j]>>].state # "unsent"
=============================================================================
