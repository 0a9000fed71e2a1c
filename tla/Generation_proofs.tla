------------------------- MODULE Generation_proofs -------------------------
(***************************************************************************)
(* Proofs about Generation, for any number of jobs, workers, attempts,     *)
(* inputs, deliveries and failures, and any threshold.                     *)
(***************************************************************************)
EXTENDS Generation, SequenceTheorems, TLAPS

-----------------------------------------------------------------------------
(* The inductive invariant: what a process at a control point may rely on. *)

RunOf(w) == <<worker[w].diff[1], worker[w].diff[2], worker[w].receipt>>

\* a busy worker holds a delivery of its own; it has not reported yet while
\* it runs
WorkerInv ==
  /\ \A w \in Workers : worker[w].pc # "idle" =>
        /\ worker[w].diff \in DiffIds /\ worker[w].receipt \in Runs
        /\ worker[w].receipt <= diffs[worker[w].diff].receives
        /\ diffs[worker[w].diff].state # "unsent"
        /\ worker[w].pc = "running" => body[RunOf(w)] = None
  /\ \A v, w \in Workers : worker[v].pc # "idle" /\ worker[w].pc # "idle" /\ v # w =>
        worker[v].diff # worker[w].diff \/ worker[v].receipt # worker[w].receipt

\* a report stems from a delivery, a result message carries a report
ReportInv ==
  /\ \A j \in Jobs, a \in Attempts, n \in Runs : body[<<j, a, n>>] # None =>
        n <= diffs[<<j, a>>].receives /\ diffs[<<j, a>>].state # "unsent"
  /\ \A id \in ResultIds : results[id].state # "unsent" => body[id] # None

\* a DiffJob of the current attempt compares the solutions in the row; none is
\* sent for a later attempt
SolutionInv ==
  \A j \in Jobs, a \in Attempts : diffs[<<j, a>>].state # "unsent" =>
     a <= attempt[j] /\ (a = attempt[j] => solution[j] = a)

\* before the drafting task is done, nothing was sent for its job
TaskInv ==
  \A j \in Jobs :
     /\ status[j] = None => task[j] = "idle"
     /\ task[j] # "done" => \A a \in Attempts : diffs[<<j, a>>].state = "unsent"
     /\ task[j] \in {"submit", "send"} => attempt[j] = 1
     /\ task[j] = "send" => solution[j] = 1

\* the consumer holds reports; what it decided still fits the row
ConsumerInv ==
  /\ \A m \in consumer.held : body[m[1]] # None
  /\ consumer.pc \in {"idle", "ended"} => consumer.cur = None /\ consumer.receipt = 0
  /\ consumer.pc \notin {"idle", "ended"} =>
       /\ consumer.cur \in ResultIds /\ body[consumer.cur] # None
       /\ consumer.pc = "create" => /\ attempt[consumer.cur[1]] = consumer.cur[2]
                                    /\ Agreed(body[consumer.cur])
       /\ consumer.pc \in {"submit", "send"} =>
            /\ attempt[consumer.cur[1]] \in Attempts
            /\ diffs[<<consumer.cur[1], attempt[consumer.cur[1]]>>].state = "unsent"
       /\ consumer.pc = "send" => solution[consumer.cur[1]] = attempt[consumer.cur[1]]

IInv == /\ TypeOK /\ WorkerInv /\ ReportInv /\ SolutionInv /\ TaskInv /\ ConsumerInv
        /\ QuestionsAgreed /\ AttemptsAreSpentOnDisagreement

-----------------------------------------------------------------------------
(* Queue messages *)

LEMMA MessageFacts ==
  /\ Unsent \in Message /\ Sent \in Message
  /\ Unsent.state = "unsent" /\ Sent.state # "unsent"
BY MaxReceivesAssumption DEF Unsent, Sent, Message

LEMMA ReceivedFacts ==
  ASSUME NEW m \in Message, CanReceive(m)
  PROVE  /\ Received(m) \in Message /\ m.state # "unsent" /\ Received(m).state # "unsent"
         /\ Received(m).receives = m.receives + 1
         /\ m.receives + 1 \in 1..MaxReceives
BY MaxReceivesAssumption DEF Received, CanReceive, Message

LEMMA DeleteFacts ==
  ASSUME NEW m \in Message, NEW r, NEW n \in AfterDelete(m, r)
  PROVE  /\ n \in Message /\ n.receives = m.receives
         /\ m.state # "unsent" => n.state # "unsent"
BY DEF AfterDelete, Message

LEMMA TimeoutFacts ==
  ASSUME NEW m \in Message
  PROVE  /\ TimedOut(m) \in Message /\ TimedOut(m).state # "unsent"
         /\ TimedOut(m).receives = m.receives
BY DEF TimedOut, Message

LEMMA InitInv == Init => IInv
<1> SUFFICES ASSUME Init PROVE IInv
  OBVIOUS
<1> USE MaxReceivesAssumption, GenerationAssumption DEF Init
<1>1. TypeOK
  <2>1. \A j \in Jobs : created[j] \in Seq(0..MaxAttempts)
    OBVIOUS
  <2>2. created \in [Jobs -> Seq(0..MaxAttempts)]
    BY <2>1
  <2>3. diffs \in [DiffIds -> Message] /\ results \in [ResultIds -> Message]
    BY MessageFacts
  <2> QED
    BY <2>2, <2>3 DEF TypeOK, IdleWorker, IdleConsumer
<1>2. WorkerInv
  BY DEF WorkerInv, IdleWorker
<1>3. ReportInv
  BY DEF ReportInv, ResultIds, Unsent
<1>4. SolutionInv
  BY DEF SolutionInv, DiffIds, Unsent
<1>5. TaskInv
  BY DEF TaskInv, DiffIds, Unsent
<1>6. ConsumerInv
  BY DEF ConsumerInv, IdleConsumer
<1>7. QuestionsAgreed /\ AttemptsAreSpentOnDisagreement
  BY DEF QuestionsAgreed, AttemptsAreSpentOnDisagreement
<1> QED
  BY <1>1, <1>2, <1>3, <1>4, <1>5, <1>6, <1>7 DEF IInv

-----------------------------------------------------------------------------
(* The drafting task: nothing of its job is in the queues yet.             *)

\* a job the consumer works on has a DiffJob that was sent
LEMMA ConsumerJobSent ==
  ASSUME IInv, consumer.pc \notin {"idle", "ended"}
  PROVE  /\ consumer.cur \in ResultIds
         /\ diffs[<<consumer.cur[1], consumer.cur[2]>>].state # "unsent"
         /\ task[consumer.cur[1]] = "done"
<1>1. /\ consumer.cur \in ResultIds /\ body[consumer.cur] # None
  BY DEF IInv, ConsumerInv
<1>2. /\ consumer.cur[1] \in Jobs /\ consumer.cur[2] \in Attempts /\ consumer.cur[3] \in Runs
      /\ consumer.cur = <<consumer.cur[1], consumer.cur[2], consumer.cur[3]>>
  BY <1>1 DEF ResultIds
<1>3. diffs[<<consumer.cur[1], consumer.cur[2]>>].state # "unsent"
  BY <1>1, <1>2 DEF IInv, ReportInv
<1> QED
  BY <1>1, <1>2, <1>3 DEF IInv, TaskInv

LEMMA StartInv ==
  ASSUME IInv, NEW j \in Jobs, StartGeneration(j) \/ BeginDraft(j)
  PROVE  IInv'
<1> USE DEF row, judging, NoFault
<1>0. /\ TypeOK /\ WorkerInv /\ ReportInv /\ SolutionInv /\ TaskInv /\ ConsumerInv
      /\ QuestionsAgreed /\ AttemptsAreSpentOnDisagreement
  BY DEF IInv
<1>1. /\ UNCHANGED <<attempt, solution, question, created, diffs, results, body, worker,
                     consumer, faults, aiFaults>>
      /\ \E x \in {"queued", "drafting"}, y \in {"start", "draft"} :
            status' = [status EXCEPT ![j] = x] /\ task' = [task EXCEPT ![j] = y]
      /\ task[j] # "done"
  BY <1>0 DEF StartGeneration, BeginDraft, TaskInv
<1>2. TypeOK'
  BY <1>0, <1>1 DEF TypeOK
<1>3. WorkerInv' /\ ReportInv' /\ SolutionInv' /\ ConsumerInv'
  BY <1>0, <1>1 DEF WorkerInv, RunOf, ReportInv, SolutionInv, ConsumerInv
<1>4. TaskInv'
  BY <1>0, <1>1, GenerationAssumption DEF TypeOK, TaskInv, StartGeneration, BeginDraft
<1>5. QuestionsAgreed' /\ AttemptsAreSpentOnDisagreement'
  BY <1>0, <1>1 DEF QuestionsAgreed, AttemptsAreSpentOnDisagreement
<1> QED
  BY <1>2, <1>3, <1>4, <1>5 DEF IInv

LEMMA DraftInv ==
  ASSUME IInv, NEW j \in Jobs, Draft(j)
  PROVE  IInv'
<1> USE DEF row, judging, NoFault
<1>0. /\ TypeOK /\ WorkerInv /\ ReportInv /\ SolutionInv /\ TaskInv /\ ConsumerInv
      /\ QuestionsAgreed /\ AttemptsAreSpentOnDisagreement
  BY DEF IInv
<1>1. /\ UNCHANGED <<solution, question, created, diffs, results, body, worker, consumer,
                     faults, aiFaults>>
      /\ task[j] = "draft"
  BY DEF Draft
<1>2. TypeOK'
  <2>1. 1 \in 0..MaxAttempts
    BY GenerationAssumption
  <2>2. /\ attempt' = attempt \/ attempt' = [attempt EXCEPT ![j] = 1]
        /\ \E x \in {"failed", "validating"}, y \in {"done", "submit"} :
              status' = [status EXCEPT ![j] = x] /\ task' = [task EXCEPT ![j] = y]
    BY DEF Draft
  <2>3. (attempt \in [Jobs -> 0..MaxAttempts])'
    BY <1>0, <2>1, <2>2 DEF TypeOK
  <2>4. (task \in [Jobs -> {"idle", "start", "draft", "submit", "send", "done"}])'
    BY <1>0, <2>2 DEF TypeOK
  <2>5. (status \in [Jobs -> {None, "queued", "drafting", "validating", "succeeded",
                               "failed"}])'
    BY <1>0, <2>2 DEF TypeOK
  <2> QED
    BY <1>0, <1>1, <2>3, <2>4, <2>5 DEF TypeOK
<1>3. WorkerInv' /\ ReportInv' /\ QuestionsAgreed'
  BY <1>0, <1>1 DEF WorkerInv, RunOf, ReportInv, QuestionsAgreed
<1>4. \A i \in Jobs : i # j => attempt'[i] = attempt[i]
  BY <1>0 DEF TypeOK, Draft
<1>5. attempt'[j] = attempt[j] \/ attempt'[j] = 1
  BY <1>0 DEF TypeOK, Draft
<1>6. SolutionInv'
  BY <1>0, <1>1, <1>4 DEF SolutionInv, TaskInv
<1>7. TaskInv'
  <2>1. \A i \in Jobs : i # j => /\ task'[i] = task[i] /\ status'[i] = status[i]
                                /\ attempt'[i] = attempt[i]
    BY <1>0 DEF TypeOK, Draft
  <2>2. /\ status'[j] # None /\ task'[j] \in {"done", "submit"}
        /\ task'[j] = "submit" => attempt'[j] = 1
    BY <1>0, GenerationAssumption DEF TypeOK, Draft
  <2> QED
    BY <1>0, <1>1, <2>1, <2>2 DEF TaskInv
<1>8. ConsumerInv'
  <2>1. consumer.pc \notin {"idle", "ended"} =>
           consumer.cur \in ResultIds /\ consumer.cur[1] \in Jobs /\ consumer.cur[1] # j
    BY <1>1, ConsumerJobSent DEF ResultIds
  <2> QED
    BY <1>0, <1>1, <1>4, <2>1 DEF ConsumerInv
<1>9. AttemptsAreSpentOnDisagreement'
  <2>1. \A i \in Jobs : \A a \in 1..(attempt'[i] - 1) : a \in 1..(attempt[i] - 1)
    BY <1>4, <1>5
  <2> QED
    BY <1>0, <1>1, <2>1 DEF AttemptsAreSpentOnDisagreement
<1> QED
  BY <1>2, <1>3, <1>6, <1>7, <1>8, <1>9 DEF IInv

LEMMA StoreSolutionsInv ==
  ASSUME IInv, NEW j \in Jobs, StoreSolutions(j)
  PROVE  IInv'
<1> USE DEF row, judging, NoFault
<1>0. /\ TypeOK /\ WorkerInv /\ ReportInv /\ SolutionInv /\ TaskInv /\ ConsumerInv
      /\ QuestionsAgreed /\ AttemptsAreSpentOnDisagreement
  BY DEF IInv
<1>1. /\ UNCHANGED <<status, attempt, question, created, diffs, results, body, worker,
                     consumer, faults, aiFaults>>
      /\ task[j] = "submit" /\ task' = [task EXCEPT ![j] = "send"]
      /\ solution' = [solution EXCEPT ![j] = attempt[j]]
  BY DEF StoreSolutions
<1>2. TypeOK'
  BY <1>0, <1>1 DEF TypeOK
<1>3. WorkerInv' /\ ReportInv' /\ QuestionsAgreed' /\ AttemptsAreSpentOnDisagreement'
  BY <1>0, <1>1
  DEF WorkerInv, RunOf, ReportInv, QuestionsAgreed, AttemptsAreSpentOnDisagreement
<1>4. \A i \in Jobs : i # j => solution'[i] = solution[i]
  BY <1>0, <1>1 DEF TypeOK
<1>5. SolutionInv'
  BY <1>0, <1>1, <1>4 DEF SolutionInv, TaskInv
<1>6. TaskInv'
  BY <1>0, <1>1 DEF TypeOK, TaskInv
<1>7. ConsumerInv'
  <2>1. consumer.pc \notin {"idle", "ended"} =>
           consumer.cur \in ResultIds /\ consumer.cur[1] \in Jobs /\ consumer.cur[1] # j
    BY <1>1, ConsumerJobSent DEF ResultIds
  <2> QED
    BY <1>0, <1>1, <1>4, <2>1 DEF ConsumerInv
<1> QED
  BY <1>2, <1>3, <1>5, <1>6, <1>7 DEF IInv

\* sending the DiffJob of the current attempt of j, which was not sent before
LEMMA SendInv ==
  ASSUME IInv, NEW j \in Jobs, attempt[j] \in Attempts, solution[j] = attempt[j],
         diffs[<<j, attempt[j]>>].state = "unsent",
         diffs' = [diffs EXCEPT ![<<j, attempt[j]>>] = Sent],
         UNCHANGED <<attempt, solution, question, created, results, body, worker>>
  PROVE  /\ (diffs \in [DiffIds -> Message])'
         /\ WorkerInv' /\ ReportInv' /\ SolutionInv'
         /\ QuestionsAgreed' /\ AttemptsAreSpentOnDisagreement'
<1>0. /\ TypeOK /\ WorkerInv /\ ReportInv /\ SolutionInv
      /\ QuestionsAgreed /\ AttemptsAreSpentOnDisagreement
  BY DEF IInv
<1> DEFINE d == <<j, attempt[j]>>
<1>1. d \in DiffIds /\ diffs \in [DiffIds -> Message]
  BY <1>0 DEF DiffIds, TypeOK
<1>2. diffs' \in [DiffIds -> Message]
  BY <1>1, MessageFacts
<1>3. \A e \in DiffIds : diffs[e].state # "unsent" => diffs'[e] = diffs[e]
  BY <1>1
<1>4. \A e \in DiffIds : e # d => diffs'[e] = diffs[e]
  BY <1>1
<1>5. WorkerInv'
  BY <1>0, <1>3 DEF WorkerInv, RunOf
<1>6. ReportInv'
  BY <1>0, <1>3 DEF ReportInv, DiffIds
<1>7. SolutionInv'
  <2> SUFFICES ASSUME NEW i \in Jobs, NEW a \in Attempts, diffs'[<<i, a>>].state # "unsent"
               PROVE  a <= attempt[i] /\ (a = attempt[i] => solution[i] = a)
    BY DEF SolutionInv
  <2>1. CASE i = j /\ a = attempt[j]
    BY <2>1 DEF Attempts
  <2>2. CASE ~(i = j /\ a = attempt[j])
    BY <1>0, <1>4, <2>2 DEF SolutionInv, DiffIds
  <2> QED
    BY <2>1, <2>2
<1>8. QuestionsAgreed' /\ AttemptsAreSpentOnDisagreement'
  BY <1>0 DEF QuestionsAgreed, AttemptsAreSpentOnDisagreement
<1> QED
  BY <1>2, <1>5, <1>6, <1>7, <1>8

LEMMA TaskSendInv ==
  ASSUME IInv, NEW j \in Jobs, SendDiff(j) \/ TaskFails(j)
  PROVE  IInv'
<1> USE DEF row, judging, NoFault
<1>0. /\ TypeOK /\ WorkerInv /\ ReportInv /\ SolutionInv /\ TaskInv /\ ConsumerInv
      /\ QuestionsAgreed /\ AttemptsAreSpentOnDisagreement
  BY DEF IInv
<1>1. /\ UNCHANGED <<attempt, solution, question, created, results, body, worker, consumer>>
      /\ task' = [task EXCEPT ![j] = "done"] /\ task[j] \notin {"idle", "done"}
      /\ \/ status' = status
         \/ status' = [status EXCEPT ![j] = "failed"]
      /\ \/ UNCHANGED diffs
         \/ task[j] = "send" /\ diffs' = [diffs EXCEPT ![<<j, 1>>] = Sent]
  BY DEF SendDiff, TaskFails
<1>2. faults' \in 0..MaxFaults /\ aiFaults' \in 0..MaxAiFaults
  BY <1>0, GenerationAssumption DEF SendDiff, TaskFails, AiFault, TypeOK
<1>3. task[j] = "send" => /\ attempt[j] = 1 /\ solution[j] = 1 /\ 1 \in Attempts
                          /\ diffs[<<j, 1>>].state = "unsent"
  BY <1>0, GenerationAssumption DEF TaskInv, Attempts
<1>4. /\ (diffs \in [DiffIds -> Message])'
      /\ WorkerInv' /\ ReportInv' /\ SolutionInv'
      /\ QuestionsAgreed' /\ AttemptsAreSpentOnDisagreement'
  <2>1. CASE UNCHANGED diffs
    <3>1. (diffs \in [DiffIds -> Message])'
      BY <1>0, <2>1 DEF TypeOK
    <3>2. WorkerInv' /\ ReportInv' /\ SolutionInv'
      BY <1>0, <1>1, <2>1 DEF WorkerInv, RunOf, ReportInv, SolutionInv
    <3>3. QuestionsAgreed' /\ AttemptsAreSpentOnDisagreement'
      BY <1>0, <1>1 DEF QuestionsAgreed, AttemptsAreSpentOnDisagreement
    <3> QED
      BY <3>1, <3>2, <3>3
  <2>2. CASE task[j] = "send" /\ diffs' = [diffs EXCEPT ![<<j, 1>>] = Sent]
    <3>1. /\ attempt[j] \in Attempts /\ solution[j] = attempt[j]
          /\ diffs[<<j, attempt[j]>>].state = "unsent"
          /\ diffs' = [diffs EXCEPT ![<<j, attempt[j]>>] = Sent]
      BY <1>3, <2>2
    <3>2. UNCHANGED <<attempt, solution, question, created, results, body, worker>>
      BY <1>1
    <3> QED
      BY <3>1, <3>2, SendInv
  <2> QED
    BY <1>1, <2>1, <2>2
<1>5. \A i \in Jobs, a \in Attempts : i # j => diffs'[<<i, a>>] = diffs[<<i, a>>]
  BY <1>0, <1>1 DEF TypeOK, DiffIds
<1>6. TypeOK'
  BY <1>0, <1>1, <1>2, <1>4 DEF TypeOK
<1>7. TaskInv'
  BY <1>0, <1>1, <1>5, GenerationAssumption DEF TypeOK, TaskInv
<1>8. ConsumerInv'
  <2>1. consumer.pc \notin {"idle", "ended"} =>
           consumer.cur \in ResultIds /\ consumer.cur[1] \in Jobs /\ consumer.cur[1] # j
    BY <1>1, ConsumerJobSent DEF ResultIds
  <2> QED
    BY <1>0, <1>1, <1>5, <2>1 DEF ConsumerInv
<1> QED
  BY <1>4, <1>6, <1>7, <1>8 DEF IInv

-----------------------------------------------------------------------------
(* Deliveries: the queues keep what was sent and count what they hand out. *)

LEMMA DeliveryInv ==
  ASSUME IInv,
         diffs' \in [DiffIds -> Message], results' \in [ResultIds -> Message],
         \A d \in DiffIds : /\ diffs'[d].state = "unsent" <=> diffs[d].state = "unsent"
                            /\ diffs'[d].receives >= diffs[d].receives,
         \A id \in ResultIds : results'[id].state # "unsent" => results[id].state # "unsent",
         UNCHANGED <<row, created, body, task>>
  PROVE  /\ ReportInv' /\ SolutionInv' /\ TaskInv'
         /\ QuestionsAgreed' /\ AttemptsAreSpentOnDisagreement'
         /\ worker' = worker => WorkerInv'
         /\ consumer' = consumer => ConsumerInv'
<1> USE DEF row
<1>0. /\ TypeOK /\ WorkerInv /\ ReportInv /\ SolutionInv /\ TaskInv /\ ConsumerInv
      /\ QuestionsAgreed /\ AttemptsAreSpentOnDisagreement
  BY DEF IInv
<1>1. ReportInv'
  <2>1. ASSUME NEW j \in Jobs, NEW a \in Attempts, NEW n \in Runs, body[<<j, a, n>>] # None
        PROVE  n <= diffs'[<<j, a>>].receives /\ diffs'[<<j, a>>].state # "unsent"
    <3>1. n <= diffs[<<j, a>>].receives /\ diffs[<<j, a>>].state # "unsent"
      BY <1>0, <2>1 DEF ReportInv
    <3>2. <<j, a>> \in DiffIds
      BY DEF DiffIds
    <3>3. diffs[<<j, a>>].receives \in Nat /\ diffs'[<<j, a>>].receives \in Nat /\ n \in Nat
      BY <1>0, <3>2, MaxReceivesAssumption DEF TypeOK, Message, Runs
    <3> QED
      BY <3>1, <3>2, <3>3
  <2> QED
    BY <1>0, <2>1 DEF ReportInv
<1>2. SolutionInv'
  BY <1>0 DEF SolutionInv, DiffIds
<1>3. TaskInv'
  BY <1>0 DEF TaskInv, DiffIds
<1>4. QuestionsAgreed' /\ AttemptsAreSpentOnDisagreement'
  BY <1>0 DEF QuestionsAgreed, AttemptsAreSpentOnDisagreement
<1>5. ASSUME worker' = worker
      PROVE  WorkerInv'
  <2>1. ASSUME NEW w \in Workers, worker[w].pc # "idle"
        PROVE  worker[w].receipt <= diffs'[worker[w].diff].receives
    <3>1. /\ worker[w].diff \in DiffIds /\ worker[w].receipt \in Runs
          /\ worker[w].receipt <= diffs[worker[w].diff].receives
      BY <1>0, <2>1 DEF WorkerInv
    <3>2. /\ diffs[worker[w].diff].receives \in Nat /\ diffs'[worker[w].diff].receives \in Nat
          /\ worker[w].receipt \in Nat
      BY <1>0, <3>1, MaxReceivesAssumption DEF TypeOK, Message, Runs
    <3> QED
      BY <3>1, <3>2
  <2> QED
    BY <1>0, <1>5, <2>1 DEF WorkerInv, RunOf
<1>6. ASSUME consumer' = consumer
      PROVE  ConsumerInv'
  <2>1. consumer.pc \notin {"idle", "ended"} => consumer.cur[1] \in Jobs
    BY <1>0 DEF ConsumerInv, ResultIds
  <2> QED
    BY <1>0, <1>6, <2>1 DEF ConsumerInv, DiffIds
<1> QED
  BY <1>1, <1>2, <1>3, <1>4, <1>5, <1>6

\* changing one DiffJob message only
LEMMA OneDiffInv ==
  ASSUME IInv, NEW d \in DiffIds, NEW m \in Message,
         diffs[d].state # "unsent", m.state # "unsent", m.receives >= diffs[d].receives,
         diffs' = [diffs EXCEPT ![d] = m],
         UNCHANGED <<row, created, results, body, task>>
  PROVE  /\ (diffs \in [DiffIds -> Message])'
         /\ ReportInv' /\ SolutionInv' /\ TaskInv'
         /\ QuestionsAgreed' /\ AttemptsAreSpentOnDisagreement'
         /\ worker' = worker => WorkerInv'
         /\ consumer' = consumer => ConsumerInv'
<1>1. TypeOK
  BY DEF IInv
<1>2. diffs' \in [DiffIds -> Message] /\ results' \in [ResultIds -> Message]
  BY <1>1 DEF TypeOK
<1>3. \A e \in DiffIds : /\ diffs'[e].state = "unsent" <=> diffs[e].state = "unsent"
                         /\ diffs'[e].receives >= diffs[e].receives
  <2>1. \A e \in DiffIds : diffs[e].receives \in Nat
    BY <1>1, MaxReceivesAssumption DEF TypeOK, Message
  <2> QED
    BY <1>1, <2>1 DEF TypeOK
<1> QED
  BY <1>2, <1>3, DeliveryInv

LEMMA ReceiveDiffInv ==
  ASSUME IInv, NEW w \in Workers, NEW d \in DiffIds, ReceiveDiff(w, d)
  PROVE  IInv'
<1> USE DEF row, NoFault
<1>0. TypeOK /\ WorkerInv /\ ReportInv
  BY DEF IInv
<1>1. /\ UNCHANGED <<row, created, results, body, task, consumer, faults, aiFaults>>
      /\ CanReceive(diffs[d]) /\ diffs[d] \in Message
      /\ diffs' = [diffs EXCEPT ![d] = Received(diffs[d])]
      /\ worker' = [worker EXCEPT ![w] =
                      [pc |-> "running", diff |-> d, receipt |-> diffs[d].receives + 1]]
  BY <1>0 DEF ReceiveDiff, TypeOK
<1>2. /\ Received(diffs[d]) \in Message /\ diffs[d].state # "unsent"
      /\ Received(diffs[d]).state # "unsent"
      /\ Received(diffs[d]).receives = diffs[d].receives + 1
      /\ diffs[d].receives + 1 \in 1..MaxReceives
  BY <1>1, ReceivedFacts
<1>3. \A e \in DiffIds : diffs[e].receives \in Nat
  BY <1>0, MaxReceivesAssumption DEF TypeOK, Message
<1>4. /\ (diffs \in [DiffIds -> Message])'
      /\ ReportInv' /\ SolutionInv' /\ TaskInv' /\ ConsumerInv'
      /\ QuestionsAgreed' /\ AttemptsAreSpentOnDisagreement'
  <2>1. Received(diffs[d]).receives >= diffs[d].receives
    BY <1>2, <1>3
  <2>2. UNCHANGED <<row, created, results, body, task>> /\ consumer' = consumer
    BY <1>1
  <2> QED
    BY <1>1, <1>2, <2>1, <2>2, OneDiffInv
<1>5. TypeOK'
  <2>1. diffs[d].receives + 1 \in 0..MaxReceives
    BY <1>2
  <2> QED
    BY <1>0, <1>1, <1>4, <2>1 DEF TypeOK
<1>6. WorkerInv'
  <2> DEFINE r == diffs[d].receives + 1
  <2>1. /\ worker'[w] = [pc |-> "running", diff |-> d, receipt |-> r]
        /\ \A v \in Workers : v # w => worker'[v] = worker[v]
    BY <1>0, <1>1 DEF TypeOK
  <2>2. diffs'[d] = Received(diffs[d]) /\ \A e \in DiffIds : e # d => diffs'[e] = diffs[e]
    BY <1>0, <1>1 DEF TypeOK
  <2>3. body[<<d[1], d[2], r>>] = None
    <3>1. d[1] \in Jobs /\ d[2] \in Attempts /\ d = <<d[1], d[2]>> /\ r \in Runs
      BY <1>2 DEF DiffIds, Runs
    <3>2. ~(r <= diffs[d].receives)
      BY <1>3
    <3> QED
      BY <1>0, <3>1, <3>2 DEF ReportInv
  <2>4. \A v \in Workers : v # w /\ worker[v].pc # "idle" /\ worker[v].diff = d
           => worker[v].receipt # r
    <3>1. \A v \in Workers : worker[v].pc # "idle" /\ worker[v].diff = d
             => worker[v].receipt \in Runs /\ worker[v].receipt <= diffs[d].receives
      BY <1>0 DEF WorkerInv
    <3> QED
      BY <1>3, <3>1, MaxReceivesAssumption DEF Runs
  <2>5. \A v \in Workers : v # w /\ worker[v].pc # "idle"
           => /\ worker[v].receipt <= diffs'[worker[v].diff].receives
              /\ diffs'[worker[v].diff].state # "unsent"
    <3>1. \A v \in Workers : worker[v].pc # "idle"
             => /\ worker[v].diff \in DiffIds /\ worker[v].receipt \in Nat
                /\ worker[v].receipt <= diffs[worker[v].diff].receives
                /\ diffs[worker[v].diff].state # "unsent"
      BY <1>0, MaxReceivesAssumption DEF WorkerInv, Runs
    <3>2. \A e \in DiffIds : /\ diffs'[e].receives = diffs[e].receives
                                \/ diffs'[e].receives = diffs[e].receives + 1
                             /\ diffs[e].state # "unsent" => diffs'[e].state # "unsent"
      BY <1>2, <2>2
    <3> QED
      BY <1>3, <3>1, <3>2
  <2>6. r \in Runs /\ r <= diffs'[d].receives /\ diffs'[d].state # "unsent"
    BY <1>2, <2>2 DEF Runs
  <2> HIDE DEF r
  <2>7. \A v \in Workers : worker'[v].pc # "idle" =>
           /\ worker'[v].diff \in DiffIds /\ worker'[v].receipt \in Runs
           /\ worker'[v].receipt <= diffs'[worker'[v].diff].receives
           /\ diffs'[worker'[v].diff].state # "unsent"
    BY <1>0, <2>1, <2>5, <2>6 DEF WorkerInv
  <2>8. \A v \in Workers : worker'[v].pc = "running" => body'[RunOf(v)'] = None
    BY <1>0, <1>1, <2>1, <2>3 DEF WorkerInv, RunOf
  <2>9. \A u, v \in Workers : worker'[u].pc # "idle" /\ worker'[v].pc # "idle" /\ u # v =>
           worker'[u].diff # worker'[v].diff \/ worker'[u].receipt # worker'[v].receipt
    BY <1>0, <2>1, <2>4 DEF WorkerInv
  <2> QED
    BY <2>7, <2>8, <2>9 DEF WorkerInv
<1> QED
  BY <1>4, <1>5, <1>6 DEF IInv

LEMMA SendResultInv ==
  ASSUME IInv, NEW w \in Workers, SendResult(w)
  PROVE  IInv'
<1> USE DEF row, NoFault
<1>0. /\ TypeOK /\ WorkerInv /\ ReportInv /\ SolutionInv /\ TaskInv /\ ConsumerInv
      /\ QuestionsAgreed /\ AttemptsAreSpentOnDisagreement
  BY DEF IInv
<1> DEFINE id == RunOf(w)
<1>1. /\ worker[w].diff \in DiffIds /\ worker[w].receipt \in Runs
      /\ worker[w].receipt <= diffs[worker[w].diff].receives
      /\ diffs[worker[w].diff].state # "unsent"
      /\ worker[w].pc = "running" /\ body[id] = None
  BY <1>0 DEF WorkerInv, SendResult
<1>2. /\ id \in ResultIds /\ id[1] \in Jobs /\ <<id[1], id[2]>> = worker[w].diff
      /\ id[3] = worker[w].receipt
  BY <1>1 DEF RunOf, DiffIds, ResultIds
<1>3. PICK report \in Reports[id[1]] : body' = [body EXCEPT ![id] = report]
  BY DEF SendResult, RunOf
<1>4. report \in Report /\ report # None
  BY <1>2, <1>3, GenerationAssumption
<1>5. /\ UNCHANGED <<row, created, diffs, task, consumer, faults, aiFaults>>
      /\ results' = [results EXCEPT ![id] = Sent]
      /\ worker' = [worker EXCEPT ![w].pc = "sent"]
  BY DEF SendResult, RunOf
<1> HIDE DEF id
<1>6. /\ \A i \in ResultIds : i # id => body'[i] = body[i]
      /\ body'[id] = report
      /\ \A i \in ResultIds : body[i] # None => body'[i] = body[i]
  BY <1>0, <1>1, <1>2, <1>3 DEF TypeOK
<1>7. TypeOK'
  <2>1. (body \in [ResultIds -> Report \cup {None}])'
    BY <1>0, <1>3, <1>4 DEF TypeOK
  <2>2. (results \in [ResultIds -> Message])'
    BY <1>0, <1>5, MessageFacts DEF TypeOK
  <2> QED
    BY <1>0, <1>5, <2>1, <2>2 DEF TypeOK
<1>8. WorkerInv'
  <2>1. /\ worker'[w].pc = "sent"
        /\ \A v \in Workers : /\ worker'[v].diff = worker[v].diff
                              /\ worker'[v].receipt = worker[v].receipt
                              /\ v # w => worker'[v].pc = worker[v].pc
    BY <1>0, <1>5 DEF TypeOK
  <2>2. \A v \in Workers : v # w /\ worker[v].pc # "idle" => RunOf(v) \in ResultIds /\ RunOf(v) # id
    <3>1. \A v \in Workers : worker[v].pc # "idle" =>
             /\ worker[v].diff \in DiffIds /\ worker[v].receipt \in Runs
             /\ v # w => worker[v].diff # worker[w].diff \/ worker[v].receipt # worker[w].receipt
      BY <1>0, <1>1 DEF WorkerInv
    <3> QED
      BY <1>1, <1>2, <3>1 DEF RunOf, DiffIds, ResultIds
  <2>3. \A v \in Workers : v # w /\ worker[v].pc = "running" => body'[RunOf(v)] = None
    BY <1>0, <1>6, <2>2 DEF WorkerInv
  <2>4. \A v \in Workers : RunOf(v)' = <<worker[v].diff[1], worker[v].diff[2], worker[v].receipt>>
    BY <2>1 DEF RunOf
  <2>5. \A v \in Workers : worker'[v].pc # "idle" => worker[v].pc # "idle"
    BY <1>1, <2>1
  <2> QED
    BY <1>0, <1>5, <2>1, <2>3, <2>4, <2>5 DEF WorkerInv, RunOf
<1>9. ReportInv'
  <2>1. ASSUME NEW j \in Jobs, NEW a \in Attempts, NEW n \in Runs, body'[<<j, a, n>>] # None
        PROVE  n <= diffs[<<j, a>>].receives /\ diffs[<<j, a>>].state # "unsent"
    <3>1. <<j, a, n>> \in ResultIds
      BY DEF ResultIds
    <3>2. CASE <<j, a, n>> = id
      BY <1>1, <1>2, <3>2
    <3>3. CASE <<j, a, n>> # id
      BY <1>0, <1>6, <2>1, <3>1, <3>3 DEF ReportInv
    <3> QED
      BY <3>2, <3>3
  <2>2. ASSUME NEW i \in ResultIds, results'[i].state # "unsent"
        PROVE  body'[i] # None
    BY <1>0, <1>4, <1>5, <1>6, <2>2 DEF ReportInv, TypeOK
  <2> QED
    BY <1>5, <2>1, <2>2 DEF ReportInv
<1>10. SolutionInv' /\ TaskInv'
  BY <1>0, <1>5 DEF SolutionInv, TaskInv
<1>11. ConsumerInv'
  <2>1. \A m \in consumer.held : m[1] \in ResultIds
    BY <1>0 DEF TypeOK
  <2> QED
    BY <1>0, <1>5, <1>6, <2>1 DEF ConsumerInv
<1>12. QuestionsAgreed' /\ AttemptsAreSpentOnDisagreement'
  <2>1. ASSUME NEW j \in Jobs, NEW i \in DOMAIN created[j]
        PROVE  \E n \in Runs : created[j][i] # 0 /\ Agreed(body'[<<j, created[j][i], n>>])
    <3>1. PICK n \in Runs : created[j][i] # 0 /\ Agreed(body[<<j, created[j][i], n>>])
      BY <1>0 DEF QuestionsAgreed
    <3>2. created[j][i] \in 0..MaxAttempts
      <4>1. created[j] \in Seq(0..MaxAttempts)
        BY <1>0 DEF TypeOK
      <4>2. i \in 1..Len(created[j])
        BY <4>1
      <4> QED
        BY <4>1, <4>2, ElementOfSeq
    <3>3. created[j][i] \in Attempts
      BY <3>1, <3>2, GenerationAssumption DEF Attempts
    <3>4. <<j, created[j][i], n>> \in ResultIds /\ body[<<j, created[j][i], n>>] # None
      BY <3>1, <3>3 DEF ResultIds, Agreed
    <3> QED
      BY <1>6, <3>1, <3>4
  <2>2. ASSUME NEW j \in Jobs, NEW a \in 1..(attempt[j] - 1)
        PROVE  \E n \in Runs : Disagreed(body'[<<j, a, n>>])
    <3>1. PICK n \in Runs : Disagreed(body[<<j, a, n>>])
      BY <1>0 DEF AttemptsAreSpentOnDisagreement
    <3>2. a \in Attempts
      BY <1>0, GenerationAssumption DEF TypeOK, Attempts
    <3>3. <<j, a, n>> \in ResultIds /\ body[<<j, a, n>>] # None
      BY <3>1, <3>2 DEF ResultIds, Disagreed
    <3> QED
      BY <1>6, <3>1, <3>3
  <2>3. QuestionsAgreed'
    BY <1>5, <2>1 DEF QuestionsAgreed
  <2>4. AttemptsAreSpentOnDisagreement'
    BY <1>5, <2>2 DEF AttemptsAreSpentOnDisagreement
  <2> QED
    BY <2>3, <2>4
<1> QED
  BY <1>7, <1>8, <1>9, <1>10, <1>11, <1>12 DEF IInv

LEMMA WorkerEndsInv ==
  ASSUME IInv, NEW w \in Workers, DeleteDiff(w) \/ WorkerFails(w)
  PROVE  IInv'
<1> USE DEF row, NoFault
<1>0. TypeOK /\ WorkerInv
  BY DEF IInv
<1>1. /\ UNCHANGED <<row, created, results, body, task, consumer>>
      /\ worker' = [worker EXCEPT ![w] = IdleWorker] /\ worker[w].pc # "idle"
      /\ faults' \in 0..MaxFaults /\ aiFaults' \in 0..MaxAiFaults
  BY <1>0, GenerationAssumption DEF DeleteDiff, WorkerFails, Fault, TypeOK
<1>2. /\ worker[w].diff \in DiffIds /\ diffs[worker[w].diff].state # "unsent"
      /\ diffs[worker[w].diff] \in Message
  BY <1>0, <1>1 DEF WorkerInv, TypeOK
<1>3. PICK m \in Message : /\ diffs' = [diffs EXCEPT ![worker[w].diff] = m]
                           /\ m.state # "unsent"
                           /\ m.receives = diffs[worker[w].diff].receives
  <2>1. CASE DeleteDiff(w)
    BY <1>2, <2>1, DeleteFacts DEF DeleteDiff
  <2>2. CASE WorkerFails(w)
    <3>1. diffs' = [diffs EXCEPT ![worker[w].diff] = diffs[worker[w].diff]]
      BY <1>0, <2>2 DEF WorkerFails, TypeOK
    <3> QED
      BY <1>2, <3>1
  <2> QED
    BY <2>1, <2>2
<1>4. m.receives >= diffs[worker[w].diff].receives
  BY <1>3, MaxReceivesAssumption DEF Message
<1>5. /\ (diffs \in [DiffIds -> Message])'
      /\ ReportInv' /\ SolutionInv' /\ TaskInv' /\ ConsumerInv'
      /\ QuestionsAgreed' /\ AttemptsAreSpentOnDisagreement'
  BY <1>1, <1>2, <1>3, <1>4, OneDiffInv
<1>6. TypeOK'
  BY <1>0, <1>1, <1>5, MaxReceivesAssumption DEF TypeOK, IdleWorker
<1>7. WorkerInv'
  <2>1. /\ worker'[w].pc = "idle" /\ \A v \in Workers : v # w => worker'[v] = worker[v]
    BY <1>0, <1>1 DEF TypeOK, IdleWorker
  <2>2. \A e \in DiffIds : /\ diffs'[e].receives = diffs[e].receives
                           /\ diffs[e].state # "unsent" => diffs'[e].state # "unsent"
    BY <1>0, <1>2, <1>3 DEF TypeOK
  <2> QED
    BY <1>0, <1>1, <2>1, <2>2 DEF WorkerInv, RunOf
<1> QED
  BY <1>5, <1>6, <1>7 DEF IInv

LEMMA TimeoutInv ==
  ASSUME IInv, \/ \E d \in DiffIds : DiffTimeout(d)
               \/ \E id \in ResultIds : ResultTimeout(id)
  PROVE  IInv'
<1> USE DEF row
<1>0. TypeOK
  BY DEF IInv
<1>1. /\ UNCHANGED <<row, created, body, worker, task, consumer>>
      /\ faults' \in 0..MaxFaults /\ aiFaults' \in 0..MaxAiFaults
  BY <1>0, GenerationAssumption DEF DiffTimeout, ResultTimeout, Fault, NoFault, TypeOK
<1>2. /\ diffs' \in [DiffIds -> Message] /\ results' \in [ResultIds -> Message]
      /\ \A d \in DiffIds : /\ diffs'[d].state = "unsent" <=> diffs[d].state = "unsent"
                            /\ diffs'[d].receives = diffs[d].receives
      /\ \A id \in ResultIds : results'[id].state # "unsent" => results[id].state # "unsent"
  <2>1. ASSUME NEW d \in DiffIds, DiffTimeout(d) PROVE <1>2
    BY <1>0, <2>1, TimeoutFacts DEF DiffTimeout, TypeOK
  <2>2. ASSUME NEW id \in ResultIds, ResultTimeout(id) PROVE <1>2
    BY <1>0, <2>2, TimeoutFacts DEF ResultTimeout, TypeOK
  <2> QED
    BY <2>1, <2>2
<1>3. \A d \in DiffIds : diffs'[d].receives >= diffs[d].receives
  BY <1>0, <1>2, MaxReceivesAssumption DEF TypeOK, Message
<1>4. TypeOK'
  BY <1>0, <1>1, <1>2 DEF TypeOK
<1>5. /\ WorkerInv' /\ ConsumerInv' /\ ReportInv' /\ SolutionInv' /\ TaskInv'
      /\ QuestionsAgreed' /\ AttemptsAreSpentOnDisagreement'
  BY <1>1, <1>2, <1>3, DeliveryInv
<1> QED
  BY <1>4, <1>5 DEF IInv

-----------------------------------------------------------------------------
(* The result consumer.                                                    *)

\* steps that change what the consumer holds, and nothing it relies on
LEMMA ConsumerRestInv ==
  ASSUME IInv, UNCHANGED <<row, created, diffs, body, worker>>,
         results' \in [ResultIds -> Message],
         \A id \in ResultIds : results'[id].state # "unsent" => body[id] # None,
         faults' \in 0..MaxFaults, aiFaults' \in 0..MaxAiFaults,
         \A j \in Jobs : task'[j] = task[j] \/ (task[j] # "idle" /\ task'[j] = "done"),
         task' \in [Jobs -> {"idle", "start", "draft", "submit", "send", "done"}],
         NEW pc \in {"idle", "ended"}, NEW held \in SUBSET (ResultIds \X Runs),
         \A m \in held : body[m[1]] # None,
         consumer' = [pc |-> pc, held |-> held, cur |-> None, receipt |-> 0]
  PROVE  IInv'
<1> USE DEF row
<1>0. /\ TypeOK /\ WorkerInv /\ ReportInv /\ SolutionInv /\ TaskInv
      /\ QuestionsAgreed /\ AttemptsAreSpentOnDisagreement
  BY DEF IInv
<1>1. TypeOK'
  <2>1. 0 \in 0..MaxReceives
    BY MaxReceivesAssumption
  <2> QED
    BY <1>0, <2>1 DEF TypeOK
<1>2. WorkerInv' /\ ReportInv' /\ SolutionInv'
  BY <1>0 DEF WorkerInv, RunOf, ReportInv, SolutionInv
<1>3. TaskInv'
  BY <1>0 DEF TaskInv
<1>4. ConsumerInv'
  BY DEF ConsumerInv
<1>5. QuestionsAgreed' /\ AttemptsAreSpentOnDisagreement'
  BY <1>0 DEF QuestionsAgreed, AttemptsAreSpentOnDisagreement
<1> QED
  BY <1>1, <1>2, <1>3, <1>4, <1>5 DEF IInv

LEMMA ReceiveResultsInv == ASSUME IInv, ReceiveResults PROVE IInv'
<1> USE DEF row, NoFault
<1>0. TypeOK /\ ReportInv
  BY DEF IInv
<1>1. PICK batch \in SUBSET {id \in ResultIds : CanReceive(results[id])} :
         /\ results' = [id \in ResultIds |-> IF id \in batch THEN Received(results[id])
                                                             ELSE results[id]]
         /\ consumer' = [consumer EXCEPT !.held = {<<id, results[id].receives + 1>> : id \in batch}]
  BY DEF ReceiveResults
<1>2. \A id \in batch : /\ id \in ResultIds /\ results[id].state # "unsent"
                        /\ Received(results[id]) \in Message
                        /\ results[id].receives + 1 \in Runs
  BY <1>0, <1>1, ReceivedFacts DEF TypeOK, Runs
<1> DEFINE held == {<<id, results[id].receives + 1>> : id \in batch}
<1>3. results' \in [ResultIds -> Message]
  BY <1>0, <1>1, <1>2 DEF TypeOK
<1>4. \A id \in ResultIds : results'[id].state # "unsent" => body[id] # None
  BY <1>0, <1>1, <1>2 DEF ReportInv
<1>5. held \in SUBSET (ResultIds \X Runs)
  BY <1>2
<1>6. \A m \in held : body[m[1]] # None
  BY <1>0, <1>2 DEF ReportInv
<1>7. consumer' = [pc |-> "idle", held |-> held, cur |-> None, receipt |-> 0]
  BY <1>1 DEF ReceiveResults, IdleConsumer
<1>8. UNCHANGED <<row, created, diffs, body, worker, task, faults, aiFaults>>
  BY DEF ReceiveResults
<1>9. /\ faults' \in 0..MaxFaults /\ aiFaults' \in 0..MaxAiFaults
      /\ task' \in [Jobs -> {"idle", "start", "draft", "submit", "send", "done"}]
      /\ \A j \in Jobs : task'[j] = task[j] \/ (task[j] # "idle" /\ task'[j] = "done")
  BY <1>0, <1>8 DEF TypeOK
<1> HIDE DEF held
<1> QED
  BY <1>3, <1>4, <1>5, <1>6, <1>7, <1>8, <1>9, ConsumerRestInv

\* the deliveries that are left when the consumer is done with one
LEMMA ReleasedFacts ==
  ASSUME IInv
  PROVE  /\ Released = [pc |-> "idle", held |-> consumer.held, cur |-> None, receipt |-> 0]
         /\ consumer.held \in SUBSET (ResultIds \X Runs)
         /\ \A m \in consumer.held : body[m[1]] # None
<1>0. TypeOK /\ ConsumerInv
  BY DEF IInv
<1>1. Released = [pc |-> "idle", held |-> consumer.held, cur |-> None, receipt |-> 0]
  BY DEF Released, IdleConsumer
<1> QED
  BY <1>0, <1>1 DEF TypeOK, ConsumerInv

\* the consumer drops a message, or ends, without touching anything else
LEMMA DropInv ==
  ASSUME IInv, UNCHANGED <<row, created, diffs, body, worker, results, task>>,
         faults' \in 0..MaxFaults, aiFaults' \in 0..MaxAiFaults,
         NEW pc \in {"idle", "ended"}, NEW held \in SUBSET consumer.held,
         consumer' = [pc |-> pc, held |-> held, cur |-> None, receipt |-> 0]
  PROVE  IInv'
<1>0. TypeOK /\ ReportInv
  BY DEF IInv
<1>1. held \in SUBSET (ResultIds \X Runs) /\ \A m \in held : body[m[1]] # None
  BY ReleasedFacts
<1>2. /\ results' \in [ResultIds -> Message]
      /\ \A id \in ResultIds : results'[id].state # "unsent" => body[id] # None
      /\ task' \in [Jobs -> {"idle", "start", "draft", "submit", "send", "done"}]
      /\ \A j \in Jobs : task'[j] = task[j] \/ (task[j] # "idle" /\ task'[j] = "done")
  BY <1>0 DEF TypeOK, ReportInv
<1> QED
  BY <1>1, <1>2, ConsumerRestInv

LEMMA DeleteResultInv == ASSUME IInv, DeleteResult PROVE IInv'
<1> USE DEF row, NoFault
<1>0. TypeOK /\ ReportInv /\ ConsumerInv
  BY DEF IInv
<1>1. /\ UNCHANGED <<row, created, diffs, body, worker, task, faults, aiFaults>>
      /\ consumer' = Released /\ consumer.pc = "delete"
  BY DEF DeleteResult
<1>2. consumer.cur \in ResultIds /\ body[consumer.cur] # None
  BY <1>0, <1>1 DEF ConsumerInv
<1>3. PICK m \in AfterDelete(results[consumer.cur], consumer.receipt) :
         results' = [results EXCEPT ![consumer.cur] = m]
  BY DEF DeleteResult
<1>4. results[consumer.cur] \in Message
  BY <1>0, <1>2 DEF TypeOK
<1>5. m \in Message
  BY <1>3, <1>4, DeleteFacts
<1>6. results' \in [ResultIds -> Message]
  BY <1>0, <1>3, <1>5 DEF TypeOK
<1>7. \A id \in ResultIds : results'[id].state # "unsent" => body[id] # None
  BY <1>0, <1>2, <1>3 DEF TypeOK, ReportInv
<1>8. /\ faults' \in 0..MaxFaults /\ aiFaults' \in 0..MaxAiFaults
      /\ task' \in [Jobs -> {"idle", "start", "draft", "submit", "send", "done"}]
      /\ \A j \in Jobs : task'[j] = task[j] \/ (task[j] # "idle" /\ task'[j] = "done")
  BY <1>0, <1>1 DEF TypeOK
<1> QED
  BY <1>1, <1>6, <1>7, <1>8, ReleasedFacts, ConsumerRestInv

LEMMA StopsInv == ASSUME IInv, ConsumerEnds \/ AiStops PROVE IInv'
<1> USE DEF row, judging
<1>0. TypeOK /\ ReportInv
  BY DEF IInv
<1>1. faults' \in 0..MaxFaults /\ aiFaults' \in 0..MaxAiFaults
  BY <1>0, GenerationAssumption DEF ConsumerEnds, AiStops, AiFault, TypeOK
<1>2. /\ UNCHANGED <<row, created, diffs, body, worker, results>>
      /\ \E pc \in {"idle", "ended"} :
            consumer' = [pc |-> pc, held |-> {}, cur |-> None, receipt |-> 0]
  BY DEF ConsumerEnds, AiStops, IdleConsumer
<1>3. /\ results' \in [ResultIds -> Message]
      /\ \A id \in ResultIds : results'[id].state # "unsent" => body[id] # None
  BY <1>0, <1>2 DEF TypeOK, ReportInv
<1>4. /\ \A j \in Jobs : task'[j] = task[j] \/ (task[j] # "idle" /\ task'[j] = "done")
      /\ task' \in [Jobs -> {"idle", "start", "draft", "submit", "send", "done"}]
  BY <1>0 DEF TypeOK, ConsumerEnds, AiStops
<1> QED
  BY <1>1, <1>2, <1>3, <1>4, ConsumerRestInv

LEMMA ProcessResultInv ==
  ASSUME IInv, NEW m \in consumer.held, ProcessResult(m)
  PROVE  IInv'
<1> USE DEF row, judging, NoFault
<1>0. /\ TypeOK /\ WorkerInv /\ ReportInv /\ SolutionInv /\ TaskInv /\ ConsumerInv
      /\ QuestionsAgreed /\ AttemptsAreSpentOnDisagreement
  BY DEF IInv
<1> DEFINE id == m[1]
           j  == m[1][1]
           a  == m[1][2]
<1>1. /\ id \in ResultIds /\ m[2] \in Runs /\ body[id] # None /\ body[id] \in Report
      /\ j \in Jobs /\ a \in Attempts /\ m[1][3] \in Runs /\ id = <<j, a, m[1][3]>>
  <2>1. id \in ResultIds /\ m[2] \in Runs /\ body[id] # None
    BY <1>0 DEF TypeOK, ConsumerInv
  <2> QED
    BY <1>0, <2>1 DEF TypeOK, ResultIds
<1>2. diffs[<<j, a>>].state # "unsent" /\ task[j] = "done"
  BY <1>0, <1>1 DEF ReportInv, TaskInv
<1>3. /\ UNCHANGED <<solution, question, created, diffs, results, body, worker, task,
                     faults, aiFaults>>
      /\ Decide(m, j, a, body[id])
  BY DEF ProcessResult
<1>4. PICK pc \in {"delete", "create", "submit"} :
         consumer' = [pc |-> pc, held |-> consumer.held \ {m}, cur |-> id, receipt |-> m[2]]
  BY <1>3 DEF Decide, Begin
<1> HIDE DEF id, j, a
<1>5. CASE attempt' = attempt /\ pc # "submit"
  <2>1. status' = status \/ status' = [status EXCEPT ![j] = "failed"]
    BY <1>3 DEF Decide
  <2>2. TypeOK'
    <3>1. (consumer \in [pc : {"idle", "create", "record", "submit", "send", "delete", "ended"},
                         held : SUBSET (ResultIds \X Runs), cur : ResultIds \cup {None},
                         receipt : 0..MaxReceives])'
      BY <1>0, <1>1, <1>4 DEF TypeOK, Runs
    <3>2. (status \in [Jobs -> {None, "queued", "drafting", "validating", "succeeded",
                               "failed"}])'
      BY <1>0, <2>1 DEF TypeOK
    <3> QED
      BY <1>0, <1>3, <1>5, <3>1, <3>2 DEF TypeOK
  <2>3. WorkerInv' /\ ReportInv' /\ SolutionInv' /\ QuestionsAgreed'
        /\ AttemptsAreSpentOnDisagreement'
    BY <1>0, <1>3, <1>5 DEF WorkerInv, RunOf, ReportInv, SolutionInv, QuestionsAgreed,
                            AttemptsAreSpentOnDisagreement
  <2>4. TaskInv'
    BY <1>0, <1>1, <1>3, <1>5, <2>1, GenerationAssumption DEF TypeOK, TaskInv
  <2>5. pc = "create" => attempt[j] = a /\ Agreed(body[id])
    <3>1. pc = "create" => attempt[j] = a /\ Passes(body[id])
      BY <1>3, <1>4 DEF Decide, Begin
    <3> QED
      BY <1>1, <3>1 DEF Passes, Agreed
  <2>6. ConsumerInv'
    BY <1>0, <1>1, <1>3, <1>4, <1>5, <2>5 DEF ConsumerInv, id, j, a
  <2> QED
    BY <2>2, <2>3, <2>4, <2>6 DEF IInv
<1>6. CASE /\ attempt[j] = a /\ ~Passes(body[id]) /\ attempt[j] < MaxAttempts
           /\ attempt' = [attempt EXCEPT ![j] = attempt[j] + 1]
           /\ pc = "submit" /\ UNCHANGED status
  <2>1. /\ a \in Nat /\ a + 1 \in Attempts /\ a + 1 \in 0..MaxAttempts
    BY <1>1, <1>6, GenerationAssumption DEF Attempts
  <2>2. attempt'[j] = a + 1 /\ \A i \in Jobs : i # j => attempt'[i] = attempt[i]
    BY <1>0, <1>1, <1>6 DEF TypeOK
  <2>3. TypeOK'
    <3>1. (consumer \in [pc : {"idle", "create", "record", "submit", "send", "delete", "ended"},
                         held : SUBSET (ResultIds \X Runs), cur : ResultIds \cup {None},
                         receipt : 0..MaxReceives])'
      BY <1>0, <1>1, <1>4 DEF TypeOK, Runs
    <3>2. (attempt \in [Jobs -> 0..MaxAttempts])'
      BY <1>0, <1>6, <2>1 DEF TypeOK
    <3> QED
      BY <1>0, <1>3, <1>6, <3>1, <3>2 DEF TypeOK
  <2>4. WorkerInv' /\ ReportInv' /\ QuestionsAgreed'
    BY <1>0, <1>3 DEF WorkerInv, RunOf, ReportInv, QuestionsAgreed
  <2>5. \A b \in Attempts : diffs[<<j, b>>].state # "unsent" => b <= a
    BY <1>0, <1>1, <1>6 DEF SolutionInv
  <2>6. SolutionInv'
    <3>1. \A b \in Attempts : b <= a => b <= a + 1 /\ b # a + 1
      BY <2>1, GenerationAssumption DEF Attempts
    <3> QED
      BY <1>0, <1>3, <2>2, <2>5, <3>1 DEF SolutionInv
  <2>7. TaskInv'
    BY <1>0, <1>2, <1>3, <1>6, <2>2 DEF TaskInv
  <2>8. diffs[<<j, a + 1>>].state = "unsent"
    <3>1. ~(a + 1 <= a)
      BY <2>1
    <3> QED
      BY <2>1, <2>5, <3>1
  <2>9. ConsumerInv'
    BY <1>0, <1>1, <1>3, <1>4, <1>6, <2>1, <2>2, <2>8 DEF ConsumerInv, id, j
  <2>10. Disagreed(body[id])
    <3>1. body[id].agreeing \in Nat /\ Threshold \in Nat /\ NumInputs \in Nat
      BY <1>1, GenerationAssumption DEF Report
    <3> QED
      BY <1>1, <1>6, <3>1 DEF Passes, Disagreed
  <2>11. AttemptsAreSpentOnDisagreement'
    <3>1. ASSUME NEW i \in Jobs, NEW b \in 1..(attempt'[i] - 1)
          PROVE  \E n \in Runs : Disagreed(body[<<i, b, n>>])
      <4>1. CASE i = j /\ b = a
        BY <1>1, <2>10, <4>1
      <4>2. CASE ~(i = j /\ b = a)
        <5>1. attempt[i] \in Nat
          BY <1>0 DEF TypeOK
        <5>2. b \in 1..(attempt[i] - 1)
          BY <1>6, <2>1, <2>2, <4>2, <5>1
        <5> QED
          BY <1>0, <5>2 DEF AttemptsAreSpentOnDisagreement
      <4> QED
        BY <4>1, <4>2
    <3> QED
      BY <1>3, <3>1 DEF AttemptsAreSpentOnDisagreement
  <2> QED
    BY <2>3, <2>4, <2>6, <2>7, <2>9, <2>11 DEF IInv
<1> QED
  BY <1>3, <1>4, <1>5, <1>6 DEF Decide, Begin, id, j, a

LEMMA CreateQuestionInv == ASSUME IInv, CreateQuestion PROVE IInv'
<1> USE DEF row, judging, NoFault
<1>0. /\ TypeOK /\ WorkerInv /\ ReportInv /\ SolutionInv /\ TaskInv /\ ConsumerInv
      /\ QuestionsAgreed /\ AttemptsAreSpentOnDisagreement
  BY DEF IInv
<1> DEFINE j == consumer.cur[1]
           a == consumer.cur[2]
           n == consumer.cur[3]
<1>1. /\ UNCHANGED <<row, judging, task, faults, aiFaults>>
      /\ consumer.pc = "create" /\ consumer' = [consumer EXCEPT !.pc = "record"]
      /\ created' = [created EXCEPT ![j] = Append(created[j], solution[j])]
  BY DEF CreateQuestion, NewQuestion
<1>2. /\ consumer.cur \in ResultIds /\ diffs[<<j, a>>].state # "unsent"
      /\ attempt[j] = a /\ Agreed(body[consumer.cur])
  BY <1>0, <1>1, ConsumerJobSent DEF ConsumerInv
<1>3. /\ j \in Jobs /\ a \in Attempts /\ n \in Runs /\ consumer.cur = <<j, a, n>>
  BY <1>2 DEF ResultIds
<1> HIDE DEF j, a, n
<1>4. solution[j] = a
  BY <1>0, <1>2, <1>3 DEF SolutionInv
<1>5. created[j] \in Seq(0..MaxAttempts) /\ solution[j] \in 0..MaxAttempts
  BY <1>0, <1>3 DEF TypeOK
<1>6. /\ Append(created[j], solution[j]) \in Seq(0..MaxAttempts)
      /\ Len(Append(created[j], solution[j])) = Len(created[j]) + 1
      /\ \A i \in 1..Len(created[j]) : Append(created[j], solution[j])[i] = created[j][i]
      /\ Append(created[j], solution[j])[Len(created[j]) + 1] = solution[j]
  BY <1>5, AppendProperties
<1>7. /\ created'[j] = Append(created[j], solution[j])
      /\ \A i \in Jobs : i # j => created'[i] = created[i]
      /\ created' \in [Jobs -> Seq(0..MaxAttempts)]
  BY <1>0, <1>1, <1>3, <1>6 DEF TypeOK
<1>8. TypeOK'
  <2>1. (consumer \in [pc : {"idle", "create", "record", "submit", "send", "delete", "ended"},
                       held : SUBSET (ResultIds \X Runs), cur : ResultIds \cup {None},
                       receipt : 0..MaxReceives])'
    BY <1>0, <1>1 DEF TypeOK
  <2> QED
    BY <1>0, <1>1, <1>7, <2>1 DEF TypeOK
<1>9. /\ WorkerInv' /\ ReportInv' /\ SolutionInv' /\ TaskInv'
      /\ AttemptsAreSpentOnDisagreement'
  BY <1>0, <1>1 DEF WorkerInv, RunOf, ReportInv, SolutionInv, TaskInv,
                    AttemptsAreSpentOnDisagreement
<1>10. ConsumerInv'
  <2>1. /\ consumer'.pc = "record" /\ consumer'.held = consumer.held
        /\ consumer'.cur = consumer.cur
    BY <1>0, <1>1 DEF TypeOK
  <2> QED
    BY <1>0, <1>1, <2>1 DEF ConsumerInv
<1>11. QuestionsAgreed'
  <2> SUFFICES ASSUME NEW i \in Jobs, NEW k \in DOMAIN created'[i]
               PROVE  \E r \in Runs : created'[i][k] # 0 /\ Agreed(body[<<i, created'[i][k], r>>])
    BY <1>1 DEF QuestionsAgreed
  <2>1. CASE i # j
    BY <1>0, <1>7, <2>1 DEF QuestionsAgreed
  <2>2. CASE i = j
    <3>1. k \in 1..Len(created'[j])
      BY <1>6, <1>7, <2>2
    <3>2. Len(created[j]) \in Nat
      BY <1>5, LenProperties
    <3>3. k \in 1..Len(created[j]) \/ k = Len(created[j]) + 1
      BY <1>6, <1>7, <3>1, <3>2
    <3>4. CASE k \in 1..Len(created[j])
      <4>1. k \in DOMAIN created[j] /\ created'[j][k] = created[j][k]
        BY <1>5, <1>6, <1>7, <3>4
      <4> QED
        BY <1>0, <1>3, <2>2, <4>1 DEF QuestionsAgreed
    <3>5. CASE k = Len(created[j]) + 1
      <4>1. created'[j][k] = a
        BY <1>4, <1>6, <1>7, <3>5
      <4>2. a # 0
        BY <1>3 DEF Attempts
      <4>3. Agreed(body[<<j, a, n>>])
        BY <1>2, <1>3
      <4> QED
        BY <1>3, <2>2, <4>1, <4>2, <4>3
    <3> QED
      BY <3>3, <3>4, <3>5
  <2> QED
    BY <2>1, <2>2
<1> QED
  BY <1>8, <1>9, <1>10, <1>11 DEF IInv

LEMMA RecordSuccessInv == ASSUME IInv, RecordSuccess PROVE IInv'
<1> USE DEF row, judging, NoFault
<1>0. /\ TypeOK /\ WorkerInv /\ ReportInv /\ SolutionInv /\ TaskInv /\ ConsumerInv
      /\ QuestionsAgreed /\ AttemptsAreSpentOnDisagreement
  BY DEF IInv
<1> DEFINE j == consumer.cur[1]
<1>1. /\ UNCHANGED <<attempt, solution, created, judging, task, faults, aiFaults>>
      /\ consumer.pc = "record" /\ consumer' = [consumer EXCEPT !.pc = "delete"]
      /\ question' = [question EXCEPT ![j] = Len(created[j])]
      /\ status' = [status EXCEPT ![j] = "succeeded"]
  BY DEF RecordSuccess
<1>2. j \in Jobs /\ task[j] = "done"
  BY <1>1, ConsumerJobSent DEF ResultIds
<1> HIDE DEF j
<1>3. TypeOK'
  <2>1. (consumer \in [pc : {"idle", "create", "record", "submit", "send", "delete", "ended"},
                       held : SUBSET (ResultIds \X Runs), cur : ResultIds \cup {None},
                       receipt : 0..MaxReceives])'
    BY <1>0, <1>1 DEF TypeOK
  <2>2. Len(created[j]) \in Nat
    BY <1>0, <1>2, LenProperties DEF TypeOK
  <2>3. question' \in [Jobs -> Nat]
    BY <1>0, <1>1, <2>2 DEF TypeOK
  <2>4. (status \in [Jobs -> {None, "queued", "drafting", "validating", "succeeded",
                             "failed"}])'
    BY <1>0, <1>1 DEF TypeOK
  <2> QED
    BY <1>0, <1>1, <2>1, <2>3, <2>4 DEF TypeOK
<1>4. /\ WorkerInv' /\ ReportInv' /\ SolutionInv' /\ QuestionsAgreed'
      /\ AttemptsAreSpentOnDisagreement'
  BY <1>0, <1>1 DEF WorkerInv, RunOf, ReportInv, SolutionInv, QuestionsAgreed,
                    AttemptsAreSpentOnDisagreement
<1>5. TaskInv'
  BY <1>0, <1>1, <1>2, GenerationAssumption DEF TypeOK, TaskInv
<1>6. ConsumerInv'
  <2>1. /\ consumer'.pc = "delete" /\ consumer'.held = consumer.held
        /\ consumer'.cur = consumer.cur
    BY <1>0, <1>1 DEF TypeOK
  <2> QED
    BY <1>0, <1>1, <2>1 DEF ConsumerInv
<1> QED
  BY <1>3, <1>4, <1>5, <1>6 DEF IInv

LEMMA ResubmitInv == ASSUME IInv, ResubmitSolutions PROVE IInv'
<1> USE DEF row, judging, NoFault
<1>0. /\ TypeOK /\ WorkerInv /\ ReportInv /\ SolutionInv /\ TaskInv /\ ConsumerInv
      /\ QuestionsAgreed /\ AttemptsAreSpentOnDisagreement
  BY DEF IInv
<1> DEFINE j == consumer.cur[1]
<1>1. /\ UNCHANGED <<status, attempt, question, created, judging, task, faults, aiFaults>>
      /\ consumer.pc = "submit" /\ consumer' = [consumer EXCEPT !.pc = "send"]
      /\ solution' = [solution EXCEPT ![j] = attempt[j]]
  BY DEF ResubmitSolutions
<1>2. j \in Jobs /\ task[j] = "done"
  BY <1>1, ConsumerJobSent DEF ResultIds
<1>3. diffs[<<j, attempt[j]>>].state = "unsent"
  BY <1>0, <1>1 DEF ConsumerInv
<1>4. solution'[j] = attempt[j] /\ \A i \in Jobs : i # j => solution'[i] = solution[i]
  BY <1>0, <1>1, <1>2 DEF TypeOK
<1>5. ConsumerInv'
  <2>1. /\ consumer'.pc = "send" /\ consumer'.held = consumer.held
        /\ consumer'.cur = consumer.cur
    BY <1>0, <1>1 DEF TypeOK
  <2> QED
    BY <1>0, <1>1, <1>4, <2>1 DEF ConsumerInv
<1> HIDE DEF j
<1>6. TypeOK'
  <2>1. (consumer \in [pc : {"idle", "create", "record", "submit", "send", "delete", "ended"},
                       held : SUBSET (ResultIds \X Runs), cur : ResultIds \cup {None},
                       receipt : 0..MaxReceives])'
    BY <1>0, <1>1 DEF TypeOK
  <2>2. solution' \in [Jobs -> 0..MaxAttempts]
    BY <1>0, <1>1, <1>2 DEF TypeOK
  <2> QED
    BY <1>0, <1>1, <2>1, <2>2 DEF TypeOK
<1>7. /\ WorkerInv' /\ ReportInv' /\ QuestionsAgreed' /\ AttemptsAreSpentOnDisagreement'
  BY <1>0, <1>1 DEF WorkerInv, RunOf, ReportInv, QuestionsAgreed,
                    AttemptsAreSpentOnDisagreement
<1>8. SolutionInv'
  BY <1>0, <1>1, <1>3, <1>4 DEF SolutionInv
<1>9. TaskInv'
  BY <1>0, <1>1, <1>2, <1>4 DEF TaskInv
<1> QED
  BY <1>5, <1>6, <1>7, <1>8, <1>9 DEF IInv

\* the next DiffJob is sent, and the consumer goes on or drops the message
LEMMA NextDiffInv ==
  ASSUME IInv, consumer.pc = "send", NextDiffSent,
         UNCHANGED <<row, created, results, body, worker, task>>,
         faults' \in 0..MaxFaults, aiFaults' \in 0..MaxAiFaults,
         \/ consumer' = [consumer EXCEPT !.pc = "delete"]
         \/ consumer' = Released
  PROVE  IInv'
<1> USE DEF row
<1>0. TypeOK /\ ConsumerInv /\ TaskInv
  BY DEF IInv
<1> DEFINE j == consumer.cur[1]
<1>1. /\ j \in Jobs /\ task[j] = "done" /\ attempt[j] \in Attempts
      /\ solution[j] = attempt[j] /\ diffs[<<j, attempt[j]>>].state = "unsent"
      /\ consumer.cur \in ResultIds /\ body[consumer.cur] # None
  BY <1>0, ConsumerJobSent DEF ConsumerInv, ResultIds
<1>2. diffs' = [diffs EXCEPT ![<<j, attempt[j]>>] = Sent]
  BY DEF NextDiffSent
<1>3. /\ consumer'.pc \in {"delete", "idle"} /\ consumer'.held = consumer.held
      /\ \/ consumer'.pc = "delete" /\ consumer'.cur = consumer.cur
         \/ consumer'.pc = "idle" /\ consumer'.cur = None /\ consumer'.receipt = 0
  BY <1>0, ReleasedFacts DEF TypeOK
<1>4. ConsumerInv'
  BY <1>0, <1>1, <1>3 DEF ConsumerInv
<1> HIDE DEF j
<1>5. /\ (diffs \in [DiffIds -> Message])'
      /\ WorkerInv' /\ ReportInv' /\ SolutionInv'
      /\ QuestionsAgreed' /\ AttemptsAreSpentOnDisagreement'
  BY <1>1, <1>2, SendInv
<1>6. TypeOK'
  <2>1. (consumer \in [pc : {"idle", "create", "record", "submit", "send", "delete", "ended"},
                       held : SUBSET (ResultIds \X Runs), cur : ResultIds \cup {None},
                       receipt : 0..MaxReceives])'
    <3>1. 0 \in 0..MaxReceives
      BY MaxReceivesAssumption
    <3>2. CASE consumer' = Released
      BY <3>1, <3>2, ReleasedFacts
    <3>3. CASE consumer' = [consumer EXCEPT !.pc = "delete"]
      BY <1>0, <3>3 DEF TypeOK
    <3> QED
      BY <3>2, <3>3
  <2> QED
    BY <1>0, <1>5, <2>1 DEF TypeOK
<1>7. TaskInv'
  <2>1. \A i \in Jobs, b \in Attempts : i # j => diffs'[<<i, b>>] = diffs[<<i, b>>]
    BY <1>0, <1>2 DEF TypeOK, DiffIds
  <2> QED
    BY <1>0, <1>1, <2>1 DEF TaskInv
<1> QED
  BY <1>4, <1>5, <1>6, <1>7 DEF IInv

LEMMA ConsumerFailsInv == ASSUME IInv, ConsumerFails PROVE IInv'
<1>0. /\ UNCHANGED <<row, created, results, body, worker, task>>
      /\ faults' \in 0..MaxFaults /\ aiFaults' \in 0..MaxAiFaults
  BY GenerationAssumption DEF ConsumerFails, AiFault, IInv, TypeOK
<1>1. CASE \E m \in consumer.held : /\ consumer.pc = "idle"
                                    /\ consumer' = [consumer EXCEPT !.held = @ \ {m}]
                                    /\ UNCHANGED diffs
  <2>1. PICK m \in consumer.held : /\ consumer.pc = "idle" /\ UNCHANGED diffs
                                   /\ consumer' = [consumer EXCEPT !.held = consumer.held \ {m}]
    BY <1>1
  <2>2. consumer.held \ {m} \in SUBSET consumer.held
    OBVIOUS
  <2>3. consumer.cur = None /\ consumer.receipt = 0
    BY <2>1 DEF IInv, ConsumerInv
  <2>4. consumer' = [pc |-> "idle", held |-> consumer.held \ {m}, cur |-> None,
                     receipt |-> 0]
    BY <2>1, <2>3 DEF IInv, TypeOK
  <2> QED
    BY <1>0, <2>1, <2>2, <2>4, DropInv
<1>2. CASE consumer.pc \in {"create", "record", "submit", "send"} /\ consumer' = Released
           /\ UNCHANGED diffs
  <2>1. consumer.held \in SUBSET consumer.held
    OBVIOUS
  <2> QED
    BY <1>0, <1>2, <2>1, ReleasedFacts, DropInv
<1>3. CASE consumer.pc = "send" /\ consumer' = Released /\ NextDiffSent
  BY <1>0, <1>3, NextDiffInv
<1> QED
  BY <1>1, <1>2, <1>3 DEF ConsumerFails

LEMMA NextInv == ASSUME IInv, [Next]_vars PROVE IInv'
<1>1. ASSUME NEW j \in Jobs, StartGeneration(j) \/ TaskProgress(j) \/ TaskFails(j)
      PROVE  IInv'
  BY <1>1, StartInv, DraftInv, StoreSolutionsInv, TaskSendInv DEF TaskProgress
<1>2. ASSUME NEW w \in Workers, WorkerProgress(w) \/ WorkerFails(w)
      PROVE  IInv'
  BY <1>2, ReceiveDiffInv, SendResultInv, WorkerEndsInv DEF WorkerProgress
<1>3. CASE ResendDiff
  <2>1. /\ UNCHANGED <<row, created, results, body, worker, task, faults, aiFaults>>
        /\ consumer.pc = "send" /\ NextDiffSent
        /\ consumer' = [consumer EXCEPT !.pc = "delete"]
    BY <1>3 DEF ResendDiff, NoFault
  <2>2. faults' \in 0..MaxFaults /\ aiFaults' \in 0..MaxAiFaults
    BY <2>1 DEF IInv, TypeOK
  <2> QED
    BY <2>1, <2>2, NextDiffInv
<1>4. CASE ConsumerProgress
  BY <1>3, <1>4, ReceiveResultsInv, ProcessResultInv, CreateQuestionInv, RecordSuccessInv,
     ResubmitInv, DeleteResultInv DEF ConsumerProgress
<1>5. CASE UNCHANGED vars
  <2>0. UNCHANGED <<status, attempt, solution, question, created, diffs, results, body, task,
                    worker, consumer, faults, aiFaults>>
    BY <1>5 DEF vars, row, judging
  <2>1. TypeOK'
    BY <2>0 DEF IInv, TypeOK
  <2>2. WorkerInv'
    BY <2>0 DEF IInv, WorkerInv, RunOf
  <2>3. ReportInv' /\ SolutionInv' /\ TaskInv'
    BY <2>0 DEF IInv, ReportInv, SolutionInv, TaskInv
  <2>4. ConsumerInv'
    BY <2>0 DEF IInv, ConsumerInv
  <2>5. QuestionsAgreed' /\ AttemptsAreSpentOnDisagreement'
    BY <2>0 DEF IInv, QuestionsAgreed, AttemptsAreSpentOnDisagreement
  <2> QED
    BY <2>1, <2>2, <2>3, <2>4, <2>5 DEF IInv
<1> QED
  BY <1>1, <1>2, <1>4, <1>5, ConsumerFailsInv, StopsInv, TimeoutInv DEF Next, Quiescent

-----------------------------------------------------------------------------
LEMMA Invariance == Spec => []IInv
<1>1. Init => IInv
  BY InitInv
<1>2. IInv /\ [Next]_vars => IInv'
  BY NextInv
<1> QED
  BY <1>1, <1>2, PTL DEF Spec

\* Types: the rows, queues and processes of generation.py, gen_consumer.py and
\* gen_worker.py are well typed in every reachable state.
THEOREM TypeCorrect == Spec => []TypeOK
<1>1. IInv => TypeOK
  BY DEF IInv
<1> QED
  BY <1>1, Invariance, PTL

\* Whatever fails or is delivered again, finalize_success creates a question
\* only for solutions whose comparison reached the threshold.
THEOREM CreatedOnlyIfAgreed == Spec => []QuestionsAgreed
<1>1. IInv => QuestionsAgreed
  BY DEF IInv
<1> QED
  BY <1>1, Invariance, PTL

\* However often the reports of an attempt are doubled, retry_attempt counts
\* another attempt only after one below the threshold.
THEOREM AttemptsSpent == Spec => []AttemptsAreSpentOnDisagreement
<1>1. IInv => AttemptsAreSpentOnDisagreement
  BY DEF IInv
<1> QED
  BY <1>1, Invariance, PTL

-----------------------------------------------------------------------------
(* The winner.  A succeeded job has an agreeing report of its current      *)
(* attempt, or of an earlier one that was judged twice with another end.   *)

AgreedAt(j, a) == \E n \in Runs : Agreed(body[<<j, a, n>>])
JudgedTwice(j) == \E a \in Attempts : \E m, n \in Runs :
                     Agreed(body[<<j, a, m>>]) /\ Disagreed(body[<<j, a, n>>])
Won(j)         == attempt[j] \in Attempts /\ AgreedAt(j, attempt[j])

WonInv      == \A j \in Jobs : status[j] = "succeeded" => Won(j) \/ JudgedTwice(j)
RecordedInv == consumer.pc = "record" => attempt[consumer.cur[1]] = consumer.cur[2]
                                         /\ Agreed(body[consumer.cur])

\* A report, once sent, is never written again: a delivery has one worker.
LEMMA ReportsAreKept ==
  ASSUME IInv, [Next]_vars, NEW id \in ResultIds, body[id] # None
  PROVE  body'[id] = body[id]
<1>1. ASSUME NEW w \in Workers, SendResult(w) PROVE body'[id] = body[id]
  <2>1. worker[w].pc = "running"
    BY <1>1 DEF SendResult
  <2>2. body[RunOf(w)] = None
    BY <2>1 DEF IInv, WorkerInv
  <2>3. body \in [ResultIds -> Report \cup {None}]
    BY DEF IInv, TypeOK
  <2>4. PICK report \in Reports[worker[w].diff[1]] : body' = [body EXCEPT ![RunOf(w)] = report]
    BY <1>1 DEF SendResult, RunOf
  <2> QED
    BY <2>2, <2>3, <2>4
<1>2. CASE UNCHANGED body
  BY <1>2
<1>3. (\E w \in Workers : SendResult(w)) \/ UNCHANGED body
  BY DEF Next, vars, row, judging, StartGeneration, TaskProgress, BeginDraft, Draft,
         StoreSolutions, SendDiff, TaskFails, WorkerProgress, ReceiveDiff, DeleteDiff,
         WorkerFails, ConsumerProgress, ReceiveResults, ProcessResult, CreateQuestion,
         RecordSuccess, ResubmitSolutions, ResendDiff, DeleteResult, ConsumerFails,
         ConsumerEnds, AiStops, DiffTimeout, ResultTimeout, Quiescent
<1> QED
  BY <1>1, <1>2, <1>3

LEMMA AgreedIsReport == ASSUME NEW r, Agreed(r) \/ Disagreed(r) PROVE r # None
BY DEF Agreed, Disagreed

LEMMA AgreementIsKept ==
  ASSUME IInv, [Next]_vars, NEW j \in Jobs
  PROVE  /\ \A a \in Attempts : AgreedAt(j, a) => AgreedAt(j, a)'
         /\ JudgedTwice(j) => JudgedTwice(j)'
<1>1. \A a \in Attempts, n \in Runs : body[<<j, a, n>>] # None =>
         body'[<<j, a, n>>] = body[<<j, a, n>>]
  BY ReportsAreKept DEF ResultIds
<1>2. \A a \in Attempts, n \in Runs : Agreed(body[<<j, a, n>>]) => Agreed(body'[<<j, a, n>>])
  BY <1>1, AgreedIsReport
<1>3. \A a \in Attempts, n \in Runs :
         Disagreed(body[<<j, a, n>>]) => Disagreed(body'[<<j, a, n>>])
  BY <1>1, AgreedIsReport
<1>4. \A a \in Attempts : AgreedAt(j, a) => AgreedAt(j, a)'
  BY <1>2 DEF AgreedAt, Agreed
<1>5. JudgedTwice(j) => JudgedTwice(j)'
  BY <1>2, <1>3 DEF JudgedTwice, Agreed, Disagreed
<1> QED
  BY <1>4, <1>5

\* A job that was judged is past its drafting task.
LEMMA JudgedIsDrafted ==
  ASSUME IInv, NEW j \in Jobs, Won(j) \/ JudgedTwice(j)
  PROVE  task[j] = "done"
<1>1. PICK a \in Attempts, n \in Runs : Agreed(body[<<j, a, n>>])
  BY DEF Won, AgreedAt, JudgedTwice
<1>2. body[<<j, a, n>>] # None
  BY <1>1, AgreedIsReport
<1>3. diffs[<<j, a>>].state # "unsent"
  BY <1>2 DEF IInv, ReportInv
<1> QED
  BY <1>3 DEF IInv, TaskInv

\* A step that lets no job succeed and counts no attempt.
LEMMA NobodyWins ==
  ASSUME IInv, WonInv, [Next]_vars, UNCHANGED attempt,
         \A j \in Jobs : status'[j] = "succeeded" => status[j] = "succeeded"
  PROVE  WonInv'
<1> SUFFICES ASSUME NEW j \in Jobs, Won(j) \/ JudgedTwice(j)
             PROVE  Won(j)' \/ JudgedTwice(j)'
  BY DEF WonInv
<1>1. CASE JudgedTwice(j)
  BY <1>1, AgreementIsKept
<1>2. CASE Won(j)
  <2>1. attempt'[j] \in Attempts /\ AgreedAt(j, attempt[j])
    BY <1>2 DEF Won
  <2>2. AgreedAt(j, attempt[j])'
    BY <1>2, AgreementIsKept DEF Won
  <2>3. Won(j)'
    BY <2>1, <2>2 DEF Won, AgreedAt
  <2> QED
    BY <2>3
<1> QED
  BY <1>1, <1>2

\* A task that drafts works for a job that was not judged yet.
LEMMA DraftWins ==
  ASSUME IInv, WonInv, [Next]_vars, NEW j \in Jobs, Draft(j)
  PROVE  WonInv'
<1> SUFFICES ASSUME NEW i \in Jobs, status'[i] = "succeeded" PROVE Won(i)' \/ JudgedTwice(i)'
  BY DEF WonInv
<1>0. /\ status \in [Jobs -> {None, "queued", "drafting", "validating", "succeeded", "failed"}]
      /\ attempt \in [Jobs -> 0..MaxAttempts] /\ task[j] = "draft"
      /\ \E x \in {"failed", "validating"} : status' = [status EXCEPT ![j] = x]
      /\ attempt' = attempt \/ attempt' = [attempt EXCEPT ![j] = 1]
  BY DEF IInv, TypeOK, Draft
<1>1. i # j /\ status[i] = "succeeded" /\ attempt'[i] = attempt[i]
  BY <1>0
<1>2. Won(i) \/ JudgedTwice(i)
  BY <1>1 DEF WonInv
<1>3. Won(i) => Won(i)'
  BY <1>1, AgreementIsKept DEF Won, AgreedAt
<1> QED
  BY <1>2, <1>3, AgreementIsKept

\* The next attempt is counted for a report that disagrees: if the job had
\* succeeded with this attempt, the attempt was judged twice.
LEMMA DecisionWins ==
  ASSUME IInv, WonInv, [Next]_vars, NEW m \in consumer.held, ProcessResult(m)
  PROVE  WonInv'
<1> DEFINE j == m[1][1]
           a == m[1][2]
<1>0. /\ status \in [Jobs -> {None, "queued", "drafting", "validating", "succeeded", "failed"}]
      /\ attempt \in [Jobs -> 0..MaxAttempts]
      /\ m \in ResultIds \X Runs /\ body[m[1]] # None /\ body' = body
  BY DEF IInv, TypeOK, ConsumerInv, ProcessResult, judging
<1>1. j \in Jobs /\ a \in Attempts /\ m[1][3] \in Runs /\ m[1] = <<j, a, m[1][3]>>
  BY <1>0 DEF ResultIds
<1>2. CASE /\ UNCHANGED attempt
           /\ \A i \in Jobs : status'[i] = "succeeded" => status[i] = "succeeded"
  BY <1>2, NobodyWins
<1>3. CASE /\ attempt[j] = a /\ ~Passes(body[m[1]]) /\ UNCHANGED status
           /\ attempt' = [attempt EXCEPT ![j] = attempt[j] + 1]
  <2>1. Disagreed(body[<<j, a, m[1][3]>>])
    <3>1. body[m[1]] \in Report
      BY <1>0 DEF IInv, TypeOK
    <3>2. Disagreed(body[m[1]])
      BY <1>0, <1>3, <3>1, GenerationAssumption DEF Passes, Disagreed, Report
    <3> QED
      BY <1>1, <3>2
  <2> SUFFICES ASSUME NEW i \in Jobs, Won(i) \/ JudgedTwice(i) PROVE Won(i)' \/ JudgedTwice(i)'
    BY <1>3 DEF WonInv
  <2>2. CASE i = j
    <3>1. Won(j) => JudgedTwice(j)
      BY <1>1, <1>3, <2>1 DEF Won, AgreedAt, JudgedTwice
    <3> QED
      BY <2>2, <3>1, AgreementIsKept
  <2>3. CASE i # j
    <3>1. attempt'[i] = attempt[i]
      BY <1>0, <1>3, <2>3
    <3>2. Won(i) => Won(i)'
      BY <3>1, AgreementIsKept DEF Won, AgreedAt
    <3> QED
      BY <3>2, AgreementIsKept
  <2> QED
    BY <2>2, <2>3
<1>4. \/ UNCHANGED <<attempt, status>>
      \/ UNCHANGED attempt /\ status' = [status EXCEPT ![j] = "failed"]
      \/ /\ attempt[j] = a /\ ~Passes(body[m[1]]) /\ UNCHANGED status
         /\ attempt' = [attempt EXCEPT ![j] = attempt[j] + 1]
  BY DEF ProcessResult, Decide
<1>5. (UNCHANGED attempt /\ status' = [status EXCEPT ![j] = "failed"]) =>
         \A i \in Jobs : status'[i] = "succeeded" => status[i] = "succeeded"
  BY <1>0
<1> QED
  BY <1>2, <1>3, <1>4, <1>5

\* A job succeeds while the report that let it pass is at hand.
LEMMA RecordWins ==
  ASSUME IInv, WonInv, RecordedInv, [Next]_vars, RecordSuccess
  PROVE  WonInv'
<1>0. /\ status \in [Jobs -> {None, "queued", "drafting", "validating", "succeeded", "failed"}]
      /\ consumer.pc = "record" /\ UNCHANGED <<attempt, body>>
      /\ status' = [status EXCEPT ![consumer.cur[1]] = "succeeded"]
  BY DEF IInv, TypeOK, RecordSuccess, judging
<1>1. /\ consumer.cur \in ResultIds /\ attempt[consumer.cur[1]] = consumer.cur[2]
      /\ Agreed(body[consumer.cur])
  BY <1>0 DEF IInv, ConsumerInv, RecordedInv
<1>2. PICK j \in Jobs, a \in Attempts, n \in Runs : consumer.cur = <<j, a, n>>
  BY <1>1 DEF ResultIds
<1>3. attempt[j] = a /\ Agreed(body[<<j, a, n>>])
  BY <1>1, <1>2
<1>4. Won(j)
  BY <1>3 DEF Won, AgreedAt
<1>5. \A i \in Jobs : Won(i) => Won(i)'
  BY <1>0, AgreementIsKept DEF Won, AgreedAt
<1> SUFFICES ASSUME NEW i \in Jobs, status'[i] = "succeeded" PROVE Won(i)' \/ JudgedTwice(i)'
  BY DEF WonInv
<1>6. CASE i = j
  BY <1>4, <1>5, <1>6
<1>7. CASE i # j
  <2>1. Won(i) \/ JudgedTwice(i)
    BY <1>0, <1>2, <1>7 DEF WonInv
  <2> QED
    BY <1>5, <2>1, AgreementIsKept
<1> QED
  BY <1>6, <1>7

LEMMA WonStep == ASSUME IInv, WonInv, RecordedInv, [Next]_vars PROVE WonInv'
<1>1. ASSUME NEW j \in Jobs, Draft(j) PROVE WonInv'
  BY <1>1, DraftWins
<1>2. ASSUME NEW m \in consumer.held, ProcessResult(m) PROVE WonInv'
  BY <1>2, DecisionWins
<1>3. CASE RecordSuccess
  BY <1>3, RecordWins
<1>4. ASSUME NEW j \in Jobs, StartGeneration(j) \/ BeginDraft(j) \/ TaskFails(j) PROVE WonInv'
  <2>1. status \in [Jobs -> {None, "queued", "drafting", "validating", "succeeded", "failed"}]
    BY DEF IInv, TypeOK
  <2>2. UNCHANGED attempt
    BY <1>4 DEF StartGeneration, BeginDraft, TaskFails
  <2>3. \E x \in {"queued", "drafting", "failed"} : status' = [status EXCEPT ![j] = x]
    BY <1>4 DEF StartGeneration, BeginDraft, TaskFails
  <2>4. \A i \in Jobs : status'[i] = "succeeded" => status[i] = "succeeded"
    BY <2>1, <2>3
  <2> QED
    BY <2>2, <2>4, NobodyWins
<1>5. CASE UNCHANGED <<status, attempt>>
  BY <1>5, NobodyWins
<1>6. \/ \E j \in Jobs : Draft(j) \/ StartGeneration(j) \/ BeginDraft(j) \/ TaskFails(j)
      \/ \E m \in consumer.held : ProcessResult(m)
      \/ RecordSuccess
      \/ UNCHANGED <<status, attempt>>
  BY DEF Next, vars, row, judging, TaskProgress, StoreSolutions, SendDiff, WorkerProgress,
         ReceiveDiff, SendResult, DeleteDiff, WorkerFails, ConsumerProgress, ReceiveResults,
         CreateQuestion, ResubmitSolutions, ResendDiff, DeleteResult, ConsumerFails,
         ConsumerEnds, AiStops, DiffTimeout, ResultTimeout, Quiescent
<1> QED
  BY <1>1, <1>2, <1>3, <1>4, <1>5, <1>6

\* A report at hand stays what it is while others work.
LEMMA AtHandIsKept ==
  ASSUME IInv, RecordedInv, [Next]_vars, UNCHANGED consumer,
         consumer.pc = "record" => attempt'[consumer.cur[1]] = attempt[consumer.cur[1]]
  PROVE  RecordedInv'
<1>1. consumer.pc = "record" => consumer.cur \in ResultIds /\ Agreed(body[consumer.cur])
  BY DEF RecordedInv, IInv, ConsumerInv
<1>2. consumer.pc = "record" => body'[consumer.cur] = body[consumer.cur]
  BY <1>1, ReportsAreKept, AgreedIsReport
<1> QED
  BY <1>1, <1>2 DEF RecordedInv, Agreed

LEMMA RecordedStep == ASSUME IInv, RecordedInv, [Next]_vars PROVE RecordedInv'
<1>1. ASSUME NEW j \in Jobs, Draft(j) PROVE RecordedInv'
  <2>1. UNCHANGED consumer /\ task[j] = "draft" /\ attempt \in [Jobs -> 0..MaxAttempts]
        /\ (attempt' = attempt \/ attempt' = [attempt EXCEPT ![j] = 1])
    BY <1>1 DEF Draft, IInv, TypeOK
  <2>2. consumer.pc = "record" => consumer.cur[1] \in Jobs /\ consumer.cur[1] # j
    BY <2>1, ConsumerJobSent DEF ResultIds
  <2>3. consumer.pc = "record" => attempt'[consumer.cur[1]] = attempt[consumer.cur[1]]
    BY <2>1, <2>2
  <2> QED
    BY <2>1, <2>3, AtHandIsKept
<1>2. CASE CreateQuestion
  <2>1. /\ consumer' = [consumer EXCEPT !.pc = "record"] /\ consumer.pc = "create"
        /\ UNCHANGED <<attempt, body>>
    BY <1>2 DEF CreateQuestion, row, judging
  <2>2. consumer'.cur = consumer.cur
    BY <2>1 DEF IInv, TypeOK
  <2>3. attempt[consumer.cur[1]] = consumer.cur[2] /\ Agreed(body[consumer.cur])
    BY <2>1 DEF IInv, ConsumerInv
  <2> QED
    BY <2>1, <2>2, <2>3 DEF RecordedInv, Agreed
<1>3. CASE UNCHANGED <<attempt, consumer>>
  BY <1>3, AtHandIsKept
<1>4. CASE consumer'.pc # "record"
  BY <1>4 DEF RecordedInv
<1>5. ASSUME \/ ReceiveResults \/ \E m \in consumer.held : ProcessResult(m)
             \/ RecordSuccess \/ ResubmitSolutions \/ ResendDiff \/ DeleteResult
             \/ ConsumerEnds \/ AiStops
      PROVE  consumer'.pc # "record"
  <2>1. /\ Released.pc # "record" /\ IdleConsumer.pc # "record"
        /\ [IdleConsumer EXCEPT !.pc = "ended"].pc # "record"
    BY DEF Released, IdleConsumer
  <2>2. consumer \in [pc : {"idle", "create", "record", "submit", "send", "delete", "ended"},
                      held : SUBSET (ResultIds \X Runs), cur : ResultIds \cup {None},
                      receipt : 0..MaxReceives]
    BY DEF IInv, TypeOK
  <2>3. CASE ReceiveResults
    BY <2>1, <2>2, <2>3 DEF ReceiveResults
  <2>4. CASE \E m \in consumer.held : ProcessResult(m)
    BY <2>4 DEF ProcessResult, Decide, Begin
  <2>5. CASE RecordSuccess \/ ResubmitSolutions \/ ResendDiff
    BY <2>2, <2>5 DEF RecordSuccess, ResubmitSolutions, ResendDiff
  <2>6. CASE DeleteResult \/ ConsumerEnds \/ AiStops
    BY <2>1, <2>6 DEF DeleteResult, ConsumerEnds, AiStops
  <2> QED
    BY <1>5, <2>3, <2>4, <2>5, <2>6
<1>6. CASE ConsumerFails
  <2>1. UNCHANGED attempt
    BY <1>6 DEF ConsumerFails, row
  <2>2. CASE consumer.pc = "idle" /\ \E m \in consumer.held : consumer' = [consumer EXCEPT !.held = @ \ {m}]
    <3>1. consumer'.pc = "idle"
      BY <2>2 DEF IInv, TypeOK
    <3> QED
      BY <3>1, <1>4
  <2>3. CASE consumer' = Released
    BY <2>3, <1>4 DEF Released, IdleConsumer
  <2> QED
    BY <1>6, <2>2, <2>3 DEF ConsumerFails
<1>7. \/ \E j \in Jobs : Draft(j)
      \/ CreateQuestion \/ ConsumerFails
      \/ ReceiveResults \/ \E m \in consumer.held : ProcessResult(m)
      \/ RecordSuccess \/ ResubmitSolutions \/ ResendDiff \/ DeleteResult
      \/ ConsumerEnds \/ AiStops
      \/ UNCHANGED <<attempt, consumer>>
  BY DEF Next, vars, row, judging, TaskProgress, StartGeneration, BeginDraft, StoreSolutions,
         SendDiff, TaskFails, WorkerProgress, ReceiveDiff, SendResult, DeleteDiff, WorkerFails,
         ConsumerProgress, DiffTimeout, ResultTimeout, Quiescent
<1> QED
  BY <1>1, <1>2, <1>3, <1>4, <1>5, <1>6, <1>7

\* The solutions of a job that succeeded are replaced only for a report that
\* came after the one that let it pass and disagrees with it.
LEMMA ReplacedIsJudgedTwice ==
  ASSUME IInv, WonInv, Next, NEW j \in Jobs, status[j] = "succeeded", solution'[j] # solution[j]
  PROVE  JudgedTwice(j)
<1>0. solution \in [Jobs -> 0..MaxAttempts]
  BY DEF IInv, TypeOK
<1>1. Won(j) \/ JudgedTwice(j)
  BY DEF WonInv
<1>2. task[j] = "done"
  BY <1>1, JudgedIsDrafted
<1>3. \/ \E i \in Jobs : StoreSolutions(i)
      \/ ResubmitSolutions
  BY DEF Next, vars, row, judging, TaskProgress, StartGeneration, BeginDraft, Draft,
         SendDiff, TaskFails, WorkerProgress, ReceiveDiff, SendResult, DeleteDiff, WorkerFails,
         ConsumerProgress, ReceiveResults, ProcessResult, CreateQuestion, RecordSuccess,
         ResendDiff, DeleteResult, ConsumerFails, ConsumerEnds, AiStops,
         DiffTimeout, ResultTimeout, Quiescent
<1>4. ~\E i \in Jobs : StoreSolutions(i)
  BY <1>0, <1>2 DEF StoreSolutions
<1>5. /\ consumer.pc = "submit" /\ consumer.cur[1] = j
  BY <1>0, <1>3, <1>4 DEF ResubmitSolutions
<1>6. attempt[j] \in Attempts /\ diffs[<<j, attempt[j]>>].state = "unsent"
  BY <1>5 DEF IInv, ConsumerInv
<1>7. \A n \in Runs : body[<<j, attempt[j], n>>] = None
  BY <1>6 DEF IInv, ReportInv
<1>8. ~Won(j)
  BY <1>7, AgreedIsReport DEF Won, AgreedAt
<1> QED
  BY <1>1, <1>8

\* The solutions kept with a succeeded job are replaced only if the job was
\* judged twice with different ends, whatever is delivered again, for any
\* number of jobs, workers and attempts (the attempt check of
\* process_gen_result).
THEOREM WinnerIsKept == Spec => WinnerIsKeptUnlessJudgedTwice
<1> DEFINE Kept == \A j \in Jobs : status[j] = "succeeded" /\ solution'[j] # solution[j] =>
                      \E a \in Attempts : \E m, n \in Runs :
                         Agreed(body[<<j, a, m>>]) /\ Disagreed(body[<<j, a, n>>])
<1>1. Init => WonInv /\ RecordedInv
  BY GenerationAssumption DEF Init, WonInv, RecordedInv, IdleConsumer
<1>2. IInv /\ WonInv /\ [Next]_vars => [Kept]_vars
  BY ReplacedIsJudgedTwice DEF JudgedTwice
<1>3. IInv /\ WonInv /\ RecordedInv /\ [Next]_vars => WonInv' /\ RecordedInv'
  BY WonStep, RecordedStep
<1>4. Spec => [][Kept]_vars
  BY <1>1, <1>2, <1>3, InitInv, NextInv, PTL DEF Spec
<1> QED
  BY <1>4 DEF WinnerIsKeptUnlessJudgedTwice
=============================================================================
