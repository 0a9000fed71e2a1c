--------------------------- MODULE Grading_proofs ---------------------------
(***************************************************************************)
(* Proofs about Grading, for any number of submissions, judges, consumers, *)
(* cases, permitted receives and failures.                                 *)
(***************************************************************************)
EXTENDS Grading, FiniteSetTheorems, SequenceTheorems, WellFoundedInduction, TLAPS

\* every non-empty set of ordinals has a least one (the CHOOSE in SummaryOf)
LEMMA LeastOrdinal ==
  ASSUME NEW S \in SUBSET Nat, S # {}
  PROVE  \E o \in S : \A p \in S : o <= p
<1>1. PICK o \in S : \A p \in S : <<p, o>> \notin OpToRel(<, Nat)
  BY NatLessThanWellFounded, WFMin
<1>2. \A p \in S : ~(p < o)
  BY <1>1 DEF OpToRel
<1> QED
  BY <1>2

LEMMA SummaryType ==
  ASSUME NEW r \in Report
  PROVE  SummaryOf(r) \in {"CE"} \cup CaseVerdict
<1> DEFINE failed == {o \in Ordinals : r.cases[o] \notin {"AC", "none"}}
           least  == CHOOSE o \in failed : \A p \in failed : o <= p
<1>1. CASE r.status = "COMPILE_ERROR"
  BY <1>1 DEF SummaryOf
<1>2. CASE r.status = "COMPLETED" /\ failed = {}
  BY <1>2 DEF SummaryOf, CaseVerdict
<1>3. CASE r.status = "COMPLETED" /\ failed # {}
  <2>1. failed \in SUBSET Nat
    BY GradingAssumption DEF Ordinals
  <2>2. least \in failed
    BY <2>1, <1>3, LeastOrdinal
  <2>3. r.cases[least] \in CaseVerdict
    BY <2>2 DEF Report
  <2> QED
    BY <1>3, <2>3 DEF SummaryOf
<1> QED
  BY <1>1, <1>2, <1>3 DEF Report

LEMMA AppendEvent ==
  ASSUME NEW evs \in Seq(EventRow), NEW e \in EventRow
  PROVE  Append(evs, e) \in Seq(EventRow)
BY AppendProperties

-----------------------------------------------------------------------------
(* The inductive invariant: what a process at a control point may rely on. *)

\* a working judge holds a delivery, and its verdict was sent before "sent"
JudgeInv ==
  \A j \in Judges : judge[j].pc # "idle" =>
     /\ judge[j].sub \in Submissions /\ judge[j].receipt \in Runs
     /\ judge[j].pc = "sent" => verdicts[<<judge[j].sub, judge[j].receipt>>].state # "unsent"

\* a consumer holds messages that were sent; past the commit, its submission
\* is graded
ConsumerInv ==
  \A c \in Consumers :
     /\ \A d \in consumer[c].held : verdicts[d[1]].state # "unsent"
     /\ consumer[c].pc \notin {"idle", "ended"} =>
          /\ consumer[c].cur \in VerdictIds
          /\ verdicts[consumer[c].cur].state # "unsent"
     /\ consumer[c].pc \notin {"idle", "ended", "persist"} => Graded(consumer[c].cur[1])

\* a sent verdict has a body; it is deleted only when its submission is graded
VerdictInv ==
  \A id \in VerdictIds :
     /\ verdicts[id].state # "unsent" => body[id] \in Report
     /\ verdicts[id].state = "deleted" => Graded(id[1])

\* a job is deleted only after one of its runs sent a verdict
JobInv ==
  \A s \in Submissions : jobs[s].state = "deleted" =>
     \E n \in Runs : verdicts[<<s, n>>].state # "unsent"

\* only a stored submission has a job, a run or a verdict
StoredInv ==
  /\ \A s \in Submissions : /\ status[s] = None <=> api[s].pc = "idle"
                            /\ jobs[s].state # "unsent" => status[s] # None
  /\ \A j \in Judges : judge[j].pc # "idle" => status[judge[j].sub] # None
  /\ \A id \in VerdictIds : verdicts[id].state # "unsent" => status[id[1]] # None

IInv == StoredInv /\ TypeOK /\ JudgeInv /\ ConsumerInv /\ VerdictInv /\ JobInv

LEMMA InitInv == Init => IInv
<1> SUFFICES ASSUME Init PROVE IInv
  OBVIOUS
<1> USE MaxReceivesAssumption, GradingAssumption DEF Init
<1>1. TypeOK
  BY DEF TypeOK, Unsent, Message, IdleJudge, IdleConsumer, ApiState,
         JudgeState, ConsumerState
<1>2. JudgeInv
  BY DEF JudgeInv, IdleJudge
<1>3. ConsumerInv
  BY DEF ConsumerInv, IdleConsumer
<1>4. VerdictInv
  BY DEF VerdictInv, Unsent
<1>5. JobInv
  BY DEF JobInv, Unsent
<1>6. StoredInv
  BY DEF StoredInv, Unsent, IdleJudge, VerdictIds
<1> QED
  BY <1>1, <1>2, <1>3, <1>4, <1>5, <1>6 DEF IInv

LEMMA ApiStepInv ==
  ASSUME IInv, NEW s \in Submissions, ApiStep(s)
  PROVE  IInv'
<1> USE DEF database, queues
<1>0. /\ TypeOK /\ StoredInv /\ JudgeInv /\ ConsumerInv /\ VerdictInv /\ JobInv
  BY DEF IInv
<1>1. ASSUME NEW mode \in {"submit", "run"}, CreateSubmission(s, mode)
      PROVE  IInv'
  <2>1. TypeOK'
    <3>1. (api \in [Submissions -> ApiState])'
      BY <1>0, <1>1 DEF TypeOK, CreateSubmission, ApiState
    <3> QED
      BY <1>0, <1>1, <3>1 DEF TypeOK, CreateSubmission
  <2>2. (JudgeInv /\ JobInv)'
    BY <1>0, <1>1 DEF JudgeInv, JobInv, CreateSubmission
  <2>3. ~Graded(s)
    BY <1>0, <1>1, GradingAssumption DEF StoredInv, CreateSubmission, Graded, Terminal
  <2>4. \A t \in Submissions : Graded(t) => Graded(t)'
    BY <1>0, <1>1, <2>3 DEF TypeOK, Graded, CreateSubmission
  <2>5. ConsumerInv'
    BY <1>0, <1>1, <2>4 DEF ConsumerInv, CreateSubmission, VerdictIds
  <2>6. VerdictInv'
    BY <1>0, <1>1, <2>4 DEF VerdictInv, CreateSubmission, VerdictIds
  <2>7. StoredInv'
    BY <1>0, <1>1, GradingAssumption
    DEF TypeOK, StoredInv, CreateSubmission, ApiState, VerdictIds, JudgeInv
  <2> QED
    BY <2>1, <2>2, <2>5, <2>6, <2>7 DEF IInv
<1>2. ASSUME SendJob(s)
      PROVE  IInv'
  <2>1. TypeOK'
    <3>1. (api \in [Submissions -> ApiState])'
      BY <1>0, <1>2 DEF TypeOK, SendJob, ApiState
    <3>2. (jobs \in [Submissions -> Message])'
      BY <1>0, <1>2, MaxReceivesAssumption DEF TypeOK, SendJob, Sent, Message
    <3> QED
      BY <1>0, <1>2, <3>1, <3>2 DEF TypeOK, SendJob
  <2>2. (JudgeInv /\ ConsumerInv /\ VerdictInv)'
    BY <1>0, <1>2 DEF JudgeInv, ConsumerInv, VerdictInv, SendJob, Graded
  <2>3. JobInv'
    BY <1>0, <1>2 DEF TypeOK, JobInv, SendJob, Sent
  <2>4. StoredInv'
    BY <1>0, <1>2 DEF TypeOK, StoredInv, SendJob, ApiState
  <2> QED
    BY <2>1, <2>2, <2>3, <2>4 DEF IInv
<1>3. ASSUME ApiReadSeq(s)
      PROVE  IInv'
  <2>1. Len(events) + 1 \in Nat
    BY <1>0, LenProperties DEF TypeOK
  <2>2. TypeOK'
    BY <1>0, <1>3, <2>1 DEF TypeOK, ApiReadSeq, ApiState
  <2>3. (JudgeInv /\ ConsumerInv /\ VerdictInv /\ JobInv)'
    BY <1>0, <1>3 DEF JudgeInv, ConsumerInv, VerdictInv, JobInv, ApiReadSeq, Graded
  <2>4. StoredInv'
    BY <1>0, <1>3 DEF TypeOK, StoredInv, ApiReadSeq, ApiState
  <2> QED
    BY <2>2, <2>3, <2>4 DEF IInv
<1>4. ASSUME ApiInsertEvent(s)
      PROVE  IInv'
  <2>0. /\ \E x \in {"done", "failed"} : api' = [api EXCEPT ![s] = [pc |-> x, seq |-> 0]]
        /\ events' = events \/ events' = Append(events, Event("submission", s, None))
        /\ api[s].pc = "insert"
    BY <1>4 DEF ApiInsertEvent
  <2>1. (api \in [Submissions -> ApiState])'
    BY <1>0, <2>0 DEF TypeOK, ApiState
  <2>2. (events \in Seq(EventRow))'
    <3>1. Event("submission", s, None) \in EventRow
      BY DEF Event, EventRow
    <3>2. events \in Seq(EventRow)
      BY <1>0 DEF TypeOK
    <3>3. Append(events, Event("submission", s, None)) \in Seq(EventRow)
      BY <3>1, <3>2, AppendEvent
    <3> QED
      BY <2>0, <3>2, <3>3
  <2>3. TypeOK'
    BY <1>0, <1>4, <2>1, <2>2 DEF TypeOK, ApiInsertEvent
  <2>4. (JudgeInv /\ ConsumerInv /\ VerdictInv /\ JobInv)'
    BY <1>0, <1>4 DEF JudgeInv, ConsumerInv, VerdictInv, JobInv, ApiInsertEvent, Graded
  <2>5. StoredInv'
    <3>1. \A t \in Submissions : api'[t].pc = "idle" <=> api[t].pc = "idle"
      BY <1>0, <2>0 DEF TypeOK, ApiState
    <3> QED
      BY <1>0, <1>4, <3>1 DEF StoredInv, ApiInsertEvent
  <2> QED
    BY <2>3, <2>4, <2>5 DEF IInv
<1>5. ASSUME ApiFails(s)
      PROVE  IInv'
  <2>1. TypeOK'
    BY <1>0, <1>5, GradingAssumption DEF TypeOK, ApiFails, ApiState, Fault
  <2>2. (JudgeInv /\ ConsumerInv /\ VerdictInv /\ JobInv)'
    BY <1>0, <1>5 DEF JudgeInv, ConsumerInv, VerdictInv, JobInv, ApiFails, Graded
  <2>3. StoredInv'
    BY <1>0, <1>5 DEF TypeOK, StoredInv, ApiFails, ApiState
  <2> QED
    BY <2>1, <2>2, <2>3 DEF IInv
<1> QED
  BY <1>1, <1>2, <1>3, <1>4, <1>5 DEF ApiStep

LEMMA JudgeStepInv ==
  ASSUME IInv, NEW j \in Judges, JudgeStep(j)
  PROVE  IInv'
<1> USE DEF database, queues
<1>0. /\ TypeOK /\ StoredInv /\ JudgeInv /\ ConsumerInv /\ VerdictInv /\ JobInv
  BY DEF IInv
<1>1. ASSUME NEW s \in Submissions, ReceiveJob(j, s)
      PROVE  IInv'
  <2>1. /\ jobs[s] \in Message /\ jobs[s].receives + 1 \in Runs
        /\ Received(jobs[s]) \in Message
    BY <1>0, <1>1, MaxReceivesAssumption
    DEF TypeOK, ReceiveJob, CanReceive, Received, Message, Runs
  <2>2. (judge \in [Judges -> JudgeState])'
    BY <1>0, <1>1, <2>1, MaxReceivesAssumption DEF TypeOK, ReceiveJob, JudgeState, Runs
  <2>3. TypeOK'
    BY <1>0, <1>1, <2>1, <2>2 DEF TypeOK, ReceiveJob
  <2>4. JudgeInv'
    BY <1>0, <1>1, <2>1 DEF TypeOK, JudgeInv, ReceiveJob, JudgeState
  <2>5. (ConsumerInv /\ VerdictInv)'
    BY <1>0, <1>1 DEF ConsumerInv, VerdictInv, ReceiveJob, Graded
  <2>6. JobInv'
    BY <1>0, <1>1 DEF TypeOK, JobInv, ReceiveJob, Received
  <2>7. status[s] # None
    BY <1>0, <1>1 DEF StoredInv, ReceiveJob, CanReceive
  <2>8. StoredInv'
    BY <1>0, <1>1, <2>7 DEF TypeOK, StoredInv, ReceiveJob, Received
  <2> QED
    BY <2>3, <2>4, <2>5, <2>6, <2>8 DEF IInv
<1>2. ASSUME SendVerdict(j)
      PROVE  IInv'
  <2> DEFINE s == judge[j].sub
             id == <<s, judge[j].receipt>>
  <2>1. id \in VerdictIds /\ s \in Submissions
    BY <1>0, <1>2 DEF JudgeInv, SendVerdict, VerdictIds
  <2>2. PICK outcome \in Outcomes[s] : body' = [body EXCEPT ![id] = ReportOf(s, outcome)]
    BY <1>2 DEF SendVerdict
  <2>3. ReportOf(s, outcome) \in Report
    BY <2>1, <2>2, GradingAssumption DEF ReportOf, Report
  <2>4. Sent \in Message /\ Sent.state = "visible"
    BY MaxReceivesAssumption DEF Sent, Message
  <2>5. (judge \in [Judges -> JudgeState])'
    BY <1>0, <1>2 DEF TypeOK, SendVerdict, JudgeState
  <2>6. TypeOK'
    BY <1>0, <1>2, <2>1, <2>2, <2>3, <2>4, <2>5 DEF TypeOK, SendVerdict
  <2>7. /\ verdicts' = [verdicts EXCEPT ![id] = Sent]
        /\ \A i \in VerdictIds : verdicts[i].state # "unsent" => verdicts'[i].state # "unsent"
        /\ verdicts'[id].state = "visible"
    BY <1>0, <1>2, <2>1, <2>4 DEF TypeOK, SendVerdict
  <2>8. JudgeInv'
    BY <1>0, <1>2, <2>1, <2>7 DEF TypeOK, JudgeInv, SendVerdict, JudgeState, VerdictIds
  <2>9. ConsumerInv'
    <3>1. \A c \in Consumers : \A d \in consumer[c].held : d[1] \in VerdictIds
      BY <1>0 DEF TypeOK, ConsumerState
    <3> QED
      BY <1>0, <1>2, <2>7, <3>1 DEF ConsumerInv, SendVerdict, Graded
  <2>10. VerdictInv'
    BY <1>0, <1>2, <2>1, <2>2, <2>3, <2>7 DEF TypeOK, VerdictInv, SendVerdict, Graded
  <2>11. JobInv'
    BY <1>0, <1>2, <2>7 DEF JobInv, SendVerdict, VerdictIds
  <2>12. StoredInv'
    BY <1>0, <1>2, <2>1, <2>7 DEF TypeOK, StoredInv, SendVerdict, JudgeState, VerdictIds
  <2> QED
    BY <2>6, <2>8, <2>9, <2>10, <2>11, <2>12 DEF IInv
<1>3. ASSUME DeleteJob(j)
      PROVE  IInv'
  <2> DEFINE s == judge[j].sub
  <2>1. s \in Submissions /\ judge[j].receipt \in Runs /\ jobs[s] \in Message
    BY <1>0, <1>3 DEF TypeOK, JudgeInv, DeleteJob
  <2>2. PICK m \in AfterDelete(jobs[s], judge[j].receipt) : jobs' = [jobs EXCEPT ![s] = m]
    BY <1>3 DEF DeleteJob
  <2>3. m \in Message /\ (m.state # "unsent" => m = jobs[s] \/ m.state = "deleted")
    BY <2>1, <2>2 DEF AfterDelete, Message
  <2>4. (judge \in [Judges -> JudgeState])'
    BY <1>0, <1>3, MaxReceivesAssumption DEF TypeOK, DeleteJob, IdleJudge, JudgeState
  <2>5. TypeOK'
    BY <1>0, <1>3, <2>1, <2>2, <2>3, <2>4 DEF TypeOK, DeleteJob
  <2>6. JudgeInv'
    BY <1>0, <1>3 DEF TypeOK, JudgeInv, DeleteJob, IdleJudge
  <2>7. (ConsumerInv /\ VerdictInv)'
    BY <1>0, <1>3 DEF ConsumerInv, VerdictInv, DeleteJob, Graded
  <2>8. \E n \in Runs : verdicts[<<s, n>>].state # "unsent"
    BY <1>0, <1>3, <2>1 DEF JudgeInv, DeleteJob
  <2>9. JobInv'
    BY <1>0, <1>3, <2>1, <2>2, <2>8 DEF TypeOK, JobInv, DeleteJob
  <2>10. status[s] # None
    BY <1>0, <1>3 DEF StoredInv, DeleteJob
  <2>11. StoredInv'
    BY <1>0, <1>3, <2>1, <2>2, <2>10 DEF TypeOK, StoredInv, DeleteJob, IdleJudge
  <2> QED
    BY <2>5, <2>6, <2>7, <2>9, <2>11 DEF IInv
<1>4. ASSUME JudgeFails(j)
      PROVE  IInv'
  <2>1. (judge \in [Judges -> JudgeState])'
    BY <1>0, <1>4, MaxReceivesAssumption DEF TypeOK, JudgeFails, IdleJudge, JudgeState
  <2>2. TypeOK'
    BY <1>0, <1>4, <2>1, GradingAssumption DEF TypeOK, JudgeFails, Fault
  <2>3. JudgeInv'
    BY <1>0, <1>4 DEF TypeOK, JudgeInv, JudgeFails, IdleJudge
  <2>4. (ConsumerInv /\ VerdictInv /\ JobInv)'
    BY <1>0, <1>4 DEF ConsumerInv, VerdictInv, JobInv, JudgeFails, Graded
  <2>5. StoredInv'
    BY <1>0, <1>4 DEF TypeOK, StoredInv, JudgeFails, IdleJudge
  <2> QED
    BY <2>2, <2>3, <2>4, <2>5 DEF IInv
<1> QED
  BY <1>1, <1>2, <1>3, <1>4 DEF JudgeStep

LEMMA ConsumerStepInv ==
  ASSUME IInv, NEW c \in Consumers, ConsumerStep(c)
  PROVE  IInv'
<1> USE DEF database, queues
<1>0. /\ TypeOK /\ StoredInv /\ JudgeInv /\ ConsumerInv /\ VerdictInv /\ JobInv
  BY DEF IInv
<1>a. consumer[c] \in ConsumerState
  BY <1>0 DEF TypeOK
<1>b. Len(events) + 1 \in Nat
  BY <1>0, LenProperties DEF TypeOK
<1>1. ASSUME ReceiveVerdicts(c)
      PROVE  IInv'
  <2>1. PICK batch \in SUBSET {id \in VerdictIds : CanReceive(verdicts[id])} :
          /\ verdicts' = [id \in VerdictIds |-> IF id \in batch THEN Received(verdicts[id])
                                                                ELSE verdicts[id]]
          /\ consumer' = [consumer EXCEPT ![c].held =
                             {<<id, verdicts[id].receives + 1>> : id \in batch}]
    BY <1>1 DEF ReceiveVerdicts
  <2>2. \A id \in batch : /\ id \in VerdictIds
                          /\ verdicts[id].state = "visible"
                          /\ verdicts[id].receives + 1 \in Runs
                          /\ Received(verdicts[id]) \in Message
                          /\ Received(verdicts[id]).state = "inflight"
    BY <1>0, <2>1, MaxReceivesAssumption
    DEF TypeOK, CanReceive, Received, Message, Runs
  <2>3. \A id \in VerdictIds :
          /\ verdicts'[id].state # "unsent" <=> verdicts[id].state # "unsent"
          /\ verdicts'[id].state = "deleted" => verdicts[id].state = "deleted"
    BY <2>1, <2>2
  <2>4. (verdicts \in [VerdictIds -> Message])'
    BY <1>0, <2>1, <2>2 DEF TypeOK
  <2>5. {<<id, verdicts[id].receives + 1>> : id \in batch} \in SUBSET (VerdictIds \X Runs)
    BY <2>2
  <2>6. (consumer \in [Consumers -> ConsumerState])'
    BY <1>0, <2>1, <2>5 DEF TypeOK, ConsumerState
  <2>7. TypeOK'
    BY <1>0, <1>1, <2>4, <2>6 DEF TypeOK, ReceiveVerdicts
  <2>8. (JudgeInv /\ VerdictInv /\ JobInv)'
    BY <1>0, <1>1, <2>3 DEF JudgeInv, VerdictInv, JobInv, ReceiveVerdicts, Graded, VerdictIds
  <2>9. ConsumerInv'
    <3>1. ASSUME NEW k \in Consumers
          PROVE  /\ consumer'[k].pc = consumer[k].pc
                 /\ consumer'[k].cur = consumer[k].cur
                 /\ consumer'[k].held = consumer[k].held
                      \/ consumer'[k].held = {<<id, verdicts[id].receives + 1>> : id \in batch}
      BY <1>0, <1>a, <2>1, <3>1 DEF TypeOK, ConsumerState
    <3>2. ASSUME NEW k \in Consumers, NEW d \in consumer'[k].held
          PROVE  verdicts'[d[1]].state # "unsent"
      <4>1. CASE d \in consumer[k].held
        BY <1>0, <4>1, <2>3 DEF ConsumerInv, TypeOK, ConsumerState
      <4>2. CASE d \in {<<id, verdicts[id].receives + 1>> : id \in batch}
        BY <4>2, <2>1, <2>2
      <4> QED
        BY <3>1, <3>2, <4>1, <4>2
    <3> QED
      BY <1>0, <1>1, <2>3, <3>1, <3>2 DEF ConsumerInv, ReceiveVerdicts, Graded
  <2>10. StoredInv'
    BY <1>0, <1>1, <2>3 DEF StoredInv, ReceiveVerdicts
  <2> QED
    BY <2>7, <2>8, <2>9, <2>10 DEF IInv
<1>2. ASSUME NEW d \in consumer[c].held, LoadSubmission(c, d)
      PROVE  IInv'
  <2>1. /\ d \in VerdictIds \X Runs
        /\ consumer[c].held \ {d} \in SUBSET (VerdictIds \X Runs)
        /\ d[1] \in VerdictIds /\ d[2] \in Runs /\ d[1][1] \in Submissions
    BY <1>a, <1>2 DEF ConsumerState, VerdictIds
  <2>2. (consumer \in [Consumers -> ConsumerState])'
    BY <1>0, <1>2, <2>1, MaxReceivesAssumption DEF TypeOK, ConsumerState, LoadSubmission, Runs
  <2>3. TypeOK'
    BY <1>0, <1>2, <2>2 DEF TypeOK, LoadSubmission
  <2>4. (JudgeInv /\ VerdictInv /\ JobInv /\ StoredInv)'
    BY <1>0, <1>2 DEF JudgeInv, VerdictInv, JobInv, StoredInv, LoadSubmission, Graded
  <2>5. ConsumerInv'
    <3>1. \A k \in Consumers : k # c => consumer'[k] = consumer[k]
      BY <1>0, <1>2 DEF TypeOK, LoadSubmission
    <3>2. /\ consumer'[c].held = consumer[c].held \ {d} /\ consumer'[c].cur = d[1]
          /\ consumer'[c].pc = IF Graded(d[1][1]) THEN "delete" ELSE "persist"
      BY <1>0, <1>2 DEF TypeOK, LoadSubmission
    <3>3. \A k \in Consumers : Graded(k) <=> Graded(k)'
      BY <1>2 DEF LoadSubmission, Graded
    <3> QED
      BY <1>0, <1>2, <2>1, <3>1, <3>2 DEF ConsumerInv, LoadSubmission, Graded
  <2> QED
    BY <2>3, <2>4, <2>5 DEF IInv
<1>3. ASSUME PersistVerdict(c)
      PROVE  IInv'
  <2> DEFINE id == consumer[c].cur
             s  == id[1]
  <2>1. id \in VerdictIds /\ s \in Submissions /\ body[id] \in Report
    BY <1>0, <1>3 DEF ConsumerInv, VerdictInv, PersistVerdict, VerdictIds
  <2>2. body[id].status \in Terminal /\ SummaryOf(body[id]) \in {None, "CE"} \cup CaseVerdict
    BY <2>1, SummaryType DEF Report, Terminal
  <2>3. Upserted(s, body[id].cases) \in [Ordinals -> CaseVerdict \cup {"none"}]
    BY <1>0, <2>1 DEF TypeOK, Report, Upserted
  <2>4. (consumer \in [Consumers -> ConsumerState])'
    BY <1>0, <1>3 DEF TypeOK, PersistVerdict, ConsumerState
  <2>5. TypeOK'
    BY <1>0, <1>3, <2>1, <2>2, <2>3, <2>4 DEF TypeOK, PersistVerdict
  <2>6. \A t \in Submissions : status'[t] = IF t = s THEN body[id].status ELSE status[t]
    BY <1>0, <1>3, <2>1 DEF TypeOK, PersistVerdict
  <2>7. (JudgeInv /\ JobInv)'
    BY <1>0, <1>3 DEF JudgeInv, JobInv, PersistVerdict
  <2>. USE DEF VerdictIds
  <2>8. VerdictInv'
    <3>1. UNCHANGED <<verdicts, body>>
      BY <1>3 DEF PersistVerdict
    <3> QED
      BY <1>0, <2>2, <2>6, <3>1 DEF VerdictInv, Graded
  <2>9. ConsumerInv'
    <3>1. \A k \in Consumers : /\ consumer'[k].held = consumer[k].held
                               /\ consumer'[k].cur = consumer[k].cur
                               /\ k # c => consumer'[k].pc = consumer[k].pc
                               /\ consumer[k].pc = "idle" <=> consumer'[k].pc = "idle"
                               /\ consumer[k].pc = "ended" <=> consumer'[k].pc = "ended"
      BY <1>0, <1>3 DEF TypeOK, PersistVerdict, ConsumerState
    <3>2. UNCHANGED verdicts
      BY <1>3 DEF PersistVerdict
    <3> QED
      BY <1>0, <2>1, <2>2, <2>6, <3>1, <3>2 DEF ConsumerInv, Graded
  <2>10. status[s] # None
    BY <1>0, <1>3, <2>1 DEF StoredInv, ConsumerInv, PersistVerdict
  <2>11. StoredInv'
    <3>1. UNCHANGED <<api, jobs, judge, verdicts>>
      BY <1>3 DEF PersistVerdict
    <3>2. body[id].status # None
      BY <2>2, GradingAssumption DEF Terminal
    <3> QED
      BY <1>0, <2>6, <2>10, <3>1, <3>2 DEF StoredInv, JudgeInv
  <2> QED
    BY <2>5, <2>7, <2>8, <2>9, <2>11 DEF IInv
<1>4. ASSUME ConsumerReadSeq(c)
      PROVE  IInv'
  <2>1. (consumer \in [Consumers -> ConsumerState])'
    <3>1. consumer[c] \in ConsumerState /\ Len(events) + 1 \in Nat
      BY <1>0 DEF TypeOK
    <3>2. [consumer[c] EXCEPT !.pc = "insert", !.seq = Len(events) + 1] \in ConsumerState
      BY <3>1 DEF ConsumerState
    <3>3. consumer' = [consumer EXCEPT ![c] =
                         [consumer[c] EXCEPT !.pc = "insert", !.seq = Len(events) + 1]]
      BY <1>0, <1>4 DEF TypeOK, ConsumerReadSeq
    <3> QED
      BY <1>0, <3>2, <3>3 DEF TypeOK
  <2>2. TypeOK'
    BY <1>0, <1>4, <2>1, GradingAssumption DEF TypeOK, ConsumerReadSeq, Fault
  <2>3. (JudgeInv /\ VerdictInv /\ JobInv /\ StoredInv)'
    BY <1>0, <1>4 DEF JudgeInv, VerdictInv, JobInv, StoredInv, ConsumerReadSeq, Graded
  <2>4. ConsumerInv'
    BY <1>0, <1>a, <1>4 DEF TypeOK, ConsumerInv, ConsumerReadSeq, ConsumerState, Graded
  <2> QED
    BY <2>2, <2>3, <2>4 DEF IInv
<1>5. ASSUME ConsumerInsertEvent(c)
      PROVE  IInv'
  <2> DEFINE id == consumer[c].cur
             s  == id[1]
             e  == Event("verdict", s, SummaryOf(body[id]))
  <2>1. id \in VerdictIds /\ s \in Submissions /\ body[id] \in Report
    BY <1>0, <1>5 DEF ConsumerInv, VerdictInv, ConsumerInsertEvent, VerdictIds
  <2>2. e \in EventRow
    BY <2>1, SummaryType DEF Event, EventRow
  <2>3. /\ events' = events \/ events' = Append(events, e)
        /\ \/ \E x \in {"signal", "delete"} : consumer' = [consumer EXCEPT ![c].pc = x]
           \/ consumer' = [consumer EXCEPT ![c] = Released(c)]
        /\ consumer[c].pc = "insert"
    BY <1>5 DEF ConsumerInsertEvent
  <2>4. (events \in Seq(EventRow))'
    <3>1. events \in Seq(EventRow)
      BY <1>0 DEF TypeOK
    <3>2. Append(events, e) \in Seq(EventRow)
      BY <2>2, <3>1, AppendEvent
    <3> QED
      BY <2>3, <3>1, <3>2
  <2>5. PICK r \in ConsumerState :
          /\ consumer' = [consumer EXCEPT ![c] = r]
          /\ r.held = consumer[c].held
          /\ r.pc = "idle" \/ (r.cur = id /\ r.pc \in {"signal", "delete"})
    <3>1. ASSUME NEW x \in {"signal", "delete"}, consumer' = [consumer EXCEPT ![c].pc = x]
          PROVE  consumer' = [consumer EXCEPT ![c] = [consumer[c] EXCEPT !.pc = x]]
      BY <1>a, <3>1
    <3>2. ASSUME NEW x \in {"signal", "delete"}
          PROVE  /\ [consumer[c] EXCEPT !.pc = x] \in ConsumerState
                 /\ [consumer[c] EXCEPT !.pc = x].held = consumer[c].held
                 /\ [consumer[c] EXCEPT !.pc = x].cur = id
                 /\ [consumer[c] EXCEPT !.pc = x].pc = x
      BY <1>a, <3>2 DEF ConsumerState
    <3>3. /\ Released(c) \in ConsumerState
          /\ Released(c).held = consumer[c].held /\ Released(c).pc = "idle"
      BY <1>a, MaxReceivesAssumption DEF ConsumerState, Released, IdleConsumer
    <3> QED
      BY <2>3, <3>1, <3>2, <3>3
  <2>. (consumer \in [Consumers -> ConsumerState])'
    BY <1>0, <2>5 DEF TypeOK
  <2>6. TypeOK'
    BY <1>0, <1>5, <2>4 DEF TypeOK, ConsumerInsertEvent
  <2>7. (JudgeInv /\ VerdictInv /\ JobInv /\ StoredInv)'
    BY <1>0, <1>5 DEF JudgeInv, VerdictInv, JobInv, StoredInv, ConsumerInsertEvent, Graded
  <2>8. UNCHANGED <<status, verdicts>>
    BY <1>5 DEF ConsumerInsertEvent
  <2>9. ConsumerInv'
    BY <1>0, <2>3, <2>5, <2>8 DEF TypeOK, ConsumerInv, Graded
  <2> QED
    BY <2>6, <2>7, <2>9 DEF IInv
<1>6. ASSUME SignalDifficulty(c)
      PROVE  IInv'
  <2>1. consumer[c].cur[1] \in Submissions
    BY <1>0, <1>6 DEF ConsumerInv, SignalDifficulty, VerdictIds
  <2>2. (signals \in [Submissions -> Nat])'
    <3>1. /\ signals \in [Submissions -> Nat]
          /\ [signals EXCEPT ![consumer[c].cur[1]] = signals[consumer[c].cur[1]] + 1]
               \in [Submissions -> Nat]
      BY <1>0, <2>1 DEF TypeOK
    <3> QED
      BY <1>6, <3>1 DEF SignalDifficulty
  <2>3. (consumer \in [Consumers -> ConsumerState])'
    <3>1. consumer' = [consumer EXCEPT ![c].pc = "delete"]
      BY <1>6 DEF SignalDifficulty
    <3> QED
      BY <1>0, <3>1 DEF TypeOK, ConsumerState
  <2>4. TypeOK'
    BY <1>0, <1>6, <2>2, <2>3 DEF TypeOK, SignalDifficulty
  <2>5. (JudgeInv /\ VerdictInv /\ JobInv /\ StoredInv)'
    BY <1>0, <1>6 DEF JudgeInv, VerdictInv, JobInv, StoredInv, SignalDifficulty, Graded
  <2>6. ConsumerInv'
    BY <1>0, <1>a, <1>6 DEF TypeOK, ConsumerInv, SignalDifficulty, ConsumerState, Graded
  <2> QED
    BY <2>4, <2>5, <2>6 DEF IInv
<1>7. ASSUME DeleteVerdict(c)
      PROVE  IInv'
  <2> DEFINE id == consumer[c].cur
  <2>1. id \in VerdictIds /\ verdicts[id] \in Message /\ Graded(id[1])
        /\ verdicts[id].state # "unsent"
    BY <1>0, <1>7 DEF TypeOK, ConsumerInv, DeleteVerdict
  <2>2. PICK m \in AfterDelete(verdicts[id], consumer[c].receipt) :
          verdicts' = [verdicts EXCEPT ![id] = m]
    BY <1>7 DEF DeleteVerdict
  <2>3. m \in Message /\ m.state # "unsent"
    BY <2>1, <2>2 DEF AfterDelete, Message
  <2>4. (consumer \in [Consumers -> ConsumerState])'
    BY <1>0, <1>a, <1>7, MaxReceivesAssumption
    DEF TypeOK, DeleteVerdict, ConsumerState, Released, IdleConsumer
  <2>5. TypeOK'
    BY <1>0, <1>7, <2>1, <2>2, <2>3, <2>4 DEF TypeOK, DeleteVerdict
  <2>6. \A i \in VerdictIds : /\ verdicts'[i].state # "unsent" <=> verdicts[i].state # "unsent"
                              /\ i # id => verdicts'[i] = verdicts[i]
    BY <1>0, <2>1, <2>2, <2>3 DEF TypeOK
  <2>7. UNCHANGED <<status, api, jobs, judge, body>>
    BY <1>7 DEF DeleteVerdict
  <2>8. (JudgeInv /\ JobInv /\ StoredInv)'
    BY <1>0, <2>6, <2>7 DEF JudgeInv, JobInv, StoredInv, VerdictIds
  <2>9. VerdictInv'
    BY <1>0, <2>1, <2>6, <2>7 DEF VerdictInv, Graded
  <2>10. ConsumerInv'
    <3>1. \A k \in Consumers : /\ consumer'[k].held = consumer[k].held
                               /\ k # c => consumer'[k] = consumer[k]
                               /\ consumer'[c].pc = "idle"
      BY <1>0, <1>7 DEF TypeOK, DeleteVerdict, Released, IdleConsumer
    <3>2. \A k \in Consumers : \A d \in consumer[k].held : d[1] \in VerdictIds
      BY <1>0 DEF TypeOK, ConsumerState
    <3> QED
      BY <1>0, <2>6, <2>7, <3>1, <3>2 DEF ConsumerInv, Graded
  <2> QED
    BY <2>5, <2>8, <2>9, <2>10 DEF IInv
<1>8. ASSUME ConsumerFails(c)
      PROVE  IInv'
  <2>1. (consumer \in [Consumers -> ConsumerState])'
    BY <1>0, <1>8, <1>a, MaxReceivesAssumption DEF TypeOK, ConsumerFails, ConsumerState, Released, IdleConsumer
  <2>2. TypeOK'
    BY <1>0, <1>8, <2>1, GradingAssumption DEF TypeOK, ConsumerFails, Fault
  <2>3. (JudgeInv /\ VerdictInv /\ JobInv /\ StoredInv)'
    BY <1>0, <1>8 DEF JudgeInv, VerdictInv, JobInv, StoredInv, ConsumerFails, Graded
  <2>4. ConsumerInv'
    BY <1>0, <1>a, <1>8 DEF TypeOK, ConsumerInv, ConsumerFails, ConsumerState, Graded, Released, IdleConsumer
  <2> QED
    BY <2>2, <2>3, <2>4 DEF IInv
<1>9. ASSUME ConsumerStops(c)
      PROVE  IInv'
  <2>1. (consumer \in [Consumers -> ConsumerState])'
    BY <1>0, <1>9, MaxReceivesAssumption DEF TypeOK, ConsumerStops, ConsumerState, IdleConsumer
  <2>2. TypeOK'
    BY <1>0, <1>9, <2>1, GradingAssumption DEF TypeOK, ConsumerStops, Fault
  <2>3. (JudgeInv /\ VerdictInv /\ JobInv /\ StoredInv)'
    BY <1>0, <1>9 DEF JudgeInv, VerdictInv, JobInv, StoredInv, ConsumerStops, Graded
  <2>4. ConsumerInv'
    BY <1>0, <1>a, <1>9 DEF TypeOK, ConsumerInv, ConsumerStops, ConsumerState, Graded, IdleConsumer
  <2> QED
    BY <2>2, <2>3, <2>4 DEF IInv
<1>10. ASSUME ConsumerEnds(c)
      PROVE  IInv'
  <2>1. (consumer \in [Consumers -> ConsumerState])'
    <3>1. EndedConsumer \in ConsumerState
      BY MaxReceivesAssumption DEF EndedConsumer, IdleConsumer, ConsumerState
    <3>2. consumer' = [consumer EXCEPT ![c] = EndedConsumer]
      BY <1>10 DEF ConsumerEnds
    <3> QED
      BY <1>0, <3>1, <3>2 DEF TypeOK
  <2>2. TypeOK'
    BY <1>0, <1>10, <2>1, GradingAssumption DEF TypeOK, ConsumerEnds, Fault
  <2>3. (JudgeInv /\ VerdictInv /\ JobInv /\ StoredInv)'
    BY <1>0, <1>10 DEF JudgeInv, VerdictInv, JobInv, StoredInv, ConsumerEnds, Graded
  <2>4. ConsumerInv'
    BY <1>0, <1>a, <1>10 DEF TypeOK, ConsumerInv, ConsumerEnds, ConsumerState, Graded, IdleConsumer, EndedConsumer
  <2> QED
    BY <2>2, <2>3, <2>4 DEF IInv
<1> QED
  BY <1>1, <1>2, <1>3, <1>4, <1>5, <1>6, <1>7, <1>8, <1>9,
     <1>10 DEF ConsumerStep

LEMMA QueueStepInv ==
  ASSUME IInv, QueueStep
  PROVE  IInv'
<1> USE DEF database, queues
<1>0. /\ TypeOK /\ StoredInv /\ JudgeInv /\ ConsumerInv /\ VerdictInv /\ JobInv
  BY DEF IInv
<1>1. ASSUME NEW s \in Submissions, JobTimeout(s) \/ DeadLetterJob(s)
      PROVE  IInv'
  <2>1. PICK x \in {"visible", "dead"} :
          /\ jobs' = [jobs EXCEPT ![s] = [jobs[s] EXCEPT !.state = x]]
          /\ jobs[s].state \in {"visible", "inflight"}
    BY <1>1 DEF JobTimeout, DeadLetterJob, TimedOut, DeadLettered, Exhausted
  <2>2. /\ UNCHANGED <<database, signals, verdicts, body, api, judge, consumer>>
        /\ faults' \in 0..MaxFaults
    BY <1>0, <1>1, GradingAssumption DEF TypeOK, JobTimeout, DeadLetterJob, Fault
  <2>3. (jobs \in [Submissions -> Message])'
    BY <1>0, <2>1 DEF TypeOK, Message
  <2>4. TypeOK'
    BY <1>0, <2>2, <2>3 DEF TypeOK
  <2>5. \A t \in Submissions : /\ jobs'[t].state # "unsent" <=> jobs[t].state # "unsent"
                               /\ jobs'[t].state = "deleted" => jobs[t].state = "deleted"
    BY <1>0, <2>1 DEF TypeOK, Message
  <2>6. (JudgeInv /\ ConsumerInv /\ VerdictInv)'
    BY <1>0, <2>2 DEF JudgeInv, ConsumerInv, VerdictInv, Graded
  <2>7. (JobInv /\ StoredInv)'
    BY <1>0, <2>2, <2>5 DEF JobInv, StoredInv
  <2> QED
    BY <2>4, <2>6, <2>7 DEF IInv
<1>2. ASSUME NEW id \in VerdictIds, VerdictTimeout(id) \/ DeadLetterVerdict(id)
      PROVE  IInv'
  <2>1. PICK x \in {"visible", "dead"} :
          /\ verdicts' = [verdicts EXCEPT ![id] = [verdicts[id] EXCEPT !.state = x]]
          /\ verdicts[id].state \in {"visible", "inflight"}
    BY <1>2 DEF VerdictTimeout, DeadLetterVerdict, TimedOut, DeadLettered, Exhausted
  <2>2. /\ UNCHANGED <<database, signals, jobs, body, api, judge, consumer>>
        /\ faults' \in 0..MaxFaults
    BY <1>0, <1>2, GradingAssumption DEF TypeOK, VerdictTimeout, DeadLetterVerdict, Fault
  <2>3. (verdicts \in [VerdictIds -> Message])'
    BY <1>0, <2>1 DEF TypeOK, Message
  <2>4. TypeOK'
    BY <1>0, <2>2, <2>3 DEF TypeOK
  <2>5. \A i \in VerdictIds : /\ verdicts'[i].state # "unsent" <=> verdicts[i].state # "unsent"
                              /\ verdicts'[i].state = "deleted" => verdicts[i].state = "deleted"
    BY <1>0, <2>1 DEF TypeOK, Message
  <2>6. (JudgeInv /\ JobInv /\ StoredInv)'
    BY <1>0, <2>2, <2>5 DEF JudgeInv, JobInv, StoredInv, VerdictIds
  <2>7. VerdictInv'
    BY <1>0, <2>2, <2>5 DEF VerdictInv, Graded
  <2>8. ConsumerInv'
    <3>1. \A k \in Consumers : \A d \in consumer[k].held : d[1] \in VerdictIds
      BY <1>0 DEF TypeOK, ConsumerState
    <3> QED
      BY <1>0, <2>2, <2>5, <3>1 DEF ConsumerInv, Graded
  <2> QED
    BY <2>4, <2>6, <2>7, <2>8 DEF IInv
<1> QED
  BY <1>1, <1>2 DEF QueueStep

-----------------------------------------------------------------------------
LEMMA NextInv == IInv /\ [Next]_vars => IInv'
<1> SUFFICES ASSUME IInv, [Next]_vars PROVE IInv'
  OBVIOUS
<1>1. CASE UNCHANGED vars
  BY <1>1 DEF vars, database, queues, IInv, TypeOK, StoredInv, JudgeInv, ConsumerInv,
              VerdictInv, JobInv, Graded
<1>2. CASE Quiescent
  BY <1>1, <1>2 DEF Quiescent
<1> QED
  BY <1>1, <1>2, ApiStepInv, JudgeStepInv, ConsumerStepInv, QueueStepInv DEF Next

\* Every reachable state is well typed, whatever fails and however messages
\* are delivered.
THEOREM TypeCorrect == Spec => []TypeOK
<1>1. IInv => TypeOK
  BY DEF IInv
<1> QED
  BY <1>1, InitInv, NextInv, PTL DEF Spec

\* The queues lose no submission: a deleted job is graded, or one of its
\* verdicts is still queued or in the dead-letter queue.
THEOREM NoSubmissionLost == Spec => []NothingLost
<1>1. IInv => NothingLost
  <2> SUFFICES ASSUME IInv, NEW s \in Submissions, jobs[s].state = "deleted", ~Graded(s)
               PROVE  \E n \in Runs : verdicts[<<s, n>>].state \in {"visible", "inflight", "dead"}
    BY DEF NothingLost
  <2>1. PICK n \in Runs : verdicts[<<s, n>>].state # "unsent"
    BY DEF IInv, JobInv
  <2>2. <<s, n>> \in VerdictIds
    BY DEF VerdictIds
  <2>3. verdicts[<<s, n>>].state # "deleted"
    BY <2>2 DEF IInv, VerdictInv
  <2>4. verdicts[<<s, n>>] \in Message
    BY <2>2 DEF IInv, TypeOK
  <2> QED
    BY <2>1, <2>3, <2>4 DEF Message
<1> QED
  BY <1>1, InitInv, NextInv, PTL DEF Spec

-----------------------------------------------------------------------------
(* Every run of a job is a delivery of its own: two judges never send a    *)
(* verdict under the same number, so the report of a run, once sent, stays. *)

DeliveryInv ==
  /\ \A s \in Submissions : api[s].pc \in {"idle", "committed"} => jobs[s] = Unsent
  /\ \A j \in Judges : judge[j].pc # "idle" => judge[j].receipt <= jobs[judge[j].sub].receives
  /\ \A j, k \in Judges :
       (judge[j].pc # "idle" /\ judge[k].pc # "idle" /\ judge[j].sub = judge[k].sub
          /\ judge[j].receipt = judge[k].receipt) => j = k
  /\ \A s \in Submissions, n \in Runs :
       n > jobs[s].receives => verdicts[<<s, n>>].state = "unsent"
  /\ \A j \in Judges : judge[j].pc = "judging" =>
       verdicts[<<judge[j].sub, judge[j].receipt>>].state = "unsent"

\* what the consumer and queue steps leave alone
ReportsKept ==
  /\ UNCHANGED <<api, judge, body, kind>>
  /\ \A id \in VerdictIds : verdicts'[id].state # "unsent" <=> verdicts[id].state # "unsent"

LEMMA ConsumerKeepsReports ==
  ASSUME IInv, NEW c \in Consumers, ConsumerStep(c)
  PROVE  ReportsKept /\ UNCHANGED jobs
<1> USE DEF database, queues
<1>0. TypeOK /\ ConsumerInv
  BY DEF IInv
<1>1. CASE ReceiveVerdicts(c)
  <2>1. PICK batch \in SUBSET {id \in VerdictIds : CanReceive(verdicts[id])} :
          verdicts' = [id \in VerdictIds |-> IF id \in batch THEN Received(verdicts[id])
                                                             ELSE verdicts[id]]
    BY <1>1 DEF ReceiveVerdicts
  <2>2. \A id \in batch : verdicts[id].state = "visible" /\ Received(verdicts[id]).state = "inflight"
    BY <2>1 DEF CanReceive, Received
  <2>3. \A id \in VerdictIds : verdicts'[id].state # "unsent" <=> verdicts[id].state # "unsent"
    BY <2>1, <2>2
  <2> QED
    BY <1>1, <2>3 DEF ReceiveVerdicts, ReportsKept
<1>2. CASE DeleteVerdict(c)
  <2> DEFINE id == consumer[c].cur
  <2>1. id \in VerdictIds /\ verdicts[id] \in Message /\ verdicts[id].state # "unsent"
    BY <1>0, <1>2 DEF TypeOK, ConsumerInv, DeleteVerdict
  <2>2. PICK m \in AfterDelete(verdicts[id], consumer[c].receipt) :
          verdicts' = [verdicts EXCEPT ![id] = m]
    BY <1>2 DEF DeleteVerdict
  <2>3. m.state # "unsent"
    BY <2>1, <2>2 DEF AfterDelete, Message
  <2>4. \A i \in VerdictIds : verdicts'[i].state # "unsent" <=> verdicts[i].state # "unsent"
    BY <1>0, <2>1, <2>2, <2>3 DEF TypeOK
  <2> QED
    BY <1>2, <2>4 DEF DeleteVerdict, ReportsKept
<1>3. CASE \/ \E d \in consumer[c].held : LoadSubmission(c, d)
           \/ PersistVerdict(c) \/ ConsumerReadSeq(c) \/ ConsumerInsertEvent(c)
           \/ SignalDifficulty(c) \/ ConsumerFails(c) \/ ConsumerEnds(c) \/ ConsumerStops(c)
  BY <1>3 DEF LoadSubmission, PersistVerdict, ConsumerReadSeq, ConsumerInsertEvent,
              SignalDifficulty, ConsumerFails, ConsumerEnds, ConsumerStops, ReportsKept
<1> QED
  BY <1>1, <1>2, <1>3 DEF ConsumerStep

LEMMA QueueKeepsReports ==
  ASSUME IInv, QueueStep
  PROVE  /\ ReportsKept /\ UNCHANGED <<database, signals, consumer>>
         /\ \A s \in Submissions : /\ jobs'[s].receives = jobs[s].receives
                                   /\ jobs[s] = Unsent => jobs'[s] = jobs[s]
<1> USE DEF database, queues
<1>0. TypeOK
  BY DEF IInv
<1>1. ASSUME NEW s \in Submissions, JobTimeout(s) \/ DeadLetterJob(s)
      PROVE  /\ ReportsKept /\ UNCHANGED <<database, signals, consumer>>
             /\ \A t \in Submissions : /\ jobs'[t].receives = jobs[t].receives
                                       /\ jobs[t] = Unsent => jobs'[t] = jobs[t]
  <2>1. PICK x \in {"visible", "dead"} :
          /\ jobs' = [jobs EXCEPT ![s] = [jobs[s] EXCEPT !.state = x]]
          /\ jobs[s].state \in {"visible", "inflight"}
    BY <1>1 DEF JobTimeout, DeadLetterJob, TimedOut, DeadLettered, Exhausted
  <2>2. UNCHANGED <<database, signals, consumer>> /\ ReportsKept
    BY <1>1 DEF JobTimeout, DeadLetterJob, ReportsKept
  <2>3. jobs[s] # Unsent
    BY <2>1 DEF Unsent
  <2> QED
    BY <1>0, <2>1, <2>2, <2>3 DEF TypeOK, Message
<1>2. ASSUME NEW id \in VerdictIds, VerdictTimeout(id) \/ DeadLetterVerdict(id)
      PROVE  ReportsKept /\ UNCHANGED <<database, signals, consumer, jobs>>
  <2>1. PICK x \in {"visible", "dead"} :
          /\ verdicts' = [verdicts EXCEPT ![id] = [verdicts[id] EXCEPT !.state = x]]
          /\ verdicts[id].state \in {"visible", "inflight"}
    BY <1>2 DEF VerdictTimeout, DeadLetterVerdict, TimedOut, DeadLettered, Exhausted
  <2>2. UNCHANGED <<database, signals, consumer, jobs, api, judge, body>>
    BY <1>2 DEF VerdictTimeout, DeadLetterVerdict
  <2> QED
    BY <1>0, <2>1, <2>2 DEF TypeOK, Message, ReportsKept
<1> QED
  BY <1>1, <1>2 DEF QueueStep

LEMMA DeliveryNext == ASSUME IInv, DeliveryInv, Next PROVE DeliveryInv'
<1> USE DEF database, queues
<1>0. TypeOK /\ JudgeInv /\ StoredInv
  BY DEF IInv
<1>1. \A s \in Submissions : jobs[s] \in Message /\ api[s] \in ApiState
  BY <1>0 DEF TypeOK
<1>2. \A j \in Judges : judge[j].pc # "idle" =>
        /\ judge[j].sub \in Submissions /\ judge[j].receipt \in Runs
        /\ judge[j].receipt \in Nat /\ judge[j].receipt > 0
        /\ jobs[judge[j].sub] # Unsent
  <2> SUFFICES ASSUME NEW j \in Judges, judge[j].pc # "idle"
               PROVE  /\ judge[j].sub \in Submissions /\ judge[j].receipt \in Runs
                      /\ judge[j].receipt \in Nat /\ judge[j].receipt > 0
                      /\ jobs[judge[j].sub] # Unsent
    OBVIOUS
  <2>1. judge[j].sub \in Submissions /\ judge[j].receipt \in Runs
    BY <1>0 DEF JudgeInv
  <2>2. judge[j].receipt \in Nat /\ judge[j].receipt > 0
    BY <2>1, MaxReceivesAssumption DEF Runs
  <2>3. judge[j].receipt <= jobs[judge[j].sub].receives
    BY DEF DeliveryInv
  <2>4. jobs[judge[j].sub].receives # 0
    BY <1>1, <2>1, <2>2, <2>3 DEF Message
  <2> QED
    BY <2>1, <2>2, <2>4 DEF Unsent
<1>3. ASSUME NEW s \in Submissions, ApiStep(s)
      PROVE  DeliveryInv'
  <2>1. CASE SendJob(s)
    <3>1. /\ jobs' = [jobs EXCEPT ![s] = Sent] /\ api' = [api EXCEPT ![s].pc = "sent"]
          /\ UNCHANGED <<judge, verdicts>> /\ jobs[s] = Unsent
      BY <2>1 DEF SendJob, DeliveryInv
    <3>2. \A t \in Submissions : jobs'[t].receives = jobs[t].receives
      BY <1>0, <3>1 DEF TypeOK, Sent, Unsent
    <3>3. \A t \in Submissions : api'[t].pc \in {"idle", "committed"} =>
            api[t].pc \in {"idle", "committed"} /\ t # s
      BY <1>0, <3>1 DEF TypeOK, ApiState
    <3> QED
      BY <1>0, <1>2, <3>1, <3>2, <3>3 DEF DeliveryInv, TypeOK
  <2>2. CASE ~SendJob(s)
    <3>1. /\ UNCHANGED <<jobs, judge, verdicts>>
          /\ \E x \in ApiState : /\ api' = [api EXCEPT ![s] = x]
                                 /\ x.pc \in {"idle", "committed"}
                                      => api[s].pc \in {"idle", "committed"}
      <4>1. CASE \E mode \in {"submit", "run"} : CreateSubmission(s, mode)
        <5>1. api' = [api EXCEPT ![s] = [api[s] EXCEPT !.pc = "committed"]]
              /\ api[s].pc = "idle" /\ UNCHANGED <<jobs, judge, verdicts>>
          BY <1>0, <4>1 DEF CreateSubmission, TypeOK
        <5> QED
          BY <1>1, <5>1 DEF ApiState
      <4>2. CASE ApiReadSeq(s)
        <5>1. Len(events) + 1 \in Nat
          BY <1>0, LenProperties DEF TypeOK
        <5>2. [pc |-> "insert", seq |-> Len(events) + 1] \in ApiState
          BY <5>1 DEF ApiState
        <5> QED
          BY <4>2, <5>2 DEF ApiReadSeq
      <4>3. CASE ApiInsertEvent(s)
        <5>1. /\ [pc |-> "done", seq |-> 0] \in ApiState
              /\ [pc |-> "failed", seq |-> 0] \in ApiState
          BY DEF ApiState
        <5>2. /\ \E x \in {"done", "failed"} : api' = [api EXCEPT ![s] = [pc |-> x, seq |-> 0]]
              /\ UNCHANGED <<jobs, judge, verdicts>>
          BY <4>3 DEF ApiInsertEvent
        <5> QED
          BY <5>1, <5>2
      <4>4. CASE ApiFails(s)
        <5>1. [pc |-> "failed", seq |-> 0] \in ApiState
          BY DEF ApiState
        <5> QED
          BY <4>4, <5>1 DEF ApiFails
      <4> QED
        BY <1>3, <2>2, <4>1, <4>2, <4>3, <4>4 DEF ApiStep
    <3>2. \A t \in Submissions : api'[t].pc \in {"idle", "committed"} =>
            api[t].pc \in {"idle", "committed"}
      BY <1>0, <3>1 DEF TypeOK
    <3> QED
      BY <3>1, <3>2 DEF DeliveryInv
  <2> QED
    BY <2>1, <2>2
<1>4. ASSUME NEW j \in Judges, JudgeStep(j)
      PROVE  DeliveryInv'
  <2>1. ASSUME NEW s \in Submissions, ReceiveJob(j, s)
        PROVE  DeliveryInv'
    <3> DEFINE n == jobs[s].receives + 1
    <3>1. /\ judge' = [judge EXCEPT ![j] = [pc |-> "judging", sub |-> s, receipt |-> n]]
          /\ jobs' = [jobs EXCEPT ![s] = Received(jobs[s])]
          /\ jobs[s].state = "visible" /\ n <= MaxReceives
          /\ judge[j].pc = "idle" /\ UNCHANGED <<api, verdicts>>
      BY <1>1, <2>1, MaxReceivesAssumption DEF ReceiveJob, CanReceive, Message
    <3>2. /\ \A t \in Submissions : jobs'[t].receives = IF t = s THEN n ELSE jobs[t].receives
          /\ \A t \in Submissions : t # s => jobs'[t] = jobs[t]
      BY <1>0, <3>1 DEF TypeOK, Received
    <3>3. /\ judge'[j].pc = "judging" /\ judge'[j].sub = s /\ judge'[j].receipt = n
          /\ \A k \in Judges : k # j => judge'[k] = judge[k]
      BY <1>0, <3>1 DEF TypeOK
    <3>4. n \in Runs /\ n \in Nat /\ n > jobs[s].receives /\ jobs[s] # Unsent
          /\ \A t \in Submissions : jobs[t].receives \in Nat
      BY <1>1, <3>1, MaxReceivesAssumption DEF Message, Runs, Unsent
    <3> HIDE DEF n
    <3>5. \A t \in Submissions : api'[t].pc \in {"idle", "committed"} => jobs'[t] = Unsent
      BY <3>1, <3>2, <3>4 DEF DeliveryInv
    <3>6. \A k \in Judges : judge'[k].pc # "idle" => judge'[k].receipt <= jobs'[judge'[k].sub].receives
      BY <1>2, <3>2, <3>3, <3>4 DEF DeliveryInv
    <3>7. \A k, l \in Judges :
            (judge'[k].pc # "idle" /\ judge'[l].pc # "idle" /\ judge'[k].sub = judge'[l].sub
               /\ judge'[k].receipt = judge'[l].receipt) => k = l
      BY <1>2, <3>2, <3>3, <3>4 DEF DeliveryInv
    <3>8. \A t \in Submissions, i \in Runs :
            i > jobs'[t].receives => verdicts'[<<t, i>>].state = "unsent"
      BY <3>1, <3>2, <3>4 DEF DeliveryInv, Runs
    <3>9. \A k \in Judges : judge'[k].pc = "judging" =>
            verdicts'[<<judge'[k].sub, judge'[k].receipt>>].state = "unsent"
      <4>1. verdicts[<<s, n>>].state = "unsent"
        BY <3>4 DEF DeliveryInv
      <4> QED
        BY <3>1, <3>3, <4>1 DEF DeliveryInv
    <3> QED
      BY <3>5, <3>6, <3>7, <3>8, <3>9 DEF DeliveryInv
  <2>2. CASE SendVerdict(j)
    <3> DEFINE s  == judge[j].sub
               id == <<s, judge[j].receipt>>
    <3>1. /\ judge[j].pc = "judging" /\ judge' = [judge EXCEPT ![j].pc = "sent"]
          /\ verdicts' = [verdicts EXCEPT ![id] = Sent] /\ UNCHANGED <<api, jobs>>
      BY <2>2 DEF SendVerdict
    <3>2. id \in VerdictIds /\ s \in Submissions
      BY <1>2, <3>1 DEF VerdictIds
    <3>3. \A k \in Judges : /\ judge'[k].sub = judge[k].sub /\ judge'[k].receipt = judge[k].receipt
                            /\ judge'[k].pc = IF k = j THEN "sent" ELSE judge[k].pc
      BY <1>0, <3>1 DEF TypeOK, JudgeState
    <3>4. \A i \in VerdictIds : i # id => verdicts'[i] = verdicts[i]
      BY <1>0, <3>1, <3>2 DEF TypeOK
    <3>5. \A t \in Submissions, i \in Runs :
            i > jobs'[t].receives => verdicts'[<<t, i>>].state = "unsent"
      <4> SUFFICES ASSUME NEW t \in Submissions, NEW i \in Runs, i > jobs'[t].receives
                   PROVE  verdicts'[<<t, i>>].state = "unsent"
        OBVIOUS
      <4>1. <<t, i>> \in VerdictIds
        BY DEF VerdictIds
      <4>2. judge[j].receipt <= jobs[s].receives /\ jobs[s].receives \in Nat
            /\ judge[j].receipt \in Nat
        BY <1>1, <1>2, <3>1, <3>2 DEF DeliveryInv, Message
      <4>3. <<t, i>> # id
        BY <3>1, <4>2 DEF Runs
      <4> QED
        BY <3>1, <3>4, <4>1, <4>3 DEF DeliveryInv
    <3>6. \A k \in Judges : judge'[k].pc = "judging" =>
            verdicts'[<<judge'[k].sub, judge'[k].receipt>>].state = "unsent"
      <4> SUFFICES ASSUME NEW k \in Judges, judge'[k].pc = "judging"
                   PROVE  verdicts'[<<judge'[k].sub, judge'[k].receipt>>].state = "unsent"
        OBVIOUS
      <4>1. k # j /\ judge[k].pc = "judging" /\ <<judge[k].sub, judge[k].receipt>> \in VerdictIds
        BY <1>2, <3>3 DEF VerdictIds
      <4>2. <<judge[k].sub, judge[k].receipt>> # id
        BY <3>1, <4>1 DEF DeliveryInv
      <4> QED
        BY <3>3, <3>4, <4>1, <4>2 DEF DeliveryInv
    <3> QED
      BY <3>1, <3>3, <3>5, <3>6 DEF DeliveryInv
  <2>3. CASE DeleteJob(j) \/ JudgeFails(j)
    <3> DEFINE s == judge[j].sub
    <3>1. /\ judge[j].pc # "idle" /\ judge' = [judge EXCEPT ![j] = IdleJudge]
          /\ UNCHANGED <<api, verdicts>>
      BY <2>3 DEF DeleteJob, JudgeFails
    <3>2. s \in Submissions /\ jobs[s] # Unsent
      BY <1>2, <3>1
    <3>3. \A t \in Submissions : /\ jobs'[t].receives = jobs[t].receives
                                 /\ t # s => jobs'[t] = jobs[t]
      <4>1. CASE DeleteJob(j)
        <5>1. PICK m \in AfterDelete(jobs[s], judge[j].receipt) : jobs' = [jobs EXCEPT ![s] = m]
          BY <4>1 DEF DeleteJob
        <5>2. m.receives = jobs[s].receives
          BY <1>1, <3>2, <5>1 DEF AfterDelete, Message
        <5> QED
          BY <1>0, <3>2, <5>1, <5>2 DEF TypeOK
      <4>2. CASE JudgeFails(j)
        BY <4>2 DEF JudgeFails
      <4> QED
        BY <2>3, <4>1, <4>2
    <3>4. /\ judge'[j].pc = "idle"
          /\ \A k \in Judges : k # j => judge'[k] = judge[k]
      BY <1>0, <3>1 DEF TypeOK, IdleJudge
    <3> QED
      BY <1>2, <3>1, <3>2, <3>3, <3>4 DEF DeliveryInv
  <2> QED
    BY <1>4, <2>1, <2>2, <2>3 DEF JudgeStep
<1>5. ASSUME ReportsKept,
             \A s \in Submissions : /\ jobs'[s].receives = jobs[s].receives
                                    /\ jobs[s] = Unsent => jobs'[s] = jobs[s]
      PROVE  DeliveryInv'
  <2>1. UNCHANGED <<api, judge>>
        /\ \A s \in Submissions, n \in Runs :
             verdicts[<<s, n>>].state = "unsent" => verdicts'[<<s, n>>].state = "unsent"
    BY <1>5 DEF ReportsKept, VerdictIds
  <2> QED
    BY <1>2, <1>5, <2>1 DEF DeliveryInv
<1>6. CASE Quiescent
  BY <1>6 DEF Quiescent, vars, DeliveryInv
<1> QED
  BY <1>3, <1>4, <1>5, <1>6, ConsumerKeepsReports, QueueKeepsReports DEF Next

-----------------------------------------------------------------------------
(* One consumer: between its look at a submission and its commit nobody    *)
(* else grades that submission.                                            *)

OneConsumer == \A c, d \in Consumers : c = d

StoredAs(s, r) == status[s] = r.status /\ summary[s] = SummaryOf(r) /\ rows[s] = r.cases
NoRows == [o \in Ordinals |-> "none"]

\* a row without a result is empty, one with a result holds one report that was
\* sent, and the consumer is about to grade only what is not graded
ResultInv ==
  /\ \A s \in Submissions : ~Graded(s) => summary[s] = None /\ rows[s] = NoRows
  /\ \A s \in Submissions : Graded(s) =>
       \E n \in Runs : verdicts[<<s, n>>].state # "unsent" /\ StoredAs(s, body[<<s, n>>])
  /\ \A c \in Consumers : consumer[c].pc = "persist" => ~Graded(consumer[c].cur[1])
  /\ \A c \in Consumers : consumer[c].pc \in {"persisted", "insert"} =>
       summary[consumer[c].cur[1]] = SummaryOf(body[consumer[c].cur])

\* an event is written once, a verdict's says what is stored, and the consumer
\* has written none and signalled nothing before it gets there
LogInv ==
  /\ \A i, j \in DOMAIN events :
       (events[i].type = events[j].type /\ events[i].sub = events[j].sub) => i = j
  /\ \A i \in DOMAIN events : events[i].type = "verdict" =>
       Graded(events[i].sub) /\ events[i].summary = summary[events[i].sub]
  /\ \A s \in Submissions : Logged("submission", s) => api[s].pc = "done"
  /\ \A c \in Consumers : consumer[c].pc \in {"persisted", "insert"} =>
       ~Logged("verdict", consumer[c].cur[1])
  /\ \A s \in Submissions : signals[s] = 0 \/ (signals[s] = 1 /\ Logged("verdict", s))
  /\ \A c \in Consumers : consumer[c].pc = "signal" =>
       signals[consumer[c].cur[1]] = 0 /\ Logged("verdict", consumer[c].cur[1])

SoleInv == IInv /\ DeliveryInv /\ ResultInv /\ LogInv

\* a step that grades nothing and changes no report keeps the results
LEMMA ResultFrame ==
  ASSUME TypeOK, ResultInv,
         UNCHANGED <<summary, rows>>,
         \A s \in Submissions : Graded(s) <=> Graded(s)',
         \A s \in Submissions : Graded(s) => status'[s] = status[s],
         \A id \in VerdictIds : verdicts[id].state # "unsent" =>
           verdicts'[id].state # "unsent" /\ body'[id] = body[id],
         \A c \in Consumers : consumer'[c].pc = "persist" =>
           consumer'[c].cur[1] \in Submissions /\ ~Graded(consumer'[c].cur[1]),
         \A c \in Consumers : consumer'[c].pc \in {"persisted", "insert"} =>
           /\ consumer[c].pc \in {"persisted", "insert"} /\ consumer'[c].cur = consumer[c].cur
           /\ consumer[c].cur \in VerdictIds /\ verdicts[consumer[c].cur].state # "unsent"
  PROVE  ResultInv'
<1>1. \A s \in Submissions : ~Graded(s)' => summary'[s] = None /\ rows'[s] = NoRows
  BY DEF ResultInv
<1>2. \A s \in Submissions : Graded(s)' =>
        \E n \in Runs : verdicts'[<<s, n>>].state # "unsent" /\ StoredAs(s, body[<<s, n>>])'
  <2> SUFFICES ASSUME NEW s \in Submissions, Graded(s)
               PROVE  \E n \in Runs : verdicts'[<<s, n>>].state # "unsent"
                                      /\ StoredAs(s, body[<<s, n>>])'
    OBVIOUS
  <2>1. PICK n \in Runs : verdicts[<<s, n>>].state # "unsent" /\ StoredAs(s, body[<<s, n>>])
    BY DEF ResultInv
  <2>2. <<s, n>> \in VerdictIds
    BY DEF VerdictIds
  <2> QED
    BY <2>1, <2>2 DEF StoredAs
<1>3. \A c \in Consumers : consumer'[c].pc = "persist" => ~Graded(consumer[c].cur[1])'
  BY DEF Graded
<1>4. \A c \in Consumers : consumer'[c].pc \in {"persisted", "insert"} =>
        summary'[consumer'[c].cur[1]] = SummaryOf(body'[consumer'[c].cur])
  BY DEF ResultInv
<1> QED
  BY <1>1, <1>2, <1>3, <1>4 DEF ResultInv, NoRows

\* a step that writes no event keeps the log's agreement
LEMMA LogFrame ==
  ASSUME TypeOK, LogInv,
         UNCHANGED <<events, signals>>,
         \A s \in Submissions : Graded(s) => Graded(s)' /\ summary'[s] = summary[s],
         \A s \in Submissions : Logged("submission", s) => api'[s].pc = "done",
         \A c \in Consumers : consumer'[c].pc \in {"persisted", "insert"} =>
           ~Logged("verdict", consumer'[c].cur[1]),
         \A c \in Consumers : consumer'[c].pc = "signal" =>
           consumer[c].pc = "signal" /\ consumer'[c].cur = consumer[c].cur
  PROVE  LogInv'
<1>1. \A i \in DOMAIN events : events[i].sub \in Submissions
  <2>1. \A i \in DOMAIN events : events[i] \in EventRow
    BY DEF TypeOK
  <2> QED
    BY <2>1 DEF EventRow
<1>2. \A ty, s : Logged(ty, s)' <=> Logged(ty, s)
  BY DEF Logged
<1>3. \A i \in DOMAIN events' : events'[i].type = "verdict" =>
        Graded(events[i].sub)' /\ events'[i].summary = summary'[events'[i].sub]
  BY <1>1 DEF LogInv, Graded
<1> QED
  BY <1>2, <1>3 DEF LogInv, Graded, Logged

\* what one new row makes of the log
LEMMA LogGrows ==
  ASSUME TypeOK, LogInv, NEW e \in EventRow, events' = Append(events, e),
         ~Logged(e.type, e.sub), UNCHANGED <<status, summary>>,
         e.type = "verdict" => Graded(e.sub) /\ e.summary = summary[e.sub]
  PROVE  /\ \A i, j \in DOMAIN events' :
              (events'[i].type = events'[j].type /\ events'[i].sub = events'[j].sub) => i = j
         /\ \A i \in DOMAIN events' : events'[i].type = "verdict" =>
              Graded(events[i].sub)' /\ events'[i].summary = summary'[events'[i].sub]
         /\ \A ty, s : Logged(ty, s)' <=> Logged(ty, s) \/ (ty = e.type /\ s = e.sub)
<1> DEFINE n == Len(events)
<1>1. /\ events \in Seq(EventRow) /\ n \in Nat /\ DOMAIN events = 1..n
      /\ DOMAIN events' = 1..(n + 1)
      /\ \A i \in 1..n : events'[i] = events[i]
      /\ events'[n + 1] = e
  BY AppendProperties, LenProperties DEF TypeOK
<1> HIDE DEF n
<1>2. \A i \in DOMAIN events : events[i].type # e.type \/ events[i].sub # e.sub
  BY DEF Logged
<1>3. \A i \in DOMAIN events' : i \in DOMAIN events \/ i = n + 1
  BY <1>1
<1>4. \A i, j \in DOMAIN events' :
        (events'[i].type = events'[j].type /\ events'[i].sub = events'[j].sub) => i = j
  BY <1>1, <1>2, <1>3 DEF LogInv
<1>5. \A i \in DOMAIN events' : events'[i].type = "verdict" =>
        Graded(events[i].sub)' /\ events'[i].summary = summary'[events'[i].sub]
  BY <1>1, <1>3 DEF LogInv, Graded
<1>6. \A ty, s : Logged(ty, s)' <=> Logged(ty, s) \/ (ty = e.type /\ s = e.sub)
  <2>1. \A i \in DOMAIN events : i \in DOMAIN events' /\ events'[i] = events[i]
    BY <1>1
  <2>2. n + 1 \in DOMAIN events'
    BY <1>1
  <2> QED
    BY <1>1, <1>3, <2>1, <2>2 DEF Logged
<1> QED
  BY <1>4, <1>5, <1>6

LEMMA SoleInit == Init => SoleInv
<1> SUFFICES ASSUME Init PROVE SoleInv
  OBVIOUS
<1>1. TypeOK
  BY InitInv DEF IInv
<1>2. DeliveryInv
  BY DEF Init, DeliveryInv, Unsent, IdleJudge, VerdictIds
<1>3. ResultInv
  BY GradingAssumption DEF Init, ResultInv, Graded, Terminal, NoRows, IdleConsumer
<1>4. LogInv
  BY DEF Init, LogInv, Logged, IdleConsumer
<1> QED
  BY <1>2, <1>3, <1>4, InitInv DEF SoleInv

LEMMA ApiStepSole ==
  ASSUME SoleInv, NEW s \in Submissions, ApiStep(s)
  PROVE  ResultInv' /\ LogInv'
<1> USE DEF database, queues
<1>0. /\ TypeOK /\ StoredInv /\ ConsumerInv /\ ResultInv /\ LogInv
  BY DEF SoleInv, IInv
<1>1. /\ UNCHANGED <<summary, rows, signals, verdicts, body, consumer>>
      /\ \A t \in Submissions : /\ Graded(t) <=> Graded(t)'
                                /\ Graded(t) => status'[t] = status[t]
  <2>1. CASE \E mode \in {"submit", "run"} : CreateSubmission(s, mode)
    <3>1. /\ status' = [status EXCEPT ![s] = "QUEUED"] /\ api[s].pc = "idle"
          /\ UNCHANGED <<summary, rows, signals, verdicts, body, consumer>>
      BY <2>1 DEF CreateSubmission
    <3>2. status[s] = None
      BY <1>0, <3>1 DEF StoredInv
    <3> QED
      BY <1>0, <3>1, <3>2, GradingAssumption DEF TypeOK, Graded, Terminal
  <2>2. CASE SendJob(s) \/ ApiReadSeq(s) \/ ApiInsertEvent(s) \/ ApiFails(s)
    BY <2>2 DEF SendJob, ApiReadSeq, ApiInsertEvent, ApiFails, Graded
  <2> QED
    BY <2>1, <2>2 DEF ApiStep
<1>2. \A c \in Consumers : consumer[c].pc \notin {"idle", "ended"} =>
        /\ consumer[c].cur \in VerdictIds /\ consumer[c].cur[1] \in Submissions
        /\ verdicts[consumer[c].cur].state # "unsent"
  BY <1>0 DEF ConsumerInv, VerdictIds
<1>3. ResultInv'
  <2>1. \A c \in Consumers : consumer'[c].pc = "persist" =>
          consumer'[c].cur[1] \in Submissions /\ ~Graded(consumer'[c].cur[1])
    BY <1>0, <1>1, <1>2 DEF ResultInv
  <2> QED
    BY <1>0, <1>1, <1>2, <2>1, ResultFrame
<1>4. LogInv'
  <2>1. CASE UNCHANGED events
    <3>1. \A t \in Submissions : Logged("submission", t) => api'[t].pc = "done"
      <4>1. api[s].pc # "done" /\ \A t \in Submissions : t # s => api'[t] = api[t]
        BY <1>0 DEF TypeOK, ApiStep, CreateSubmission, SendJob, ApiReadSeq, ApiInsertEvent, ApiFails
      <4> QED
        BY <1>0, <4>1 DEF LogInv
    <3>2. /\ \A c \in Consumers : consumer'[c].pc \in {"persisted", "insert"} =>
               ~Logged("verdict", consumer'[c].cur[1])
          /\ \A t \in Submissions : Graded(t) => Graded(t)' /\ summary'[t] = summary[t]
      BY <1>0, <1>1 DEF LogInv
    <3> QED
      BY <1>0, <1>1, <2>1, <3>1, <3>2, LogFrame
  <2>2. CASE events' # events
    <3> DEFINE e == Event("submission", s, None)
    <3>1. /\ events' = Append(events, e) /\ api[s].pc = "insert"
          /\ api' = [api EXCEPT ![s] = [pc |-> "done", seq |-> 0]] /\ UNCHANGED status
      BY <2>2 DEF ApiStep, CreateSubmission, SendJob, ApiReadSeq, ApiInsertEvent, ApiFails
    <3>2. /\ e \in EventRow /\ e.type = "submission" /\ e.sub = s
      BY DEF Event, EventRow
    <3>3. ~Logged("submission", s)
      BY <1>0, <3>1 DEF LogInv
    <3> HIDE DEF e
    <3>4. /\ \A i, j \in DOMAIN events' :
               (events'[i].type = events'[j].type /\ events'[i].sub = events'[j].sub) => i = j
          /\ \A i \in DOMAIN events' : events'[i].type = "verdict" =>
               Graded(events[i].sub)' /\ events'[i].summary = summary'[events'[i].sub]
          /\ \A ty, t : Logged(ty, t)' <=> Logged(ty, t) \/ (ty = e.type /\ t = e.sub)
      BY <1>0, <1>1, <3>1, <3>2, <3>3, LogGrows
    <3>5. \A t \in Submissions : Logged("submission", t)' => api'[t].pc = "done"
      BY <1>0, <3>1, <3>2, <3>4 DEF TypeOK, LogInv
    <3>6. \A t : Logged("verdict", t)' <=> Logged("verdict", t)
      BY <3>2, <3>4
    <3>7. /\ \A t \in Submissions : signals'[t] = 0 \/ (signals'[t] = 1 /\ Logged("verdict", t)')
          /\ \A c \in Consumers : consumer'[c].pc \in {"persisted", "insert"} =>
               ~Logged("verdict", consumer[c].cur[1])'
          /\ \A c \in Consumers : consumer'[c].pc = "signal" =>
               signals'[consumer'[c].cur[1]] = 0 /\ Logged("verdict", consumer[c].cur[1])'
      <4>1. \A c \in Consumers : Logged("verdict", consumer[c].cur[1])'
                                   <=> Logged("verdict", consumer[c].cur[1])
        BY <1>1, <3>6 DEF Logged
      <4> QED
        BY <1>0, <1>1, <3>6, <4>1 DEF LogInv
    <3> QED
      BY <3>4, <3>5, <3>7 DEF LogInv, Logged, Graded
  <2> QED
    BY <2>1, <2>2
<1> QED
  BY <1>3, <1>4

LEMMA JudgeStepSole ==
  ASSUME SoleInv, NEW j \in Judges, JudgeStep(j)
  PROVE  ResultInv' /\ LogInv'
<1> USE DEF database, queues
<1>0. /\ TypeOK /\ JudgeInv /\ ConsumerInv /\ DeliveryInv /\ ResultInv /\ LogInv
  BY DEF SoleInv, IInv
<1>1. UNCHANGED <<database, signals, api, consumer>>
  BY DEF JudgeStep, ReceiveJob, SendVerdict, DeleteJob, JudgeFails
<1>2. \A id \in VerdictIds : verdicts[id].state # "unsent" =>
        verdicts'[id].state # "unsent" /\ body'[id] = body[id]
  <2>1. CASE SendVerdict(j)
    <3> DEFINE id == <<judge[j].sub, judge[j].receipt>>
    <3>1. /\ verdicts[id].state = "unsent"
          /\ verdicts' = [verdicts EXCEPT ![id] = Sent]
          /\ \E r : body' = [body EXCEPT ![id] = r]
      BY <1>0, <2>1 DEF SendVerdict, DeliveryInv
    <3> QED
      BY <1>0, <3>1 DEF TypeOK
  <2>2. CASE \/ \E s \in Submissions : ReceiveJob(j, s)
             \/ DeleteJob(j) \/ JudgeFails(j)
    BY <2>2 DEF ReceiveJob, DeleteJob, JudgeFails
  <2> QED
    BY <2>1, <2>2 DEF JudgeStep
<1>3. \A c \in Consumers : consumer[c].pc \notin {"idle", "ended"} =>
        /\ consumer[c].cur \in VerdictIds /\ consumer[c].cur[1] \in Submissions
        /\ verdicts[consumer[c].cur].state # "unsent"
  BY <1>0 DEF ConsumerInv, VerdictIds
<1>4. \A s \in Submissions : Graded(s) <=> Graded(s)'
  BY <1>1 DEF Graded
<1>5. /\ \A c \in Consumers : consumer'[c].pc = "persist" =>
           consumer'[c].cur[1] \in Submissions /\ ~Graded(consumer'[c].cur[1])
      /\ \A c \in Consumers : consumer'[c].pc \in {"persisted", "insert"} =>
           ~Logged("verdict", consumer'[c].cur[1])
      /\ \A s \in Submissions : Logged("submission", s) => api'[s].pc = "done"
  BY <1>0, <1>1, <1>3 DEF ResultInv, LogInv
<1>6. ResultInv'
  BY <1>0, <1>1, <1>2, <1>3, <1>4, <1>5, ResultFrame
<1>7. LogInv'
  BY <1>0, <1>1, <1>4, <1>5, LogFrame
<1> QED
  BY <1>6, <1>7

\* the commit of a verdict: the row was empty, so that it holds the report now
LEMMA PersistSole ==
  ASSUME OneConsumer, SoleInv, NEW c \in Consumers, PersistVerdict(c)
  PROVE  ResultInv' /\ LogInv'
<1>0. /\ TypeOK /\ ConsumerInv /\ VerdictInv /\ ResultInv /\ LogInv
  BY DEF SoleInv, IInv
<1>a. PICK s \in Submissions, n \in Runs : consumer[c].cur = <<s, n>>
  BY <1>0 DEF PersistVerdict, ConsumerInv, VerdictIds
<1> DEFINE id == <<s, n>>
<1>1. /\ id \in VerdictIds /\ verdicts[id].state # "unsent" /\ body[id] \in Report
      /\ consumer[c].pc = "persist" /\ ~Graded(s)
  BY <1>0, <1>a DEF PersistVerdict, ConsumerInv, VerdictInv, ResultInv, VerdictIds
<1>2. /\ status' = [status EXCEPT ![s] = body[id].status]
      /\ summary' = [summary EXCEPT ![s] = SummaryOf(body[id])]
      /\ rows' = [rows EXCEPT ![s] = Upserted(s, body[id].cases)]
      /\ consumer' = [consumer EXCEPT ![c].pc = "persisted"]
      /\ UNCHANGED <<events, signals, verdicts, body, api>>
  BY <1>a DEF PersistVerdict, queues
<1>3. Upserted(s, body[id].cases) = body[id].cases
  <2>1. rows[s] = NoRows /\ body[id].cases \in [Ordinals -> CaseVerdict \cup {"none"}]
    BY <1>0, <1>1 DEF ResultInv, Report
  <2> QED
    BY <2>1 DEF Upserted, NoRows
<1>4. /\ \A k \in Consumers : k = c
      /\ consumer'[c].pc = "persisted" /\ consumer'[c].cur = id
  BY <1>0, <1>2, <1>a DEF OneConsumer, TypeOK
<1>b. body[id].status \in Terminal
  BY <1>1 DEF Report, Terminal
<1>5. /\ Graded(s)' /\ StoredAs(s, body[id])'
      /\ \A t \in Submissions : t # s => /\ Graded(t)' <=> Graded(t)
                                         /\ status'[t] = status[t] /\ summary'[t] = summary[t]
                                         /\ rows'[t] = rows[t]
  BY <1>0, <1>1, <1>2, <1>3, <1>b DEF TypeOK, Graded, StoredAs
<1>6. ResultInv'
  <2>1. \A t \in Submissions : ~Graded(t)' => summary'[t] = None /\ rows'[t] = NoRows
    BY <1>0, <1>5 DEF ResultInv
  <2>2. ASSUME NEW t \in Submissions, Graded(t)'
        PROVE  \E m \in Runs : verdicts'[<<t, m>>].state # "unsent" /\ StoredAs(t, body[<<t, m>>])'
    <3>1. CASE t = s
      BY <1>1, <1>2, <1>5, <3>1 DEF StoredAs
    <3>2. CASE t # s
      <4>1. PICK m \in Runs : verdicts[<<t, m>>].state # "unsent" /\ StoredAs(t, body[<<t, m>>])
        BY <1>0, <1>5, <2>2, <3>2 DEF ResultInv
      <4> QED
        BY <1>2, <1>5, <3>2, <4>1 DEF StoredAs
    <3> QED
      BY <3>1, <3>2
  <2>3. \A k \in Consumers : consumer'[k].pc \in {"persisted", "insert"} =>
          summary'[consumer'[k].cur[1]] = SummaryOf(body'[consumer'[k].cur])
    BY <1>2, <1>4, <1>5 DEF StoredAs
  <2> QED
    BY <1>4, <2>1, <2>2, <2>3 DEF ResultInv, NoRows
<1>7. LogInv'
  <2>1. \A i \in DOMAIN events : events[i].sub \in Submissions
    <3>1. \A i \in DOMAIN events : events[i] \in EventRow
      BY <1>0 DEF TypeOK
    <3> QED
      BY <3>1 DEF EventRow
  <2>2. ~Logged("verdict", s)
    BY <1>0, <1>1, <2>1 DEF LogInv, Logged
  <2>3. \A t \in Submissions : Graded(t) => Graded(t)' /\ summary'[t] = summary[t]
    BY <1>1, <1>5
  <2>4. /\ \A t \in Submissions : Logged("submission", t) => api'[t].pc = "done"
        /\ \A k \in Consumers : consumer'[k].pc \in {"persisted", "insert"} =>
             ~Logged("verdict", consumer'[k].cur[1])
        /\ \A k \in Consumers : consumer'[k].pc # "signal"
    BY <1>0, <1>2, <1>4, <2>2 DEF LogInv
  <2> QED
    BY <1>0, <1>2, <2>3, <2>4, LogFrame
<1> QED
  BY <1>6, <1>7

LEMMA ConsumerStepSole ==
  ASSUME OneConsumer, SoleInv, NEW c \in Consumers, ConsumerStep(c)
  PROVE  ResultInv' /\ LogInv'
<1> USE DEF database, queues
<1>0. /\ TypeOK /\ ConsumerInv /\ VerdictInv /\ ResultInv /\ LogInv
  BY DEF SoleInv, IInv
<1>1. /\ UNCHANGED <<api, body>>
      /\ \A id \in VerdictIds : verdicts[id].state # "unsent" => verdicts'[id].state # "unsent"
  BY ConsumerKeepsReports DEF SoleInv, ReportsKept
<1>2. /\ \A k \in Consumers : k = c
      /\ consumer \in [Consumers -> ConsumerState] /\ consumer[c] \in ConsumerState
  BY <1>0 DEF OneConsumer, TypeOK
<1>3. consumer[c].pc \notin {"idle", "ended"} =>
        /\ consumer[c].cur \in VerdictIds /\ consumer[c].cur[1] \in Submissions
        /\ verdicts[consumer[c].cur].state # "unsent"
  BY <1>0 DEF ConsumerInv, VerdictIds
<1>4. ASSUME UNCHANGED <<status, summary, rows, events, signals>>,
             \/ consumer'[c].pc \in {"idle", "ended", "delete"}
             \/ /\ consumer'[c].pc = "persist" /\ consumer'[c].cur[1] \in Submissions
                /\ ~Graded(consumer'[c].cur[1])
             \/ /\ consumer'[c].pc = "insert" /\ consumer[c].pc = "persisted"
                /\ consumer'[c].cur = consumer[c].cur
      PROVE  ResultInv' /\ LogInv'
  <2>1. \A s \in Submissions : Graded(s) <=> Graded(s)'
    BY <1>4 DEF Graded
  <2>2. ResultInv'
    BY <1>0, <1>1, <1>2, <1>3, <1>4, <2>1, ResultFrame
  <2>3. /\ \A s \in Submissions : Logged("submission", s) => api'[s].pc = "done"
        /\ \A k \in Consumers : consumer'[k].pc \in {"persisted", "insert"} =>
             ~Logged("verdict", consumer'[k].cur[1])
    BY <1>0, <1>1, <1>2, <1>4 DEF LogInv
  <2>4. LogInv'
    BY <1>0, <1>2, <1>4, <2>1, <2>3, LogFrame
  <2> QED
    BY <2>2, <2>4
<1>5. CASE ReceiveVerdicts(c)
  <2>1. /\ consumer[c].pc = "idle" /\ \E h : consumer' = [consumer EXCEPT ![c].held = h]
        /\ UNCHANGED <<status, summary, rows, events, signals>>
    BY <1>5 DEF ReceiveVerdicts
  <2>2. consumer'[c].pc = "idle"
    BY <1>2, <2>1 DEF ConsumerState
  <2> QED
    BY <1>4, <2>1, <2>2
<1>6. ASSUME NEW d \in consumer[c].held, LoadSubmission(c, d)
      PROVE  ResultInv' /\ LogInv'
  <2>1. d[1] \in VerdictIds /\ d[1][1] \in Submissions
    BY <1>2 DEF ConsumerState, VerdictIds
  <2>2. /\ consumer'[c].pc = IF Graded(d[1][1]) THEN "delete" ELSE "persist"
        /\ consumer'[c].cur = d[1]
        /\ UNCHANGED <<status, summary, rows, events, signals>>
    BY <1>2, <1>6 DEF LoadSubmission
  <2> QED
    BY <1>4, <2>1, <2>2
<1>7. CASE ConsumerReadSeq(c)
  <2>1. /\ consumer[c].pc = "persisted" /\ consumer'[c].pc = "insert"
        /\ consumer'[c].cur = consumer[c].cur
        /\ UNCHANGED <<status, summary, rows, events, signals>>
    BY <1>2, <1>7 DEF ConsumerReadSeq, ConsumerState
  <2> QED
    BY <1>4, <2>1
<1>8. CASE DeleteVerdict(c) \/ ConsumerFails(c) \/ ConsumerEnds(c) \/ ConsumerStops(c)
  <2>1. UNCHANGED <<status, summary, rows, events, signals>>
    BY <1>8 DEF DeleteVerdict, ConsumerFails, ConsumerEnds, ConsumerStops
  <2>2. consumer'[c].pc \in {"idle", "ended"}
    BY <1>2, <1>8 DEF DeleteVerdict, ConsumerFails, ConsumerEnds, ConsumerStops,
                      Released, EndedConsumer, IdleConsumer
  <2> QED
    BY <1>4, <2>1, <2>2
<1>9. CASE ConsumerInsertEvent(c)
  <2>0. PICK id \in VerdictIds, s \in Submissions : id = consumer[c].cur /\ s = id[1]
    BY <1>3, <1>9 DEF ConsumerInsertEvent
  <2> DEFINE e == Event("verdict", s, SummaryOf(body[id]))
  <2>1. /\ body[id] \in Report /\ consumer[c].pc = "insert"
        /\ UNCHANGED <<status, summary, rows, signals>>
    BY <1>0, <1>3, <1>9, <2>0 DEF ConsumerInsertEvent, VerdictInv
  <2>2. CASE UNCHANGED events /\ consumer' = [consumer EXCEPT ![c] = Released(c)]
    <3>1. consumer'[c].pc = "idle"
      BY <1>2, <2>2 DEF Released, IdleConsumer
    <3> QED
      BY <1>4, <2>1, <2>2, <3>1
  <2>3. CASE /\ events' = Append(events, e)
             /\ \E x \in {"signal", "delete"} : consumer' = [consumer EXCEPT ![c].pc = x]
    <3>1. e \in EventRow /\ e.type = "verdict" /\ e.sub = s /\ e.summary = summary[s]
      BY <1>0, <2>0, <2>1, SummaryType DEF Event, EventRow, ResultInv
    <3>2. ~Logged("verdict", s) /\ Graded(s)
      BY <1>0, <2>0, <2>1 DEF LogInv, ConsumerInv
    <3>3. consumer'[c].pc \in {"signal", "delete"} /\ consumer'[c].cur = id
      BY <1>2, <2>0, <2>3 DEF ConsumerState
    <3> HIDE DEF e
    <3>4. /\ \A i, j \in DOMAIN events' :
               (events'[i].type = events'[j].type /\ events'[i].sub = events'[j].sub) => i = j
          /\ \A i \in DOMAIN events' : events'[i].type = "verdict" =>
               Graded(events[i].sub)' /\ events'[i].summary = summary'[events'[i].sub]
          /\ \A ty, t : Logged(ty, t)' <=> Logged(ty, t) \/ (ty = e.type /\ t = e.sub)
      BY <1>0, <2>1, <2>3, <3>1, <3>2, LogGrows
    <3>5. \A t \in Submissions : Logged("submission", t)' => api'[t].pc = "done"
      BY <1>0, <1>1, <3>1, <3>4 DEF LogInv
    <3>6. /\ signals'[s] = 0 /\ Logged("verdict", s)'
          /\ \A t \in Submissions : signals'[t] = 0 \/ (signals'[t] = 1 /\ Logged("verdict", t)')
      BY <1>0, <2>1, <3>1, <3>2, <3>4 DEF LogInv
    <3>7. \A k \in Consumers : consumer'[k].pc = "signal" =>
            signals'[consumer'[k].cur[1]] = 0 /\ Logged("verdict", consumer[k].cur[1])'
      <4>1. consumer'[c].cur[1] = s
        BY <2>0, <3>3
      <4> QED
        BY <1>2, <3>6, <4>1 DEF Logged
    <3>8. LogInv'
      BY <1>2, <3>3, <3>4, <3>5, <3>6, <3>7 DEF LogInv, Logged, Graded
    <3>9. ResultInv'
      <4>1. \A t \in Submissions : Graded(t) <=> Graded(t)'
        BY <2>1 DEF Graded
      <4>2. \A k \in Consumers : consumer'[k].pc \notin {"persist", "persisted", "insert"}
        BY <1>2, <3>3
      <4> QED
        BY <1>0, <1>1, <2>1, <4>1, <4>2, ResultFrame
    <3> QED
      BY <3>8, <3>9
  <2> QED
    BY <1>9, <2>0, <2>2, <2>3 DEF ConsumerInsertEvent
<1>10. CASE SignalDifficulty(c)
  <2> DEFINE s == consumer[c].cur[1]
  <2>1. /\ consumer[c].pc = "signal" /\ s \in Submissions
        /\ signals' \in {signals, [signals EXCEPT ![s] = signals[s] + 1]}
        /\ UNCHANGED <<status, summary, rows, events>> /\ consumer'[c].pc = "delete"
    BY <1>2, <1>3, <1>10 DEF SignalDifficulty, ConsumerState
  <2>2. signals[s] = 0 /\ Logged("verdict", s)
    BY <1>0, <2>1 DEF LogInv
  <2> HIDE DEF s
  <2>3. \A ty, t : Logged(ty, t)' <=> Logged(ty, t)
    BY <2>1 DEF Logged
  <2>4. \A t \in Submissions : signals'[t] = 0 \/ (signals'[t] = 1 /\ Logged("verdict", t)')
    BY <1>0, <2>1, <2>2, <2>3 DEF TypeOK, LogInv
  <2>5. \A t \in Submissions : Graded(t) <=> Graded(t)'
    BY <2>1 DEF Graded
  <2>6. /\ \A i \in DOMAIN events' : events'[i].type = "verdict" =>
             Graded(events[i].sub)' /\ events'[i].summary = summary'[events'[i].sub]
        /\ \A i, j \in DOMAIN events' :
             (events'[i].type = events'[j].type /\ events'[i].sub = events'[j].sub) => i = j
    BY <1>0, <2>1 DEF LogInv, Graded
  <2>7. \A k \in Consumers : consumer'[k].pc = "delete"
    BY <1>2, <2>1
  <2>8. \A t \in Submissions : Logged("submission", t)' => api'[t].pc = "done"
    BY <1>0, <1>1, <2>3 DEF LogInv
  <2>9. LogInv'
    BY <2>4, <2>6, <2>7, <2>8 DEF LogInv, Logged, Graded
  <2>10. ResultInv'
    BY <1>0, <1>1, <2>1, <2>5, <2>7, ResultFrame
  <2> QED
    BY <2>9, <2>10
<1> QED
  BY <1>5, <1>6, <1>7, <1>8, <1>9, <1>10, PersistSole DEF ConsumerStep

LEMMA SoleNext == ASSUME OneConsumer, SoleInv, [Next]_vars PROVE SoleInv'
<1> USE DEF database, queues
<1>0. TypeOK /\ ConsumerInv /\ IInv /\ DeliveryInv /\ ResultInv /\ LogInv
  BY DEF SoleInv, IInv
<1>1. IInv'
  BY <1>0, NextInv
<1>2. CASE UNCHANGED vars
  BY <1>0, <1>1, <1>2 DEF vars, SoleInv, DeliveryInv, ResultInv, LogInv, Graded, Logged, StoredAs
<1>3. CASE QueueStep
  <2>1. /\ UNCHANGED <<database, signals, api, body, consumer>>
        /\ \A id \in VerdictIds : verdicts[id].state # "unsent" => verdicts'[id].state # "unsent"
    BY <1>0, <1>3, QueueKeepsReports DEF ReportsKept
  <2>2. \A c \in Consumers : consumer[c].pc \notin {"idle", "ended"} =>
          /\ consumer[c].cur \in VerdictIds /\ consumer[c].cur[1] \in Submissions
          /\ verdicts[consumer[c].cur].state # "unsent"
    BY <1>0 DEF ConsumerInv, VerdictIds
  <2>3. \A s \in Submissions : Graded(s) <=> Graded(s)'
    BY <2>1 DEF Graded
  <2>4. ResultInv'
    <3>1. \A c \in Consumers : consumer'[c].pc = "persist" =>
            consumer'[c].cur[1] \in Submissions /\ ~Graded(consumer'[c].cur[1])
      BY <1>0, <2>1, <2>2 DEF ResultInv
    <3> QED
      BY <1>0, <2>1, <2>2, <2>3, <3>1, ResultFrame
  <2>5. LogInv'
    <3>1. /\ \A c \in Consumers : consumer'[c].pc \in {"persisted", "insert"} =>
               ~Logged("verdict", consumer'[c].cur[1])
          /\ \A s \in Submissions : Logged("submission", s) => api'[s].pc = "done"
      BY <1>0, <2>1 DEF LogInv
    <3> QED
      BY <1>0, <2>1, <2>3, <3>1, LogFrame
  <2> QED
    BY <1>0, <1>1, <1>3, <2>4, <2>5, DeliveryNext DEF SoleInv, Next
<1>4. CASE Quiescent
  BY <1>2, <1>4 DEF Quiescent
<1>5. ASSUME Next, ~QueueStep, ~Quiescent
      PROVE  SoleInv'
  BY <1>0, <1>1, <1>5, DeliveryNext, ApiStepSole, JudgeStepSole, ConsumerStepSole DEF SoleInv, Next
<1> QED
  BY <1>2, <1>3, <1>4, <1>5

-----------------------------------------------------------------------------
\* With one verdict consumer a stored result is one report of the judge,
\* whatever is redelivered, judged twice or fails (process_verdict_message).
THEOREM OneReport == ASSUME OneConsumer PROVE Spec => []ResultIsOneReport
<1>1. SoleInv => ResultIsOneReport
  <2> SUFFICES ASSUME SoleInv, NEW s \in Submissions, Graded(s)
               PROVE  \E n \in Runs : body[<<s, n>>] # None /\ StoredAs(s, body[<<s, n>>])
    BY DEF ResultIsOneReport, StoredAs
  <2>1. PICK n \in Runs : verdicts[<<s, n>>].state # "unsent" /\ StoredAs(s, body[<<s, n>>])
    BY DEF SoleInv, ResultInv
  <2>2. body[<<s, n>>] \in Report
    BY <2>1 DEF SoleInv, IInv, VerdictInv, VerdictIds
  <2> QED
    BY <2>1, <2>2, GradingAssumption
<1>2. SoleInv /\ [Next]_vars => SoleInv'
  BY SoleNext
<1> QED
  BY <1>1, <1>2, SoleInit, PTL DEF Spec

\* With one verdict consumer the session's log announces each stored result
\* once and as it is stored, and the difficulty engine hears of it at most once.
THEOREM LogAgrees == ASSUME OneConsumer PROVE Spec => []LogAgreesWithResult
<1>1. SoleInv => LogAgreesWithResult
  <2> SUFFICES ASSUME SoleInv PROVE LogAgreesWithResult
    OBVIOUS
  <2>1. \A s \in Submissions : signals[s] <= (IF Logged("verdict", s) THEN 1 ELSE 0)
    BY DEF SoleInv, LogInv
  <2> QED
    BY <2>1 DEF SoleInv, LogInv, LogAgreesWithResult
<1>2. SoleInv /\ [Next]_vars => SoleInv'
  BY SoleNext
<1> QED
  BY <1>1, <1>2, SoleInit, PTL DEF Spec

-----------------------------------------------------------------------------
(* The refinement of GradeOnce: storing a submission is Accept, the commit *)
(* of a verdict is Grade, everything else a stutter.                       *)

LEMMA BarInit == Init => GO!Init
BY GradingAssumption DEF Init, GO!Init, phaseBar, resultBar, Graded, Terminal

LEMMA BarStutter ==
  ASSUME UNCHANGED <<status, summary, rows>>
  PROVE  UNCHANGED <<phaseBar, resultBar>>
BY DEF phaseBar, resultBar, Graded

\* a step on the row of one submission leaves the abstract value of the others
LEMMA BarsOfOthers ==
  ASSUME NEW s \in Submissions,
         \A t \in Submissions : t # s =>
           status'[t] = status[t] /\ summary'[t] = summary[t] /\ rows'[t] = rows[t]
  PROVE  /\ phaseBar' = [phaseBar EXCEPT ![s] = phaseBar'[s]]
         /\ resultBar' = [resultBar EXCEPT ![s] = resultBar'[s]]
<1>1. \A t \in Submissions : t # s => phaseBar'[t] = phaseBar[t] /\ resultBar'[t] = resultBar[t]
  BY DEF phaseBar, resultBar, Graded
<1>2. /\ DOMAIN phaseBar = Submissions /\ DOMAIN phaseBar' = Submissions
      /\ phaseBar = [t \in Submissions |-> phaseBar[t]]
      /\ phaseBar' = [t \in Submissions |-> phaseBar'[t]]
  BY DEF phaseBar
<1>3. /\ DOMAIN resultBar = Submissions /\ DOMAIN resultBar' = Submissions
      /\ resultBar = [t \in Submissions |-> resultBar[t]]
      /\ resultBar' = [t \in Submissions |-> resultBar'[t]]
  BY DEF resultBar
<1> HIDE DEF phaseBar, resultBar
<1>4. phaseBar' = [phaseBar EXCEPT ![s] = phaseBar'[s]]
  BY <1>1, <1>2
<1>5. resultBar' = [resultBar EXCEPT ![s] = resultBar'[s]]
  BY <1>1, <1>3
<1> QED
  BY <1>4, <1>5

LEMMA AcceptStep ==
  ASSUME SoleInv, NEW s \in Submissions, NEW mode \in {"submit", "run"}, CreateSubmission(s, mode)
  PROVE  GO!Accept(s)
<1>0. /\ status \in [Submissions -> {None, "QUEUED"} \cup Terminal]
      /\ status' = [status EXCEPT ![s] = "QUEUED"] /\ UNCHANGED <<summary, rows>>
      /\ status[s] = None
  BY DEF SoleInv, IInv, TypeOK, StoredInv, CreateSubmission
<1>1. /\ phaseBar[s] = "none" /\ phaseBar'[s] = "queued"
      /\ resultBar[s] = NotGraded /\ resultBar'[s] = NotGraded
  BY <1>0, GradingAssumption DEF phaseBar, resultBar, Graded, Terminal
<1>2. /\ phaseBar' = [phaseBar EXCEPT ![s] = phaseBar'[s]]
      /\ resultBar' = [resultBar EXCEPT ![s] = resultBar'[s]]
  BY <1>0, BarsOfOthers
<1>3. resultBar' = resultBar
  BY <1>1, <1>2 DEF resultBar
<1> QED
  BY <1>1, <1>2, <1>3 DEF GO!Accept

LEMMA GradeStep ==
  ASSUME OneConsumer, SoleInv, NEW c \in Consumers, PersistVerdict(c)
  PROVE  \E s \in Submissions : GO!Grade(s)
<1>0. TypeOK /\ StoredInv /\ ConsumerInv /\ VerdictInv /\ ResultInv
  BY DEF SoleInv, IInv
<1>1. PICK s \in Submissions, n \in Runs : consumer[c].cur = <<s, n>>
  BY <1>0 DEF PersistVerdict, ConsumerInv, VerdictIds
<1> DEFINE r == body[<<s, n>>]
<1>2. /\ <<s, n>> \in VerdictIds /\ verdicts[<<s, n>>].state # "unsent" /\ r \in Report
      /\ ~Graded(s) /\ status[s] # None
  BY <1>0, <1>1 DEF PersistVerdict, ConsumerInv, VerdictInv, ResultInv, StoredInv, VerdictIds
<1>3. /\ status' = [status EXCEPT ![s] = r.status]
      /\ summary' = [summary EXCEPT ![s] = SummaryOf(r)]
      /\ rows' = [rows EXCEPT ![s] = Upserted(s, r.cases)]
  BY <1>1 DEF PersistVerdict
<1>4. /\ r.status \in Terminal /\ r.cases \in [Ordinals -> CaseVerdict \cup {"none"}]
      /\ r = [status |-> r.status, cases |-> r.cases]
  BY <1>2 DEF Report, Terminal
<1>5. Upserted(s, r.cases) = r.cases
  BY <1>0, <1>2, <1>4 DEF ResultInv, Upserted, NoRows
<1>6. /\ status'[s] = r.status /\ summary'[s] = SummaryOf(r) /\ rows'[s] = r.cases
      /\ \A t \in Submissions : t # s =>
           status'[t] = status[t] /\ summary'[t] = summary[t] /\ rows'[t] = rows[t]
  BY <1>0, <1>3, <1>5 DEF TypeOK
<1>7. phaseBar[s] = "queued"
  BY <1>0, <1>2, GradingAssumption DEF TypeOK, phaseBar, Graded
<1>8. phaseBar'[s] = "graded" /\ resultBar'[s] = Result(r.status, SummaryOf(r), r.cases)
  BY <1>4, <1>6 DEF phaseBar, resultBar, Graded
<1>9. Result(r.status, SummaryOf(r), r.cases) \in CoherentResults
  <2>1. SummaryOf(r) \in {"CE"} \cup CaseVerdict
    BY <1>2, SummaryType
  <2>2. SummaryOf(r) = SummaryOf([status |-> r.status, cases |-> r.cases])
    BY <1>4
  <2> HIDE DEF r
  <2> QED
    BY <1>4, <2>1, <2>2 DEF CoherentResults, Result
<1>10. /\ phaseBar' = [phaseBar EXCEPT ![s] = phaseBar'[s]]
       /\ resultBar' = [resultBar EXCEPT ![s] = resultBar'[s]]
  BY <1>6, BarsOfOthers
<1> HIDE DEF r
<1>11. GO!Grade(s)
  BY <1>7, <1>8, <1>9, <1>10 DEF GO!Grade
<1> QED
  BY <1>11

LEMMA BarNext ==
  ASSUME OneConsumer, SoleInv, [Next]_vars
  PROVE  [GO!Next]_<<phaseBar, resultBar>>
<1> USE DEF database, queues
<1>1. ASSUME NEW s \in Submissions, NEW mode \in {"submit", "run"}, CreateSubmission(s, mode)
      PROVE  [GO!Next]_<<phaseBar, resultBar>>
  BY <1>1, AcceptStep DEF GO!Next
<1>2. ASSUME NEW c \in Consumers, PersistVerdict(c)
      PROVE  [GO!Next]_<<phaseBar, resultBar>>
  BY <1>2, GradeStep DEF GO!Next
<1>3. ASSUME UNCHANGED <<status, summary, rows>>
      PROVE  [GO!Next]_<<phaseBar, resultBar>>
  BY <1>3, BarStutter
<1>4. ASSUME NEW s \in Submissions, SendJob(s) \/ ApiReadSeq(s) \/ ApiInsertEvent(s) \/ ApiFails(s)
      PROVE  UNCHANGED <<status, summary, rows>>
  BY <1>4 DEF SendJob, ApiReadSeq, ApiInsertEvent, ApiFails
<1>5. ASSUME NEW j \in Judges, JudgeStep(j)
      PROVE  UNCHANGED <<status, summary, rows>>
  BY <1>5 DEF JudgeStep, ReceiveJob, SendVerdict, DeleteJob, JudgeFails
<1>6. ASSUME NEW c \in Consumers, ConsumerStep(c), ~PersistVerdict(c)
      PROVE  UNCHANGED <<status, summary, rows>>
  BY <1>6 DEF ConsumerStep, ReceiveVerdicts, LoadSubmission, ConsumerReadSeq, ConsumerInsertEvent,
              SignalDifficulty, DeleteVerdict, ConsumerFails, ConsumerEnds, ConsumerStops
<1>7. CASE QueueStep
  BY <1>3, <1>7, QueueKeepsReports DEF SoleInv
<1>8. CASE Quiescent \/ UNCHANGED vars
  BY <1>3, <1>8 DEF Quiescent, vars
<1> QED
  BY <1>1, <1>2, <1>3, <1>4, <1>5, <1>6, <1>7, <1>8 DEF Next, ApiStep

\* With one verdict consumer the whole pipeline, queues, workers and failures
\* included, implements GradeOnce: a submission is accepted and graded once, for
\* good, with a summary that belongs to its case rows.
THEOREM ImplementsGradeOnce == ASSUME OneConsumer PROVE Spec => GradesOnce
<1>1. Init => SoleInv /\ GO!Init
  BY SoleInit, BarInit
<1>2. SoleInv /\ [Next]_vars => SoleInv' /\ [GO!Next]_<<phaseBar, resultBar>>
  BY SoleNext, BarNext
<1> QED
  BY <1>1, <1>2, PTL DEF Spec, GradesOnce, GO!Spec
=============================================================================
