---------------------------- MODULE Followup_proofs ----------------------------
(***************************************************************************)
(* Proofs about Factory and Followup, for any number of jobs, pushes,      *)
(* authors, cases, receives and failures.                                  *)
(***************************************************************************)
EXTENDS Followup, FiniteSetTheorems, SequenceTheorems, WellFoundedInduction, TLAPS

-----------------------------------------------------------------------------
(* The question: what is published stays, the newest version grows. *)

Cases     == Jobs \X Numbers \X Nat
Texts     == Pushes \cup Authors \cup {None}
Versions  == [text : Texts, cases : SUBSET Cases]
Questions == {q \in [versions : Seq(Versions), published : Nat] :
                q.published \in 1..Len(q.versions)}

Newest(q) == q.versions[Current(q)]

\* a later question: the published versions are the same, and so is the
\* number of the published one
Later(q, r) ==
  /\ r.published = q.published /\ Current(q) <= Current(r)
  /\ \A i \in 1..q.published : r.versions[i] = q.versions[i]

LEMMA LowestIsIn ==
  ASSUME NEW S \in SUBSET Nat, S # {}
  PROVE  Lowest(S) \in S
<1>1. PICK o \in S : \A p \in S : <<p, o>> \notin OpToRel(<, Nat)
  BY NatLessThanWellFounded, WFMin
<1>2. \A p \in S : ~(p < o)
  BY <1>1 DEF OpToRel
<1>3. \A p \in S : o <= p
  BY <1>2
<1> QED
  BY <1>3 DEF Lowest

LEMMA NewestIsAVersion ==
  ASSUME NEW q \in Questions
  PROVE  /\ Newest(q) \in Versions /\ Current(q) \in 1..Current(q) /\ Current(q) \in Nat
         /\ q.published \in 1..Current(q) /\ q.versions \in Seq(Versions)
         /\ \A i \in 1..Current(q) : q.versions[i] \in Versions
BY DEF Questions, Newest, Current

\* ensure_mutable_version: the fork has the same newest text and cases
LEMMA ForkKeeps ==
  ASSUME NEW q \in Questions
  PROVE  /\ Forked(q) \in Questions /\ Later(q, Forked(q))
         /\ Newest(Forked(q)) = Newest(q) /\ Current(Forked(q)) > q.published
<1>1. CASE Current(q) = q.published
  <2> DEFINE s == Append(q.versions, Newest(q))
  <2>1. Forked(q) = [q EXCEPT !.versions = s]
    BY <1>1 DEF Forked, Newest, Current
  <2>2. /\ s \in Seq(Versions) /\ Len(s) = Current(q) + 1
        /\ \A i \in 1..Current(q) : s[i] = q.versions[i]
        /\ s[Current(q) + 1] = Newest(q)
    BY NewestIsAVersion, AppendProperties DEF Current
  <2> HIDE DEF s
  <2>3. Forked(q).versions = s /\ Forked(q).published = q.published
        /\ Forked(q) \in [versions : Seq(Versions), published : Nat]
    BY <2>1, <2>2 DEF Questions
  <2>4. Current(Forked(q)) = Current(q) + 1
    BY <2>2, <2>3 DEF Current
  <2> QED
    BY <1>1, <2>2, <2>3, <2>4, NewestIsAVersion DEF Questions, Later, Newest, Current
<1>2. CASE Current(q) # q.published
  BY <1>2, NewestIsAVersion DEF Forked, Later, Questions, Current
<1> QED
  BY <1>1, <1>2

\* a change of the newest version, which is a draft
LEMMA DraftChanges ==
  ASSUME NEW f \in Questions, Current(f) > f.published, NEW v \in Versions
  PROVE  LET r == [f EXCEPT !.versions = [f.versions EXCEPT ![Current(f)] = v]]
         IN  /\ r \in Questions /\ Later(f, r) /\ Newest(r) = v
             /\ Current(r) = Current(f)
<1> DEFINE s == [f.versions EXCEPT ![Current(f)] = v]
           r == [f EXCEPT !.versions = s]
<1>1. /\ s \in Seq(Versions) /\ Len(s) = Current(f)
      /\ \A i \in 1..Current(f) : s[i] = IF i = Current(f) THEN v ELSE f.versions[i]
  BY NewestIsAVersion, ExceptSeq DEF Current
<1> HIDE DEF s
<1>2. r.versions = s /\ r.published = f.published
      /\ r \in [versions : Seq(Versions), published : Nat]
  BY <1>1 DEF Questions
<1>3. Current(r) = Current(f)
  BY <1>1, <1>2 DEF Current
<1>4. r \in Questions /\ Later(f, r) /\ Newest(r) = v
  BY <1>1, <1>2, <1>3, NewestIsAVersion DEF Questions, Later, Newest, Current
<1> QED
  BY <1>3, <1>4 DEF s

LEMMA LaterIsTransitive ==
  ASSUME NEW q \in Questions, NEW f \in Questions, NEW r \in Questions,
         Later(q, f), Later(f, r)
  PROVE  Later(q, r)
BY NewestIsAVersion DEF Later

\* an edit: another text, the same cases
LEMMA TextChanges ==
  ASSUME NEW q \in Questions, NEW text \in Texts
  PROVE  LET r == WithText(q, text)
         IN  /\ r \in Questions /\ Later(q, r)
             /\ Newest(r).text = text /\ Newest(r).cases = Newest(q).cases
<1> DEFINE f == Forked(q)
           v == [Newest(f) EXCEPT !.text = text]
<1>1. f \in Questions /\ Current(f) > f.published /\ Newest(f) = Newest(q) /\ Later(q, f)
  BY ForkKeeps DEF Later
<1>2. v \in Versions /\ v.text = text /\ v.cases = Newest(q).cases
  BY <1>1, NewestIsAVersion DEF Versions
<1>3. WithText(q, text) = [f EXCEPT !.versions = [f.versions EXCEPT ![Current(f)] = v]]
  BY DEF WithText, Newest
<1> HIDE DEF f, v
<1> QED
  BY <1>1, <1>2, <1>3, DraftChanges, LaterIsTransitive

\* a new case: the same text, one more case
LEMMA CasesGrow ==
  ASSUME NEW q \in Questions, NEW row \in Cases
  PROVE  LET r == WithCase(q, row)
         IN  /\ r \in Questions /\ Later(q, r)
             /\ Newest(r).text = Newest(q).text
             /\ Newest(r).cases = Newest(q).cases \cup {row}
<1> DEFINE f == Forked(q)
           v == [Newest(f) EXCEPT !.cases = @ \cup {row}]
<1>1. f \in Questions /\ Current(f) > f.published /\ Newest(f) = Newest(q) /\ Later(q, f)
  BY ForkKeeps DEF Later
<1>2. v \in Versions /\ v.text = Newest(q).text /\ v.cases = Newest(q).cases \cup {row}
  BY <1>1, NewestIsAVersion DEF Versions
<1>3. WithCase(q, row) = [f EXCEPT !.versions = [f.versions EXCEPT ![Current(f)] = v]]
  BY DEF WithCase, Newest
<1> HIDE DEF f, v
<1> QED
  BY <1>1, <1>2, <1>3, DraftChanges, LaterIsTransitive

\* a publication: the newest version is the published one
LEMMA PublicationMoves ==
  ASSUME NEW q \in Questions
  PROVE  LET r == Published(q)
         IN  /\ r \in Questions /\ r.versions = q.versions /\ Newest(r) = Newest(q)
             /\ r.published = Current(q) /\ q.published <= r.published
             /\ Current(r) = Current(q)
<1>1. /\ Published(q) \in [versions : Seq(Versions), published : Nat]
      /\ Published(q).versions = q.versions /\ Published(q).published = Current(q)
  BY NewestIsAVersion DEF Published, Questions
<1> QED
  BY <1>1, NewestIsAVersion DEF Questions, Newest, Current

-----------------------------------------------------------------------------
(* The inductive invariant of the factory. *)

Attached  == Newest(question).cases
Has(j, n) == \E row \in Attached : row[1] = j /\ row[2] = n

Statuses == {"none", "queued", "generating", "validating", "succeeded", "failed"}
JobPcs   == {"idle", "draft", "model", "send", "poll", "away", "attach", "upload", "ack", "over"}
Runs     == [pc : JobPcs, todo : SUBSET Numbers, round : Nat, of : Tries]
Reports  == (SUBSET Numbers) \cup {None}

FactoryTypes ==
  /\ question \in Questions
  /\ status \in [Jobs -> Statuses] /\ kept \in [Jobs -> 0..NumCases]
  /\ inputs \in [Jobs -> (SUBSET Numbers) \cup {None}]
  /\ diff \in [Jobs -> {"none", "sent"}]
  /\ report \in [Jobs -> [Tries -> Reports]]
  /\ result \in [Jobs -> [Tries -> Message]]
  /\ run \in [Jobs -> Runs]
  /\ faults \in 0..MaxFaults

(***************************************************************************)
(* What is there of a job by the time its code has got so far.             *)
(***************************************************************************)
Stage(j) ==
  /\ run[j].pc \in {"idle", "draft", "model"} => inputs[j] = None /\ diff[j] = "none"
  /\ run[j].pc \in {"send", "poll", "away", "attach", "upload", "ack"} \/ diff[j] # "none"
       => inputs[j] \in SUBSET Numbers
  /\ run[j].pc = "send" => diff[j] = "none"
  /\ run[j].pc \in {"attach", "upload", "ack"} => diff[j] = "sent"
  /\ diff[j] = "none" => result[j] = [t \in Tries |-> Unsent]
  /\ \A t \in Tries : /\ result[j][t] = Unsent => report[j][t] = None
                      /\ result[j][1] = Unsent => result[j][t] = Unsent
  /\ j \in SyncJobs => run[j].pc \notin {"away", "ack"}
  /\ j \in AsyncJobs => run[j].pc # "poll"

(***************************************************************************)
(* While it attaches, what is no longer to do is done; a report that was   *)
(* attached once stays attached, also while another one is being attached. *)
(***************************************************************************)
Mine(j)     == report[j][run[j].of]
Attends(j, R) == R # None /\ kept[j] = Cardinality(R) /\ \A n \in R : Has(j, n)

Attaching(j) ==
  /\ run[j].pc \in {"attach", "upload"} =>
       /\ run[j].round # 0 /\ Mine(j) # None /\ run[j].todo \subseteq Mine(j)
       /\ \A n \in Mine(j) \ run[j].todo : Has(j, n)
  /\ run[j].pc = "upload" => run[j].todo # {} /\ Row(j) \in Attached
  /\ status[j] = "succeeded" /\ inputs[j] # None =>
       \E t \in Tries : Attends(j, report[j][t])

\* a request polls once; what succeeded without a failure is not worked on again
OneRound(j) ==
  /\ j \in SyncJobs =>
       /\ run[j].round <= 1
       /\ run[j].pc \in {"idle", "draft", "model", "send", "poll"} => run[j].round = 0
  /\ status[j] = "succeeded" /\ inputs[j] # None =>
       /\ run[j].round # 0
       /\ faults = 0 => run[j].pc \notin {"attach", "upload"}

(***************************************************************************)
(* The rounds a consumer made and the results that may still be received   *)
(* come from the first try of the judge, or from failures; the result that *)
(* is being worked on is in both counts.                                   *)
(***************************************************************************)
Pending(j) == {t \in Tries : result[j][t].state \in {"visible", "inflight"}}
Judged(j)  == IF result[j][1] = Unsent THEN 0 ELSE 1
Twice(j)   == IF Working(j) THEN 1 ELSE 0

Bounded(j) ==
  j \in AsyncJobs =>
    /\ run[j].round + Cardinality(Pending(j)) <= faults + Judged(j) + Twice(j)
    /\ Working(j) => run[j].of \in Pending(j)

JobInv(j) == Stage(j) /\ Attaching(j) /\ OneRound(j)

\* a case comes from a round of its job, and without a failure only the one
\* that is being uploaded is without its files
Stored(row) ==
  /\ row[3] \in 1..run[row[1]].round
  /\ faults = 0 => \/ row \in filled
                   \/ run[row[1]].pc = "upload" /\ row = Row(row[1])

FactoryInv ==
  /\ FactoryTypes
  /\ \A j \in Jobs : JobInv(j) /\ Bounded(j)
  /\ \A row \in Attached : Stored(row)

-----------------------------------------------------------------------------
(* What a step leaves alone. *)

SameJob(k) ==
  /\ status'[k] = status[k] /\ kept'[k] = kept[k] /\ inputs'[k] = inputs[k]
  /\ diff'[k] = diff[k] /\ report'[k] = report[k] /\ result'[k] = result[k]
  /\ run'[k] = run[k]

\* cases are only added and a failure is not forgotten
OneMoreFault == faults' = faults + 1
Grows == Attached \subseteq Attached' /\ (faults' = faults \/ OneMoreFault)

LEMMA OtherJobs ==
  ASSUME FactoryTypes, NEW k \in Jobs, JobInv(k), SameJob(k), Grows
  PROVE  JobInv(k)'
<1>0. faults \in Nat /\ (faults' = 0 => faults = 0)
  BY FactoryAssumption DEF FactoryTypes, Grows, OneMoreFault
<1>1. Stage(k)'
  BY DEF JobInv, Stage, SameJob
<1>2. \A n : Has(k, n) => Has(k, n)'
  BY DEF Has, Grows
<1>3. Row(k)' = Row(k)
  BY DEF Row, SameJob
<1>4. Attaching(k)'
  BY <1>2, <1>3 DEF JobInv, Attaching, Mine, Attends, SameJob, Grows
<1>5. OneRound(k)'
  BY <1>0 DEF JobInv, OneRound, SameJob
<1> QED
  BY <1>1, <1>4, <1>5 DEF JobInv

\* no result is sent, received or deleted; work may be given up at the cost of a failure
Steady(k) ==
  /\ result'[k] = result[k] /\ run'[k].round = run[k].round /\ run'[k].of = run[k].of
  /\ faults' = faults \/ OneMoreFault
  /\ (Working(k)' <=> Working(k)) \/ (~Working(k)' /\ OneMoreFault)

LEMMA PendingIsFinite ==
  ASSUME FactoryTypes, NEW k \in Jobs
  PROVE  /\ IsFiniteSet(Pending(k)) /\ Cardinality(Pending(k)) \in Nat
         /\ Pending(k) # {} => Cardinality(Pending(k)) >= 1
         /\ faults \in Nat /\ Judged(k) \in 0..1 /\ Twice(k) \in 0..1 /\ run[k].round \in Nat
         /\ 1 \in Tries
<1>1. IsFiniteSet(Tries) /\ 1 \in Tries /\ faults \in Nat
  BY FactoryAssumption, FS_Interval DEF Tries, FactoryTypes
<1>2. IsFiniteSet(Pending(k))
  BY <1>1, FS_Subset DEF Pending
<1>3. Cardinality(Pending(k)) \in Nat /\ (Pending(k) # {} => Cardinality(Pending(k)) # 0)
  BY <1>2, FS_CardinalityType, FS_EmptySet
<1>4. Judged(k) \in 0..1 /\ Twice(k) \in 0..1
  BY DEF Judged, Twice
<1>5. run[k].round \in Nat
  BY DEF FactoryTypes, Runs
<1> QED
  BY <1>1, <1>2, <1>3, <1>4, <1>5

LEMMA BoundKept ==
  ASSUME FactoryTypes, NEW k \in Jobs, Bounded(k), Steady(k)
  PROVE  Bounded(k)'
<1>1. Pending(k)' = Pending(k) /\ Judged(k)' = Judged(k)
  BY DEF Pending, Judged, Steady
<1>2. faults' + Twice(k)' >= faults + Twice(k) /\ faults' \in Nat /\ Twice(k)' \in 0..1
  BY PendingIsFinite DEF Steady, Twice, OneMoreFault
<1>3. (Working(k)' => Working(k)) /\ run'[k].of = run[k].of /\ run'[k].round = run[k].round
  BY DEF Steady
<1> QED
  BY <1>1, <1>2, <1>3, PendingIsFinite DEF Bounded

\* a step that creates no case: nobody leaves an upload without the files
Uploads(k) ==
  /\ run'[k].round \in Nat /\ run[k].round <= run'[k].round
  /\ faults' = 0 /\ run[k].pc = "upload" => run'[k] = run[k] \/ Row(k) \in filled'

LEMMA SameCases ==
  ASSUME FactoryTypes, \A row \in Attached : Stored(row), Attached' = Attached,
         filled \subseteq filled', faults' = 0 => faults = 0, \A k \in Jobs : Uploads(k)
  PROVE  (\A row \in Attached : Stored(row))'
<1> SUFFICES ASSUME NEW row \in Attached
             PROVE  Stored(row)'
  OBVIOUS
<1>1. Stored(row)
  OBVIOUS
<1>2. row[1] \in Jobs
  BY NewestIsAVersion DEF FactoryTypes, Attached, Versions, Cases
<1>3. Uploads(row[1])
  BY <1>2
<1>4. run[row[1]] \in Runs
  BY <1>2 DEF FactoryTypes
<1>5. row[3] \in 1..run'[row[1]].round
  BY <1>1, <1>3, <1>4 DEF Stored, Uploads, Runs
<1>6. run'[row[1]] = run[row[1]] => Row(row[1])' = Row(row[1])
  BY DEF Row
<1> QED
  BY <1>1, <1>3, <1>5, <1>6 DEF Stored, Uploads

\* a job is at work on a number of its report
LEMMA RowIsACase ==
  ASSUME FactoryTypes, NEW j \in Jobs, run[j].todo # {}
  PROVE  Row(j) \in Cases /\ Row(j)[1] = j /\ Row(j)[2] \in run[j].todo
         /\ Row(j)[3] = run[j].round
<1>1. run[j].todo \in SUBSET Numbers /\ run[j].round \in Nat
  BY DEF FactoryTypes, Runs
<1>2. Numbers \subseteq Nat
  BY DEF Numbers
<1>3. Lowest(run[j].todo) \in run[j].todo
  BY <1>1, <1>2, LowestIsIn
<1> QED
  BY <1>1, <1>3 DEF Row, Cases

-----------------------------------------------------------------------------
(* The steps of one job. *)

Elsewhere(j) == \A k \in Jobs \ {j} : SameJob(k)

\* run'[j] is run[j] at another place
Moves(j, pc) ==
  /\ run' \in [Jobs -> Runs] /\ \A k \in Jobs \ {j} : run'[k] = run[k]
  /\ run'[j].pc = pc /\ run'[j].todo = run[j].todo /\ run'[j].round = run[j].round
  /\ run'[j].of = run[j].of

LEMMA GoesMoves ==
  ASSUME FactoryTypes, NEW j \in Jobs, NEW pc \in JobPcs, Goes(j, pc)
  PROVE  Moves(j, pc)
<1>1. run[j] \in Runs /\ run \in [Jobs -> Runs]
  BY DEF FactoryTypes
<1> DEFINE q == [run[j] EXCEPT !.pc = pc]
<1>2. q \in Runs /\ q.pc = pc /\ q.todo = run[j].todo /\ q.round = run[j].round /\ q.of = run[j].of
  BY <1>1 DEF Runs
<1>3. run' = [run EXCEPT ![j] = q]
  BY DEF Goes
<1> HIDE DEF q
<1> QED
  BY <1>1, <1>2, <1>3 DEF Moves

LEMMA OneJobMoves ==
  ASSUME FactoryInv, FactoryTypes', NEW j \in Jobs, Elsewhere(j),
         question' = question, filled \subseteq filled', faults' = faults \/ OneMoreFault,
         Uploads(j), JobInv(j)', Bounded(j)'
  PROVE  FactoryInv'
<1>1. Attached' = Attached /\ Grows /\ (faults' = 0 => faults = 0)
  BY FactoryAssumption DEF Attached, Grows, FactoryInv, FactoryTypes, OneMoreFault
<1>2. \A k \in Jobs : JobInv(k)'
  BY <1>1, OtherJobs DEF FactoryInv, Elsewhere
<1>3. \A k \in Jobs : Uploads(k)
  BY DEF FactoryInv, FactoryTypes, Elsewhere, SameJob, Uploads, Runs
<1>4. \A k \in Jobs : Bounded(k)'
  <2> SUFFICES ASSUME NEW k \in Jobs \ {j} PROVE Bounded(k)'
    OBVIOUS
  <2>1. Steady(k)
    BY DEF Elsewhere, SameJob, Steady, Working
  <2> QED
    BY <2>1, BoundKept DEF FactoryInv
<1> QED
  BY <1>1, <1>2, <1>3, <1>4, SameCases DEF FactoryInv

\* a consumer's work goes on, or is given up at the cost of a failure
LEMMA MovesSteadily ==
  ASSUME FactoryInv, NEW j \in Jobs, NEW pc, Moves(j, pc), result'[j] = result[j],
         faults' = faults \/ OneMoreFault,
         j \in AsyncJobs /\ pc \in {"attach", "upload", "ack"} => Working(j),
         j \in AsyncJobs /\ Working(j) /\ pc \notin {"attach", "upload", "ack"} => OneMoreFault
  PROVE  Bounded(j)'
<1>1. CASE j \in AsyncJobs
  <2>1. Steady(j)
    BY <1>1 DEF Steady, Moves, Working
  <2> QED
    BY <2>1, BoundKept DEF FactoryInv
<1>2. CASE j \notin AsyncJobs
  BY <1>2 DEF Bounded
<1> QED
  BY <1>1, <1>2

LEMMA StartFactoryKeepsInv ==
  ASSUME FactoryInv, NEW j \in Jobs, StartFactory(j)
  PROVE  FactoryInv'
<1>1. Moves(j, "draft")
  BY GoesMoves DEF FactoryInv, StartFactory, JobPcs
<1>2. FactoryTypes' /\ Elsewhere(j) /\ status'[j] = "queued"
  BY <1>1 DEF FactoryInv, FactoryTypes, StartFactory, Says, Statuses, Elsewhere, SameJob, Moves
<1>3. JobInv(j)'
  BY <1>1, <1>2 DEF FactoryInv, JobInv, Stage, Attaching, OneRound, StartFactory, Moves, At, Working
<1>4. Uploads(j)
  BY <1>1 DEF StartFactory, Moves, Uploads, At, FactoryInv, FactoryTypes, Runs
<1>5. Bounded(j)'
  BY <1>1, MovesSteadily DEF StartFactory, At, Working
<1> QED
  BY <1>2, <1>3, <1>4, <1>5, OneJobMoves DEF StartFactory

LEMMA BeginGeneratingKeepsInv ==
  ASSUME FactoryInv, NEW j \in Jobs, BeginGenerating(j)
  PROVE  FactoryInv'
<1>1. Moves(j, "model")
  BY GoesMoves DEF FactoryInv, BeginGenerating, JobPcs
<1>2. FactoryTypes' /\ Elsewhere(j) /\ status'[j] = "generating"
  BY <1>1 DEF FactoryInv, FactoryTypes, BeginGenerating, Says, Statuses, Elsewhere, SameJob, Moves
<1>3. JobInv(j)'
  BY <1>1, <1>2 DEF FactoryInv, JobInv, Stage, Attaching, OneRound, BeginGenerating, Moves, At, Working
<1>4. Uploads(j)
  BY <1>1 DEF BeginGenerating, Moves, Uploads, At, FactoryInv, FactoryTypes, Runs
<1>5. Bounded(j)'
  BY <1>1, MovesSteadily DEF BeginGenerating, At, Working
<1> QED
  BY <1>2, <1>3, <1>4, <1>5, OneJobMoves DEF BeginGenerating

LEMMA DraftInputsKeepsInv ==
  ASSUME FactoryInv, NEW j \in Jobs, DraftInputs(j)
  PROVE  FactoryInv'
<1>1. At(j, "model") /\ inputs[j] = None
  BY DEF DraftInputs, At, FactoryInv, JobInv, Stage
<1>2. CASE Says(j, "succeeded") /\ Goes(j, "over") /\ UNCHANGED inputs
  <2>1. Moves(j, "over")
    BY <1>2, GoesMoves DEF FactoryInv, JobPcs
  <2>2. FactoryTypes' /\ Elsewhere(j)
    BY <1>2, <2>1 DEF FactoryInv, FactoryTypes, DraftInputs, Says, Statuses, Elsewhere, SameJob, Moves
  <2>3. JobInv(j)'
    BY <1>1, <1>2, <2>1 DEF FactoryInv, JobInv, Stage, Attaching, OneRound, DraftInputs, Moves, At, Working
  <2>4. Uploads(j)
    BY <1>1, <2>1 DEF Moves, Uploads, At, FactoryInv, FactoryTypes, Runs
  <2>5. Bounded(j)'
    BY <1>1, <2>1, MovesSteadily DEF DraftInputs, At, Working
  <2> QED
    BY <2>2, <2>3, <2>4, <2>5, OneJobMoves DEF DraftInputs
<1>3. CASE \E drafted \in Drafts : /\ inputs' = [inputs EXCEPT ![j] = drafted]
                                   /\ Says(j, "validating") /\ Goes(j, "send")
  <2>0. PICK drafted \in Drafts : inputs' = [inputs EXCEPT ![j] = drafted]
    BY <1>3
  <2>1. Moves(j, "send")
    BY <1>3, GoesMoves DEF FactoryInv, JobPcs
  <2>2. drafted \in SUBSET Numbers
    BY FactoryAssumption DEF Drafts, Numbers
  <2>3. FactoryTypes' /\ Elsewhere(j) /\ inputs'[j] \in SUBSET Numbers /\ status'[j] = "validating"
    BY <1>3, <2>0, <2>1, <2>2
       DEF FactoryInv, FactoryTypes, DraftInputs, Says, Statuses, Elsewhere, SameJob, Moves
  <2>4. JobInv(j)'
    BY <1>1, <2>1, <2>3 DEF FactoryInv, JobInv, Stage, Attaching, OneRound, DraftInputs, Moves, At, Working
  <2>5. Uploads(j)
    BY <1>1, <2>1 DEF Moves, Uploads, At, FactoryInv, FactoryTypes, Runs
  <2>6. Bounded(j)'
    BY <1>1, <2>1, MovesSteadily DEF DraftInputs, At, Working
  <2> QED
    BY <2>3, <2>4, <2>5, <2>6, OneJobMoves DEF DraftInputs
<1> QED
  BY <1>2, <1>3 DEF DraftInputs

LEMMA SendDiffJobKeepsInv ==
  ASSUME FactoryInv, NEW j \in Jobs, SendDiffJob(j)
  PROVE  FactoryInv'
<1>0. AfterSend(j) \in JobPcs /\ (j \in SyncJobs => AfterSend(j) = "poll")
      /\ (j \in AsyncJobs => AfterSend(j) = "away") /\ AfterSend(j) \in {"poll", "away"}
  BY FactoryAssumption DEF AfterSend, JobPcs
<1>1. Moves(j, AfterSend(j))
  BY <1>0, GoesMoves DEF FactoryInv, SendDiffJob
<1>2. FactoryTypes' /\ Elsewhere(j) /\ diff'[j] = "sent"
  BY <1>1 DEF FactoryInv, FactoryTypes, SendDiffJob, Elsewhere, SameJob, Moves
<1>3. JobInv(j)'
  <2>1. Stage(j)'
    BY <1>0, <1>1, <1>2 DEF FactoryInv, JobInv, Stage, SendDiffJob, Moves, At
  <2>2. Attaching(j)'
    BY <1>0, <1>1
       DEF FactoryInv, JobInv, Stage, Attaching, Mine, Attends, SendDiffJob, Moves, At, Has, Attached
  <2>3. OneRound(j)'
    BY <1>0, <1>1, FactoryAssumption DEF FactoryInv, FactoryTypes, JobInv, Stage, OneRound, SendDiffJob, Moves, At, Unsent
  <2> QED
    BY <2>1, <2>2, <2>3 DEF JobInv
<1>4. Uploads(j)
  BY <1>1 DEF SendDiffJob, Moves, Uploads, At, FactoryInv, FactoryTypes, Runs
<1>5. Bounded(j)'
  BY <1>0, <1>1, MovesSteadily DEF SendDiffJob, At, Working
<1> QED
  BY <1>2, <1>3, <1>4, <1>5, OneJobMoves DEF SendDiffJob

LEMMA OneTryChanges ==
  ASSUME NEW S, NEW f \in [Jobs -> [Tries -> S]], NEW j \in Jobs, NEW t \in Tries, NEW v \in S
  PROVE  LET g == [f EXCEPT ![j][t] = v]
         IN  /\ g \in [Jobs -> [Tries -> S]] /\ g[j][t] = v
             /\ \A u \in Tries \ {t} : g[j][u] = f[j][u]
             /\ \A k \in Jobs \ {j} : g[k] = f[k]
OBVIOUS

\* a result of this try was not sent before; it is the first, or costs a failure
LEMMA SendReportKeepsInv ==
  ASSUME FactoryInv, NEW j \in Jobs, NEW t \in Tries, SendReport(j, t), result[j][t] = Unsent,
         diff[j] = "sent", faults' \in 0..MaxFaults,
         IF t = 1 THEN faults' = faults ELSE result[j][1] # Unsent /\ OneMoreFault
  PROVE  FactoryInv'
<1>0. FactoryTypes /\ JobInv(j) /\ Bounded(j)
  BY DEF FactoryInv
<1>1. inputs[j] \in SUBSET Numbers /\ report[j][t] = None
  BY <1>0 DEF JobInv, Stage
<1>2. PICK q \in (SUBSET inputs[j]) \cup {None} : report' = [report EXCEPT ![j][t] = q]
  BY DEF SendReport
<1>3. Sent \in Message /\ q \in Reports /\ Sent # Unsent /\ Unsent.state = "unsent"
      /\ Sent.state = "visible"
  BY <1>1, MaxReceivesAssumption DEF Sent, Unsent, Message, Reports
<1>4. result' = [result EXCEPT ![j][t] = Sent]
  BY DEF SendReport
<1>5. /\ result' \in [Jobs -> [Tries -> Message]] /\ result'[j][t] = Sent
      /\ \A u \in Tries \ {t} : result'[j][u] = result[j][u]
      /\ \A k \in Jobs \ {j} : result'[k] = result[k]
  BY <1>0, <1>3, <1>4, OneTryChanges DEF FactoryTypes
<1>6. /\ report' \in [Jobs -> [Tries -> Reports]]
      /\ \A u \in Tries \ {t} : report'[j][u] = report[j][u]
      /\ \A k \in Jobs \ {j} : report'[k] = report[k]
  BY <1>0, <1>2, <1>3, OneTryChanges DEF FactoryTypes
<1>7. FactoryTypes'
  BY <1>0, <1>5, <1>6 DEF FactoryTypes, SendReport
<1>8. Elsewhere(j)
  BY <1>5, <1>6 DEF SendReport, Elsewhere, SameJob
<1>9. Stage(j)'
  BY <1>0, <1>3, <1>5, <1>6 DEF JobInv, Stage, SendReport
<1>a. \A n : Has(j, n)' = Has(j, n)
  BY DEF SendReport, Has, Attached
<1>b. Row(j)' = Row(j) /\ Attached' = Attached
  BY DEF SendReport, Row, Attached
<1>10. Attaching(j)'
  <2>1. run[j].of \in Tries /\ run' = run /\ status' = status /\ kept' = kept /\ inputs' = inputs
    BY <1>0 DEF FactoryTypes, Runs, SendReport
  <2>2. Mine(j) # None => Mine(j)' = Mine(j)
    BY <1>1, <1>6, <2>1 DEF Mine
  <2>3. \A u \in Tries : Attends(j, report[j][u]) => Attends(j, report[j][u])'
    BY <1>1, <1>6, <1>a, <2>1 DEF Attends
  <2> QED
    BY <1>0, <1>a, <1>b, <2>1, <2>2, <2>3 DEF JobInv, Attaching
<1>11. OneRound(j)'
  BY <1>0, PendingIsFinite DEF JobInv, OneRound, SendReport, OneMoreFault
<1>12. Bounded(j)'
  <2>1. Pending(j)' = Pending(j) \cup {t} /\ t \notin Pending(j)
    BY <1>3, <1>5 DEF Pending
  <2>2. Cardinality(Pending(j))' = Cardinality(Pending(j)) + 1
    BY <1>0, <2>1, PendingIsFinite, FS_AddElement
  <2>3. faults' + Judged(j)' = faults + Judged(j) + 1
    <3>1. CASE t = 1
      BY <1>0, <1>3, <1>5, <3>1, PendingIsFinite DEF Judged
    <3>2. CASE t # 1
      BY <1>0, <1>5, <3>2, PendingIsFinite DEF Judged, OneMoreFault
    <3> QED
      BY <3>1, <3>2
  <2>4. Twice(j)' = Twice(j) /\ run' = run /\ (Working(j)' <=> Working(j))
    BY DEF SendReport, Twice, Working
  <2>5. /\ faults' \in Nat /\ Judged(j)' \in Nat /\ Twice(j) \in Nat
        /\ run[j].round \in Nat /\ Cardinality(Pending(j)) \in Nat
        /\ faults \in Nat /\ Judged(j) \in Nat
    BY <1>0, PendingIsFinite DEF Judged, OneMoreFault
  <2>6. j \in AsyncJobs =>
          run'[j].round + Cardinality(Pending(j))' <= faults' + Judged(j)' + Twice(j)'
    <3> HIDE DEF Judged, Twice
    <3> QED
      BY <1>0, <2>2, <2>3, <2>4, <2>5 DEF Bounded
  <2> QED
    BY <1>0, <2>1, <2>4, <2>6 DEF Bounded
<1>13. Uploads(j)
  BY <1>0 DEF SendReport, Uploads, FactoryTypes, Runs
<1>14. question' = question /\ filled' = filled /\ (faults' = faults \/ OneMoreFault)
  BY DEF SendReport
<1> QED
  BY <1>7, <1>8, <1>9, <1>10, <1>11, <1>12, <1>13, <1>14, OneJobMoves DEF JobInv

LEMMA JudgeInputsKeepsInv ==
  ASSUME FactoryInv, NEW j \in Jobs, JudgeInputs(j)
  PROVE  FactoryInv'
<1>1. 1 \in Tries /\ faults' \in 0..MaxFaults
  BY PendingIsFinite DEF FactoryInv, FactoryTypes, JudgeInputs
<1> QED
  BY <1>1, SendReportKeepsInv DEF JudgeInputs

LEMMA JudgeAgainKeepsInv ==
  ASSUME FactoryInv, NEW j \in Jobs, NEW t \in Tries, JudgeAgain(j, t)
  PROVE  FactoryInv'
<1>1. FactoryTypes /\ Stage(j)
  BY DEF FactoryInv, JobInv
<1>2. t > 1 /\ t - 1 \in Tries /\ result[j][t - 1] # Unsent /\ result[j][t] = Unsent
  BY FactoryAssumption DEF JudgeAgain, Tries
<1>3. diff[j] = "sent"
  BY <1>1, <1>2 DEF FactoryTypes, Stage
<1>4. OneMoreFault /\ faults' \in 0..MaxFaults
  BY <1>1, FactoryAssumption DEF JudgeAgain, Fault, OneMoreFault, FactoryTypes
<1>5. result[j][1] # Unsent
  BY <1>1, <1>2 DEF Stage
<1> QED
  BY <1>2, <1>3, <1>4, <1>5, SendReportKeepsInv DEF JudgeAgain

(***************************************************************************)
(* The report arrives: nothing of it is attached in this round.            *)
(***************************************************************************)
LEMMA FinalizesMoves ==
  ASSUME FactoryInv, NEW j \in Jobs, NEW t \in Tries, Finalizes(j, t)
  PROVE  /\ run' \in [Jobs -> Runs] /\ \A k \in Jobs \ {j} : run'[k] = run[k]
         /\ run'[j].round = run[j].round + 1 /\ run[j].round \in Nat /\ run'[j].of = t
         /\ status' \in [Jobs -> Statuses]
         /\ \A k \in Jobs \ {j} : status'[k] = status[k]
         /\ \/ run'[j].pc = AfterFinalize(j) /\ status'[j] = "failed"
            \/ run'[j].pc = "attach" /\ report[j][t] # None /\ run'[j].todo = report[j][t]
               /\ status'[j] = status[j]
<1>1. run[j] \in Runs /\ run \in [Jobs -> Runs] /\ status \in [Jobs -> Statuses]
  BY DEF FactoryInv, FactoryTypes
<1>2. run[j].round \in Nat /\ run[j].round + 1 \in Nat
  BY <1>1 DEF Runs
<1>3. CASE report[j][t] = None
  <2> DEFINE q == [pc |-> AfterFinalize(j), todo |-> {}, round |-> run[j].round + 1, of |-> t]
  <2>1. AfterFinalize(j) \in JobPcs
    BY DEF AfterFinalize, JobPcs
  <2>2. q \in Runs /\ q.pc = AfterFinalize(j) /\ q.round = run[j].round + 1 /\ q.of = t
    BY <1>2, <2>1 DEF Runs
  <2>3. run' = [run EXCEPT ![j] = q] /\ status' = [status EXCEPT ![j] = "failed"]
    BY <1>3 DEF Finalizes, Says
  <2> HIDE DEF q
  <2> QED
    BY <1>1, <1>2, <2>2, <2>3 DEF Statuses
<1>4. CASE report[j][t] # None
  <2> DEFINE q == [pc |-> "attach", todo |-> report[j][t], round |-> run[j].round + 1, of |-> t]
  <2>0. report[j][t] \in Reports
    BY DEF FactoryInv, FactoryTypes
  <2>1. report[j][t] \in SUBSET Numbers
    BY <1>4, <2>0 DEF Reports
  <2>2. /\ q \in Runs /\ q.pc = "attach" /\ q.todo = report[j][t] /\ q.of = t
        /\ q.round = run[j].round + 1
    BY <1>2, <2>1 DEF Runs, JobPcs
  <2>3. run' = [run EXCEPT ![j] = q] /\ status' = status
    BY <1>4 DEF Finalizes
  <2> HIDE DEF q
  <2> QED
    BY <1>1, <1>2, <1>4, <2>2, <2>3
<1> QED
  BY <1>3, <1>4

\* a report that is begun leaves what was attached, and nothing of it is attached yet
LEMMA FinalizesAttaching ==
  ASSUME FactoryInv, NEW j \in Jobs, NEW t \in Tries, Finalizes(j, t),
         UNCHANGED <<question, kept, inputs, report>>, run[j].pc \notin {"attach", "upload"}
  PROVE  Attaching(j)'
<1>1. \A n : Has(j, n)' = Has(j, n)
  BY DEF Has, Attached
<1>2. Attaching(j) /\ AfterFinalize(j) \notin {"attach", "upload"}
  BY DEF FactoryInv, JobInv, AfterFinalize
<1>3. run'[j].pc # "upload" /\ run'[j].round # 0
  BY <1>2, FinalizesMoves
<1>4. run'[j].pc = "attach" => Mine(j)' # None /\ run'[j].todo = Mine(j)'
  BY <1>2, FinalizesMoves DEF Mine
<1>5. status'[j] = "succeeded" => status[j] = "succeeded"
  BY FinalizesMoves
<1>6. \A u \in Tries : Attends(j, report[j][u]) => Attends(j, report[j][u])'
  BY <1>1 DEF Attends
<1> QED
  BY <1>2, <1>3, <1>4, <1>5, <1>6 DEF Attaching

LEMMA PollResultKeepsInv ==
  ASSUME FactoryInv, NEW j \in Jobs, PollResult(j)
  PROVE  FactoryInv'
<1>0. PICK t \in Tries : /\ CanReceive(result[j][t]) /\ Finalizes(j, t)
                         /\ result' = [result EXCEPT ![j][t].state = "deleted"]
  BY DEF PollResult
<1>i. FactoryTypes /\ JobInv(j) /\ run[j].pc = "poll" /\ At(j, "poll")
  BY DEF FactoryInv, PollResult, At
<1> DEFINE m == [result[j][t] EXCEPT !.state = "deleted"]
<1>1. m \in Message /\ m.state = "deleted" /\ result' = [result EXCEPT ![j][t] = m]
  <2>1. result[j][t] \in Message
    BY <1>i DEF FactoryTypes
  <2>2. m \in Message /\ m.state = "deleted"
    BY <2>1 DEF Message
  <2> QED
    BY <1>0, <2>2
<1>t. result[j][t] # Unsent /\ m # Unsent
  BY <1>0, <1>1 DEF CanReceive, Unsent
<1> HIDE DEF m
<1>2. /\ result' \in [Jobs -> [Tries -> Message]] /\ result'[j][t] = m
      /\ \A u \in Tries \ {t} : result'[j][u] = result[j][u]
      /\ \A k \in Jobs \ {j} : result'[k] = result[k]
  BY <1>1, <1>i, OneTryChanges DEF FactoryTypes
<1>3. FactoryTypes' /\ Elsewhere(j)
  BY <1>0, <1>2, <1>i, FinalizesMoves
     DEF FactoryTypes, PollResult, Elsewhere, SameJob
<1>4. j \in SyncJobs /\ diff[j] = "sent" /\ run[j].round = 0 /\ inputs[j] \in SUBSET Numbers
      /\ AfterFinalize(j) = "over" /\ j \notin AsyncJobs
  BY <1>i, <1>t, FactoryAssumption DEF FactoryTypes, JobInv, Stage, OneRound, Jobs, AfterFinalize
<1>5. Stage(j)'
  <2>1. \A u \in Tries : result'[j][u] = Unsent => result[j][u] = Unsent /\ u # t
    BY <1>2, <1>t
  <2>2. result[j][1] # Unsent /\ result'[j][1] # Unsent
    BY <1>i, <1>t, <1>2, PendingIsFinite DEF JobInv, Stage
  <2> QED
    BY <1>0, <1>4, <1>i, <2>1, <2>2, FinalizesMoves DEF PollResult, JobInv, Stage
<1>6. Attaching(j)'
  BY <1>0, <1>i, FinalizesAttaching DEF PollResult
<1>7. OneRound(j)'
  <2>1. j \in SyncJobs => /\ run'[j].round <= 1
                         /\ run'[j].pc \notin {"idle", "draft", "model", "send", "poll"}
    BY <1>0, <1>4, FinalizesMoves
  <2>2. status'[j] = "failed" \/ status[j] # "succeeded" \/ inputs[j] = None
    BY <1>4, <1>i DEF JobInv, OneRound
  <2>3. ~(status'[j] = "succeeded" /\ inputs'[j] # None)
    BY <1>0, <2>2, FinalizesMoves DEF PollResult
  <2> QED
    BY <1>4, <2>1, <2>3 DEF OneRound
<1>8. Uploads(j)
  BY <1>0, <1>4, <1>i, FinalizesMoves DEF Uploads, PollResult
<1>9. Bounded(j)'
  BY <1>4 DEF Bounded
<1> QED
  BY <1>3, <1>5, <1>6, <1>7, <1>8, <1>9, OneJobMoves DEF JobInv, PollResult

LEMMA PollTimesOutKeepsInv ==
  ASSUME FactoryInv, NEW j \in Jobs, PollTimesOut(j)
  PROVE  FactoryInv'
<1>1. Moves(j, "over")
  BY GoesMoves DEF FactoryInv, PollTimesOut, JobPcs
<1>2. FactoryTypes' /\ Elsewhere(j) /\ status'[j] = "failed"
  BY <1>1 DEF FactoryInv, FactoryTypes, PollTimesOut, Says, Statuses, Elsewhere, SameJob, Moves
<1>3. JobInv(j)'
  BY <1>1, <1>2, FactoryAssumption
     DEF FactoryInv, JobInv, Stage, Attaching, OneRound, PollTimesOut, Moves, At, Working
<1>4. Uploads(j)
  BY <1>1 DEF PollTimesOut, Moves, Uploads, At, FactoryInv, FactoryTypes, Runs
<1>5. Bounded(j)'
  BY <1>1, MovesSteadily DEF PollTimesOut, At, Working
<1> QED
  BY <1>2, <1>3, <1>4, <1>5, OneJobMoves DEF PollTimesOut

LEMMA ReceiveResultKeepsInv ==
  ASSUME FactoryInv, NEW j \in Jobs, ReceiveResult(j)
  PROVE  FactoryInv'
<1>0. PICK t \in Tries : /\ CanReceive(result[j][t]) /\ Finalizes(j, t)
                         /\ result' = [result EXCEPT ![j][t] = Received(@)]
  BY DEF ReceiveResult
<1>i. FactoryTypes /\ JobInv(j) /\ Bounded(j)
  BY DEF FactoryInv
<1> DEFINE m == Received(result[j][t])
<1>1. m \in Message /\ m.state = "inflight" /\ result' = [result EXCEPT ![j][t] = m]
  BY <1>0, <1>i, MaxReceivesAssumption DEF FactoryTypes, Message, CanReceive, Received
<1>t. result[j][t] # Unsent /\ m # Unsent /\ result[j][t].state = "visible"
  BY <1>0, <1>1 DEF CanReceive, Unsent
<1> HIDE DEF m
<1>2. /\ result' \in [Jobs -> [Tries -> Message]] /\ result'[j][t] = m
      /\ \A u \in Tries \ {t} : result'[j][u] = result[j][u]
      /\ \A k \in Jobs \ {j} : result'[k] = result[k]
  BY <1>1, <1>i, OneTryChanges DEF FactoryTypes
<1>3. FactoryTypes' /\ Elsewhere(j)
  BY <1>0, <1>2, <1>i, FinalizesMoves
     DEF FactoryTypes, ReceiveResult, Elsewhere, SameJob
<1>4. j \in AsyncJobs /\ j \notin SyncJobs /\ AfterFinalize(j) = "ack"
      /\ run[j].pc \in {"away", "over"} /\ faults' = faults
  BY FactoryAssumption DEF ReceiveResult, AfterFinalize
<1>5. diff[j] = "sent" /\ result[j][1] # Unsent /\ result'[j][1] # Unsent
  <2>1. 1 \in Tries /\ result[j][1] # Unsent
    BY <1>i, <1>t, PendingIsFinite DEF JobInv, Stage
  <2>2. diff[j] # "none"
    BY <1>i, <2>1 DEF JobInv, Stage
  <2> QED
    BY <1>i, <1>t, <1>2, <2>1, <2>2 DEF FactoryTypes
<1>6. Stage(j)'
  <2>1. \A u \in Tries : result'[j][u] = Unsent => result[j][u] = Unsent /\ u # t
    BY <1>2, <1>t
  <2> QED
    BY <1>0, <1>4, <1>5, <1>i, <2>1, FinalizesMoves DEF ReceiveResult, JobInv, Stage
<1>7. Attaching(j)'
  BY <1>0, <1>4, FinalizesAttaching DEF ReceiveResult
<1>8. /\ run[j].round + Cardinality(Pending(j)) <= faults + 1 /\ Judged(j) = 1 /\ Twice(j) = 0
      /\ Judged(j)' = 1 /\ Twice(j)' = 1 /\ Working(j)'
  <2>1. ~Working(j) /\ Working(j)'
    BY <1>0, <1>4, FinalizesMoves DEF Working
  <2>2. Judged(j) = 1 /\ Twice(j) = 0 /\ Judged(j)' = 1 /\ Twice(j)' = 1
    BY <1>5, <2>1 DEF Judged, Twice
  <2> QED
    BY <1>4, <1>i, <2>1, <2>2, PendingIsFinite DEF Bounded
<1>9. Pending(j)' = Pending(j) /\ t \in Pending(j) /\ run'[j].of = t
  BY <1>0, <1>1, <1>2, <1>t, FinalizesMoves DEF Pending
<1>10. Bounded(j)'
  BY <1>0, <1>4, <1>8, <1>9, <1>i, PendingIsFinite, FinalizesMoves DEF Bounded
<1>11. faults = 0 => run[j].round = 0
  BY <1>8, <1>9, <1>i, PendingIsFinite
<1>12. OneRound(j)'
  <2>1. faults = 0 => status'[j] = "failed" \/ status[j] # "succeeded" \/ inputs[j] = None
    BY <1>11, <1>i DEF JobInv, OneRound
  <2>2. faults' = 0 => ~(status'[j] = "succeeded" /\ inputs'[j] # None)
    BY <1>0, <1>4, <2>1, FinalizesMoves DEF ReceiveResult
  <2>3. run'[j].round # 0
    BY <1>0, FinalizesMoves
  <2> QED
    BY <1>4, <2>2, <2>3 DEF OneRound
<1>13. Uploads(j)
  BY <1>0, <1>4, <1>i, FinalizesMoves DEF Uploads, FactoryTypes, Runs
<1> QED
  BY <1>3, <1>6, <1>7, <1>10, <1>12, <1>13, OneJobMoves DEF JobInv, ReceiveResult

(***************************************************************************)
(* A case is created and uploaded.                                         *)
(***************************************************************************)
LEMMA CreateCaseKeepsInv ==
  ASSUME FactoryInv, NEW j \in Jobs, CreateCase(j)
  PROVE  FactoryInv'
<1>0. At(j, "attach") /\ run[j].todo # {} /\ run[j] \in Runs
  BY DEF CreateCase, FactoryInv, FactoryTypes
<1>1. Moves(j, "upload")
  BY GoesMoves DEF FactoryInv, CreateCase, JobPcs
<1>2. Row(j) \in Cases /\ Row(j)[1] = j /\ Row(j)[3] = run[j].round
  BY <1>0, RowIsACase DEF FactoryInv
<1>3. question' \in Questions /\ Attached' = Attached \cup {Row(j)}
  BY <1>2, CasesGrow DEF CreateCase, FactoryInv, FactoryTypes, Attached
<1>4. FactoryTypes' /\ Elsewhere(j) /\ Grows
  BY <1>1, <1>3 DEF FactoryInv, FactoryTypes, CreateCase, Elsewhere, SameJob, Moves, Grows
<1>5. Row(j)' = Row(j) /\ Mine(j)' = Mine(j)
  BY <1>1 DEF Row, Mine, Moves, CreateCase
<1>6. \A n : Has(j, n) => Has(j, n)'
  BY <1>3 DEF Has
<1>7. JobInv(j)'
  <2>1. Stage(j)'
    BY <1>0, <1>1 DEF FactoryInv, JobInv, Stage, CreateCase, Moves, At
  <2>2. Attaching(j)'
    BY <1>0, <1>1, <1>3, <1>5, <1>6
       DEF FactoryInv, JobInv, Attaching, Attends, CreateCase, Moves, At
  <2>3. OneRound(j)'
    BY <1>0, <1>1 DEF FactoryInv, JobInv, OneRound, CreateCase, Moves, At, Working
  <2> QED
    BY <2>1, <2>2, <2>3 DEF JobInv
<1>8. \A k \in Jobs : JobInv(k)' /\ Bounded(k)'
  <2>1. \A k \in Jobs : JobInv(k)'
    BY <1>4, <1>7, OtherJobs DEF FactoryInv, Elsewhere
  <2>2. Bounded(j)'
    BY <1>0, <1>1, MovesSteadily DEF CreateCase, At, Working
  <2>3. ASSUME NEW k \in Jobs \ {j} PROVE Bounded(k)'
    <3>1. Steady(k)
      BY <1>4 DEF Elsewhere, SameJob, Steady, Working, CreateCase
    <3> QED
      BY <3>1, BoundKept DEF FactoryInv
  <2> QED
    BY <2>1, <2>2, <2>3
<1>9. ASSUME NEW row \in Attached'
      PROVE  Stored(row)'
  <2>1. CASE row = Row(j)
    <3>1. 1 <= run[j].round
      BY <1>0 DEF FactoryInv, JobInv, Attaching, At, Runs
    <3> QED
      BY <1>0, <1>1, <1>2, <1>5, <2>1, <3>1 DEF Stored, Moves, Runs
  <2>2. CASE row \in Attached
    <3>1. Stored(row)
      BY <2>2 DEF FactoryInv
    <3>2. row[1] \in Jobs
      BY <2>2, NewestIsAVersion DEF FactoryInv, FactoryTypes, Attached, Versions, Cases
    <3>3. CASE row[1] = j
      BY <1>0, <1>1, <3>1, <3>3 DEF Stored, Moves, At, CreateCase
    <3>4. CASE row[1] # j
      <4>1. run'[row[1]] = run[row[1]]
        BY <1>1, <3>2, <3>4 DEF Moves
      <4>2. Row(row[1])' = Row(row[1])
        BY <4>1 DEF Row
      <4> QED
        BY <3>1, <4>1, <4>2 DEF Stored, CreateCase
    <3> QED
      BY <3>3, <3>4
  <2> QED
    BY <1>3, <2>1, <2>2
<1> QED
  BY <1>4, <1>8, <1>9 DEF FactoryInv

LEMMA UploadCaseKeepsInv ==
  ASSUME FactoryInv, NEW j \in Jobs, UploadCase(j)
  PROVE  FactoryInv'
<1>0. At(j, "upload") /\ run[j].todo # {} /\ Row(j) \in Attached /\ run[j] \in Runs
  BY DEF UploadCase, At, FactoryInv, FactoryTypes, JobInv, Attaching
<1> DEFINE n == Row(j)[2]
           q == [run[j] EXCEPT !.pc = "attach", !.todo = @ \ {n}]
<1>1. /\ q \in Runs /\ q.pc = "attach" /\ q.todo = run[j].todo \ {n}
      /\ q.round = run[j].round /\ q.of = run[j].of
  BY <1>0 DEF Runs, JobPcs
<1>2. run' = [run EXCEPT ![j] = q]
  BY DEF UploadCase
<1>3. Has(j, n)
  BY <1>0, RowIsACase DEF FactoryInv, Has
<1> HIDE DEF q, n
<1>4. run' \in [Jobs -> Runs] /\ run'[j] = q /\ \A k \in Jobs \ {j} : run'[k] = run[k]
  BY <1>1, <1>2 DEF FactoryInv, FactoryTypes
<1>5. /\ faults' \in 0..MaxFaults /\ (faults' = 0 => faults = 0) /\ filled \subseteq filled'
      /\ faults' = faults \/ OneMoreFault
      /\ faults' = 0 => Row(j) \in filled'
  BY FactoryAssumption DEF UploadCase, FactoryInv, FactoryTypes, OneMoreFault
<1>6. FactoryTypes' /\ Elsewhere(j)
  BY <1>4, <1>5 DEF FactoryInv, FactoryTypes, UploadCase, Elsewhere, SameJob
<1>7. \A m : Has(j, m)' = Has(j, m)
  BY DEF Has, Attached, UploadCase
<1>8. JobInv(j)'
  <2>1. Stage(j)'
    BY <1>0, <1>1, <1>4 DEF FactoryInv, JobInv, Stage, UploadCase, At
  <2>2. Attaching(j)'
    BY <1>0, <1>1, <1>3, <1>4, <1>7
       DEF FactoryInv, JobInv, Attaching, Mine, Attends, UploadCase, At
  <2>3. OneRound(j)'
    BY <1>0, <1>1, <1>4, <1>5 DEF FactoryInv, JobInv, OneRound, UploadCase, At, Working
  <2> QED
    BY <2>1, <2>2, <2>3 DEF JobInv
<1>9. Uploads(j)
  BY <1>0, <1>1, <1>4, <1>5 DEF Uploads, Runs
<1>10. Bounded(j)'
  <2>1. Steady(j)
    BY <1>0, <1>1, <1>4, <1>5 DEF Steady, Working, At, UploadCase
  <2> QED
    BY <2>1, BoundKept DEF FactoryInv
<1> QED
  BY <1>5, <1>6, <1>8, <1>9, <1>10, OneJobMoves DEF UploadCase

LEMMA CompleteFactoryKeepsInv ==
  ASSUME FactoryInv, NEW j \in Jobs, CompleteFactory(j)
  PROVE  FactoryInv'
<1>0. At(j, "attach") /\ run[j].todo = {} /\ Mine(j) # None /\ AfterFinalize(j) \in {"over", "ack"}
      /\ (j \in AsyncJobs => AfterFinalize(j) = "ack")
      /\ (j \in SyncJobs => AfterFinalize(j) = "over")
  BY FactoryAssumption
     DEF CompleteFactory, At, FactoryInv, JobInv, Attaching, AfterFinalize
<1>1. Moves(j, AfterFinalize(j))
  BY <1>0, GoesMoves DEF FactoryInv, CompleteFactory, JobPcs
<1>2. Cardinality(Mine(j)) \in 0..NumCases
  <2>0. Mine(j) \in Reports
    BY DEF FactoryInv, FactoryTypes, Runs, Mine
  <2>1. Mine(j) \subseteq 1..NumCases
    BY <1>0, <2>0 DEF Numbers, Reports
  <2>2. IsFiniteSet(1..NumCases) /\ Cardinality(1..NumCases) = NumCases
    BY FactoryAssumption, FS_Interval
  <2> QED
    BY <2>1, <2>2, FS_Subset, FS_CardinalityType, FactoryAssumption
<1>3. FactoryTypes' /\ Elsewhere(j)
  BY <1>1, <1>2
     DEF FactoryInv, FactoryTypes, CompleteFactory, Mine, Says, Statuses, Elsewhere, SameJob, Moves
<1>4. \A n : Has(j, n)' = Has(j, n)
  BY DEF Has, Attached, CompleteFactory
<1>5. kept'[j] = Cardinality(Mine(j)) /\ run[j].of \in Tries /\ report' = report
  BY DEF CompleteFactory, Mine, FactoryInv, FactoryTypes, Runs
<1>6. JobInv(j)'
  <2>1. Stage(j)'
    BY <1>0, <1>1, FactoryAssumption DEF FactoryInv, JobInv, Stage, CompleteFactory, Moves, At
  <2>2. Attaching(j)'
    <3>1. \A n \in Mine(j) : Has(j, n)'
      BY <1>0, <1>4 DEF FactoryInv, JobInv, Attaching, At
    <3>2. Attends(j, report[j][run[j].of])'
      BY <1>0, <1>1, <1>5, <3>1 DEF Attends, Mine, Moves
    <3>3. run'[j].pc \notin {"attach", "upload"} /\ run'[j].of = run[j].of
      BY <1>0, <1>1 DEF Moves
    <3> QED
      BY <1>5, <3>2, <3>3 DEF Attaching
  <2>3. OneRound(j)'
    <3>1. run'[j].round # 0 /\ run'[j].pc \notin {"attach", "upload"}
      BY <1>0, <1>1 DEF FactoryInv, JobInv, Attaching, Moves, At
    <3> QED
      BY <1>0, <1>1, <3>1, FactoryAssumption
         DEF FactoryInv, JobInv, OneRound, CompleteFactory, Moves, At, Working
  <2> QED
    BY <2>1, <2>2, <2>3 DEF JobInv
<1>7. Uploads(j)
  BY <1>0, <1>1 DEF Moves, Uploads, At, FactoryInv, FactoryTypes, Runs
<1>8. Bounded(j)'
  BY <1>0, <1>1, MovesSteadily DEF CompleteFactory, At, Working
<1> QED
  BY <1>3, <1>6, <1>7, <1>8, OneJobMoves DEF CompleteFactory

LEMMA DeleteResultKeepsInv ==
  ASSUME FactoryInv, NEW j \in Jobs, DeleteResult(j)
  PROVE  FactoryInv'
<1>i. FactoryTypes /\ JobInv(j) /\ Bounded(j) /\ At(j, "ack")
  BY DEF FactoryInv, DeleteResult
<1> DEFINE t == run[j].of
           m == [result[j][t] EXCEPT !.state = "deleted"]
<1>0. j \in AsyncJobs /\ j \notin SyncJobs /\ t \in Tries /\ result[j][t] \in Message
  BY <1>i, FactoryAssumption DEF At, JobInv, Stage, Jobs, FactoryTypes, Runs
<1>1. Moves(j, "away")
  BY <1>i, GoesMoves DEF DeleteResult, JobPcs
<1>2. m \in Message /\ m.state = "deleted" /\ result' = [result EXCEPT ![j][t] = m] /\ m # Unsent
  <2>1. m \in Message /\ m.state = "deleted"
    BY <1>0 DEF Message
  <2>2. m # Unsent
    BY <2>1 DEF Unsent
  <2> QED
    BY <2>1, <2>2 DEF DeleteResult
<1> HIDE DEF m, t
<1>3. /\ result' \in [Jobs -> [Tries -> Message]] /\ result'[j][t] = m
      /\ \A u \in Tries \ {t} : result'[j][u] = result[j][u]
      /\ \A k \in Jobs \ {j} : result'[k] = result[k]
  BY <1>0, <1>2, <1>i, OneTryChanges DEF FactoryTypes
<1>4. FactoryTypes' /\ Elsewhere(j)
  BY <1>1, <1>3, <1>i DEF FactoryTypes, DeleteResult, Elsewhere, SameJob, Moves
<1>5. /\ Working(j) /\ ~Working(j)' /\ Twice(j) = 1 /\ Twice(j)' = 0 /\ t \in Pending(j)
      /\ result[j][t] # Unsent
  <2>1. Working(j) /\ ~Working(j)'
    BY <1>1, <1>i DEF Working, At, Moves
  <2>2. t \in Pending(j)
    BY <1>0, <1>i, <2>1 DEF Bounded, t
  <2> QED
    BY <2>1, <2>2 DEF Twice, Pending, Unsent
<1>6. Stage(j)'
  <2>1. 1 \in Tries /\ result[j][1] # Unsent /\ result'[j][1] # Unsent
    BY <1>0, <1>2, <1>3, <1>5, <1>i, PendingIsFinite DEF JobInv, Stage
  <2>2. \A u \in Tries : result'[j][u] = Unsent => result[j][u] = Unsent
    BY <1>2, <1>3
  <2> QED
    BY <1>0, <1>1, <1>i, <2>1, <2>2 DEF JobInv, Stage, DeleteResult, Moves, At
<1>7. Attaching(j)'
  <2>1. \A n : Has(j, n)' = Has(j, n)
    BY DEF Has, Attached, DeleteResult
  <2> QED
    BY <1>1, <1>i, <2>1 DEF JobInv, Attaching, Attends, DeleteResult, Moves, At
<1>8. OneRound(j)'
  BY <1>0, <1>1, <1>i DEF JobInv, OneRound, DeleteResult, Moves, At
<1>9. Bounded(j)'
  <2>1. Pending(j)' = Pending(j) \ {t}
    BY <1>2, <1>3 DEF Pending
  <2>2. Cardinality(Pending(j))' = Cardinality(Pending(j)) - 1
    BY <1>5, <1>i, <2>1, PendingIsFinite, FS_RemoveElement
  <2>3. Judged(j)' = Judged(j)
    BY <1>0, <1>2, <1>3, <1>5 DEF Judged
  <2>4. run'[j].round = run[j].round /\ faults' = faults
    BY <1>1 DEF Moves, DeleteResult
  <2> QED
    BY <1>5, <1>i, <2>2, <2>3, <2>4, PendingIsFinite DEF Bounded
<1>10. Uploads(j)
  BY <1>1, <1>i DEF Moves, Uploads, At, FactoryTypes, Runs
<1> QED
  BY <1>4, <1>6, <1>7, <1>8, <1>9, <1>10, OneJobMoves DEF JobInv, DeleteResult

LEMMA ResultReturnsKeepsInv ==
  ASSUME FactoryInv, NEW j \in Jobs, ResultReturns(j)
  PROVE  FactoryInv'
<1>0. PICK t \in Tries : /\ result[j][t].state = "inflight"
                         /\ result' = [result EXCEPT ![j][t] = TimedOut(@)]
  BY DEF ResultReturns
<1>i. FactoryTypes /\ JobInv(j) /\ Bounded(j)
  BY DEF FactoryInv
<1> DEFINE m == TimedOut(result[j][t])
<1>1. m \in Message /\ m.state = "visible" /\ result' = [result EXCEPT ![j][t] = m]
  <2>1. result[j][t] \in Message
    BY <1>i DEF FactoryTypes
  <2>2. m \in Message /\ m.state = "visible"
    BY <2>1 DEF TimedOut, Message
  <2> QED
    BY <1>0, <2>2
<1>2. m # Unsent /\ result[j][t] # Unsent
  BY <1>0, <1>1 DEF Unsent
<1> HIDE DEF m
<1>3. /\ result' \in [Jobs -> [Tries -> Message]] /\ result'[j][t] = m
      /\ \A u \in Tries \ {t} : result'[j][u] = result[j][u]
      /\ \A k \in Jobs \ {j} : result'[k] = result[k]
  BY <1>1, <1>i, OneTryChanges DEF FactoryTypes
<1>4. FactoryTypes' /\ Elsewhere(j)
  BY <1>3, <1>i DEF FactoryTypes, ResultReturns, Elsewhere, SameJob
<1>5. \A u \in Tries : (result'[j][u] = Unsent <=> result[j][u] = Unsent)
                       /\ (u \in Pending(j)' <=> u \in Pending(j))
  BY <1>0, <1>1, <1>2, <1>3 DEF Pending
<1>6. Stage(j)'
  <2>1. diff[j] # "none" /\ 1 \in Tries
    BY <1>2, <1>i, PendingIsFinite DEF JobInv, Stage
  <2> QED
    BY <1>5, <1>i, <2>1 DEF JobInv, Stage, ResultReturns
<1>7. Attaching(j)'
  <2>1. (\A n : Has(j, n)' = Has(j, n)) /\ Row(j)' = Row(j) /\ Attached' = Attached
    BY DEF Has, Attached, Row, ResultReturns
  <2> QED
    BY <1>i, <2>1 DEF JobInv, Attaching, Mine, Attends, ResultReturns
<1>8. OneRound(j)'
  BY <1>i DEF JobInv, OneRound, ResultReturns
<1>9. Bounded(j)'
  <2>1. Pending(j)' = Pending(j)
    BY <1>5 DEF Pending
  <2>2. Judged(j)' = Judged(j) /\ Twice(j)' = Twice(j) /\ (Working(j)' <=> Working(j))
        /\ run' = run /\ faults' = faults
    BY <1>5, <1>i, PendingIsFinite DEF Judged, Twice, Working, ResultReturns
  <2> QED
    BY <1>i, <2>1, <2>2 DEF Bounded
<1>10. Uploads(j)
  BY <1>i DEF ResultReturns, Uploads, FactoryTypes, Runs
<1> QED
  BY <1>4, <1>6, <1>7, <1>8, <1>9, <1>10, OneJobMoves DEF JobInv, ResultReturns

(***************************************************************************)
(* Failures.                                                               *)
(***************************************************************************)
LEMMA FaultCounts ==
  ASSUME FactoryInv, Fault
  PROVE  faults' \in 0..MaxFaults /\ faults' # 0 /\ OneMoreFault
BY FactoryAssumption DEF Fault, OneMoreFault, FactoryInv, FactoryTypes

LEMMA RunFailsKeepsInv ==
  ASSUME FactoryInv, NEW j \in Jobs, RunFails(j)
  PROVE  FactoryInv'
<1>0. /\ faults' \in 0..MaxFaults /\ faults' # 0 /\ OneMoreFault
      /\ question' = question /\ filled' = filled
  BY FaultCounts DEF RunFails
<1>1. CASE j \in AsyncJobs /\ Working(j)
  <2>1. Moves(j, "away") /\ status' = status /\ diff' = diff
    BY <1>1, GoesMoves DEF FactoryInv, RunFails, JobPcs
  <2>2. FactoryTypes' /\ Elsewhere(j)
    BY <1>0, <2>1 DEF FactoryInv, FactoryTypes, RunFails, Elsewhere, SameJob, Moves
  <2>3. \A n : Has(j, n)' = Has(j, n)
    BY <1>0 DEF Has, Attached
  <2>4. Stage(j)'
    BY <1>1, <2>1, FactoryAssumption DEF FactoryInv, JobInv, Stage, RunFails, Moves, Working
  <2>5. Attaching(j)'
    BY <2>1, <2>3 DEF FactoryInv, JobInv, Attaching, Attends, RunFails, Moves
  <2>6. OneRound(j)'
    BY <1>0, <1>1, <2>1, FactoryAssumption DEF FactoryInv, JobInv, OneRound, RunFails, Moves
  <2>7. Uploads(j)
    BY <1>0, <2>1 DEF Uploads, Moves, FactoryInv, FactoryTypes, Runs
  <2>8. Bounded(j)'
    BY <1>0, <1>1, <2>1, MovesSteadily DEF RunFails
  <2> QED
    BY <1>0, <2>2, <2>4, <2>5, <2>6, <2>7, <2>8, OneJobMoves DEF JobInv
<1>2. CASE ~(j \in AsyncJobs /\ Working(j))
  <2>1. Moves(j, "over") /\ Says(j, "failed")
        /\ run[j].pc \in {"draft", "model", "send", "poll", "attach", "upload"}
    BY <1>2, GoesMoves DEF FactoryInv, RunFails, JobPcs
  <2>2. /\ diff' \in [Jobs -> {"none", "sent"}]
        /\ \A k \in Jobs \ {j} : diff'[k] = diff[k]
        /\ diff'[j] = diff[j] \/ (diff'[j] = "sent" /\ At(j, "send"))
    BY <1>2 DEF RunFails, FactoryInv, FactoryTypes, JobInv, Stage, At
  <2>3. FactoryTypes' /\ Elsewhere(j) /\ status'[j] = "failed"
    BY <1>0, <2>1, <2>2
       DEF FactoryInv, FactoryTypes, RunFails, Says, Statuses, Elsewhere, SameJob, Moves
  <2>4. Stage(j)'
    BY <2>1, <2>2 DEF FactoryInv, JobInv, Stage, RunFails, Moves, At
  <2>5. Attaching(j)'
    BY <2>1, <2>3 DEF Attaching, Moves
  <2>6. OneRound(j)'
    BY <1>0, <1>2, <2>1, <2>3, FactoryAssumption
       DEF FactoryInv, JobInv, OneRound, RunFails, Moves, Working
  <2>7. Uploads(j)
    BY <1>0, <2>1 DEF Uploads, Moves, FactoryInv, FactoryTypes, Runs
  <2>8. Bounded(j)'
    BY <1>0, <1>2, <2>1, MovesSteadily DEF RunFails
  <2> QED
    BY <1>0, <2>3, <2>4, <2>5, <2>6, <2>7, <2>8, OneJobMoves DEF JobInv
<1> QED
  BY <1>1, <1>2

LEMMA AiStopsKeepsInv ==
  ASSUME FactoryInv, AiStops
  PROVE  FactoryInv'
<1>0. faults' \in 0..MaxFaults /\ faults' # 0 /\ question' = question /\ filled' = filled
      /\ OneMoreFault
      /\ status' = status /\ kept' = kept /\ inputs' = inputs /\ diff' = diff
      /\ report' = report /\ result' = result
  BY FaultCounts DEF AiStops
<1>1. ASSUME NEW k \in Jobs
      PROVE  /\ run'[k] \in Runs /\ run'[k].todo = run[k].todo /\ run'[k].round = run[k].round
             /\ run'[k].of = run[k].of
             /\ \/ run'[k] = run[k] /\ run[k].pc \in {"idle", "away"}
                \/ k \in AsyncJobs /\ Working(k) /\ run'[k].pc = "away"
                \/ ~(k \in AsyncJobs /\ Working(k)) /\ run'[k].pc = "over"
  <2>0. run[k] \in Runs
    BY DEF FactoryInv, FactoryTypes
  <2>1. CASE run[k].pc \in {"idle", "away"}
    BY <2>0, <2>1 DEF AiStops
  <2>2. CASE run[k].pc \notin {"idle", "away"} /\ k \in AsyncJobs /\ Working(k)
    <3>1. run'[k] = [run[k] EXCEPT !.pc = "away"]
      BY <2>2 DEF AiStops
    <3> QED
      BY <2>0, <2>2, <3>1 DEF Runs, JobPcs
  <2>3. CASE run[k].pc \notin {"idle", "away"} /\ ~(k \in AsyncJobs /\ Working(k))
    <3>1. run'[k] = [run[k] EXCEPT !.pc = "over"]
      BY <2>3 DEF AiStops
    <3> QED
      BY <2>0, <2>3, <3>1 DEF Runs, JobPcs
  <2> QED
    BY <2>1, <2>2, <2>3
<1>2. run' \in [Jobs -> Runs]
  <2>1. DOMAIN run' = Jobs /\ run' = [k \in Jobs |-> run'[k]]
    BY DEF AiStops
  <2> QED
    BY <1>1, <2>1
<1>3. FactoryTypes'
  BY <1>0, <1>2 DEF FactoryInv, FactoryTypes
<1>4. \A k \in Jobs : \A n : Has(k, n)' = Has(k, n)
  BY <1>0 DEF Has, Attached
<1>5. ASSUME NEW k \in Jobs
      PROVE  JobInv(k)'
  <2>0. JobInv(k)
    BY DEF FactoryInv
  <2>1. Stage(k)'
    BY <1>0, <1>1, <2>0, FactoryAssumption DEF JobInv, Stage, Working
  <2>2. Attaching(k)'
    BY <1>0, <1>1, <1>4, <2>0 DEF JobInv, Attaching, Mine, Attends
  <2>3. OneRound(k)'
    BY <1>0, <1>1, <2>0, FactoryAssumption DEF JobInv, OneRound, Working
  <2> QED
    BY <2>1, <2>2, <2>3 DEF JobInv
<1>6. \A k \in Jobs : Uploads(k)
  BY <1>0, <1>1 DEF Uploads, FactoryInv, FactoryTypes, Runs
<1>7. Attached' = Attached
  BY <1>0 DEF Attached
<1>8. ASSUME NEW k \in Jobs
      PROVE  Bounded(k)'
  <2>1. CASE k \in AsyncJobs
    <3>1. Steady(k)
      BY <1>0, <1>1, <2>1 DEF Steady, Working
    <3> QED
      BY <3>1, BoundKept DEF FactoryInv
  <2>2. CASE k \notin AsyncJobs
    BY <2>2 DEF Bounded
  <2> QED
    BY <2>1, <2>2
<1> QED
  BY <1>0, <1>3, <1>5, <1>6, <1>7, <1>8, SameCases DEF FactoryInv

-----------------------------------------------------------------------------
(* The factory between other work on the question. *)

\* the text or the published number changes, the newest cases do not
LEMMA QuestionWork ==
  ASSUME FactoryInv, question' \in Questions, Newest(question').cases = Newest(question).cases,
         UNCHANGED <<filled, jobVars>>,
         faults' \in 0..MaxFaults, faults' = faults \/ OneMoreFault
  PROVE  FactoryInv'
<1>1. Attached' = Attached /\ Grows
  BY DEF Attached, Grows
<1>2. FactoryTypes'
  BY DEF FactoryInv, FactoryTypes, jobVars
<1>3. \A k \in Jobs : SameJob(k)
  BY DEF SameJob, jobVars
<1>4. \A k \in Jobs : JobInv(k)'
  BY <1>1, <1>3, OtherJobs DEF FactoryInv
<1>0. faults' = 0 => faults = 0
  BY FactoryAssumption DEF FactoryInv, FactoryTypes, OneMoreFault
<1>6. ASSUME NEW k \in Jobs
      PROVE  Bounded(k)'
  <2>1. Steady(k)
    BY DEF Steady, Working, jobVars
  <2> QED
    BY <2>1, BoundKept DEF FactoryInv
<1>5. \A k \in Jobs : Uploads(k)
  BY DEF Uploads, FactoryInv, FactoryTypes, Runs, jobVars
<1> QED
  BY <1>0, <1>1, <1>2, <1>4, <1>5, <1>6, SameCases DEF FactoryInv, jobVars

LEMMA FactoryInitInv ==
  ASSUME FactoryInit
  PROVE  FactoryInv
<1> DEFINE v == [text |-> None, cases |-> {}]
<1>1. v \in Versions /\ v.cases = {}
  BY DEF Versions, Texts
<1> HIDE DEF v
<1>2. question.versions = <<v>> /\ question.published = 1
      /\ question = [versions |-> <<v>>, published |-> 1]
  BY DEF FactoryInit, v
<1>3. <<v>> \in Seq(Versions) /\ Len(<<v>>) = 1 /\ <<v>>[1] = v
  BY <1>1
<1>4. question \in Questions
  BY <1>2, <1>3 DEF Questions
<1>5. Attached = {}
  BY <1>1, <1>2, <1>3 DEF Attached, Newest, Current
<1>0. 1 \in Tries
  BY FactoryAssumption DEF Tries
<1>6. Waits \in Runs /\ Waits.pc = "idle" /\ Waits.round = 0
  BY <1>0 DEF Waits, Runs, JobPcs
<1>7. Unsent \in Message /\ Unsent.receives = 0
  BY MaxReceivesAssumption DEF Unsent, Message
<1>8. FactoryTypes
  BY <1>4, <1>6, <1>7, FactoryAssumption DEF FactoryInit, FactoryTypes, Statuses, Reports
<1>9. ASSUME NEW j \in Jobs
      PROVE  JobInv(j)
  BY <1>0, <1>6, <1>7 DEF FactoryInit, JobInv, Stage, Attaching, OneRound
<1>10. ASSUME NEW j \in Jobs
       PROVE  Bounded(j)
  <2>1. Pending(j) = {}
    BY DEF FactoryInit, Pending, Unsent
  <2>2. Cardinality(Pending(j)) = 0
    BY <2>1, FS_EmptySet
  <2>3. run[j].round = 0 /\ ~Working(j) /\ faults = 0
    BY <1>6 DEF FactoryInit, Working
  <2> QED
    BY <1>8, <2>2, <2>3, PendingIsFinite DEF Bounded
<1> QED
  BY <1>5, <1>8, <1>9, <1>10 DEF FactoryInv

LEMMA FactoryStepKeepsInv ==
  ASSUME FactoryInv, NEW j \in Jobs, FactoryStep(j) \/ StartFactory(j) \/ FactoryFails(j)
  PROVE  FactoryInv'
BY StartFactoryKeepsInv, BeginGeneratingKeepsInv, DraftInputsKeepsInv, SendDiffJobKeepsInv,
   JudgeInputsKeepsInv, JudgeAgainKeepsInv, PollResultKeepsInv, PollTimesOutKeepsInv, ReceiveResultKeepsInv,
   CreateCaseKeepsInv, UploadCaseKeepsInv, CompleteFactoryKeepsInv, DeleteResultKeepsInv,
   ResultReturnsKeepsInv, RunFailsKeepsInv DEF FactoryStep, FactoryFails

(***************************************************************************)
(* What the factory does to a question: a draft grows, and a request that  *)
(* has not begun or is over adds nothing to it.                            *)
(***************************************************************************)
CasesOf(j, cases) == {row \in cases : row[1] = j}

Rests(p) == run[p].pc \in {"idle", "over"} =>
              run'[p].pc = run[p].pc /\ CasesOf(p, Attached') \subseteq Attached

FactoryWork ==
  /\ question' \in Questions /\ Later(question, question')
  /\ Newest(question').text = Newest(question).text
  /\ \A p \in SyncJobs : Rests(p)

LEMMA NothingAdded ==
  ASSUME FactoryTypes, question' = question,
         \A p \in SyncJobs : run[p].pc \in {"idle", "over"} => run'[p].pc = run[p].pc
  PROVE  FactoryWork
BY NewestIsAVersion DEF FactoryTypes, FactoryWork, Later, Rests, CasesOf, Attached

LEMMA FactoryWorks ==
  ASSUME FactoryInv, NEW j \in Jobs, FactoryStep(j) \/ FactoryFails(j)
  PROVE  FactoryWork
<1>1. CASE CreateCase(j)
  <2>1. Row(j) \in Cases /\ Row(j)[1] = j
    BY <1>1, RowIsACase DEF CreateCase, FactoryInv
  <2>2. /\ question' \in Questions /\ Later(question, question')
        /\ Newest(question').text = Newest(question).text
        /\ Attached' = Attached \cup {Row(j)}
    BY <1>1, <2>1, CasesGrow DEF CreateCase, FactoryInv, FactoryTypes, Attached
  <2>3. \A p \in SyncJobs : Rests(p)
    <3> SUFFICES ASSUME NEW p \in SyncJobs, run[p].pc \in {"idle", "over"}
                 PROVE  run'[p].pc = run[p].pc /\ CasesOf(p, Attached') \subseteq Attached
      BY DEF Rests
    <3>1. p # j /\ p \in Jobs
      BY <1>1 DEF CreateCase, At, Jobs
    <3>2. Moves(j, "upload")
      BY <1>1, GoesMoves DEF CreateCase, FactoryInv, JobPcs
    <3> QED
      BY <2>1, <2>2, <3>1, <3>2 DEF Moves, CasesOf
  <2> QED
    BY <2>2, <2>3 DEF FactoryWork
<1>2. CASE ~CreateCase(j)
  <2>1. question' = question
    BY <1>2 DEF FactoryStep, FactoryFails, RunFails, JudgeAgain, SendReport,
         BeginGenerating, DraftInputs, SendDiffJob, JudgeInputs,
         PollResult, PollTimesOut, ReceiveResult, UploadCase, CompleteFactory, DeleteResult,
         ResultReturns
  <2>2. ASSUME NEW p \in SyncJobs, run[p].pc \in {"idle", "over"}
        PROVE  run'[p] = run[p]
    <3>1. p \in Jobs /\ p \notin AsyncJobs
      BY FactoryAssumption DEF Jobs
    <3>2. p = j => ~FactoryStep(j) \/ run' = run
      BY <1>2, <2>2, <3>1
         DEF FactoryStep, At, BeginGenerating, DraftInputs, SendDiffJob, JudgeInputs, SendReport,
             PollResult, PollTimesOut, ReceiveResult, UploadCase, CompleteFactory, DeleteResult,
             ResultReturns
    <3>3. p = j => ~RunFails(j)
      BY <2>2, <3>1 DEF RunFails
    <3>5. (\E t \in Tries : JudgeAgain(j, t)) => run' = run
      BY DEF JudgeAgain, SendReport
    <3>6. (PollResult(j) \/ ReceiveResult(j)) => \E t \in Tries : Finalizes(j, t)
      BY DEF PollResult, ReceiveResult
    <3>4. \A k \in Jobs \ {j} : run'[k] = run[k]
      <4>1. CASE PollResult(j) \/ ReceiveResult(j)
        BY <3>6, <4>1, FinalizesMoves DEF FactoryInv
      <4>2. CASE ~(PollResult(j) \/ ReceiveResult(j))
        BY <1>2, <3>5, <4>2
           DEF FactoryStep, FactoryFails, RunFails, Goes, BeginGenerating, DraftInputs,
               SendDiffJob, JudgeInputs, SendReport, PollTimesOut, UploadCase, CompleteFactory,
               DeleteResult, ResultReturns, FactoryInv, FactoryTypes
      <4> QED
        BY <4>1, <4>2
    <3> QED
      BY <3>1, <3>2, <3>3, <3>4, <3>5 DEF FactoryFails
  <2> QED
    BY <2>1, <2>2, NothingAdded DEF FactoryInv
<1> QED
  BY <1>1, <1>2

LEMMA StartsWork ==
  ASSUME FactoryInv, NEW j \in AsyncJobs, StartFactory(j)
  PROVE  FactoryWork
<1>1. Moves(j, "draft") /\ j \notin SyncJobs
  BY GoesMoves, FactoryAssumption DEF StartFactory, FactoryInv, JobPcs, Jobs
<1> QED
  BY <1>1, NothingAdded DEF StartFactory, FactoryInv, Moves, Jobs

LEMMA StopsWork ==
  ASSUME FactoryInv, AiStops
  PROVE  FactoryWork
<1>1. ASSUME NEW p \in SyncJobs, run[p].pc \in {"idle", "over"}
      PROVE  run'[p].pc = run[p].pc
  <2>1. p \in Jobs /\ run[p] \in Runs /\ p \notin AsyncJobs
    BY FactoryAssumption DEF Jobs, FactoryInv, FactoryTypes
  <2>2. CASE run[p].pc = "idle"
    BY <2>1, <2>2 DEF AiStops
  <2>3. CASE run[p].pc = "over"
    <3>1. run'[p] = [run[p] EXCEPT !.pc = "over"]
      BY <2>1, <2>3 DEF AiStops
    <3> QED
      BY <2>1, <2>3, <3>1 DEF Runs
  <2> QED
    BY <1>1, <2>2, <2>3
<1> QED
  BY <1>1, NothingAdded DEF AiStops, FactoryInv

-----------------------------------------------------------------------------
(* The inductive invariant of the pushes. *)

PushPcs == {"idle", "draft", "factory", "publish", "repoint", "announce", "done", "failed"}
Progress == [pc : PushPcs, version : Nat, late : BOOLEAN, alone : BOOLEAN]

FollowupTypes ==
  /\ push \in [Pushes -> Progress] /\ edited \subseteq Authors
  /\ pin \in 1..question.published /\ announced \in Seq(Pushes)

(***************************************************************************)
(* A push that did not give up waiting publishes when its job is over or   *)
(* cannot be started, so that what it published has all the job made; a    *)
(* push that nobody crossed finds its own text on the draft, and later on  *)
(* the version it published, which does not change any more.               *)
(***************************************************************************)
PushInv(p) ==
  /\ push[p].pc \in {"idle", "draft", "factory", "publish"} => push[p].version = 0
  /\ push[p].pc \in {"repoint", "announce", "done"} => push[p].version \in 1..question.published
  /\ push[p].pc \in {"idle", "draft"} \/ ~Lineage => run[p].pc = "idle"
  /\ push[p].pc \in {"publish", "repoint", "announce", "done"} /\ ~push[p].late =>
       run[p].pc \in {"over", "idle"}
  /\ push[p].pc \in {"repoint", "announce", "done"} /\ ~push[p].late =>
       CasesOf(p, Attached) \subseteq question.versions[push[p].version].cases
  /\ push[p].pc \in {"factory", "publish"} /\ push[p].alone => Newest(question).text = p
  /\ push[p].pc \in {"repoint", "announce", "done"} /\ push[p].alone =>
       question.versions[push[p].version].text = p
  /\ push[p].pc = "announce" /\ push[p].alone => pin = push[p].version

\* between its last two steps a push has moved the session and told nobody
Untold(p) == push[p].pc = "announce" \/ (push[p].pc = "failed" /\ push[p].version # 0)

AsAnnounced ==
  IF announced = <<>> THEN pin = 1
  ELSE LET last == announced[Len(announced)]
       IN  push[last].pc = "done" /\ (push[last].alone => pin = push[last].version)

FollowupInv ==
  /\ FactoryInv /\ FollowupTypes
  /\ \A p \in Pushes : PushInv(p)
  /\ (\E p \in Pushes : Untold(p)) \/ AsAnnounced

-----------------------------------------------------------------------------
(* What a step leaves of another push. *)

SamePush(q) ==
  /\ push'[q].pc = push[q].pc /\ push'[q].version = push[q].version
  /\ push'[q].late = push[q].late /\ (push'[q].alone => push[q].alone)

\* the question grows, and only a step that touches the others changes its
\* text or moves the session
Spares(q) ==
  /\ question' \in Questions /\ question.published <= question'.published
  /\ \A i \in 1..question.published : question'.versions[i] = question.versions[i]
  /\ push'[q].alone /\ push[q].pc \in {"factory", "publish"} =>
       Newest(question').text = Newest(question).text
  /\ push'[q].alone /\ push[q].pc = "announce" => pin' = pin
  /\ Rests(q)

LEMMA OtherPushes ==
  ASSUME FactoryTypes, NEW q \in Pushes, PushInv(q), SamePush(q), Spares(q)
  PROVE  PushInv(q)'
<1> USE DEF SamePush, Spares
<1>1. /\ question.published \in Nat /\ question'.published \in Nat
  BY NewestIsAVersion DEF FactoryTypes, Questions
<1>2. push[q].pc \in {"repoint", "announce", "done"} =>
        /\ push'[q].version \in 1..question'.published
        /\ question'.versions[push'[q].version] = question.versions[push[q].version]
  BY <1>1 DEF PushInv
<1>3. /\ push'[q].pc \in {"idle", "draft"} \/ ~Lineage => run'[q].pc = "idle"
      /\ push'[q].pc \in {"publish", "repoint", "announce", "done"} /\ ~push'[q].late =>
           run'[q].pc \in {"over", "idle"}
  BY DEF PushInv, Rests
<1>4. push'[q].pc \in {"repoint", "announce", "done"} /\ ~push'[q].late =>
        CasesOf(q, Attached') \subseteq question'.versions[push'[q].version].cases
  BY <1>2 DEF PushInv, Rests, CasesOf
<1>5. push'[q].pc \in {"factory", "publish"} /\ push'[q].alone => Newest(question').text = q
  BY DEF PushInv
<1>6. push'[q].pc \in {"repoint", "announce", "done"} /\ push'[q].alone =>
        question'.versions[push'[q].version].text = q
  BY <1>2 DEF PushInv
<1>7. push'[q].pc = "announce" /\ push'[q].alone => pin' = push'[q].version
  BY DEF PushInv
<1>8. push'[q].pc \in {"idle", "draft", "factory", "publish"} => push'[q].version = 0
  BY DEF PushInv
<1> QED
  BY <1>2, <1>3, <1>4, <1>5, <1>6, <1>7, <1>8 DEF PushInv

\* a job of the factory works on while the pushes stand still
LEMMA JobsSpare ==
  ASSUME FollowupInv, FactoryInv', FactoryWork, UNCHANGED followupVars
  PROVE  FollowupInv'
<1>1. \A q \in Pushes : SamePush(q) /\ Spares(q)
  <2> TAKE q \in Pushes
  <2>1. Rests(q) /\ question' \in Questions /\ Newest(question').text = Newest(question).text
        /\ Later(question, question')
    BY DEF FactoryWork, Pushes
  <2>2. question.published \in Nat
    BY NewestIsAVersion DEF FollowupInv, FactoryInv, FactoryTypes, Questions
  <2> QED
    BY <2>1, <2>2 DEF SamePush, Spares, Later, followupVars
<1>2. \A q \in Pushes : PushInv(q)'
  BY <1>1, OtherPushes DEF FollowupInv, FactoryInv
<1>3. FollowupTypes'
  BY DEF FollowupInv, FollowupTypes, followupVars, FactoryWork, Later
<1>4. ((\E p \in Pushes : Untold(p)) \/ AsAnnounced)'
  BY DEF FollowupInv, Untold, AsAnnounced, followupVars
<1> QED
  BY <1>2, <1>3, <1>4 DEF FollowupInv

LEMMA StepsFacts ==
  ASSUME FollowupTypes, NEW p \in Pushes, NEW pc \in PushPcs, NEW version \in Nat,
         NEW touches \in BOOLEAN, Steps(p, pc, version, touches)
  PROVE  /\ push' \in [Pushes -> Progress]
         /\ push'[p].pc = pc /\ push'[p].version = version
         /\ push'[p].late = push[p].late /\ push'[p].alone = push[p].alone
         /\ \A q \in Pushes \ {p} :
              SamePush(q) /\ (touches /\ InProgress(q) => ~push'[q].alone)
<1>1. push \in [Pushes -> Progress]
  BY DEF FollowupTypes
<1> DEFINE mine == [push[p] EXCEPT !.pc = pc, !.version = version]
           crossed(q) == [push[q] EXCEPT !.alone = FALSE]
<1>2. /\ mine \in Progress /\ mine.pc = pc /\ mine.version = version
      /\ mine.late = push[p].late /\ mine.alone = push[p].alone
  BY <1>1 DEF Progress
<1>3. \A q \in Pushes : /\ crossed(q) \in Progress /\ crossed(q).pc = push[q].pc
                        /\ crossed(q).version = push[q].version
                        /\ crossed(q).late = push[q].late /\ ~crossed(q).alone
  BY <1>1 DEF Progress
<1>4. push' = [q \in Pushes |-> IF q = p THEN mine
                                ELSE IF touches /\ InProgress(q) THEN crossed(q) ELSE push[q]]
  BY DEF Steps
<1> HIDE DEF mine, crossed
<1>5. push' \in [Pushes -> Progress]
  BY <1>1, <1>2, <1>3, <1>4
<1>6. push'[p] = mine
  BY <1>4
<1>7. \A q \in Pushes \ {p} :
        push'[q] = IF touches /\ InProgress(q) THEN crossed(q) ELSE push[q]
  BY <1>4
<1>8. \A q \in Pushes \ {p} :
        SamePush(q) /\ (touches /\ InProgress(q) => ~push'[q].alone)
  BY <1>3, <1>7 DEF SamePush
<1> QED
  BY <1>2, <1>5, <1>6, <1>8

LEMMA StillAsAnnounced ==
  ASSUME FollowupTypes, (\E p \in Pushes : Untold(p)) \/ AsAnnounced,
         \A q \in Pushes : \/ SamePush(q)
                           \/ push[q].pc # "done" /\ (Untold(q) => Untold(q)'),
         pin' = pin, announced' = announced
  PROVE  ((\E p \in Pushes : Untold(p)) \/ AsAnnounced)'
<1>1. CASE \E p \in Pushes : Untold(p)
  BY <1>1 DEF Untold, SamePush
<1>2. CASE AsAnnounced
  <2>1. CASE announced = <<>>
    BY <1>2, <2>1 DEF AsAnnounced
  <2>2. CASE announced # <<>>
    <3> DEFINE last == announced[Len(announced)]
    <3>1. last \in Pushes /\ push[last].pc = "done" /\ (push[last].alone => pin = push[last].version)
      BY <1>2, <2>2 DEF AsAnnounced, FollowupTypes
    <3>2. SamePush(last)
      BY <3>1
    <3> QED
      BY <2>2, <3>1, <3>2 DEF AsAnnounced, SamePush
  <2> QED
    BY <2>1, <2>2
<1> QED
  BY <1>1, <1>2

LEMMA QuestionIsThere ==
  ASSUME FollowupInv
  PROVE  /\ question \in Questions /\ question.published \in Nat
         /\ Current(question) \in Nat /\ question.published \in 1..Current(question)
         /\ faults \in 0..MaxFaults
BY NewestIsAVersion DEF FollowupInv, FactoryInv, FactoryTypes

\* nothing but pushes changes
LEMMA OthersSpared ==
  ASSUME FollowupInv, NEW q \in Pushes, UNCHANGED factoryVars,
         push'[q].alone /\ push[q].pc = "announce" => pin' = pin
  PROVE  Spares(q)
BY QuestionIsThere DEF Spares, Rests, factoryVars, jobVars, CasesOf, Attached

LEMMA StandsStill ==
  ASSUME FollowupInv, UNCHANGED factoryVars
  PROVE  FactoryInv'
BY QuestionWork, QuestionIsThere DEF FollowupInv, factoryVars, jobVars

\* push p takes a step that changes no question
LEMMA BeginPushKeepsInv ==
  ASSUME FollowupInv, NEW p \in Pushes, BeginPush(p)
  PROVE  FollowupInv'
<1>0. FactoryInv' /\ push[p].pc = "idle" /\ pin' = pin /\ announced' = announced
      /\ edited' = edited /\ question' = question /\ run' = run
  BY StandsStill DEF BeginPush, factoryVars, jobVars
<1> DEFINE first == \A q \in Pushes : ~InProgress(q)
           mine == [push[p] EXCEPT !.pc = "draft", !.alone = first]
<1>1. push[p] \in Progress /\ push \in [Pushes -> Progress]
  BY DEF FollowupInv, FollowupTypes
<1>2. first \in BOOLEAN
  OBVIOUS
<1>3. push' = [push EXCEPT ![p] = mine]
  BY DEF BeginPush
<1> HIDE DEF first
<1>4. mine \in Progress /\ mine.pc = "draft" /\ mine.version = push[p].version
  BY <1>1, <1>2 DEF Progress, PushPcs
<1> HIDE DEF mine
<1>5. push' \in [Pushes -> Progress] /\ push'[p] = mine
      /\ \A q \in Pushes \ {p} : push'[q] = push[q]
  BY <1>1, <1>3, <1>4
<1>6. \A q \in Pushes \ {p} : SamePush(q) /\ Spares(q)
  BY <1>0, <1>5, OthersSpared DEF SamePush, BeginPush
<1>7. PushInv(p)'
  BY <1>0, <1>4, <1>5 DEF FollowupInv, PushInv
<1>8. \A q \in Pushes : PushInv(q)'
  BY <1>6, <1>7, OtherPushes DEF FollowupInv, FactoryInv
<1>9. FollowupTypes'
  BY <1>0, <1>5 DEF FollowupInv, FollowupTypes
<1>10. ((\E r \in Pushes : Untold(r)) \/ AsAnnounced)'
  BY <1>0, <1>6, StillAsAnnounced DEF FollowupInv, Untold
<1> QED
  BY <1>0, <1>8, <1>9, <1>10 DEF FollowupInv

LEMMA DraftFollowupKeepsInv ==
  ASSUME FollowupInv, NEW p \in Pushes, DraftFollowup(p)
  PROVE  FollowupInv'
<1>0. push[p].pc = "draft" /\ pin' = pin /\ announced' = announced /\ edited' = edited
      /\ run' = run /\ Steps(p, "factory", 0, TRUE) /\ FollowupTypes
  BY DEF DraftFollowup, jobVars, FollowupInv
<1>1. /\ question' \in Questions /\ Later(question, question')
      /\ Newest(question').text = p /\ Newest(question').cases = Newest(question).cases
  BY QuestionIsThere, TextChanges DEF DraftFollowup, Texts
<1>2. FactoryInv'
  BY <1>1, QuestionWork, QuestionIsThere DEF DraftFollowup, FollowupInv
<1>3. /\ push' \in [Pushes -> Progress]
      /\ push'[p].pc = "factory" /\ push'[p].version = 0
      /\ \A q \in Pushes \ {p} : SamePush(q) /\ (InProgress(q) => ~push'[q].alone)
  BY <1>0, StepsFacts DEF PushPcs
<1>4. \A q \in Pushes : question' \in Questions /\ question.published <= question'.published
        /\ (\A i \in 1..question.published : question'.versions[i] = question.versions[i])
        /\ Rests(q)
  BY <1>0, <1>1, QuestionIsThere DEF Later, Rests, CasesOf, Attached
<1>5. \A q \in Pushes \ {p} : SamePush(q) /\ Spares(q)
  BY <1>0, <1>3, <1>4 DEF Spares, InProgress
<1>6. PushInv(p)'
  BY <1>0, <1>1, <1>3 DEF FollowupInv, PushInv
<1>7. \A q \in Pushes : PushInv(q)'
  BY <1>5, <1>6, OtherPushes DEF FollowupInv, FactoryInv
<1>8. FollowupTypes'
  BY <1>0, <1>1, <1>3 DEF FollowupTypes, Later
<1>9. ((\E r \in Pushes : Untold(r)) \/ AsAnnounced)'
  BY <1>0, <1>5, StillAsAnnounced DEF FollowupInv, Untold
<1> QED
  BY <1>2, <1>7, <1>8, <1>9 DEF FollowupInv

LEMMA CallFactoryKeepsInv ==
  ASSUME FollowupInv, NEW p \in Pushes, CallFactory(p)
  PROVE  FollowupInv'
<1>0. push[p].pc = "factory" /\ StartFactory(p) /\ UNCHANGED followupVars
      /\ p \in Jobs /\ question' = question
  BY DEF CallFactory, StartFactory, Pushes, Jobs
<1>1. FactoryInv' /\ Moves(p, "draft")
  BY <1>0, StartFactoryKeepsInv, GoesMoves
     DEF FollowupInv, FactoryInv, StartFactory, JobPcs
<1>2. \A q \in Pushes : SamePush(q)
  BY <1>0 DEF SamePush, followupVars
<1>3. \A q \in Pushes \ {p} : Spares(q)
  BY <1>0, <1>1, QuestionIsThere
     DEF Spares, Rests, Moves, CasesOf, Attached, followupVars, Pushes, Jobs
<1>4. PushInv(p)'
  BY <1>0, <1>1 DEF FollowupInv, PushInv, followupVars, StartFactory
<1>5. \A q \in Pushes : PushInv(q)'
  BY <1>2, <1>3, <1>4, OtherPushes DEF FollowupInv, FactoryInv
<1>6. FollowupTypes'
  BY <1>0 DEF FollowupInv, FollowupTypes, followupVars
<1>7. ((\E r \in Pushes : Untold(r)) \/ AsAnnounced)'
  BY <1>0, <1>2, StillAsAnnounced DEF FollowupInv, followupVars
<1> QED
  BY <1>1, <1>5, <1>6, <1>7 DEF FollowupInv

LEMMA FactoryAnswersKeepsInv ==
  ASSUME FollowupInv, NEW p \in Pushes, FactoryAnswers(p)
  PROVE  FollowupInv'
<1>0. /\ push[p].pc = "factory" /\ (At(p, "over") \/ ~Lineage) /\ Steps(p, "publish", 0, FALSE)
      /\ FollowupTypes /\ edited' = edited /\ pin' = pin /\ announced' = announced
      /\ question' = question /\ run' = run
  BY DEF FactoryAnswers, FollowupInv, factoryVars, jobVars
<1>1. FactoryInv'
  BY StandsStill DEF FactoryAnswers
<1>2. /\ push' \in [Pushes -> Progress]
      /\ push'[p].pc = "publish" /\ push'[p].version = 0 /\ push'[p].alone = push[p].alone
      /\ \A q \in Pushes \ {p} : SamePush(q)
  BY <1>0, StepsFacts DEF PushPcs
<1>3. \A q \in Pushes \ {p} : Spares(q)
  BY <1>0, OthersSpared DEF FactoryAnswers
<1>4. PushInv(p)'
  BY <1>0, <1>2 DEF FollowupInv, PushInv, At
<1>5. \A q \in Pushes : PushInv(q)'
  BY <1>2, <1>3, <1>4, OtherPushes DEF FollowupInv, FactoryInv
<1>6. FollowupTypes'
  BY <1>0, <1>2 DEF FollowupTypes
<1>7. ((\E r \in Pushes : Untold(r)) \/ AsAnnounced)'
  BY <1>0, <1>2, StillAsAnnounced DEF FollowupInv, Untold
<1> QED
  BY <1>1, <1>5, <1>6, <1>7 DEF FollowupInv

\* a failure counts, and nothing of the factory or the question changes
LEMMA FactoryUnreachableKeepsInv ==
  ASSUME FollowupInv, NEW p \in Pushes, FactoryUnreachable(p)
  PROVE  FollowupInv'
<1>0. /\ push[p].pc = "factory" /\ At(p, "idle") /\ Steps(p, "publish", 0, FALSE)
      /\ FollowupTypes /\ edited' = edited /\ pin' = pin /\ announced' = announced
      /\ question' = question /\ run' = run /\ UNCHANGED <<filled, jobVars>> /\ Fault
  BY DEF FactoryUnreachable, FollowupInv, jobVars
<1>1. FactoryInv'
  BY <1>0, FaultCounts, QuestionWork, QuestionIsThere DEF FollowupInv
<1>2. /\ push' \in [Pushes -> Progress]
      /\ push'[p].pc = "publish" /\ push'[p].version = 0 /\ push'[p].alone = push[p].alone
      /\ \A q \in Pushes \ {p} : SamePush(q)
  BY <1>0, StepsFacts DEF PushPcs
<1>3. \A q \in Pushes \ {p} : Spares(q)
  BY <1>0, QuestionIsThere DEF Spares, Rests, CasesOf, Attached
<1>4. PushInv(p)'
  BY <1>0, <1>2 DEF FollowupInv, PushInv, At
<1>5. \A q \in Pushes : PushInv(q)'
  BY <1>2, <1>3, <1>4, OtherPushes DEF FollowupInv, FactoryInv
<1>6. FollowupTypes'
  BY <1>0, <1>2 DEF FollowupTypes
<1>7. ((\E r \in Pushes : Untold(r)) \/ AsAnnounced)'
  BY <1>0, <1>2, StillAsAnnounced DEF FollowupInv, Untold
<1> QED
  BY <1>1, <1>5, <1>6, <1>7 DEF FollowupInv

LEMMA FactoryCallTimesOutKeepsInv ==
  ASSUME FollowupInv, NEW p \in Pushes, FactoryCallTimesOut(p)
  PROVE  FollowupInv'
<1>0. /\ push[p].pc = "factory" /\ ~At(p, "idle")
      /\ edited' = edited /\ pin' = pin /\ announced' = announced
      /\ question' = question /\ run' = run
  BY DEF FactoryCallTimesOut, factoryVars, jobVars
<1>1. FactoryInv'
  BY StandsStill DEF FactoryCallTimesOut
<1> DEFINE mine == [push[p] EXCEPT !.pc = "publish", !.late = TRUE]
<1>2. push[p] \in Progress /\ push \in [Pushes -> Progress]
  BY DEF FollowupInv, FollowupTypes
<1>3. push' = [push EXCEPT ![p] = mine]
  BY DEF FactoryCallTimesOut
<1>4. /\ mine \in Progress /\ mine.pc = "publish" /\ mine.version = push[p].version
      /\ mine.late /\ mine.alone = push[p].alone
  BY <1>2 DEF Progress, PushPcs
<1> HIDE DEF mine
<1>5. push' \in [Pushes -> Progress] /\ push'[p] = mine
      /\ \A q \in Pushes \ {p} : push'[q] = push[q]
  BY <1>2, <1>3, <1>4
<1>6. \A q \in Pushes \ {p} : SamePush(q) /\ Spares(q)
  BY <1>0, <1>5, OthersSpared DEF SamePush, FactoryCallTimesOut
<1>7. PushInv(p)'
  BY <1>0, <1>4, <1>5 DEF FollowupInv, PushInv, At
<1>8. \A q \in Pushes : PushInv(q)'
  BY <1>6, <1>7, OtherPushes DEF FollowupInv, FactoryInv
<1>9. FollowupTypes'
  BY <1>0, <1>5 DEF FollowupInv, FollowupTypes
<1>10. ((\E r \in Pushes : Untold(r)) \/ AsAnnounced)'
  BY <1>0, <1>6, StillAsAnnounced DEF FollowupInv, Untold
<1> QED
  BY <1>1, <1>8, <1>9, <1>10 DEF FollowupInv

\* a publication changes neither the versions nor their cases
LEMMA PublishedInv ==
  ASSUME FollowupInv, question' = Published(question), UNCHANGED <<filled, jobVars>>,
         faults' \in 0..MaxFaults, faults' = faults \/ OneMoreFault
  PROVE  /\ FactoryInv' /\ question' \in Questions
         /\ question'.versions = question.versions /\ Newest(question') = Newest(question)
         /\ question'.published = Current(question) /\ Current(question') = Current(question)
         /\ question.published <= question'.published
         /\ \A q \in Pushes : Rests(q)
<1>1. question \in Questions /\ FactoryInv
  BY QuestionIsThere DEF FollowupInv
<1>2. /\ question' \in Questions /\ question'.versions = question.versions
      /\ Newest(question') = Newest(question) /\ question'.published = Current(question)
      /\ Current(question') = Current(question) /\ question.published <= question'.published
  BY <1>1, PublicationMoves
<1>3. FactoryInv'
  BY <1>1, <1>2, QuestionWork
<1>4. \A q \in Pushes : Rests(q)
  BY <1>2 DEF Rests, CasesOf, Attached, jobVars
<1> QED
  BY <1>2, <1>3, <1>4

LEMMA PublishFollowupKeepsInv ==
  ASSUME FollowupInv, NEW p \in Pushes, PublishFollowup(p)
  PROVE  FollowupInv'
<1>0. /\ push[p].pc = "publish" /\ FollowupTypes /\ edited' = edited /\ pin' = pin
      /\ announced' = announced /\ run' = run /\ faults' = faults /\ PushInv(p)
      /\ UNCHANGED <<filled, jobVars>>
  BY DEF PublishFollowup, FollowupInv, jobVars
<1>1. CASE Publishable(question)
  <2>1. question' = Published(question) /\ Steps(p, "repoint", Current(question), TRUE)
    BY <1>1 DEF PublishFollowup
  <2>2. /\ FactoryInv' /\ question' \in Questions
        /\ question'.versions = question.versions /\ Newest(question') = Newest(question)
        /\ question'.published = Current(question) /\ Current(question') = Current(question)
        /\ question.published <= question'.published /\ \A q \in Pushes : Rests(q)
    BY <1>0, <2>1, PublishedInv, QuestionIsThere
  <2>3. /\ push' \in [Pushes -> Progress]
        /\ push'[p].pc = "repoint" /\ push'[p].version = Current(question)
        /\ push'[p].late = push[p].late /\ push'[p].alone = push[p].alone
        /\ \A q \in Pushes \ {p} : SamePush(q) /\ (InProgress(q) => ~push'[q].alone)
    BY <1>0, <2>1, StepsFacts, QuestionIsThere DEF PushPcs
  <2>4. \A q \in Pushes \ {p} : SamePush(q) /\ Spares(q)
    BY <1>0, <2>2, <2>3, QuestionIsThere DEF Spares, InProgress
  <2>5. Current(question) \in 1..question'.published
        /\ question'.versions[Current(question)] = Newest(question)
    BY <2>2, QuestionIsThere DEF Newest
  <2>6. PushInv(p)'
    BY <1>0, <2>2, <2>3, <2>5 DEF PushInv, CasesOf, Attached
  <2>7. \A q \in Pushes : PushInv(q)'
    BY <2>4, <2>6, OtherPushes DEF FollowupInv, FactoryInv
  <2>8. FollowupTypes'
    BY <1>0, <2>2, <2>3, QuestionIsThere DEF FollowupTypes
  <2>9. ((\E r \in Pushes : Untold(r)) \/ AsAnnounced)'
    BY <1>0, <2>4, StillAsAnnounced DEF FollowupInv, Untold
  <2> QED
    BY <2>2, <2>7, <2>8, <2>9 DEF FollowupInv
<1>2. CASE ~Publishable(question)
  <2>1. question' = question /\ Steps(p, "failed", 0, FALSE) /\ UNCHANGED factoryVars
    BY <1>0, <1>2 DEF PublishFollowup, factoryVars
  <2>2. FactoryInv'
    BY <2>1, StandsStill
  <2>3. /\ push' \in [Pushes -> Progress]
        /\ push'[p].pc = "failed" /\ push'[p].version = 0
        /\ \A q \in Pushes \ {p} : SamePush(q)
    BY <1>0, <2>1, StepsFacts DEF PushPcs
  <2>4. \A q \in Pushes \ {p} : Spares(q)
    BY <1>0, <2>1, OthersSpared
  <2>5. PushInv(p)'
    BY <1>0, <2>1, <2>3 DEF PushInv
  <2>6. \A q \in Pushes : PushInv(q)'
    BY <2>3, <2>4, <2>5, OtherPushes DEF FollowupInv, FactoryInv
  <2>7. FollowupTypes'
    BY <1>0, <2>1, <2>3 DEF FollowupTypes
  <2>8. ((\E r \in Pushes : Untold(r)) \/ AsAnnounced)'
    BY <1>0, <2>3, StillAsAnnounced DEF FollowupInv, Untold
  <2> QED
    BY <2>2, <2>6, <2>7, <2>8 DEF FollowupInv
<1> QED
  BY <1>1, <1>2

LEMMA RepointSessionKeepsInv ==
  ASSUME FollowupInv, NEW p \in Pushes, RepointSession(p)
  PROVE  FollowupInv'
<1>0. /\ push[p].pc = "repoint" /\ FollowupTypes /\ edited' = edited /\ announced' = announced
      /\ question' = question /\ run' = run /\ pin' = push[p].version /\ PushInv(p)
      /\ Steps(p, "announce", push[p].version, TRUE) /\ UNCHANGED factoryVars
  BY DEF RepointSession, FollowupInv, factoryVars, jobVars
<1>1. FactoryInv'
  BY <1>0, StandsStill
<1>2. push[p].version \in 1..question.published /\ push[p].version \in Nat
  BY <1>0, QuestionIsThere DEF PushInv
<1>3. /\ push' \in [Pushes -> Progress]
      /\ push'[p].pc = "announce" /\ push'[p].version = push[p].version
      /\ push'[p].late = push[p].late /\ push'[p].alone = push[p].alone
      /\ \A q \in Pushes \ {p} : SamePush(q) /\ (InProgress(q) => ~push'[q].alone)
  BY <1>0, <1>2, StepsFacts DEF PushPcs
<1>4. \A q \in Pushes \ {p} : Spares(q)
  BY <1>0, <1>3, OthersSpared DEF InProgress
<1>5. PushInv(p)'
  BY <1>0, <1>2, <1>3 DEF PushInv, CasesOf, Attached
<1>6. \A q \in Pushes : PushInv(q)'
  BY <1>3, <1>4, <1>5, OtherPushes DEF FollowupInv, FactoryInv
<1>7. FollowupTypes'
  BY <1>0, <1>2, <1>3 DEF FollowupTypes
<1>8. Untold(p)'
  BY <1>3 DEF Untold
<1> QED
  BY <1>1, <1>6, <1>7, <1>8 DEF FollowupInv

LEMMA AnnounceFollowupKeepsInv ==
  ASSUME FollowupInv, NEW p \in Pushes, AnnounceFollowup(p)
  PROVE  FollowupInv'
<1>0. /\ push[p].pc = "announce" /\ FollowupTypes /\ edited' = edited
      /\ announced' = Append(announced, p) /\ question' = question /\ run' = run
      /\ pin' = pin /\ PushInv(p)
      /\ Steps(p, "done", push[p].version, TRUE) /\ UNCHANGED factoryVars
  BY DEF AnnounceFollowup, FollowupInv, factoryVars, jobVars
<1>1. FactoryInv'
  BY <1>0, StandsStill
<1>2. push[p].version \in 1..question.published /\ push[p].version \in Nat
  BY <1>0, QuestionIsThere DEF PushInv
<1>3. /\ push' \in [Pushes -> Progress]
      /\ push'[p].pc = "done" /\ push'[p].version = push[p].version
      /\ push'[p].late = push[p].late /\ push'[p].alone = push[p].alone
      /\ \A q \in Pushes \ {p} : SamePush(q)
  BY <1>0, <1>2, StepsFacts DEF PushPcs
<1>4. \A q \in Pushes \ {p} : Spares(q)
  BY <1>0, OthersSpared
<1>5. PushInv(p)'
  BY <1>0, <1>2, <1>3 DEF PushInv, CasesOf, Attached
<1>6. \A q \in Pushes : PushInv(q)'
  BY <1>3, <1>4, <1>5, OtherPushes DEF FollowupInv, FactoryInv
<1>7. /\ announced' \in Seq(Pushes) /\ announced' # <<>>
      /\ announced'[Len(announced')] = p
  BY <1>0, AppendProperties DEF FollowupTypes
<1>8. FollowupTypes'
  BY <1>0, <1>3, <1>7 DEF FollowupTypes
<1>9. AsAnnounced'
  BY <1>0, <1>3, <1>7 DEF AsAnnounced, PushInv
<1> QED
  BY <1>1, <1>6, <1>8, <1>9 DEF FollowupInv

LEMMA PushFailsKeepsInv ==
  ASSUME FollowupInv, NEW p \in Pushes, PushFails(p)
  PROVE  FollowupInv'
<1> DEFINE touches == question' # question
<1>0. /\ push[p].pc \in {"draft", "factory", "publish", "repoint", "announce"}
      /\ FollowupTypes /\ edited' = edited /\ announced' = announced /\ pin' = pin
      /\ run' = run /\ PushInv(p) /\ UNCHANGED <<filled, jobVars>>
      /\ Steps(p, "failed", push[p].version, touches)
      /\ faults' \in 0..MaxFaults /\ OneMoreFault
  BY FaultCounts DEF PushFails, InProgress, FollowupInv, FollowupTypes, Progress, PushPcs, jobVars
<1>1. push[p].version \in Nat /\ touches \in BOOLEAN
  BY <1>0 DEF FollowupTypes, Progress
<1> HIDE DEF touches
<1>2. /\ push' \in [Pushes -> Progress]
      /\ push'[p].pc = "failed" /\ push'[p].version = push[p].version
      /\ \A q \in Pushes \ {p} : SamePush(q) /\ (touches /\ InProgress(q) => ~push'[q].alone)
  BY <1>0, <1>1, StepsFacts DEF PushPcs
<1> DEFINE Grown == /\ FactoryInv' /\ question' \in Questions
                    /\ question.published <= question'.published
                    /\ \A i \in 1..question.published : question'.versions[i] = question.versions[i]
                    /\ \A q \in Pushes : Rests(q)
<1>3. Grown
  <2>1. CASE question' = question
    BY <1>0, <2>1, QuestionWork, QuestionIsThere DEF FollowupInv, Rests, CasesOf, Attached
  <2>2. CASE question' = WithText(question, p)
    <3>1. /\ question' \in Questions /\ Later(question, question')
          /\ Newest(question').cases = Newest(question).cases
      BY <2>2, QuestionIsThere, TextChanges DEF Texts
    <3>2. FactoryInv'
      BY <1>0, <3>1, QuestionWork DEF FollowupInv
    <3> QED
      BY <1>0, <3>1, <3>2, QuestionIsThere DEF Later, Rests, CasesOf, Attached
  <2>3. CASE question' = Published(question)
    BY <1>0, <2>3, PublishedInv
  <2> QED
    BY <2>1, <2>2, <2>3 DEF PushFails
<1>4. \A q \in Pushes \ {p} : Spares(q)
  <2> SUFFICES ASSUME NEW q \in Pushes \ {p}
               PROVE  Spares(q)
    OBVIOUS
  <2>1. push'[q].alone /\ push[q].pc \in {"factory", "publish"} => question' = question
    BY <1>2 DEF InProgress, touches
  <2> QED
    BY <1>0, <1>3, <2>1 DEF Spares
<1>5. PushInv(p)'
  BY <1>0, <1>2 DEF FollowupInv, PushInv
<1>6. \A q \in Pushes : PushInv(q)'
  BY <1>2, <1>4, <1>5, OtherPushes DEF FollowupInv, FactoryInv
<1>7. FollowupTypes'
  BY <1>0, <1>2, <1>3, QuestionIsThere DEF FollowupTypes, Questions
<1>8. Untold(p) => Untold(p)'
  BY <1>0, <1>2, QuestionIsThere DEF Untold, PushInv
<1>9. ((\E r \in Pushes : Untold(r)) \/ AsAnnounced)'
  BY <1>0, <1>2, <1>8, StillAsAnnounced DEF FollowupInv
<1> QED
  BY <1>3, <1>6, <1>7, <1>9 DEF FollowupInv

(***************************************************************************)
(* The authors touch every push that is under way.                         *)
(***************************************************************************)
LEMMA TouchedFacts ==
  ASSUME FollowupTypes, Touched
  PROVE  /\ push' \in [Pushes -> Progress]
         /\ \A q \in Pushes : SamePush(q) /\ (InProgress(q) => ~push'[q].alone)
<1>1. push \in [Pushes -> Progress]
  BY DEF FollowupTypes
<1> DEFINE crossed(q) == [push[q] EXCEPT !.alone = FALSE]
<1>2. \A q \in Pushes : /\ crossed(q) \in Progress /\ crossed(q).pc = push[q].pc
                        /\ crossed(q).version = push[q].version
                        /\ crossed(q).late = push[q].late /\ ~crossed(q).alone
  BY <1>1 DEF Progress
<1>3. push' = [q \in Pushes |-> IF InProgress(q) THEN crossed(q) ELSE push[q]]
  BY DEF Touched
<1> HIDE DEF crossed
<1>4. \A q \in Pushes : push'[q] = IF InProgress(q) THEN crossed(q) ELSE push[q]
  BY <1>3
<1> QED
  BY <1>1, <1>2, <1>3, <1>4 DEF SamePush

LEMMA AuthorsKeepInv ==
  ASSUME FollowupInv, AuthorPublishes \/ \E a \in Authors : AuthorEdits(a)
  PROVE  FollowupInv'
<1>0. /\ FollowupTypes /\ edited' \subseteq Authors /\ announced' = announced /\ pin' = pin
      /\ run' = run /\ UNCHANGED <<filled, jobVars>> /\ faults' = faults /\ Touched
  BY DEF AuthorPublishes, AuthorEdits, FollowupInv, FollowupTypes, jobVars
<1>1. /\ push' \in [Pushes -> Progress]
      /\ \A q \in Pushes : SamePush(q) /\ (InProgress(q) => ~push'[q].alone)
  BY <1>0, TouchedFacts
<1> DEFINE Grown == /\ FactoryInv' /\ question' \in Questions
                    /\ question.published <= question'.published
                    /\ \A i \in 1..question.published : question'.versions[i] = question.versions[i]
                    /\ \A q \in Pushes : Rests(q)
<1>2. Grown
  <2>1. CASE AuthorPublishes
    BY <1>0, <2>1, PublishedInv, QuestionIsThere DEF AuthorPublishes
  <2>2. CASE \E a \in Authors : AuthorEdits(a)
    <3>0. PICK a \in Authors : AuthorEdits(a)
      BY <2>2
    <3>1. /\ question' \in Questions /\ Later(question, question')
          /\ Newest(question').cases = Newest(question).cases
      BY <3>0, QuestionIsThere, TextChanges DEF Texts, AuthorEdits
    <3>2. FactoryInv'
      BY <1>0, <3>1, QuestionWork, QuestionIsThere DEF FollowupInv
    <3> QED
      BY <1>0, <3>1, <3>2, QuestionIsThere DEF Later, Rests, CasesOf, Attached
  <2> QED
    BY <2>1, <2>2
<1>3. \A q \in Pushes : Spares(q)
  BY <1>0, <1>1, <1>2 DEF Spares, InProgress
<1>4. \A q \in Pushes : PushInv(q)'
  BY <1>1, <1>3, OtherPushes DEF FollowupInv, FactoryInv
<1>5. FollowupTypes'
  BY <1>0, <1>1, <1>2, QuestionIsThere DEF FollowupTypes, Questions
<1>6. ((\E r \in Pushes : Untold(r)) \/ AsAnnounced)'
  BY <1>0, <1>1, StillAsAnnounced DEF FollowupInv
<1> QED
  BY <1>2, <1>4, <1>5, <1>6 DEF FollowupInv

LEMMA InitHoldsInv ==
  ASSUME Init
  PROVE  FollowupInv
<1>1. FactoryInv
  BY FactoryInitInv DEF Init
<1>2. question.published = 1
  BY DEF Init, FactoryInit
<1>3. FollowupTypes
  BY <1>2 DEF Init, FollowupTypes, NotPushed, Progress, PushPcs
<1>4. \A p \in Pushes : PushInv(p)
  BY DEF Init, FactoryInit, NotPushed, PushInv, Waits, Pushes, Jobs
<1>5. AsAnnounced
  BY DEF Init, AsAnnounced
<1> QED
  BY <1>1, <1>3, <1>4, <1>5 DEF FollowupInv

LEMMA FollowupInvariant == Spec => []FollowupInv
<1>1. Init => FollowupInv
  BY InitHoldsInv
<1>2. FollowupInv /\ [Next]_vars => FollowupInv'
  <2> SUFFICES ASSUME FollowupInv, [Next]_vars
               PROVE  FollowupInv'
    OBVIOUS
  <2>0. FactoryInv /\ FactoryTypes
    BY DEF FollowupInv, FactoryInv
  <2>1. CASE \E p \in Pushes : BeginPush(p) \/ PushStep(p) \/ FactoryUnreachable(p) \/ PushFails(p)
    BY <2>1, BeginPushKeepsInv, DraftFollowupKeepsInv, CallFactoryKeepsInv,
       FactoryAnswersKeepsInv, FactoryCallTimesOutKeepsInv, PublishFollowupKeepsInv,
       RepointSessionKeepsInv, AnnounceFollowupKeepsInv, PushFailsKeepsInv,
       FactoryUnreachableKeepsInv DEF PushStep
  <2>2. CASE \E j \in AsyncJobs : StartFactory(j) /\ UNCHANGED followupVars
    <3>1. PICK j \in AsyncJobs : StartFactory(j) /\ UNCHANGED followupVars
      BY <2>2
    <3>2. FactoryInv' /\ FactoryWork
      BY <2>0, <3>1, StartFactoryKeepsInv, StartsWork DEF Jobs
    <3> QED
      BY <3>1, <3>2, JobsSpare
  <2>3. CASE \E j \in Jobs : JobStep(j) \/ (FactoryFails(j) /\ UNCHANGED followupVars)
    <3>1. PICK j \in Jobs : JobStep(j) \/ (FactoryFails(j) /\ UNCHANGED followupVars)
      BY <2>3
    <3>2. FactoryInv' /\ FactoryWork /\ UNCHANGED followupVars
      BY <2>0, <3>1, FactoryStepKeepsInv, FactoryWorks DEF JobStep
    <3> QED
      BY <3>2, JobsSpare
  <2>4. CASE AiStops /\ UNCHANGED followupVars
    BY <2>0, <2>4, AiStopsKeepsInv, StopsWork, JobsSpare
  <2>5. CASE AuthorPublishes \/ \E a \in Authors : AuthorEdits(a)
    BY <2>5, AuthorsKeepInv
  <2>6. CASE UNCHANGED vars
    <3>1. UNCHANGED factoryVars /\ UNCHANGED followupVars /\ question' = question /\ run' = run
      BY <2>6 DEF vars, factoryVars, jobVars
    <3> QED
      BY <2>0, <3>1, StandsStill, NothingAdded, JobsSpare
  <2> QED
    BY <2>1, <2>2, <2>3, <2>4, <2>5, <2>6 DEF Next
<1> QED
  BY <1>1, <1>2, PTL DEF Spec

-----------------------------------------------------------------------------
(* The theorems. *)

\* The state of the factory and of the pushes has its type, whatever fails.
THEOREM TypeCorrect == Spec => []TypeOK
<1>1. ASSUME FollowupInv
      PROVE  TypeOK
  <2>1. question \in Questions /\ FollowupTypes /\ FactoryTypes
    BY <1>1 DEF FollowupInv, FactoryInv, FactoryTypes
  <2>2. question.versions \in Seq([text : Pushes \cup Authors \cup {None},
                                   cases : SUBSET (Jobs \X Numbers \X Nat)])
    BY <2>1 DEF Questions, Versions, Texts, Cases
  <2>3. question.published \in 1..Current(question) /\ pin \in 1..Current(question)
    BY <1>1, <2>1, QuestionIsThere DEF FollowupTypes
  <2> QED
    BY <2>1, <2>2, <2>3 DEF FollowupTypes, FactoryTypes, Statuses, TypeOK
<1> QED
  BY <1>1, FollowupInvariant, PTL

\* A job that says it succeeded has attached every case of a report that it
\* counts: also when the report is sent or delivered again, when the service
\* restarts, and when others edit and publish the question between two of its
\* cases.  A case is there at most once more than there were failures, and if
\* there was none its files are stored.
THEOREM SucceededJobsAttachedTheirCases == Spec => []KeptIsAttached
<1>1. ASSUME FactoryInv, NEW j \in Jobs
      PROVE  run[j].round <= 1 + faults
  <2>1. run[j].round \in Nat /\ faults \in Nat /\ JobInv(j) /\ Bounded(j)
    BY <1>1, PendingIsFinite DEF FactoryInv
  <2>2. CASE j \in AsyncJobs
    <3>1. Twice(j) <= Cardinality(Pending(j))
      BY <1>1, <2>1, <2>2, PendingIsFinite DEF Bounded, Twice, FactoryInv
    <3> QED
      BY <1>1, <2>1, <2>2, <3>1, PendingIsFinite DEF Bounded, FactoryInv
  <2>3. CASE j \in SyncJobs
    BY <2>1, <2>3 DEF JobInv, OneRound
  <2> QED
    BY <2>2, <2>3 DEF Jobs
<1>2. ASSUME FactoryInv, NEW j \in Jobs, NEW n, NEW row \in Rows(j, n)
      PROVE  row[3] \in 1..run[j].round /\ row = <<j, n, row[3]>> /\ Stored(row)
  <2>1. row \in Attached /\ row[1] = j /\ row[2] = n
    BY <1>2 DEF Rows, Attached, Newest
  <2>2. Stored(row) /\ row \in Cases
    BY <1>2, <2>1, NewestIsAVersion DEF FactoryInv, FactoryTypes, Attached, Versions
  <2> QED
    BY <2>1, <2>2 DEF Stored, Cases
<1>3. ASSUME FactoryInv, NEW j \in Jobs, NEW n
      PROVE  Cardinality(Rows(j, n)) <= 1 + faults
  <2> DEFINE rounds == 1..run[j].round
             roundOf == [row \in Rows(j, n) |-> row[3]]
  <2>1. run[j].round \in Nat /\ faults \in Nat
    BY <1>3, PendingIsFinite DEF FactoryInv
  <2>2. roundOf \in Injection(Rows(j, n), rounds)
    BY <1>2, <1>3 DEF Injection, IsInjective
  <2>3. IsFiniteSet(rounds) /\ Cardinality(rounds) = run[j].round
    <3>1. ASSUME NEW k \in Nat
          PROVE  IsFiniteSet(1..k) /\ Cardinality(1..k) = k
      <4>1. 1 \in Int /\ k \in Int
        OBVIOUS
      <4>2. IsFiniteSet(1..k) /\ Cardinality(1..k) = IF 1 > k THEN 0 ELSE k - 1 + 1
        BY <4>1, FS_Interval
      <4> QED
        BY <4>2
    <3> QED
      BY <2>1, <3>1
  <2> HIDE DEF rounds, roundOf
  <2>4. IsFiniteSet(Rows(j, n)) /\ Cardinality(Rows(j, n)) <= Cardinality(rounds)
    BY <2>2, <2>3, FS_Injection
  <2>5. Cardinality(Rows(j, n)) \in Nat
    BY <2>4, FS_CardinalityType
  <2> QED
    BY <1>1, <1>3, <2>1, <2>3, <2>4, <2>5
<1>4. ASSUME FactoryInv, NEW j \in Jobs, status[j] = "succeeded", inputs[j] # None
      PROVE  \E t \in Tries :
               /\ report[j][t] # None /\ kept[j] = Cardinality(report[j][t])
               /\ \A n \in report[j][t] :
                    Rows(j, n) # {} /\ (faults = 0 => Rows(j, n) \subseteq filled)
  <2>1. JobInv(j) /\ run[j].round \in Nat
    BY <1>4 DEF FactoryInv, FactoryTypes, Runs
  <2>2. PICK t \in Tries : Attends(j, report[j][t])
    BY <1>4, <2>1 DEF JobInv, Attaching
  <2>3. \A n \in report[j][t] : Rows(j, n) # {}
    BY <2>2 DEF Attends, Has, Rows, Attached, Newest
  <2>4. ASSUME faults = 0, NEW n, NEW row \in Rows(j, n)
        PROVE  row \in filled
    <3>1. run[j].pc # "upload"
      BY <1>4, <2>1, <2>4 DEF JobInv, OneRound
    <3>2. Stored(row) /\ row = <<j, n, row[3]>>
      BY <1>2, <1>4, <2>4
    <3>3. row[1] = j
      BY <3>2
    <3> QED
      BY <2>4, <3>1, <3>2, <3>3 DEF Stored
  <2> QED
    BY <2>2, <2>3, <2>4 DEF Attends
<1>5. FollowupInv => KeptIsAttached
  BY <1>3, <1>4 DEF FollowupInv, KeptIsAttached
<1> QED
  BY <1>5, FollowupInvariant, PTL

\* A push announces a version that has the constraint it was made for and the
\* cases the factory made for it, however many pushes, authors and jobs work
\* on the question meanwhile.
THEOREM AnnouncementsAreComplete == Spec => []AnnouncedVersionIsComplete
<1>1. FollowupInv => AnnouncedVersionIsComplete
  BY DEF FollowupInv, PushInv, AnnouncedVersionIsComplete, CasesOf, Attached, Newest
<1> QED
  BY <1>1, FollowupInvariant, PTL

\* The session is graded on a published version, and on the one the candidate
\* was told of last unless a push lies between its move and its announcement.
THEOREM AnnouncementsAreGraded == Spec => []AnnouncedIsGraded
<1>1. ASSUME FollowupInv
      PROVE  AnnouncedIsGraded
  <2>1. pin <= question.published
    BY <1>1, QuestionIsThere DEF FollowupInv, FollowupTypes
  <2>2. (\E p \in Pushes : Untold(p)) =>
           \E p \in Pushes : InProgress(p) \/ (push[p].pc = "failed" /\ push[p].version # 0)
    BY DEF Untold, InProgress
  <2>3. AsAnnounced => IF announced = <<>> THEN pin = 1
                       ELSE LET last == announced[Len(announced)]
                            IN  push[last].alone => pin = push[last].version
    BY DEF AsAnnounced
  <2> QED
    BY <1>1, <2>1, <2>2, <2>3 DEF FollowupInv, AnnouncedIsGraded
<1> QED
  BY <1>1, FollowupInvariant, PTL
=============================================================================
