----------------------- MODULE CandidateAccess_proofs -----------------------
(***************************************************************************)
(* Proofs about AiScheduling and CandidateAccess, for any number of        *)
(* requests, exchanges, slots, jobs, invites and failures.                 *)
(***************************************************************************)
EXTENDS CandidateAccess, FiniteSetTheorems, WellFoundedInduction, TLAPS

-----------------------------------------------------------------------------
(* The inductive invariant of scheduling. *)

Readers == {"get", "confirm", "regenerate"}
Inviting == {"key", "row", "mail", "status"}

Copies == [exam : Exam \cup {None}, slots : [Slots -> Slot \cup {None}]]
Pcs == {"idle", "propose", "blueprint", "generate", "list", "poll", "decide", "load", "again",
        "reset"} \cup Inviting
Kinds == Readers \cup {"schedule", "schedule_ai", None}
Progress ==
  [pc : Pcs, kind : Kinds, slot : Slots \cup {None}, invite : Invites \cup {None},
   todo : SUBSET Slots, read : Copies, copy : Copies]

Types ==
  /\ exam \in Exam \cup {None} /\ slot \in [Slots -> Slot \cup {None}]
  /\ job \in [Jobs -> {"unused", "running", "succeeded", "failed"}]
  /\ invite \in [Invites -> Invite]
  /\ request \in [Requests -> Progress]
  /\ stale \in BOOLEAN /\ faults \in Nat

SameSlots(q) == \A s \in Slots : q.read.slots[s] = None <=> q.copy.slots[s] = None

(***************************************************************************)
(* What a request that has got so far may rely on.                         *)
(***************************************************************************)
Reading(q) ==
  /\ q.kind \in Readers /\ q.read.exam \in Exam /\ q.copy.exam \in Exam /\ SameSlots(q)
  /\ q.pc \in {"list", "poll"} =>
       q.read.exam = q.copy.exam /\ q.copy.exam.status = "pending_generation"
  /\ q.pc = "poll" => \A s \in Slots : q.copy.slots[s] # None
  /\ q.pc \in {"decide", "load", "again"} \cup Inviting => q.read = q.copy
  /\ q.pc \in Inviting => q.copy.exam.status = "pending_review"
  /\ q.pc \in {"list", "poll", "decide"} => (q.kind = "regenerate") = (q.slot # None)
  /\ q.pc \in {"load", "again", "reset"} => q.slot \in Slots /\ Regenerable(q.read.exam)
  /\ q.pc \in {"again", "reset"} => q.copy.slots[q.slot] # None
  /\ q.pc = "reset" => q.copy.exam = [status |-> "pending_generation", deadline |-> FALSE]

Placed(q) ==
  \/ q = Idle
  \/ q.kind = "schedule_ai" /\ q.pc \in {"propose", "blueprint", "generate"}
  \/ /\ q.kind = "schedule" /\ q.pc \in {"key", "row", "mail"}
     /\ q.copy.exam = [status |-> "scheduled", deadline |-> FALSE]
  \/ Reading(q) /\ q.pc \notin {"idle", "propose", "blueprint", "generate"}

Starting(q) == q.kind = "schedule_ai" \/ (q.kind = "schedule" /\ q.pc # "mail")

(***************************************************************************)
(* One exam: while it is being made nothing else happens, and one made by  *)
(* hand has no slots and stays scheduled.                                  *)
(***************************************************************************)
OneMaker ==
  /\ \A r \in Requests : Starting(request[r]) =>
       exam = None /\ \A q \in Requests \ {r} : request[q] = Idle
  /\ exam = None => slot = NoSlots /\ InviteRows = {}
  /\ \A r \in Requests : request[r].kind \in Readers => exam # None

ByHand == exam # None /\ slot = NoSlots

HandMade ==
  /\ exam # None /\ ~ByHand => \A s \in Slots : slot[s] # None
  /\ \A r \in Requests : request[r].kind = "schedule" /\ request[r].pc = "mail" => ByHand
  /\ ByHand =>
       /\ exam.status = "scheduled"
       /\ \A r \in Requests :
            /\ request[r].pc \in {"idle", "decide", "mail"}
            /\ request[r].pc = "decide" => request[r].copy.exam.status = "scheduled"
            /\ request[r].pc = "mail" =>
                 request[r].kind = "schedule" /\ \A i \in InviteRows : i = request[r].invite

(***************************************************************************)
(* While no commit went over rows that had changed: a ready slot has the   *)
(* question its own job made, in the rows and in every copy of them, and   *)
(* in an exam that is under review or out every slot is ready.             *)
(***************************************************************************)
OwnQuestion(c) == c # None /\ c.status = "ready" => c.question = c.job
SlotsAreSound ==
  /\ \A s \in Slots : OwnQuestion(slot[s])
  /\ \A r \in Requests, s \in Slots : OwnQuestion(request[r].copy.slots[s])
  /\ exam # None /\ exam.status \in {"pending_review", "scheduled"} =>
       \A s \in Slots : slot[s] # None => slot[s].status = "ready"

(***************************************************************************)
(* Every invite in the database is the one the exam was scheduled with or  *)
(* in the hands of a request that is about to schedule it.                 *)
(***************************************************************************)
HeldBy(r, i) == request[r].pc \in {"mail", "status"} /\ request[r].invite = i
Held(i)      == \E r \in Requests : HeldBy(r, i)

InvitesInHand ==
  /\ \A r \in Requests : request[r].pc \in {"row", "mail", "status"} => request[r].invite \in Invites
  /\ \A r \in Requests : request[r].pc \in {"mail", "status"} => request[r].invite \in InviteRows
  /\ \A r \in Requests : request[r].pc = "status" => invite[request[r].invite].mailed
  /\ \A i \in Invites : invite[i].mailed => i \in InviteRows

OneInvite ==
  IF Scheduled
  THEN \E w \in InviteRows :
         /\ invite[w].mailed \/ \E r \in Requests : HeldBy(r, w) /\ request[r].pc = "mail"
         /\ \A i \in InviteRows \ {w} : Held(i)
  ELSE \A i \in InviteRows : Held(i)

ScheduleInv ==
  /\ Types /\ (\A r \in Requests : Placed(request[r])) /\ OneMaker /\ HandMade /\ InvitesInHand
  /\ ~stale => SlotsAreSound
  /\ ~stale /\ faults = 0 => OneInvite

-----------------------------------------------------------------------------
(* Operators. *)

LEMMA LeastOf ==
  ASSUME NEW S \in SUBSET Nat, S # {}
  PROVE  Least(S) \in S
<1>1. PICK o \in S : \A p \in S : <<p, o>> \notin OpToRel(<, Nat)
  BY NatLessThanWellFounded, WFMin
<1>2. \A p \in S : ~(p < o)
  BY <1>1 DEF OpToRel
<1>3. \A p \in S : o <= p
  BY <1>2
<1> QED
  BY <1>3 DEF Least

\* in a row that was not changed meanwhile, a commit leaves the copy
LEMMA FlushedExam ==
  ASSUME NEW row \in Exam, NEW read \in Exam, NEW copy \in Exam
  PROVE  /\ Flushed(row, read, copy) \in Exam
         /\ row = read => Flushed(row, read, copy) = copy
         /\ copy = read => Flushed(row, read, copy) = row
<1>1. DOMAIN row = {"status", "deadline"} /\ DOMAIN copy = {"status", "deadline"}
  BY DEF Exam
<1>2. Flushed(row, read, copy) =
        [status   |-> IF copy.status = read.status THEN row.status ELSE copy.status,
         deadline |-> IF copy.deadline = read.deadline THEN row.deadline ELSE copy.deadline]
  BY <1>1 DEF Flushed
<1> QED
  BY <1>2 DEF Exam

LEMMA FlushedSlot ==
  ASSUME NEW row \in Slot, NEW read \in Slot, NEW copy \in Slot
  PROVE  /\ Flushed(row, read, copy) \in Slot
         /\ row = read => Flushed(row, read, copy) = copy
         /\ copy = read => Flushed(row, read, copy) = row
<1>1. DOMAIN row = {"status", "job", "question"} /\ DOMAIN copy = {"status", "job", "question"}
  BY DEF Slot
<1>2. Flushed(row, read, copy) =
        [status   |-> IF copy.status = read.status THEN row.status ELSE copy.status,
         job      |-> IF copy.job = read.job THEN row.job ELSE copy.job,
         question |-> IF copy.question = read.question THEN row.question ELSE copy.question]
  BY <1>1 DEF Flushed
<1> QED
  BY <1>2 DEF Slot

(***************************************************************************)
(* A commit that is not a stale one leaves the rows alone or replaces them *)
(* by the copies.                                                          *)
(***************************************************************************)
LEMMA CommitWrites ==
  ASSUME Types, NEW r \in Requests, NEW copy \in Copies, Commit(r, copy),
         exam \in Exam, request[r].read.exam \in Exam, copy.exam \in Exam,
         \A s \in Slots : request[r].read.slots[s] = None <=> copy.slots[s] = None,
         \A s \in Slots : copy.slots[s] # None => slot[s] # None
  PROVE  /\ exam' \in Exam /\ slot' \in [Slots -> Slot \cup {None}]
         /\ \A s \in Slots : slot'[s] = None <=> slot[s] = None
         /\ stale' \in BOOLEAN
         /\ copy.slots = request[r].read.slots => slot' = slot
         /\ ~stale' =>
              /\ ~stale
              /\ \/ copy = request[r].read /\ exam' = exam /\ slot' = slot
                 \/ /\ exam = request[r].read.exam /\ exam' = copy.exam
                    /\ \A s \in Slots :
                         slot'[s] = IF copy.slots[s] = None THEN slot[s] ELSE copy.slots[s]
<1> PICK read \in Copies : read = request[r].read
  BY DEF Types, Progress
<1>0. None \notin Slot /\ None \notin Exam
  BY NoneAssumption
<1>1. /\ exam' = Flushed(exam, read.exam, copy.exam)
      /\ slot' = [s \in Slots |-> IF copy.slots[s] = None THEN slot[s]
                                 ELSE Flushed(slot[s], read.slots[s], copy.slots[s])]
      /\ stale' = (stale \/ (copy # read /\ Outdated(r)))
  BY DEF Commit
<1>2. \A s \in Slots : copy.slots[s] # None =>
        slot[s] \in Slot /\ read.slots[s] \in Slot /\ copy.slots[s] \in Slot
  <2>1. /\ slot \in [Slots -> Slot \cup {None}] /\ read.slots \in [Slots -> Slot \cup {None}]
        /\ copy.slots \in [Slots -> Slot \cup {None}]
    BY DEF Types, Copies
  <2>2. \A s \in Slots : copy.slots[s] # None => slot[s] # None /\ read.slots[s] # None
    OBVIOUS
  <2> HIDE DEF Types
  <2> QED
    BY <2>1, <2>2
<1>3. exam' \in Exam /\ (exam = read.exam => exam' = copy.exam) /\ (copy.exam = read.exam => exam' = exam)
  BY <1>1, FlushedExam
<1>4. ASSUME NEW s \in Slots, copy.slots[s] # None
      PROVE  /\ slot'[s] \in Slot
             /\ slot[s] = read.slots[s] => slot'[s] = copy.slots[s]
             /\ copy.slots[s] = read.slots[s] => slot'[s] = slot[s]
  BY <1>1, <1>2, <1>4, FlushedSlot
<1>5. \A s \in Slots : copy.slots[s] = None => slot'[s] = slot[s]
  BY <1>1
<1>6. slot' \in [Slots -> Slot \cup {None}] /\ \A s \in Slots : slot'[s] = None <=> slot[s] = None
  <2>1. \A s \in Slots : slot'[s] \in Slot \cup {None} /\ (slot'[s] = None <=> slot[s] = None)
    <3> TAKE s \in Slots
    <3>1. CASE copy.slots[s] = None
      BY <1>5, <3>1 DEF Types
    <3>2. CASE copy.slots[s] # None
      BY <1>0, <1>2, <1>4, <3>2
    <3> QED
      BY <3>1, <3>2
  <2>2. slot' = [s \in Slots |-> slot'[s]]
    BY <1>1
  <2> QED
    BY <2>1, <2>2
<1>7. stale' \in BOOLEAN /\ (~stale' => ~stale /\ (copy = read \/ ~Outdated(r)))
  <2>1. stale \in BOOLEAN /\ Outdated(r) \in BOOLEAN
    BY DEF Types, Outdated
  <2> QED
    BY <1>1, <2>1
<1>11. copy.slots = read.slots => slot' = slot
  <2>1. copy.slots = read.slots => \A s \in Slots : slot'[s] = slot[s]
    BY <1>4, <1>5
  <2>2. slot' = [s \in Slots |-> slot'[s]] /\ slot = [s \in Slots |-> slot[s]]
    BY <1>1 DEF Types
  <2> QED
    BY <2>1, <2>2
<1>8. copy = read => exam' = exam /\ slot' = slot
  BY <1>3, <1>11
<1>9. ~Outdated(r) => exam = read.exam /\ \A s \in Slots : read.slots[s] \in {None, slot[s]}
  BY DEF Outdated
<1>10. ~Outdated(r) => /\ exam = read.exam /\ exam' = copy.exam
                      /\ \A s \in Slots : slot'[s] = IF copy.slots[s] = None THEN slot[s]
                                                     ELSE copy.slots[s]
  <2> SUFFICES ASSUME ~Outdated(r), NEW s \in Slots
               PROVE slot'[s] = IF copy.slots[s] = None THEN slot[s] ELSE copy.slots[s]
    BY <1>3, <1>9
  <2>1. CASE copy.slots[s] = None
    BY <1>5, <2>1
  <2>2. CASE copy.slots[s] # None
    <3>1. read.slots[s] = slot[s]
      BY <1>0, <1>2, <1>9, <2>2
    <3> QED
      BY <1>4, <2>2, <3>1
  <2> QED
    BY <2>1, <2>2
<1> QED
  BY <1>3, <1>6, <1>7, <1>8, <1>10, <1>11

LEMMA NoneIsNothing ==
  /\ None \notin Readers \cup {"schedule", "schedule_ai"} /\ None \notin Slots
  /\ None \notin Exam /\ None \notin Slot /\ None \notin Invites
  /\ Idle \in Progress /\ Idle.pc = "idle" /\ Idle.kind = None /\ ~Starting(Idle) /\ Placed(Idle)
  /\ Loaded \in Copies /\ \A s \in Slots : ~(Loaded.slots[s] # None) /\ Idle.copy.slots[s] = None
<1>1. /\ None \notin Readers \cup {"schedule", "schedule_ai"} /\ None \notin Slots
      /\ None \notin Exam /\ None \notin Slot /\ None \notin Invites
  BY NoneAssumption DEF Readers
<1>2. Loaded \in Copies /\ \A s \in Slots : Loaded.slots[s] = None
  BY DEF Loaded, Copies, NoSlots
<1>3. /\ Idle.pc = "idle" /\ Idle.kind = None /\ Idle.copy = Loaded
      /\ Idle \in Progress
  BY <1>2 DEF Idle, Progress, Pcs, Kinds
<1>4. ~Starting(Idle) /\ Placed(Idle)
  BY <1>1, <1>3 DEF Starting, Placed
<1> QED
  BY <1>1, <1>2, <1>3, <1>4

LEMMA ScheduleStart == Init => ScheduleInv
<1> SUFFICES ASSUME Init PROVE ScheduleInv
  OBVIOUS
<1> USE DEF Init
<1>1. Types
  <2>1. Unsent \in Invite
    BY DEF Unsent, Invite
  <2> QED
    BY <2>1, NoneIsNothing, SchedulingAssumption DEF Types, NoSlots
<1>2. InviteRows = {}
  BY DEF InviteRows, Unsent
<1>3. \A r \in Requests : request[r] = Idle
  OBVIOUS
<1>4. OneMaker /\ HandMade /\ \A r \in Requests : Placed(request[r])
  BY <1>2, <1>3, NoneIsNothing DEF OneMaker, HandMade, ByHand
<1>5. InvitesInHand
  BY <1>3, NoneIsNothing DEF InvitesInHand, Unsent
<1>6. SlotsAreSound
  BY <1>3, NoneIsNothing DEF SlotsAreSound, OwnQuestion, NoSlots
<1>7. OneInvite
  BY <1>2 DEF OneInvite, Scheduled
<1> QED
  BY <1>1, <1>4, <1>5, <1>6, <1>7 DEF ScheduleInv

-----------------------------------------------------------------------------
(* Steps that write no row of the exam. *)

LEMMA RequestKeeps ==
  ASSUME ScheduleInv, NEW r \in Requests, NEW q \in Progress,
         request' = [request EXCEPT ![r] = q],
         UNCHANGED <<exam, slot, stale, faults>>,
         job' \in [Jobs -> {"unused", "running", "succeeded", "failed"}],
         invite' \in [Invites -> Invite], InviteRows' = InviteRows,
         \A i \in Invites : invite'[i].mailed = invite[i].mailed,
         Placed(q), q.pc \notin {"mail", "status"}, request[r].pc \notin {"mail", "status"},
         q.pc = "row" => q.invite \in Invites,
         q.kind \in Readers => exam # None,
         Starting(q) => exam = None /\ \A p \in Requests \ {r} : request[p] = Idle,
         ByHand => q.pc \in {"idle", "decide"} /\ (q.pc = "decide" => q.copy.exam.status = "scheduled"),
         ~stale => \A s \in Slots : OwnQuestion(q.copy.slots[s])
  PROVE  ScheduleInv'
<1> USE DEF ScheduleInv
<1>1. request'[r] = q /\ \A p \in Requests \ {r} : request'[p] = request[p]
  BY DEF Types
<1>2. Types'
  BY DEF Types
<1>3. \A p \in Requests : Placed(request[p])'
  BY <1>1 DEF Placed, Reading, SameSlots
<1>4. OneMaker'
  <2>1. ASSUME NEW p \in Requests \ {r}, Starting(request[p]) PROVE q = Idle
    <3>1. exam = None /\ p # r /\ ~Starting(q)
      BY <2>1, NoneIsNothing DEF OneMaker
    <3>2. q.kind \notin Readers
      BY <3>1
    <3> QED
      BY <3>1, <3>2 DEF Placed, Starting, Reading
  <2>2. \A p \in Requests : Starting(request[p])' =>
          exam = None /\ \A o \in Requests \ {p} : request'[o] = Idle
    BY <1>1, <2>1 DEF OneMaker, Starting
  <2>3. \A p \in Requests : request'[p].kind \in Readers => exam # None
    BY <1>1 DEF OneMaker
  <2> QED
    BY <2>2, <2>3 DEF OneMaker
<1>5. HandMade'
  BY <1>1 DEF HandMade, ByHand
<1>6. InvitesInHand'
  BY <1>1 DEF InvitesInHand
<1>7. ~stale => SlotsAreSound'
  BY <1>1 DEF SlotsAreSound, OwnQuestion
<1>8. \A p \in Requests, i \in Invites : HeldBy(p, i)' <=> HeldBy(p, i)
  BY <1>1 DEF HeldBy
<1>9. OneInvite => OneInvite'
  <2>1. \A i \in InviteRows : i \in Invites
    BY DEF InviteRows
  <2>2. Scheduled' = Scheduled
    BY DEF Scheduled
  <2>3. \A i \in InviteRows : Held(i)' <=> Held(i)
    BY <1>8, <2>1 DEF Held
  <2>4. \A w \in InviteRows : (\E p \in Requests : HeldBy(p, w)' /\ request'[p].pc = "mail")
                          <=> (\E p \in Requests : HeldBy(p, w) /\ request[p].pc = "mail")
    BY <1>1, <1>8, <2>1 DEF HeldBy
  <2> QED
    BY <2>1, <2>2, <2>3, <2>4 DEF OneInvite
<1> QED
  BY <1>2, <1>3, <1>4, <1>5, <1>6, <1>7, <1>9

\* a step of somebody else that keeps the invites' rows
LEMMA OutsideKeeps ==
  ASSUME ScheduleInv, UNCHANGED <<exam, slot, request, stale>>,
         job' \in [Jobs -> {"unused", "running", "succeeded", "failed"}],
         faults' \in Nat, faults' = 0 => faults = 0,
         invite' \in [Invites -> Invite], InviteRows' = InviteRows,
         \A i \in Invites : invite'[i].mailed = invite[i].mailed
  PROVE  ScheduleInv'
<1> USE DEF ScheduleInv
<1>1. Types' /\ OneMaker' /\ HandMade' /\ InvitesInHand'
  BY DEF Types, OneMaker, HandMade, ByHand, InvitesInHand, Starting
<1>2. SlotsAreSound => SlotsAreSound'
  BY DEF SlotsAreSound, OwnQuestion
<1>3. OneInvite => OneInvite'
  <2>1. Scheduled' = Scheduled /\ \A r \in Requests, i \in Invites : HeldBy(r, i)' = HeldBy(r, i)
    BY DEF Scheduled, HeldBy
  <2>2. \A i \in InviteRows : i \in Invites /\ (Held(i)' <=> Held(i))
    BY <2>1 DEF Held, InviteRows
  <2> QED
    BY <2>1, <2>2 DEF OneInvite
<1>4. \A p \in Requests : Placed(request[p])'
  BY DEF Placed, Reading, SameSlots
<1> QED
  BY <1>1, <1>2, <1>3, <1>4

\* a request that only moves on, to another step or to its end
LEMMA MovesOn ==
  ASSUME Types, NEW r \in Requests, NEW pc, [request[r] EXCEPT !.pc = pc] \in Progress, Goes(r, pc)
  PROVE  \E q \in Progress :
           /\ request' = [request EXCEPT ![r] = q] /\ q.pc = pc
           /\ q.kind = request[r].kind /\ q.slot = request[r].slot /\ q.invite = request[r].invite
           /\ q.todo = request[r].todo /\ q.read = request[r].read /\ q.copy = request[r].copy
<1>1. request[r] \in Progress
  BY DEF Types
<1>2. request' = [request EXCEPT ![r] = [request[r] EXCEPT !.pc = pc]]
  BY DEF Goes
<1> QED
  BY <1>1, <1>2 DEF Progress

LEMMA EndKeeps ==
  ASSUME ScheduleInv, NEW r \in Requests, Ends(r), UNCHANGED <<exam, slot, job, invite, stale, faults>>,
         request[r].pc \notin {"mail", "status"}
  PROVE  ScheduleInv'
<1>1. request' = [request EXCEPT ![r] = Idle] /\ InviteRows' = InviteRows
  BY DEF Ends, InviteRows
<1>2. /\ job' \in [Jobs -> {"unused", "running", "succeeded", "failed"}]
      /\ invite' \in [Invites -> Invite]
  BY DEF ScheduleInv, Types
<1>3. \A s \in Slots : OwnQuestion(Idle.copy.slots[s])
  BY NoneIsNothing DEF OwnQuestion
<1> QED
  BY <1>1, <1>2, <1>3, NoneIsNothing, RequestKeeps

LEMMA BeginKeeps ==
  ASSUME ScheduleInv, NEW r \in Requests, BeginScheduleAi(r) \/ BeginSchedule(r)
  PROVE  ScheduleInv'
<1> USE DEF ScheduleInv
<1>1. /\ exam = None /\ \A p \in Requests : request[p] = Idle
      /\ UNCHANGED <<exam, slot, job, invite, stale, faults>>
  <2>1. exam = None /\ \A p \in Requests : request[p].pc = "idle"
    BY DEF BeginScheduleAi, BeginSchedule
  <2>2. \A p \in Requests : request[p] = Idle
    BY <2>1 DEF Placed, Reading
  <2> QED
    BY <2>1, <2>2 DEF BeginScheduleAi, BeginSchedule, rows
<1>2. PICK q \in Progress :
        /\ request' = [request EXCEPT ![r] = q] /\ q.copy.slots = Idle.copy.slots
        /\ \/ q.pc = "propose" /\ q.kind = "schedule_ai"
           \/ /\ q.pc = "key" /\ q.kind = "schedule"
              /\ q.copy.exam = [status |-> "scheduled", deadline |-> FALSE]
  <2>1. request[r] = Idle /\ Idle \in Progress
    BY <1>1, NoneIsNothing
  <2>2. CASE BeginScheduleAi(r)
    <3>1. request' = [request EXCEPT ![r] = [Idle EXCEPT !.pc = "propose", !.kind = "schedule_ai"]]
      BY <2>1, <2>2 DEF BeginScheduleAi
    <3>2. "propose" \in Pcs /\ "schedule_ai" \in Kinds
      BY DEF Pcs, Kinds
    <3>3. PICK q \in Progress : /\ q = [Idle EXCEPT !.pc = "propose", !.kind = "schedule_ai"]
                               /\ q.pc = "propose" /\ q.kind = "schedule_ai" /\ q.copy = Idle.copy
      <4>1. PICK p \in Progress : p = Idle
        BY <2>1
      <4>2. /\ [p EXCEPT !.pc = "propose", !.kind = "schedule_ai"] \in Progress
            /\ [p EXCEPT !.pc = "propose", !.kind = "schedule_ai"].pc = "propose"
            /\ [p EXCEPT !.pc = "propose", !.kind = "schedule_ai"].kind = "schedule_ai"
            /\ [p EXCEPT !.pc = "propose", !.kind = "schedule_ai"].copy = p.copy
        BY <3>2 DEF Progress
      <4> QED
        BY <4>1, <4>2
    <3> QED
      BY <3>1, <3>3
  <2>3. CASE BeginSchedule(r)
    <3> DEFINE e == [status |-> "scheduled", deadline |-> FALSE]
    <3>1. e \in Exam
      BY DEF Exam, Statuses
    <3>2. request' = [request EXCEPT ![r] = [Idle EXCEPT !.pc = "key", !.kind = "schedule",
                                                        !.copy = [Idle.copy EXCEPT !.exam = e]]]
      BY <2>1, <2>3 DEF BeginSchedule
    <3>3. [Idle.copy EXCEPT !.exam = e] \in Copies /\ [Idle.copy EXCEPT !.exam = e].slots = Idle.copy.slots
          /\ [Idle.copy EXCEPT !.exam = e].exam = e
      BY <2>1, <3>1 DEF Progress, Copies
    <3> HIDE DEF e
    <3>4. PICK c \in Copies : c = [Idle.copy EXCEPT !.exam = e] /\ c.slots = Idle.copy.slots /\ c.exam = e
      BY <3>3
    <3>9. "key" \in Pcs /\ "schedule" \in Kinds
      BY DEF Pcs, Kinds, Inviting
    <3>5. PICK q \in Progress : /\ q = [Idle EXCEPT !.pc = "key", !.kind = "schedule", !.copy = c]
                               /\ q.pc = "key" /\ q.kind = "schedule" /\ q.copy = c
      <4>1. PICK p \in Progress : p = Idle
        BY <2>1
      <4>2. /\ [p EXCEPT !.pc = "key", !.kind = "schedule", !.copy = c] \in Progress
            /\ [p EXCEPT !.pc = "key", !.kind = "schedule", !.copy = c].pc = "key"
            /\ [p EXCEPT !.pc = "key", !.kind = "schedule", !.copy = c].kind = "schedule"
            /\ [p EXCEPT !.pc = "key", !.kind = "schedule", !.copy = c].copy = c
        BY <3>9 DEF Progress
      <4> QED
        BY <4>1, <4>2
    <3>6. request' = [request EXCEPT ![r] = q]
      BY <3>2, <3>4, <3>5
    <3>7. q.copy.exam = [status |-> "scheduled", deadline |-> FALSE]
      BY <3>4, <3>5 DEF e
    <3> QED
      BY <3>4, <3>5, <3>6, <3>7
  <2> QED
    BY <2>2, <2>3 DEF BeginScheduleAi, BeginSchedule
<1>3. \A s \in Slots : OwnQuestion(q.copy.slots[s])
  BY <1>2, NoneIsNothing DEF OwnQuestion
<1>4. /\ Placed(q) /\ q.kind \notin Readers /\ ~ByHand
      /\ q.pc \notin {"mail", "status", "row"} /\ request[r].pc \notin {"mail", "status"}
  BY <1>1, <1>2, NoneIsNothing DEF Placed, Readers, ByHand
<1>5. InviteRows' = InviteRows /\ invite' \in [Invites -> Invite]
      /\ job' \in [Jobs -> {"unused", "running", "succeeded", "failed"}]
  BY <1>1 DEF InviteRows, Types
<1> QED
  BY <1>1, <1>2, <1>3, <1>4, <1>5, RequestKeeps

LEMMA JobOf ==
  ASSUME Types, NewJob
  PROVE  /\ Least(Unused) \in Jobs /\ Pending(Least(Unused)) \in Slot
         /\ OwnQuestion(Pending(Least(Unused))) /\ Pending(Least(Unused)) # None
         /\ job' \in [Jobs -> {"unused", "running", "succeeded", "failed"}]
<1>1. Unused \in SUBSET Nat /\ Unused # {}
  BY SchedulingAssumption DEF Unused, NewJob
<1>2. Least(Unused) \in Jobs
  BY <1>1, LeastOf DEF Unused
<1>3. Pending(Least(Unused)) \in Slot /\ OwnQuestion(Pending(Least(Unused)))
  BY <1>2 DEF Pending, Slot, OwnQuestion
<1>4. job' \in [Jobs -> {"unused", "running", "succeeded", "failed"}]
  BY DEF NewJob, Types
<1> QED
  BY <1>2, <1>3, <1>4, NoneIsNothing

LEMMA ProposeKeeps ==
  ASSUME ScheduleInv, NEW r \in Requests,
         ProposeBlueprint(r) \/ CommitBlueprint(r) \/ GenerateForSlot(r)
  PROVE  ScheduleInv'
<1> USE DEF ScheduleInv
<1>1. request[r] \in Progress /\ request[r].kind = "schedule_ai" /\ request[r].pc \notin {"mail", "status"}
  BY NoneIsNothing DEF Types, ProposeBlueprint, CommitBlueprint, GenerateForSlot, Placed, Reading
<1>2. /\ exam = None /\ ~ByHand /\ \A p \in Requests \ {r} : request[p] = Idle
      /\ UNCHANGED <<exam, slot, invite, stale, faults>>
  BY <1>1 DEF OneMaker, Starting, ByHand, rows, ProposeBlueprint, CommitBlueprint, GenerateForSlot
<1>3. \E q \in Progress :
        /\ request' = [request EXCEPT ![r] = q]
        /\ q.kind = "schedule_ai" /\ q.pc \in {"blueprint", "generate"}
        /\ ~stale => \A s \in Slots : OwnQuestion(q.copy.slots[s])
        /\ job' \in [Jobs -> {"unused", "running", "succeeded", "failed"}]
  <2>1. ~stale => \A s \in Slots : OwnQuestion(request[r].copy.slots[s])
    BY DEF SlotsAreSound
  <2>2. CASE ProposeBlueprint(r)
    <3>1. [request[r] EXCEPT !.pc = "blueprint"] \in Progress
      BY <1>1 DEF Progress, Pcs
    <3>2. Goes(r, "blueprint") /\ job' = job
      BY <2>2 DEF ProposeBlueprint
    <3> QED
      BY <1>1, <2>1, <3>1, <3>2, MovesOn DEF Types
  <2>3. CASE CommitBlueprint(r)
    <3>1. [request[r] EXCEPT !.pc = "generate"] \in Progress
      BY <1>1 DEF Progress, Pcs
    <3>2. Goes(r, "generate") /\ job' = job
      BY <2>3 DEF CommitBlueprint
    <3> QED
      BY <1>1, <2>1, <3>1, <3>2, MovesOn DEF Types
  <2>4. CASE GenerateForSlot(r)
    <3> DEFINE left == {s \in Slots : request[r].copy.slots[s] = None}
    <3>1. /\ left \in SUBSET Nat /\ left # {} /\ NewJob /\ request[r].pc = "generate"
          /\ request' = [request EXCEPT ![r].copy.slots[Least(left)] = Pending(Least(Unused))]
      BY <2>4, SchedulingAssumption DEF GenerateForSlot
    <3>2. PICK s \in Slots : s = Least(left)
      BY <3>1, LeastOf
    <3>3. PICK c \in Slot : c = Pending(Least(Unused)) /\ OwnQuestion(c)
      BY <3>1, JobOf
    <3>4. request[r].copy \in Copies /\ request[r].copy.slots \in [Slots -> Slot \cup {None}]
      BY <1>1 DEF Progress, Copies
    <3>5. PICK d \in [Slots -> Slot \cup {None}] : d = [request[r].copy.slots EXCEPT ![s] = c]
      BY <3>4
    <3>6. PICK k \in Copies : k = [request[r].copy EXCEPT !.slots = d] /\ k.slots = d
      <4>1. PICK k0 : k0 = request[r].copy
        OBVIOUS
      <4>2. [k0 EXCEPT !.slots = d] \in Copies /\ [k0 EXCEPT !.slots = d].slots = d
        BY <3>4, <4>1 DEF Copies
      <4> QED
        BY <4>1, <4>2
    <3>7. PICK q \in Progress : /\ q = [request[r] EXCEPT !.copy = k] /\ q.copy = k
                               /\ q.kind = request[r].kind /\ q.pc = request[r].pc
      <4>1. PICK p \in Progress : p = request[r]
        BY <1>1
      <4>2. /\ [p EXCEPT !.copy = k] \in Progress /\ [p EXCEPT !.copy = k].copy = k
            /\ [p EXCEPT !.copy = k].kind = p.kind /\ [p EXCEPT !.copy = k].pc = p.pc
        BY DEF Progress
      <4> QED
        BY <4>1, <4>2
    <3>8. request' = [request EXCEPT ![r] = q]
      BY <3>1, <3>2, <3>3, <3>5, <3>6, <3>7
    <3>9. ~stale => \A x \in Slots : OwnQuestion(q.copy.slots[x])
      <4> SUFFICES ASSUME ~stale, NEW x \in Slots PROVE OwnQuestion(d[x])
        BY <3>6, <3>7
      <4>1. d[x] = IF x = s THEN c ELSE request[r].copy.slots[x]
        BY <3>4, <3>5
      <4>2. CASE x = s
        BY <3>3, <4>1, <4>2
      <4>3. CASE x # s
        BY <2>1, <4>1, <4>3
      <4> QED
        BY <4>2, <4>3
    <3> QED
      BY <1>1, <3>1, <3>7, <3>8, <3>9, JobOf
  <2> QED
    BY <2>2, <2>3, <2>4
<1>4. PICK q \in Progress :
        /\ request' = [request EXCEPT ![r] = q]
        /\ q.kind = "schedule_ai" /\ q.pc \in {"blueprint", "generate"}
        /\ ~stale => \A s \in Slots : OwnQuestion(q.copy.slots[s])
        /\ job' \in [Jobs -> {"unused", "running", "succeeded", "failed"}]
  BY <1>3
<1>5. Placed(q) /\ q.kind \notin Readers
  BY <1>4 DEF Placed, Readers
<1>6. InviteRows' = InviteRows /\ invite' \in [Invites -> Invite]
  BY <1>2 DEF InviteRows, Types
<1> QED
  BY <1>1, <1>2, <1>4, <1>5, <1>6, RequestKeeps

LEMMA ReaderOf ==
  ASSUME ScheduleInv, NEW r \in Requests,
         request[r].pc \in {"list", "poll", "decide", "load", "again", "reset", "status"}
  PROVE  /\ Reading(request[r]) /\ request[r] \in Progress /\ ~Starting(request[r])
         /\ exam \in Exam /\ None \notin Exam
         /\ request[r].pc # "decide" => ~ByHand /\ \A s \in Slots : slot[s] \in Slot
<1> USE DEF ScheduleInv
<1>1. Reading(request[r]) /\ request[r] \in Progress
  BY NoneIsNothing DEF Placed, Types
<1>2. request[r].kind \in Readers
  BY <1>1 DEF Reading
<1>3. ~Starting(request[r])
  BY <1>2 DEF Starting, Readers
<1>4. exam \in Exam /\ None \notin Exam
  BY <1>2, NoneIsNothing DEF OneMaker, Types
<1>5. request[r].pc # "decide" => ~ByHand
  BY DEF HandMade
<1>6. ~ByHand => \A s \in Slots : slot[s] \in Slot
  BY <1>4 DEF HandMade, Types
<1> QED
  BY <1>1, <1>3, <1>4, <1>5, <1>6

LEMMA CopyOf ==
  ASSUME NEW c \in Copies, NEW d \in [Slots -> Slot \cup {None}]
  PROVE  /\ c.exam \in Exam \cup {None} /\ c.slots \in [Slots -> Slot \cup {None}]
         /\ [c EXCEPT !.slots = d] \in Copies
         /\ [c EXCEPT !.slots = d].slots = d /\ [c EXCEPT !.slots = d].exam = c.exam
BY DEF Copies

\* what holds of the rows nobody wrote
LEMMA RowsStay ==
  ASSUME ScheduleInv, UNCHANGED invite
  PROVE  /\ InviteRows' = InviteRows /\ invite' \in [Invites -> Invite]
         /\ \A i \in Invites : invite'[i].mailed = invite[i].mailed
         /\ job' = job => job' \in [Jobs -> {"unused", "running", "succeeded", "failed"}]
BY DEF InviteRows, ScheduleInv, Types

LEMMA ReadKeeps ==
  ASSUME ScheduleInv, NEW r \in Requests, NEW kind \in Readers, NEW s \in Slots \cup {None},
         ReadExam(r, kind, s)
  PROVE  ScheduleInv'
<1> USE DEF ScheduleInv
<1> DEFINE seen == [exam |-> exam, slots |-> NoSlots]
           pc   == IF exam.status = "pending_generation" THEN "list" ELSE "decide"
<1>1. /\ exam # None /\ request[r].pc = "idle" /\ ((kind = "regenerate") <=> (s # None))
      /\ UNCHANGED <<exam, slot, job, invite, stale, faults>>
      /\ request' = [request EXCEPT ![r] =
                      [Idle EXCEPT !.pc = pc, !.kind = kind, !.slot = s, !.read = seen, !.copy = seen]]
  BY DEF ReadExam, rows
<1>2. exam \in Exam /\ NoSlots \in [Slots -> Slot \cup {None}]
  BY <1>1 DEF Types, NoSlots
<1>3. PICK c \in Copies : c = seen /\ c.exam = exam /\ c.slots = NoSlots
  <2>1. seen \in Copies
    BY <1>2 DEF Copies
  <2>2. seen.exam = exam /\ seen.slots = NoSlots
    OBVIOUS
  <2> QED
    BY <2>1, <2>2
<1>4. PICK n \in Pcs : n = pc
  BY DEF Pcs
<1>5. PICK q \in Progress :
        /\ request' = [request EXCEPT ![r] = q] /\ q.pc = n /\ q.kind = kind /\ q.slot = s
        /\ q.read = c /\ q.copy = c
  <2>1. PICK p \in Progress : p = Idle
    BY NoneIsNothing
  <2>2. kind \in Kinds
    BY DEF Kinds
  <2> DEFINE q == [p EXCEPT !.pc = n, !.kind = kind, !.slot = s, !.read = c, !.copy = c]
  <2>3. /\ q \in Progress /\ q.pc = n /\ q.kind = kind /\ q.slot = s /\ q.read = c /\ q.copy = c
    BY <2>2 DEF Progress
  <2>4. request' = [request EXCEPT ![r] = q]
    BY <1>1, <1>3, <1>4, <2>1
  <2> HIDE DEF q
  <2> QED
    BY <2>3, <2>4
<1>6. /\ n \in {"list", "decide"} /\ (n = "list" => exam.status = "pending_generation")
      /\ n = "list" \/ exam.status # "pending_generation"
  BY <1>4
<1> HIDE DEF seen, pc
<1>7. Placed(q)
  <2>1. (q.kind = "regenerate") = (q.slot # None)
    BY <1>1, <1>5
  <2> QED
    BY <1>2, <1>3, <1>5, <1>6, <2>1 DEF Placed, Reading, SameSlots, Inviting
<1>8. ~Starting(q) /\ \A x \in Slots : OwnQuestion(q.copy.slots[x])
  BY <1>3, <1>5 DEF Starting, Readers, OwnQuestion, NoSlots
<1>9. ByHand => q.pc = "decide" /\ q.copy.exam.status = "scheduled"
  BY <1>3, <1>5, <1>6 DEF HandMade
<1> QED
  BY <1>1, <1>5, <1>6, <1>7, <1>8, <1>9, RowsStay, RequestKeeps

LEMMA ListKeeps ==
  ASSUME ScheduleInv, NEW r \in Requests, ListSlots(r)
  PROVE  ScheduleInv'
<1> USE DEF ScheduleInv
<1> DEFINE todo == {s \in Slots : slot[s] # None /\ slot[s].status = "pending"}
<1>1. /\ request[r].pc = "list" /\ UNCHANGED <<exam, slot, job, invite, stale, faults>>
      /\ request' = [request EXCEPT ![r].pc = "poll", ![r].read.slots = slot,
                                    ![r].copy.slots = slot, ![r].todo = todo]
  BY DEF ListSlots, rows
<1>2. /\ Reading(request[r]) /\ ~Starting(request[r]) /\ exam \in Exam /\ None \notin Exam /\ ~ByHand
  BY <1>1, ReaderOf
<1>3. PICK p \in Progress : p = request[r]
  BY DEF Types
<1>4. PICK a \in Copies, b \in Copies : a = p.read /\ b = p.copy
  BY DEF Progress
<1>0. slot \in [Slots -> Slot \cup {None}]
  BY DEF Types
<1>5. PICK a1 \in Copies : a1 = [a EXCEPT !.slots = slot] /\ a1.exam = a.exam /\ a1.slots = slot
  <2>1. /\ [a EXCEPT !.slots = slot] \in Copies
        /\ [a EXCEPT !.slots = slot].exam = a.exam /\ [a EXCEPT !.slots = slot].slots = slot
    BY <1>0, CopyOf
  <2> QED
    BY <2>1
<1>6. PICK b1 \in Copies : b1 = [b EXCEPT !.slots = slot] /\ b1.exam = b.exam /\ b1.slots = slot
  <2>1. /\ [b EXCEPT !.slots = slot] \in Copies
        /\ [b EXCEPT !.slots = slot].exam = b.exam /\ [b EXCEPT !.slots = slot].slots = slot
    BY <1>0, CopyOf
  <2> QED
    BY <2>1
<1>7. PICK q \in Progress :
        /\ request' = [request EXCEPT ![r] = q] /\ q.pc = "poll" /\ q.kind = p.kind
        /\ q.read = a1 /\ q.copy = b1 /\ q.todo = todo /\ q.slot = p.slot
  <2>1. todo \in SUBSET Slots /\ "poll" \in Pcs
    BY DEF Pcs
  <2> HIDE DEF todo
  <2> DEFINE q == [p EXCEPT !.pc = "poll", !.read = a1, !.copy = b1, !.todo = todo]
  <2>2. /\ q \in Progress /\ q.pc = "poll" /\ q.kind = p.kind
        /\ q.read = a1 /\ q.copy = b1 /\ q.todo = todo /\ q.slot = p.slot
    BY <2>1 DEF Progress
  <2>3. request' = [request EXCEPT ![r] = q]
    <3>1. request' = [request EXCEPT ![r] = [p EXCEPT !.pc = "poll", !.read = [@ EXCEPT !.slots = slot],
                                                     !.copy = [@ EXCEPT !.slots = slot], !.todo = todo]]
      BY <1>1, <1>3
    <3> QED
      BY <3>1, <1>4, <1>5, <1>6
  <2> HIDE DEF q
  <2> QED
    BY <2>2, <2>3
<1>8. Placed(q)
  <2>1. \A s \in Slots : slot[s] # None
    BY <1>1, ReaderOf, NoneIsNothing
  <2>2. Reading(q)
    BY <1>1, <1>2, <1>3, <1>4, <1>5, <1>6, <1>7, <2>1 DEF Reading, SameSlots, Inviting
  <2> QED
    BY <1>7, <2>2 DEF Placed
<1>9. ~Starting(q) /\ (~stale => \A x \in Slots : OwnQuestion(q.copy.slots[x]))
  <2>1. ~Starting(q)
    BY <1>1, <1>2, <1>3, <1>7 DEF Starting, Reading, Readers
  <2>2. ~stale => \A x \in Slots : OwnQuestion(slot[x])
    BY DEF SlotsAreSound
  <2> QED
    BY <1>6, <1>7, <2>1, <2>2
<1> HIDE DEF todo
<1> QED
  BY <1>1, <1>2, <1>7, <1>8, <1>9, RowsStay, RequestKeeps

LEMMA PollKeeps ==
  ASSUME ScheduleInv, NEW r \in Requests, PollJob(r)
  PROVE  ScheduleInv'
<1> USE DEF ScheduleInv
<1>1. /\ request[r].pc = "poll" /\ UNCHANGED <<exam, slot, job, invite, stale, faults>>
      /\ request[r].todo # {}
      /\ request' = [request EXCEPT ![r].todo = @ \ {Least(request[r].todo)},
                       ![r].copy.slots[Least(request[r].todo)] = AfterPoll(@)]
  BY DEF PollJob, rows
<1>2. /\ Reading(request[r]) /\ ~Starting(request[r]) /\ exam \in Exam /\ None \notin Exam /\ ~ByHand
  BY <1>1, ReaderOf
<1>3. PICK p \in Progress : p = request[r]
  BY DEF Types
<1>4. PICK k \in Copies : k = p.copy
  BY DEF Progress
<1>5. PICK d \in [Slots -> Slot \cup {None}] : d = k.slots
  BY DEF Copies
<1>6. PICK s \in p.todo : s = Least(p.todo)
  BY <1>1, <1>3, LeastOf, SchedulingAssumption DEF Progress
<1>7. s \in Slots /\ d[s] \in Slot /\ p.read.slots[s] # None
  BY <1>1, <1>2, <1>3, <1>4, <1>5, <1>6 DEF Progress, Reading, SameSlots
<1>8. PICK c \in Slot : c = AfterPoll(d[s]) /\ (~stale => OwnQuestion(c))
  <2>1. PICK e \in Slot : e = d[s] /\ (~stale => OwnQuestion(e))
    BY <1>3, <1>4, <1>5, <1>7 DEF SlotsAreSound
  <2>2. AfterPoll(e) \in Slot /\ (~stale => OwnQuestion(AfterPoll(e)))
    BY <2>1 DEF AfterPoll, Slot, OwnQuestion
  <2> QED
    BY <2>1, <2>2
<1>9. PICK d1 \in [Slots -> Slot \cup {None}] :
        d1 = [d EXCEPT ![s] = c] /\ \A x \in Slots : d1[x] = IF x = s THEN c ELSE d[x]
  <2>1. /\ [d EXCEPT ![s] = c] \in [Slots -> Slot \cup {None}]
        /\ \A x \in Slots : [d EXCEPT ![s] = c][x] = IF x = s THEN c ELSE d[x]
    OBVIOUS
  <2> QED
    BY <2>1
<1>10. PICK k1 \in Copies : k1 = [k EXCEPT !.slots = d1] /\ k1.slots = d1 /\ k1.exam = k.exam
  BY CopyOf
<1>11. PICK q \in Progress :
         /\ request' = [request EXCEPT ![r] = q] /\ q.pc = p.pc /\ q.kind = p.kind
         /\ q.read = p.read /\ q.copy = k1 /\ q.todo = p.todo \ {s} /\ q.slot = p.slot
  <2>1. p.todo \ {s} \in SUBSET Slots
    BY DEF Progress
  <2> DEFINE q == [p EXCEPT !.todo = p.todo \ {s}, !.copy = k1]
  <2>2. /\ q \in Progress /\ q.pc = p.pc /\ q.kind = p.kind
        /\ q.read = p.read /\ q.copy = k1 /\ q.todo = p.todo \ {s} /\ q.slot = p.slot
    BY <2>1 DEF Progress
  <2>3. request' = [request EXCEPT ![r] = q]
    <3>1. request' = [request EXCEPT ![r].todo = @ \ {s}, ![r].copy.slots[s] = AfterPoll(@)]
      BY <1>1, <1>3, <1>6
    <3>2. AfterPoll(request[r].copy.slots[s]) = c
      BY <1>3, <1>4, <1>5, <1>8
    <3>3. request' = [request EXCEPT ![r].todo = p.todo \ {s}, ![r].copy.slots[s] = c]
      BY <3>1, <3>2, <1>3
    <3>4. request' = [request EXCEPT ![r] = [p EXCEPT !.todo = p.todo \ {s}, !.copy.slots[s] = c]]
      BY <3>3, <1>3
    <3>5. [p EXCEPT !.todo = p.todo \ {s}, !.copy.slots[s] = c] = q
      BY <1>4, <1>5, <1>9, <1>10
    <3> QED
      BY <3>4, <3>5
  <2> HIDE DEF q
  <2> QED
    BY <2>2, <2>3
<1>12. \A x \in Slots : d1[x] = None <=> d[x] = None
  BY <1>7, <1>9, NoneIsNothing
<1>13. Placed(q)
  <2>1. /\ p.kind \in Readers /\ p.read.exam \in Exam /\ k.exam \in Exam
        /\ p.read.exam = k.exam /\ k.exam.status = "pending_generation" /\ p.pc = "poll"
        /\ \A x \in Slots : p.read.slots[x] = None <=> d[x] = None
        /\ \A x \in Slots : d[x] # None
        /\ (p.kind = "regenerate") = (p.slot # None)
    BY <1>1, <1>2, <1>3, <1>4, <1>5 DEF Reading, SameSlots
  <2>2. \A x \in Slots : d1[x] # None
    BY <1>12, <2>1
  <2>3. Reading(q)
    BY <1>10, <1>11, <1>12, <2>1, <2>2 DEF Reading, SameSlots, Inviting
  <2> QED
    BY <1>11, <2>1, <2>3 DEF Placed
<1>14. ~Starting(q) /\ (~stale => \A x \in Slots : OwnQuestion(q.copy.slots[x]))
  <2>1. ~Starting(q)
    BY <1>2, <1>3, <1>11 DEF Starting
  <2>2. ~stale => \A x \in Slots : OwnQuestion(d[x])
    BY <1>3, <1>4, <1>5 DEF SlotsAreSound
  <2>3. ~stale => \A x \in Slots : OwnQuestion(d1[x])
    BY <2>2, <1>8, <1>9
  <2> QED
    BY <1>10, <1>11, <2>1, <2>3
<1> QED
  BY <1>1, <1>2, <1>3, <1>11, <1>13, <1>14, RowsStay, RequestKeeps

LEMMA DecideKeeps ==
  ASSUME ScheduleInv, NEW r \in Requests, Decide(r)
  PROVE  ScheduleInv'
<1> USE DEF ScheduleInv
<1>1. request[r].pc = "decide" /\ UNCHANGED <<exam, slot, job, invite, stale, faults>>
  BY DEF Decide, rows
<1>2. /\ Reading(request[r]) /\ ~Starting(request[r]) /\ exam \in Exam /\ None \notin Exam
      /\ request[r] \in Progress
  BY <1>1, ReaderOf
<1>3. CASE Ends(r)
  BY <1>1, <1>3, EndKeeps
<1>4. ASSUME NEW pc \in {"key", "load"}, Goes(r, pc),
             pc = "key" => request[r].copy.exam.status = "pending_review",
             pc = "load" => request[r].kind = "regenerate" /\ Regenerable(request[r].copy.exam)
      PROVE  ScheduleInv'
  <2>1. [request[r] EXCEPT !.pc = pc] \in Progress
    <3>1. pc \in Pcs
      BY DEF Pcs, Inviting
    <3> QED
      BY <1>2, <3>1 DEF Progress
  <2>2. PICK q \in Progress :
          /\ request' = [request EXCEPT ![r] = q] /\ q.pc = pc
          /\ q.kind = request[r].kind /\ q.slot = request[r].slot /\ q.invite = request[r].invite
          /\ q.todo = request[r].todo /\ q.read = request[r].read /\ q.copy = request[r].copy
    BY <1>4, <2>1, MovesOn
  <2>3. /\ pc = "load" => request[r].slot \in Slots
        /\ request[r].read = request[r].copy
    BY <1>1, <1>2, <1>4 DEF Reading, Progress
  <2>4. Placed(q) /\ q.kind \in Readers
    <3>1. Reading(q)
      BY <1>2, <1>4, <2>2, <2>3 DEF Reading, SameSlots, Inviting
    <3> QED
      BY <2>2, <3>1 DEF Placed, Reading
  <2>5. ~Starting(q)
    BY <2>4 DEF Starting, Readers
  <2>6. ~ByHand
    <3>1. ByHand => request[r].copy.exam.status = "scheduled"
      BY <1>1 DEF HandMade
    <3> QED
      BY <1>4, <3>1 DEF Regenerable
  <2>7. ~stale => \A s \in Slots : OwnQuestion(q.copy.slots[s])
    BY <2>2 DEF SlotsAreSound
  <2> QED
    BY <1>1, <1>2, <2>2, <2>4, <2>5, <2>6, <2>7, RowsStay, RequestKeeps
<1>5. \/ Ends(r)
      \/ Goes(r, "key") /\ request[r].copy.exam.status = "pending_review"
      \/ Goes(r, "load") /\ request[r].kind = "regenerate" /\ Regenerable(request[r].copy.exam)
  BY DEF Decide, Confirms
<1> QED
  BY <1>3, <1>4, <1>5

LEMMA KeyKeeps ==
  ASSUME ScheduleInv, NEW r \in Requests, SetKey(r)
  PROVE  ScheduleInv'
<1> USE DEF ScheduleInv
<1> DEFINE free == {i \in Invites : ~invite[i].key /\ invite[i].row = "none"}
<1>1. /\ request[r].pc = "key" /\ UNCHANGED <<exam, slot, job, stale, faults>>
      /\ free # {} /\ free \in SUBSET Nat
      /\ invite' = [invite EXCEPT ![Least(free)].key = TRUE]
      /\ request' = [request EXCEPT ![r].pc = "row", ![r].invite = Least(free)]
  BY SchedulingAssumption DEF SetKey, rows
<1>2. PICK i \in free : i = Least(free)
  BY <1>1, LeastOf
<1>3. i \in Invites
  OBVIOUS
<1>4. /\ invite' \in [Invites -> Invite]
      /\ \A j \in Invites : invite'[j].row = invite[j].row /\ invite'[j].mailed = invite[j].mailed
  BY <1>1, <1>2, <1>3 DEF Types, Invite
<1>5. InviteRows' = InviteRows
  BY <1>4 DEF InviteRows
<1>6. PICK p \in Progress : p = request[r]
  BY DEF Types
<1>7. PICK q \in Progress :
        /\ request' = [request EXCEPT ![r] = q] /\ q.pc = "row" /\ q.kind = p.kind
        /\ q.read = p.read /\ q.copy = p.copy /\ q.invite = i
  <2>1. "row" \in Pcs
    BY DEF Pcs, Inviting
  <2> DEFINE q == [p EXCEPT !.pc = "row", !.invite = i]
  <2>2. /\ q \in Progress /\ q.pc = "row" /\ q.kind = p.kind
        /\ q.read = p.read /\ q.copy = p.copy /\ q.invite = i
    BY <1>3, <2>1 DEF Progress
  <2>3. request' = [request EXCEPT ![r] = q]
    BY <1>1, <1>2, <1>6
  <2> HIDE DEF q
  <2> QED
    BY <2>2, <2>3
<1> HIDE DEF free
<1>8. \/ /\ p.kind = "schedule" /\ p.copy.exam = [status |-> "scheduled", deadline |-> FALSE]
         /\ exam = None /\ \A o \in Requests \ {r} : request[o] = Idle
      \/ Reading(p) /\ ~ByHand /\ exam # None
  <2>1. Placed(p) /\ p.pc = "key"
    BY <1>1, <1>6
  <2>2. CASE Reading(p)
    <3>1. p.kind \in Readers
      BY <2>2 DEF Reading
    <3> QED
      BY <1>1, <1>6, <2>2, <3>1 DEF OneMaker, HandMade
  <2>3. CASE ~Reading(p)
    <3>1. p.kind = "schedule" /\ p.copy.exam = [status |-> "scheduled", deadline |-> FALSE]
      BY <2>1, <2>3, NoneIsNothing DEF Placed
    <3>2. Starting(request[r])
      BY <1>6, <2>1, <3>1 DEF Starting
    <3> QED
      BY <3>1, <3>2 DEF OneMaker
  <2> QED
    BY <2>2, <2>3
<1>9. Reading(p) => Reading(q)
  BY <1>1, <1>6, <1>7 DEF Reading, SameSlots, Inviting
<1>10. Placed(q) /\ (q.kind \in Readers => exam # None) /\ ~ByHand
  BY <1>7, <1>8, <1>9 DEF Placed, Readers, ByHand
<1>11. Starting(q) => exam = None /\ \A o \in Requests \ {r} : request[o] = Idle
  BY <1>7, <1>8 DEF Starting, Reading, Readers
<1>12. ~stale => \A s \in Slots : OwnQuestion(q.copy.slots[s])
  BY <1>6, <1>7 DEF SlotsAreSound
<1>13. job' \in [Jobs -> {"unused", "running", "succeeded", "failed"}]
  BY <1>1 DEF Types
<1> QED
  BY <1>1, <1>3, <1>4, <1>5, <1>7, <1>10, <1>11, <1>12, <1>13, RequestKeeps

LEMMA LoadKeeps ==
  ASSUME ScheduleInv, NEW r \in Requests, LoadSlot(r)
  PROVE  ScheduleInv'
<1> USE DEF ScheduleInv
<1> DEFINE c == IF request[r].copy.slots[request[r].slot] = None THEN slot[request[r].slot]
                ELSE request[r].copy.slots[request[r].slot]
<1>1. /\ request[r].pc = "load" /\ UNCHANGED <<exam, slot, job, invite, stale, faults>>
      /\ request' = [request EXCEPT ![r].pc = "again", ![r].read.slots[request[r].slot] = c,
                                    ![r].copy.slots[request[r].slot] = c]
  BY DEF LoadSlot, rows
<1>2. /\ Reading(request[r]) /\ ~Starting(request[r]) /\ exam \in Exam /\ None \notin Exam /\ ~ByHand
      /\ \A x \in Slots : slot[x] \in Slot
  BY <1>1, ReaderOf
<1>3. PICK p \in Progress : p = request[r]
  BY DEF Types
<1>4. PICK k \in Copies : k = p.copy
  BY DEF Progress
<1>5. PICK d \in [Slots -> Slot \cup {None}] : d = k.slots
  BY DEF Copies
<1>6. PICK s \in Slots : s = p.slot /\ p.read = k /\ Regenerable(k.exam) /\ k.exam \in Exam
  BY <1>1, <1>2, <1>3, <1>4 DEF Reading
<1>7. PICK e \in Slot : e = c /\ (~stale => OwnQuestion(e))
  <2>1. c = IF d[s] = None THEN slot[s] ELSE d[s]
    BY <1>3, <1>4, <1>5, <1>6
  <2>2. c \in Slot
    BY <1>2, <2>1
  <2>3. ~stale => OwnQuestion(slot[s]) /\ OwnQuestion(d[s])
    BY <1>3, <1>4, <1>5 DEF SlotsAreSound
  <2>4. ~stale => OwnQuestion(c)
    BY <2>1, <2>3
  <2> QED
    BY <2>2, <2>4
<1> HIDE DEF c
<1>8. PICK d1 \in [Slots -> Slot \cup {None}] :
        d1 = [d EXCEPT ![s] = e] /\ \A x \in Slots : d1[x] = IF x = s THEN e ELSE d[x]
  <2>1. /\ [d EXCEPT ![s] = e] \in [Slots -> Slot \cup {None}]
        /\ \A x \in Slots : [d EXCEPT ![s] = e][x] = IF x = s THEN e ELSE d[x]
    OBVIOUS
  <2> QED
    BY <2>1
<1>9. PICK k1 \in Copies : k1 = [k EXCEPT !.slots = d1] /\ k1.slots = d1 /\ k1.exam = k.exam
  <2>1. /\ [k EXCEPT !.slots = d1] \in Copies
        /\ [k EXCEPT !.slots = d1].slots = d1 /\ [k EXCEPT !.slots = d1].exam = k.exam
    BY CopyOf
  <2> QED
    BY <2>1
<1>10. PICK q \in Progress :
         /\ request' = [request EXCEPT ![r] = q] /\ q.pc = "again" /\ q.kind = p.kind
         /\ q.slot = s /\ q.read = k1 /\ q.copy = k1
  <2>1. "again" \in Pcs
    BY DEF Pcs
  <2> DEFINE q == [p EXCEPT !.pc = "again", !.read = k1, !.copy = k1]
  <2>2. /\ q \in Progress /\ q.pc = "again" /\ q.kind = p.kind
        /\ q.slot = s /\ q.read = k1 /\ q.copy = k1
    BY <1>6, <2>1 DEF Progress
  <2>3. request' = [request EXCEPT ![r] = q]
    <3>1. request' = [request EXCEPT ![r].pc = "again", ![r].read.slots[s] = e, ![r].copy.slots[s] = e]
      BY <1>1, <1>3, <1>6, <1>7
    <3>2. request' = [request EXCEPT ![r] = [p EXCEPT !.pc = "again", !.read.slots[s] = e,
                                                     !.copy.slots[s] = e]]
      BY <3>1, <1>3
    <3>3. [p EXCEPT !.pc = "again", !.read.slots[s] = e, !.copy.slots[s] = e] = q
      <4>1. [k EXCEPT !.slots[s] = e] = k1
        BY <1>5, <1>8, <1>9
      <4>2. [p EXCEPT !.pc = "again", !.read.slots[s] = e, !.copy.slots[s] = e] =
              [p EXCEPT !.pc = "again", !.read = [p.read EXCEPT !.slots[s] = e],
                        !.copy = [p.copy EXCEPT !.slots[s] = e]]
        OBVIOUS
      <4> QED
        BY <1>4, <1>6, <4>1, <4>2
    <3> QED
      BY <3>2, <3>3
  <2> HIDE DEF q
  <2> QED
    BY <2>2, <2>3
<1>11. Placed(q)
  <2>1. d1[s] # None
    BY <1>8, NoneIsNothing
  <2>2. p.kind \in Readers
    BY <1>2, <1>3 DEF Reading
  <2>3. Reading(q)
    BY <1>6, <1>9, <1>10, <2>1, <2>2 DEF Reading, SameSlots, Inviting
  <2> QED
    BY <1>10, <2>3 DEF Placed
<1>12. ~Starting(q) /\ (~stale => \A x \in Slots : OwnQuestion(q.copy.slots[x]))
  <2>1. ~Starting(q)
    BY <1>10, <1>2, <1>3 DEF Starting, Reading, Readers
  <2>2. ~stale => \A x \in Slots : OwnQuestion(d[x])
    BY <1>3, <1>4, <1>5 DEF SlotsAreSound
  <2>3. ~stale => \A x \in Slots : OwnQuestion(d1[x])
    BY <2>2, <1>7, <1>8
  <2> QED
    BY <1>9, <1>10, <2>1, <2>3
<1> QED
  BY <1>1, <1>2, <1>3, <1>10, <1>11, <1>12, RowsStay, RequestKeeps

LEMMA AgainKeeps ==
  ASSUME ScheduleInv, NEW r \in Requests, GenerateAgain(r)
  PROVE  ScheduleInv'
<1> USE DEF ScheduleInv
<1> DEFINE v == [status |-> "pending_generation", deadline |-> FALSE]
<1>1. /\ request[r].pc = "again" /\ UNCHANGED <<exam, slot, invite, stale, faults>> /\ NewJob
      /\ request' = [request EXCEPT ![r].pc = "reset",
                       ![r].copy.slots[request[r].slot] = Pending(Least(Unused)),
                       ![r].copy.exam = v]
  BY DEF GenerateAgain, rows
<1>2. /\ Reading(request[r]) /\ ~Starting(request[r]) /\ exam \in Exam /\ None \notin Exam /\ ~ByHand
  BY <1>1, ReaderOf
<1>3. PICK p \in Progress : p = request[r]
  BY DEF Types
<1>4. PICK k \in Copies : k = p.copy
  BY DEF Progress
<1>5. PICK d \in [Slots -> Slot \cup {None}] : d = k.slots
  BY DEF Copies
<1>6. PICK s \in Slots : s = p.slot /\ p.read = k /\ Regenerable(k.exam) /\ k.exam \in Exam
                         /\ d[s] # None
  BY <1>1, <1>2, <1>3, <1>4, <1>5 DEF Reading
<1>7. PICK e \in Slot : e = Pending(Least(Unused)) /\ OwnQuestion(e)
  BY <1>1, JobOf
<1>8. PICK d1 \in [Slots -> Slot \cup {None}] :
        d1 = [d EXCEPT ![s] = e] /\ \A x \in Slots : d1[x] = IF x = s THEN e ELSE d[x]
  <2>1. /\ [d EXCEPT ![s] = e] \in [Slots -> Slot \cup {None}]
        /\ \A x \in Slots : [d EXCEPT ![s] = e][x] = IF x = s THEN e ELSE d[x]
    OBVIOUS
  <2> QED
    BY <2>1
<1>9. PICK w \in Exam : w = v
  BY DEF Exam, Statuses
<1>10. PICK k1 \in Copies : k1 = [k EXCEPT !.slots = d1, !.exam = w] /\ k1.slots = d1 /\ k1.exam = w
  <2>1. /\ [k EXCEPT !.slots = d1, !.exam = w] \in Copies
        /\ [k EXCEPT !.slots = d1, !.exam = w].slots = d1
        /\ [k EXCEPT !.slots = d1, !.exam = w].exam = w
    BY DEF Copies
  <2> QED
    BY <2>1
<1> HIDE DEF v
<1>11. PICK q \in Progress :
         /\ request' = [request EXCEPT ![r] = q] /\ q.pc = "reset" /\ q.kind = p.kind
         /\ q.slot = s /\ q.read = k /\ q.copy = k1
  <2>1. "reset" \in Pcs
    BY DEF Pcs
  <2> DEFINE q == [p EXCEPT !.pc = "reset", !.copy = k1]
  <2>2. /\ q \in Progress /\ q.pc = "reset" /\ q.kind = p.kind
        /\ q.slot = s /\ q.read = k /\ q.copy = k1
    BY <1>6, <2>1 DEF Progress
  <2>3. request' = [request EXCEPT ![r] = q]
    <3>1. request' = [request EXCEPT ![r].pc = "reset", ![r].copy.slots[s] = e, ![r].copy.exam = w]
      BY <1>1, <1>3, <1>6, <1>7, <1>9
    <3>2. request' = [request EXCEPT ![r] = [p EXCEPT !.pc = "reset", !.copy.slots[s] = e,
                                                     !.copy.exam = w]]
      BY <3>1, <1>3
    <3>3. [p EXCEPT !.pc = "reset", !.copy.slots[s] = e, !.copy.exam = w] = q
      BY <1>4, <1>5, <1>8, <1>10
    <3> QED
      BY <3>2, <3>3
  <2> HIDE DEF q
  <2> QED
    BY <2>2, <2>3
<1>12. Placed(q)
  <2>1. d1[s] # None /\ \A x \in Slots : d[x] = None <=> d1[x] = None
    BY <1>6, <1>8, NoneIsNothing
  <2>2. p.kind \in Readers
    BY <1>2, <1>3 DEF Reading
  <2>3. Reading(q)
    BY <1>5, <1>6, <1>9, <1>10, <1>11, <2>1, <2>2 DEF Reading, SameSlots, Inviting, v
  <2> QED
    BY <1>11, <2>3 DEF Placed
<1>13. ~Starting(q) /\ (~stale => \A x \in Slots : OwnQuestion(q.copy.slots[x]))
  <2>1. ~Starting(q)
    BY <1>11, <1>2, <1>3 DEF Starting, Reading, Readers
  <2>2. ~stale => \A x \in Slots : OwnQuestion(d[x])
    BY <1>3, <1>4, <1>5 DEF SlotsAreSound
  <2>3. ~stale => \A x \in Slots : OwnQuestion(d1[x])
    BY <2>2, <1>7, <1>8
  <2> QED
    BY <1>10, <1>11, <2>1, <2>3
<1> QED
  BY <1>1, <1>2, <1>3, <1>11, <1>12, <1>13, JobOf, RowsStay, RequestKeeps

-----------------------------------------------------------------------------
(* Steps that write rows of the exam. *)

LEMMA ExamKeeps ==
  ASSUME ScheduleInv, NEW r \in Requests, CommitExam(r)
  PROVE  ScheduleInv'
<1> USE DEF ScheduleInv
<1> DEFINE e == [status |-> "pending_generation", deadline |-> FALSE]
<1>1. /\ request[r].pc = "generate" /\ \A s \in Slots : request[r].copy.slots[s] # None
      /\ exam' = e /\ slot' = request[r].copy.slots /\ request' = [request EXCEPT ![r] = Idle]
      /\ UNCHANGED <<job, invite, stale, faults>>
  BY DEF CommitExam, Ends
<1>2. request[r] \in Progress /\ request[r].kind = "schedule_ai"
  BY <1>1, NoneIsNothing DEF Types, Placed, Reading
<1>3. exam = None /\ InviteRows = {} /\ \A p \in Requests : request'[p] = Idle
  BY <1>1, <1>2 DEF OneMaker, Starting, Types
<1>4. e \in Exam /\ e.status = "pending_generation" /\ e # None
  <2>1. e \in Exam /\ e.status = "pending_generation"
    BY DEF Exam, Statuses
  <2> QED
    BY <2>1, NoneIsNothing
<1> HIDE DEF e
<1>5. Types'
  BY <1>1, <1>2, <1>4, NoneIsNothing DEF Types, Progress, Copies
<1>6. InviteRows' = {}
  BY <1>1, <1>3 DEF InviteRows
<1>7. OneMaker' /\ \A p \in Requests : Placed(request[p])'
  BY <1>1, <1>3, <1>4, NoneIsNothing DEF OneMaker, Placed
<1>8. HandMade'
  <2>1. slot' # NoSlots
    BY <1>1, SchedulingAssumption DEF NoSlots
  <2> QED
    BY <1>1, <1>3, <2>1, NoneIsNothing DEF HandMade, ByHand
<1>9. InvitesInHand'
  BY <1>1, <1>3, <1>6, NoneIsNothing DEF InvitesInHand
<1>10. ~stale => SlotsAreSound'
  BY <1>1, <1>3, <1>4, NoneIsNothing DEF SlotsAreSound, OwnQuestion
<1>11. OneInvite'
  BY <1>1, <1>4, <1>6 DEF OneInvite, Scheduled
<1> QED
  BY <1>1, <1>5, <1>7, <1>8, <1>9, <1>10, <1>11

(***************************************************************************)
(* A commit of copies, by a request that goes on or ends with it.  While   *)
(* nothing is stale, an exam that gets scheduled has one invite that is    *)
(* nobody's any more: the one of the request that schedules it.            *)
(***************************************************************************)
LEMMA CommitKeeps ==
  ASSUME ScheduleInv, NEW r \in Requests, NEW copy \in Copies, NEW q \in Progress,
         Commit(r, copy), UNCHANGED <<job, invite, faults>>,
         request' = [request EXCEPT ![r] = q],
         request[r].pc \in {"poll", "status", "reset"}, copy.exam \in Exam,
         \A s \in Slots : request[r].read.slots[s] = None <=> copy.slots[s] = None,
         Placed(q), q = Idle \/ (q.kind \in Readers /\ q.pc = "decide"),
         ~stale => \A s \in Slots : OwnQuestion(copy.slots[s]) /\ OwnQuestion(q.copy.slots[s]),
         request[r].read.exam.status # "scheduled",
         copy.exam.status = "pending_review" =>
           \A s \in Slots : copy.slots[s] # None /\ copy.slots[s].status = "ready",
         request[r].pc = "status" <=> copy.exam.status = "scheduled",
         request[r].pc = "status" =>
           copy.slots = request[r].read.slots /\ request[r].read.exam.status = "pending_review"
  PROVE  ScheduleInv'
<1> USE DEF ScheduleInv
<1>1. request'[r] = q /\ \A p \in Requests \ {r} : request'[p] = request[p]
  BY DEF Types
<1>2. /\ Reading(request[r]) /\ exam \in Exam /\ None \notin Exam /\ ~ByHand /\ request[r] \in Progress
      /\ \A s \in Slots : slot[s] \in Slot
  BY ReaderOf
<1>3. PICK read \in Copies : read = request[r].read /\ read.exam \in Exam
  BY <1>2 DEF Progress, Reading
<1>4. \A s \in Slots : slot[s] # None
  BY <1>2, NoneIsNothing
<1>5. /\ exam' \in Exam /\ slot' \in [Slots -> Slot \cup {None}]
      /\ \A s \in Slots : slot'[s] = None <=> slot[s] = None
      /\ stale' \in BOOLEAN /\ (copy.slots = read.slots => slot' = slot)
      /\ ~stale' =>
           /\ ~stale
           /\ \/ copy = read /\ exam' = exam /\ slot' = slot
              \/ /\ exam = read.exam /\ exam' = copy.exam
                 /\ \A s \in Slots :
                      slot'[s] = IF copy.slots[s] = None THEN slot[s] ELSE copy.slots[s]
  BY <1>2, <1>3, <1>4, CommitWrites
<1>6. Types'
  BY <1>5 DEF Types
<1>7. InviteRows' = InviteRows
  BY DEF InviteRows
<1>8. ~Starting(q)
  BY NoneIsNothing DEF Starting, Readers
<1>9. OneMaker' /\ \A p \in Requests : Placed(request[p])'
  <2>1. exam # None /\ exam' # None
    BY <1>2, <1>5
  <2>2. \A p \in Requests : ~Starting(request[p])'
    BY <1>1, <1>8, <2>1 DEF OneMaker, Starting
  <2>3. \A p \in Requests : Placed(request[p])'
    BY <1>1 DEF Placed, Reading, SameSlots
  <2> QED
    BY <2>1, <2>2, <2>3 DEF OneMaker
<1>10. HandMade'
  <2>1. \A s \in Slots : slot'[s] # None
    BY <1>4, <1>5
  <2>2. slot' # NoSlots
    BY <2>1, SchedulingAssumption DEF NoSlots
  <2>3. \A p \in Requests : ~(request'[p].kind = "schedule" /\ request'[p].pc = "mail")
    BY <1>1, <1>2, NoneIsNothing DEF HandMade
  <2> QED
    BY <2>1, <2>2, <2>3 DEF HandMade, ByHand
<1>11. InvitesInHand'
  BY <1>1, <1>7, NoneIsNothing DEF InvitesInHand
<1>12. ~stale' => SlotsAreSound'
  <2> SUFFICES ASSUME ~stale' PROVE SlotsAreSound'
    OBVIOUS
  <2>1. ~stale /\ SlotsAreSound
    BY <1>5
  <2>2. \A p \in Requests, s \in Slots : OwnQuestion(request'[p].copy.slots[s])
    BY <1>1, <2>1 DEF SlotsAreSound
  <2>3. \A s \in Slots : OwnQuestion(slot'[s])
    BY <1>5, <2>1 DEF SlotsAreSound
  <2>4. exam' # None /\ exam'.status \in {"pending_review", "scheduled"} =>
          \A s \in Slots : slot'[s] # None => slot'[s].status = "ready"
    <3>1. CASE exam' = exam /\ slot' = slot
      BY <2>1, <3>1 DEF SlotsAreSound
    <3>2. CASE /\ exam = read.exam /\ exam' = copy.exam
               /\ \A s \in Slots :
                    slot'[s] = IF copy.slots[s] = None THEN slot[s] ELSE copy.slots[s]
      <4>1. CASE copy.exam.status = "pending_review"
        BY <3>2, <4>1
      <4>2. CASE copy.exam.status = "scheduled"
        <5>1. slot' = slot /\ exam.status = "pending_review" /\ exam # None
          BY <1>2, <1>3, <1>5, <3>2, <4>2
        <5> QED
          BY <2>1, <5>1 DEF SlotsAreSound
      <4> QED
        BY <3>2, <4>1, <4>2
    <3> QED
      BY <1>5, <3>1, <3>2
  <2> QED
    BY <2>2, <2>3, <2>4 DEF SlotsAreSound, OwnQuestion
<1>13. ~stale' /\ faults' = 0 => OneInvite'
  <2> SUFFICES ASSUME ~stale', faults' = 0 PROVE OneInvite'
    OBVIOUS
  <2>1. OneInvite /\ \A i \in InviteRows : i \in Invites
    BY <1>5 DEF InviteRows
  <2>2. \A p \in Requests \ {r}, i \in Invites : HeldBy(p, i)' <=> HeldBy(p, i)
    BY <1>1 DEF HeldBy
  <2>3. CASE request[r].pc = "status"
    <3>1. exam = read.exam /\ exam' = copy.exam
      BY <1>3, <1>5, <2>3
    <3>2. ~Scheduled /\ Scheduled'
      BY <1>2, <1>3, <1>5, <2>3, <3>1 DEF Scheduled
    <3>3. PICK w \in InviteRows : w = request[r].invite /\ invite[w].mailed
      BY <2>3 DEF InvitesInHand
    <3>4. ASSUME NEW i \in InviteRows \ {w} PROVE Held(i)'
      <4>1. PICK p \in Requests : HeldBy(p, i)
        BY <2>1, <3>2 DEF OneInvite, Held
      <4>2. p # r
        BY <3>3, <4>1 DEF HeldBy
      <4> QED
        BY <2>1, <2>2, <4>1, <4>2 DEF Held
    <3> QED
      BY <1>7, <3>2, <3>3, <3>4 DEF OneInvite
  <2>4. CASE request[r].pc # "status"
    <3>1. Scheduled' <=> Scheduled
      <4>1. CASE exam' = exam
        BY <4>1 DEF Scheduled
      <4>2. CASE exam = read.exam /\ exam' = copy.exam
        BY <1>2, <1>3, <2>4, <4>2 DEF Scheduled
      <4> QED
        BY <1>5, <4>1, <4>2
    <3>2. \A i \in Invites : ~HeldBy(r, i) /\ ~HeldBy(r, i)'
      BY <1>1, <2>4, NoneIsNothing DEF HeldBy
    <3>3. \A p \in Requests, i \in Invites : HeldBy(p, i)' <=> HeldBy(p, i)
      BY <2>2, <3>2
    <3>4. \A i \in InviteRows : Held(i)' <=> Held(i)
      BY <2>1, <3>3 DEF Held
    <3>5. \A i \in InviteRows : (\E p \in Requests : HeldBy(p, i)' /\ request'[p].pc = "mail")
                            <=> (\E p \in Requests : HeldBy(p, i) /\ request[p].pc = "mail")
      <4>1. \A p \in Requests, i \in InviteRows : HeldBy(p, i) => request'[p] = request[p]
        BY <1>1, <2>1, <3>2
      <4> QED
        BY <2>1, <3>3, <4>1
    <3> QED
      BY <1>7, <2>1, <3>1, <3>4, <3>5 DEF OneInvite
  <2> QED
    BY <2>3, <2>4
<1> QED
  BY <1>6, <1>9, <1>10, <1>11, <1>12, <1>13

LEMMA RefreshKeeps ==
  ASSUME ScheduleInv, NEW r \in Requests, CommitRefresh(r)
  PROVE  ScheduleInv'
<1> USE DEF ScheduleInv
<1> DEFINE st   == {request[r].copy.slots[s].status : s \in Slots}
           to   == Recomputed(request[r].copy.exam, st)
           copy == [exam |-> to, slots |-> request[r].copy.slots]
<1>1. /\ request[r].pc = "poll" /\ Commit(r, copy) /\ UNCHANGED <<job, invite, faults>>
      /\ request' = [request EXCEPT ![r].pc = "decide", ![r].read = copy, ![r].copy = copy]
  BY DEF CommitRefresh
<1>2. /\ Reading(request[r]) /\ request[r] \in Progress
  BY <1>1, ReaderOf
<1>3. PICK p \in Progress : p = request[r]
  BY <1>2
<1>4. PICK k \in Copies : k = p.copy
  BY DEF Progress
<1>5. PICK d \in [Slots -> Slot \cup {None}] : d = k.slots /\ \A s \in Slots : d[s] # None
  BY <1>1, <1>2, <1>3, <1>4 DEF Copies, Reading
<1>6. k.exam \in Exam /\ k.exam.status = "pending_generation" /\ p.read.exam = k.exam
      /\ \A s \in Slots : p.read.slots[s] = None <=> d[s] = None
  BY <1>1, <1>2, <1>3, <1>4, <1>5 DEF Reading, SameSlots
<1>7. PICK e \in Exam :
        /\ e = to /\ e.status # "scheduled"
        /\ e.status = "pending_review" => \A s \in Slots : d[s].status = "ready"
  <2>1. PICK S : S = st
    OBVIOUS
  <2>2. \A s \in Slots : d[s].status \in S
    BY <1>3, <1>4, <1>5, <2>1
  <2>3. /\ Recomputed(k.exam, S) \in Exam /\ Recomputed(k.exam, S).status # "scheduled"
        /\ Recomputed(k.exam, S).status = "pending_review" => S = {"ready"}
    BY <1>6 DEF Recomputed, Exam, Statuses
  <2>4. to = Recomputed(k.exam, S)
    BY <1>3, <1>4, <2>1
  <2> QED
    BY <2>2, <2>3, <2>4
<1> HIDE DEF to, st
<1>8. PICK c \in Copies : c = copy /\ c.exam = e /\ c.slots = d
  <2>1. /\ [exam |-> e, slots |-> d] \in Copies /\ [exam |-> e, slots |-> d].exam = e
        /\ [exam |-> e, slots |-> d].slots = d
    BY DEF Copies
  <2> QED
    BY <1>3, <1>4, <1>5, <1>7, <2>1
<1> HIDE DEF copy
<1>9. PICK q \in Progress :
        /\ request' = [request EXCEPT ![r] = q] /\ q.pc = "decide" /\ q.kind = p.kind
        /\ q.slot = p.slot /\ q.read = c /\ q.copy = c
  <2>1. "decide" \in Pcs
    BY DEF Pcs
  <2> DEFINE q == [p EXCEPT !.pc = "decide", !.read = c, !.copy = c]
  <2>2. /\ q \in Progress /\ q.pc = "decide" /\ q.kind = p.kind
        /\ q.slot = p.slot /\ q.read = c /\ q.copy = c
    BY <2>1 DEF Progress
  <2>3. request' = [request EXCEPT ![r] = q]
    BY <1>1, <1>3, <1>8
  <2> HIDE DEF q
  <2> QED
    BY <2>2, <2>3
<1>10. p.kind \in Readers /\ (p.kind = "regenerate") = (p.slot # None)
  BY <1>1, <1>2, <1>3 DEF Reading
<1>11. Placed(q)
  <2>1. Reading(q)
    BY <1>8, <1>9, <1>10 DEF Reading, SameSlots, Inviting
  <2> QED
    BY <1>9, <2>1 DEF Placed
<1>12. ~stale => \A s \in Slots : OwnQuestion(d[s])
  BY <1>3, <1>4, <1>5 DEF SlotsAreSound
<1>13. \A s \in Slots : request[r].read.slots[s] = None <=> c.slots[s] = None
  BY <1>3, <1>6, <1>8
<1>14. request[r].read.exam.status # "scheduled" /\ c.exam.status # "scheduled"
  BY <1>3, <1>6, <1>7, <1>8
<1>15. c.exam.status = "pending_review" => \A s \in Slots : c.slots[s] # None /\ c.slots[s].status = "ready"
  BY <1>5, <1>7, <1>8
<1>16. ~stale => \A s \in Slots : OwnQuestion(c.slots[s]) /\ OwnQuestion(q.copy.slots[s])
  BY <1>8, <1>9, <1>12
<1>17. c.exam \in Exam /\ Commit(r, c) /\ q.kind \in Readers /\ q.pc = "decide"
  BY <1>1, <1>8, <1>9, <1>10
<1>18. request[r].pc # "status" /\ request[r].pc = "poll"
  BY <1>1
<1> QED
  BY <1>1, <1>9, <1>11, <1>13, <1>14, <1>15, <1>16, <1>17, <1>18, CommitKeeps

LEMMA ScheduledKeeps ==
  ASSUME ScheduleInv, NEW r \in Requests, CommitScheduled(r)
  PROVE  ScheduleInv'
<1> USE DEF ScheduleInv
<1>1. /\ request[r].pc = "status" /\ Commit(r, [request[r].copy EXCEPT !.exam.status = "scheduled"])
      /\ request' = [request EXCEPT ![r] = Idle] /\ UNCHANGED <<job, invite, faults>>
  BY DEF CommitScheduled, Ends
<1>2. /\ Reading(request[r]) /\ request[r] \in Progress
  BY <1>1, ReaderOf
<1>3. PICK k \in Copies : k = request[r].copy /\ k = request[r].read /\ k.exam \in Exam
                          /\ k.exam.status = "pending_review"
  BY <1>1, <1>2 DEF Progress, Reading, Inviting
<1>4. PICK c \in Copies : /\ c = [request[r].copy EXCEPT !.exam.status = "scheduled"]
                         /\ c.slots = k.slots /\ c.exam \in Exam /\ c.exam.status = "scheduled"
  <2>1. PICK e \in Exam : e = [k.exam EXCEPT !.status = "scheduled"] /\ e.status = "scheduled"
    <3>1. /\ [k.exam EXCEPT !.status = "scheduled"] \in Exam
          /\ [k.exam EXCEPT !.status = "scheduled"].status = "scheduled"
      BY <1>3 DEF Exam, Statuses
    <3> QED
      BY <3>1
  <2>2. /\ [k EXCEPT !.exam = e] \in Copies /\ [k EXCEPT !.exam = e].slots = k.slots
        /\ [k EXCEPT !.exam = e].exam = e
    BY DEF Copies
  <2>3. [request[r].copy EXCEPT !.exam.status = "scheduled"] = [k EXCEPT !.exam = e]
    BY <1>3, <2>1
  <2> QED
    BY <2>1, <2>2, <2>3
<1>5. \A s \in Slots : request[r].read.slots[s] = None <=> c.slots[s] = None
  BY <1>3, <1>4
<1>6. ~stale => \A s \in Slots : OwnQuestion(c.slots[s]) /\ OwnQuestion(Idle.copy.slots[s])
  <2>1. ~stale => \A s \in Slots : OwnQuestion(k.slots[s])
    BY <1>3 DEF SlotsAreSound
  <2>2. \A s \in Slots : OwnQuestion(Idle.copy.slots[s])
    BY NoneIsNothing DEF OwnQuestion
  <2> QED
    BY <1>4, <2>1, <2>2
<1> QED
  BY <1>1, <1>3, <1>4, <1>5, <1>6, NoneIsNothing, CommitKeeps

LEMMA ResetKeeps ==
  ASSUME ScheduleInv, NEW r \in Requests, CommitReset(r)
  PROVE  ScheduleInv'
<1> USE DEF ScheduleInv
<1>1. /\ request[r].pc = "reset" /\ Commit(r, request[r].copy)
      /\ request' = [request EXCEPT ![r] = Idle] /\ UNCHANGED <<job, invite, faults>>
  BY DEF CommitReset, Ends
<1>2. /\ Reading(request[r]) /\ request[r] \in Progress
  BY <1>1, ReaderOf
<1>3. PICK c \in Copies : c = request[r].copy /\ c.exam \in Exam
                          /\ c.exam.status = "pending_generation"
  BY <1>1, <1>2 DEF Progress, Reading
<1>4. request[r].read.exam.status # "scheduled"
  BY <1>1, <1>2 DEF Reading, Regenerable
<1>5. \A s \in Slots : request[r].read.slots[s] = None <=> c.slots[s] = None
  BY <1>2, <1>3 DEF Reading, SameSlots
<1>6. ~stale => \A s \in Slots : OwnQuestion(c.slots[s]) /\ OwnQuestion(Idle.copy.slots[s])
  <2>1. ~stale => \A s \in Slots : OwnQuestion(c.slots[s])
    BY <1>3 DEF SlotsAreSound
  <2>2. \A s \in Slots : OwnQuestion(Idle.copy.slots[s])
    BY NoneIsNothing DEF OwnQuestion
  <2> QED
    BY <2>1, <2>2
<1> QED
  BY <1>1, <1>3, <1>4, <1>5, <1>6, NoneIsNothing, CommitKeeps

LEMMA FailKeeps ==
  ASSUME ScheduleInv, NEW r \in Requests, RequestFails(r)
  PROVE  ScheduleInv'
<1> USE DEF ScheduleInv
<1>1. /\ request' = [request EXCEPT ![r] = Idle] /\ faults' = faults + 1
      /\ UNCHANGED <<exam, slot, job, invite, stale>>
  BY DEF RequestFails, Ends, rows
<1>2. request'[r] = Idle /\ \A p \in Requests \ {r} : request'[p] = request[p]
  BY <1>1 DEF Types
<1>3. Types' /\ faults' # 0
  <2>1. faults' \in Nat /\ faults' # 0
    BY <1>1 DEF Types
  <2> QED
    BY <1>1, <2>1, NoneIsNothing DEF Types
<1>4. InviteRows' = InviteRows
  BY <1>1 DEF InviteRows
<1>5. OneMaker' /\ \A p \in Requests : Placed(request[p])'
  <2>1. \A p \in Requests : Placed(request[p])'
    BY <1>2, NoneIsNothing DEF Placed, Reading, SameSlots
  <2>2. \A p \in Requests : Starting(request[p])' => p # r /\ Starting(request[p])
    BY <1>2, NoneIsNothing DEF Starting
  <2>3. \A p \in Requests : request'[p].kind \in Readers => request[p].kind \in Readers
    BY <1>2, NoneIsNothing
  <2> QED
    BY <1>1, <1>2, <1>4, <2>1, <2>2, <2>3 DEF OneMaker
<1>6. HandMade'
  BY <1>1, <1>2, <1>4, NoneIsNothing DEF HandMade, ByHand
<1>7. InvitesInHand'
  BY <1>1, <1>2, <1>4, NoneIsNothing DEF InvitesInHand
<1>8. ~stale => SlotsAreSound'
  BY <1>1, <1>2, NoneIsNothing DEF SlotsAreSound, OwnQuestion
<1> QED
  BY <1>1, <1>3, <1>5, <1>6, <1>7, <1>8

LEMMA InviteKeeps ==
  ASSUME ScheduleInv, NEW r \in Requests, CommitInvite(r)
  PROVE  ScheduleInv'
<1> USE DEF ScheduleInv
<1>1. /\ request[r].pc = "row" /\ UNCHANGED <<slot, job, stale, faults>> /\ Goes(r, "mail")
      /\ invite' = [invite EXCEPT ![request[r].invite].row = "pending"]
      /\ exam' = IF request[r].kind = "schedule" THEN request[r].copy.exam ELSE exam
  BY DEF CommitInvite
<1>2. PICK i \in Invites : i = request[r].invite
  BY <1>1 DEF InvitesInHand
<1>3. PICK q \in Progress :
        /\ request' = [request EXCEPT ![r] = q] /\ q.pc = "mail"
        /\ q.kind = request[r].kind /\ q.slot = request[r].slot /\ q.invite = i
        /\ q.todo = request[r].todo /\ q.read = request[r].read /\ q.copy = request[r].copy
  <2>1. "mail" \in Pcs /\ request[r] \in Progress
    BY DEF Pcs, Inviting, Types
  <2>2. [request[r] EXCEPT !.pc = "mail"] \in Progress
    BY <2>1 DEF Progress
  <2> QED
    BY <1>1, <1>2, <2>2, MovesOn
<1>4. request'[r] = q /\ \A p \in Requests \ {r} : request'[p] = request[p]
  BY <1>3 DEF Types
<1>5. /\ invite' \in [Invites -> Invite] /\ invite'[i].row = "pending"
      /\ \A j \in Invites : invite'[j].mailed = invite[j].mailed /\ (j # i => invite'[j] = invite[j])
  BY <1>1, <1>2 DEF Types, Invite
<1>6. InviteRows' = InviteRows \cup {i}
  BY <1>5 DEF InviteRows
<1>7. InvitesInHand'
  <2>1. /\ \A p \in Requests : request'[p].pc \in {"row", "mail", "status"} => request'[p].invite \in Invites
        /\ \A p \in Requests : request'[p].pc \in {"mail", "status"} => request'[p].invite \in InviteRows'
        /\ \A p \in Requests : request'[p].pc = "status" => request[p].pc = "status" /\ p # r
    BY <1>1, <1>3, <1>4, <1>6 DEF InvitesInHand
  <2>2. \A p \in Requests : request'[p].pc = "status" => invite'[request'[p].invite].mailed
    BY <1>4, <1>5, <2>1 DEF InvitesInHand
  <2>3. \A j \in Invites : invite'[j].mailed => j \in InviteRows'
    BY <1>5, <1>6 DEF InvitesInHand
  <2> QED
    BY <2>1, <2>2, <2>3 DEF InvitesInHand
<1>8. \A s \in Slots, p \in Requests : OwnQuestion(request[p].copy.slots[s])
        => OwnQuestion(request'[p].copy.slots[s])
  BY <1>3, <1>4
<1>9. \A p \in Requests \ {r}, j \in Invites : HeldBy(p, j)' <=> HeldBy(p, j)
  BY <1>4 DEF HeldBy
<1>10. HeldBy(r, i)' /\ \A j \in Invites : ~HeldBy(r, j)
  BY <1>1, <1>3, <1>4 DEF HeldBy
<1>11. Placed(request[r]) /\ request[r].pc = "row"
  BY <1>1
<1>12. CASE request[r].kind = "schedule"
  <2>1. /\ exam = None /\ slot = NoSlots /\ InviteRows = {}
        /\ \A p \in Requests \ {r} : request[p] = Idle
    BY <1>1, <1>12 DEF OneMaker, Starting
  <2>2. exam' = [status |-> "scheduled", deadline |-> FALSE]
    BY <1>1, <1>11, <1>12, NoneIsNothing DEF Placed, Reading, Readers
  <2>3. exam' \in Exam /\ exam'.status = "scheduled"
    BY <2>2 DEF Exam, Statuses
  <2>4. exam' # None
    BY <2>3, NoneIsNothing
  <2>5. Types'
    BY <1>1, <1>3, <1>5, <2>3 DEF Types
  <2>6. \A p \in Requests : Placed(request[p])'
    <3>1. q.copy.exam = [status |-> "scheduled", deadline |-> FALSE]
      BY <1>1, <1>3, <1>12, <2>2
    <3>2. Placed(q)
      BY <1>3, <1>12, <3>1 DEF Placed
    <3> QED
      BY <1>4, <2>1, <3>2, NoneIsNothing DEF Placed
  <2>7. OneMaker'
    <3>1. \A p \in Requests : ~Starting(request[p])'
      BY <1>3, <1>4, <1>12, <2>1, NoneIsNothing DEF Starting
    <3> QED
      BY <2>4, <3>1 DEF OneMaker
  <2>8. HandMade'
    <3>1. ByHand'
      BY <1>1, <2>1, <2>4 DEF ByHand
    <3>2. \A p \in Requests : p # r => request'[p].pc = "idle"
      BY <1>4, <2>1, NoneIsNothing
    <3>3. request'[r].pc = "mail" /\ request'[r].kind = "schedule" /\ request'[r].invite = i
      BY <1>3, <1>4, <1>12
    <3>4. \A p \in Requests : request'[p].pc \in {"idle", "mail"} /\ (request'[p].pc = "mail" => p = r)
      BY <3>2, <3>3
    <3> QED
      BY <1>6, <2>1, <2>3, <3>1, <3>3, <3>4 DEF HandMade
  <2>9. ~stale => SlotsAreSound'
    <3>1. \A s \in Slots : slot'[s] = None
      BY <1>1, <2>1 DEF NoSlots
    <3> QED
      BY <1>8, <3>1 DEF SlotsAreSound, OwnQuestion
  <2>10. OneInvite'
    <3>1. i \in InviteRows' /\ InviteRows' \ {i} = {} /\ Scheduled'
      BY <1>6, <2>1, <2>3, <2>4 DEF Scheduled
    <3>2. HeldBy(r, i)' /\ request'[r].pc = "mail"
      BY <1>3, <1>4, <1>10
    <3> QED
      BY <3>1, <3>2 DEF OneInvite
  <2> QED
    BY <1>1, <1>7, <2>5, <2>6, <2>7, <2>8, <2>9, <2>10
<1>13. CASE request[r].kind # "schedule"
  <2>1. Reading(request[r]) /\ exam' = exam
    BY <1>1, <1>11, <1>13, NoneIsNothing DEF Placed
  <2>2. request[r].kind \in Readers /\ exam # None /\ ~ByHand
    BY <1>1, <2>1 DEF Reading, OneMaker, HandMade
  <2>3. Types'
    BY <1>1, <1>3, <1>5, <2>1 DEF Types
  <2>4. \A p \in Requests : Placed(request[p])'
    <3>1. Reading(q)
      BY <1>3, <1>11, <2>1 DEF Reading, SameSlots, Inviting
    <3>2. Placed(q)
      BY <1>3, <3>1 DEF Placed
    <3> QED
      BY <1>4, <3>2 DEF Placed, Reading, SameSlots
  <2>5. OneMaker'
    <3>1. \A p \in Requests : ~Starting(request[p])'
      BY <1>3, <1>4, <2>2 DEF Starting, Readers, OneMaker
    <3> QED
      BY <2>1, <2>2, <3>1 DEF OneMaker
  <2>6. HandMade'
    <3>1. ~ByHand' /\ exam' # None
      BY <1>1, <2>1, <2>2 DEF ByHand
    <3>2. \A p \in Requests : ~(request'[p].kind = "schedule" /\ request'[p].pc = "mail")
      BY <1>3, <1>4, <1>13, <2>2 DEF HandMade
    <3>3. \A s \in Slots : slot'[s] # None
      BY <1>1, <2>2 DEF HandMade
    <3> QED
      BY <3>1, <3>2, <3>3 DEF HandMade
  <2>7. ~stale => SlotsAreSound'
    BY <1>1, <1>8, <2>1 DEF SlotsAreSound, OwnQuestion
  <2>8. ~stale /\ faults = 0 => OneInvite'
    <3> SUFFICES ASSUME OneInvite PROVE OneInvite'
      OBVIOUS
    <3>1. Scheduled' <=> Scheduled
      BY <2>1 DEF Scheduled
    <3>2. \A j \in InviteRows : Held(j) => Held(j)'
      <4>1. \A j \in InviteRows : j \in Invites
        BY DEF InviteRows
      <4> QED
        BY <1>9, <1>10, <4>1 DEF Held
    <3>3. Held(i)'
      BY <1>10 DEF Held
    <3>4. CASE ~Scheduled
      BY <1>6, <3>1, <3>2, <3>3, <3>4 DEF OneInvite
    <3>5. CASE Scheduled
      <4>1. PICK w \in InviteRows :
              /\ invite[w].mailed \/ \E p \in Requests : HeldBy(p, w) /\ request[p].pc = "mail"
              /\ \A j \in InviteRows \ {w} : Held(j)
        BY <3>5 DEF OneInvite
      <4>2. w \in Invites
        BY DEF InviteRows
      <4>3. invite'[w].mailed \/ \E p \in Requests : HeldBy(p, w)' /\ request'[p].pc = "mail"
        <5>1. CASE invite[w].mailed
          BY <1>5, <4>2, <5>1
        <5>2. ASSUME NEW p \in Requests, HeldBy(p, w), request[p].pc = "mail"
              PROVE  HeldBy(p, w)' /\ request'[p].pc = "mail"
          BY <1>4, <1>9, <1>10, <4>2, <5>2
        <5> QED
          BY <4>1, <5>1, <5>2
      <4>4. \A j \in InviteRows' \ {w} : Held(j)'
        BY <1>6, <3>2, <3>3, <4>1
      <4>5. w \in InviteRows'
        BY <1>6
      <4> QED
        BY <3>1, <3>5, <4>3, <4>4, <4>5 DEF OneInvite
    <3> QED
      BY <3>4, <3>5
  <2> QED
    BY <1>1, <1>7, <2>3, <2>4, <2>5, <2>6, <2>7, <2>8
<1> QED
  BY <1>12, <1>13

LEMMA MailKeeps ==
  ASSUME ScheduleInv, NEW r \in Requests, MailInvite(r)
  PROVE  ScheduleInv'
<1> USE DEF ScheduleInv
<1>1. /\ request[r].pc = "mail" /\ UNCHANGED <<exam, slot, job, stale, faults>>
      /\ invite' = [invite EXCEPT ![request[r].invite].mailed = TRUE]
      /\ IF request[r].kind = "schedule" THEN Ends(r) ELSE Goes(r, "status")
  BY DEF MailInvite, rows
<1>2. PICK i \in InviteRows : i = request[r].invite
  BY <1>1 DEF InvitesInHand
<1>3. i \in Invites
  BY DEF InviteRows
<1>4. /\ invite' \in [Invites -> Invite] /\ invite'[i].mailed /\ invite'[i].row = invite[i].row
      /\ \A j \in Invites : invite'[j].row = invite[j].row /\ (j # i => invite'[j] = invite[j])
  BY <1>1, <1>2, <1>3 DEF Types, Invite
<1>5. InviteRows' = InviteRows
  BY <1>4 DEF InviteRows
<1>6. \A j \in Invites : (invite'[j].mailed => invite[j].mailed \/ j = i)
                      /\ (invite[j].mailed => invite'[j].mailed)
  BY <1>4
<1>7. PICK q \in Progress :
        /\ request' = [request EXCEPT ![r] = q]
        /\ \/ q = Idle /\ request[r].kind = "schedule"
           \/ /\ q.pc = "status" /\ request[r].kind # "schedule"
              /\ q.kind = request[r].kind /\ q.slot = request[r].slot /\ q.invite = i
              /\ q.todo = request[r].todo /\ q.read = request[r].read /\ q.copy = request[r].copy
  <2>1. CASE request[r].kind = "schedule"
    BY <1>1, <2>1, NoneIsNothing DEF Ends
  <2>2. CASE request[r].kind # "schedule"
    <3>1. "status" \in Pcs /\ request[r] \in Progress
      BY DEF Pcs, Inviting, Types
    <3>2. [request[r] EXCEPT !.pc = "status"] \in Progress
      BY <3>1 DEF Progress
    <3>3. \E q \in Progress :
             /\ request' = [request EXCEPT ![r] = q] /\ q.pc = "status"
             /\ q.kind = request[r].kind /\ q.slot = request[r].slot /\ q.invite = request[r].invite
             /\ q.todo = request[r].todo /\ q.read = request[r].read /\ q.copy = request[r].copy
      BY <1>1, <2>2, <3>2, MovesOn
    <3> QED
      BY <1>2, <2>2, <3>3
  <2> QED
    BY <2>1, <2>2
<1>8. request'[r] = q /\ \A p \in Requests \ {r} : request'[p] = request[p]
  BY <1>7 DEF Types
<1>9. Types'
  BY <1>1, <1>4, <1>7 DEF Types
<1>10. /\ \A p \in Requests : ~Starting(request[p]) /\ ~Starting(request[p])'
       /\ exam # None
  <2>1. exam # None
    BY <1>2 DEF OneMaker
  <2>2. \A p \in Requests : ~Starting(request[p])
    BY <2>1 DEF OneMaker
  <2>3. ~Starting(q)
    BY <1>1, <1>7, <2>2, NoneIsNothing DEF Starting
  <2> QED
    BY <1>8, <2>1, <2>2, <2>3 DEF Starting
<1>11. OneMaker'
  BY <1>1, <1>10 DEF OneMaker
<1>12. \A p \in Requests : Placed(request[p])'
  <2>1. request[r].kind # "schedule" => Reading(request[r])
    BY <1>1, NoneIsNothing DEF Placed
  <2>2. q.pc = "status" => Reading(request[r])
    BY <1>7, <2>1, NoneIsNothing
  <2>3. q.pc = "status" => Reading(q)
    BY <1>1, <1>7, <2>2, NoneIsNothing DEF Reading, SameSlots, Inviting
  <2>4. Placed(q)
    BY <1>7, <2>3, NoneIsNothing DEF Placed
  <2> QED
    BY <1>8, <2>4 DEF Placed, Reading, SameSlots
<1>13. ByHand => q = Idle /\ InviteRows \ {i} = {}
  BY <1>1, <1>2, <1>7 DEF HandMade
<1>14. HandMade'
  <2>1. (ByHand' <=> ByHand) /\ exam' = exam /\ slot' = slot
    BY <1>1 DEF ByHand
  <2>2. \A p \in Requests : request'[p] = request[p] \/ (p = r /\ (q = Idle \/ q.pc = "status"))
    BY <1>7, <1>8
  <2>3. \A p \in Requests : request'[p].pc = "mail" => request'[p] = request[p]
    BY <1>8, <2>2, NoneIsNothing
  <2>4. ByHand => \A p \in Requests : request'[p] = request[p] \/ request'[p].pc = "idle"
    BY <1>8, <1>13, <2>2, NoneIsNothing
  <2> QED
    BY <1>5, <2>1, <2>3, <2>4 DEF HandMade
<1>15. InvitesInHand'
  <2>1. q = Idle \/ (q.pc = "status" /\ q.invite = i)
    BY <1>7
  <2>2. \A p \in Requests : request'[p].pc \in {"row", "mail", "status"} => request'[p].invite \in Invites
    BY <1>3, <1>8, <2>1, NoneIsNothing DEF InvitesInHand
  <2>3. \A p \in Requests : request'[p].pc \in {"mail", "status"} => request'[p].invite \in InviteRows'
    BY <1>5, <1>8, <2>1, NoneIsNothing DEF InvitesInHand
  <2>4. \A p \in Requests : request'[p].pc = "status" => invite'[request'[p].invite].mailed
    BY <1>4, <1>6, <1>8, <2>1, <2>2, NoneIsNothing DEF InvitesInHand
  <2>5. \A j \in Invites : invite'[j].mailed => j \in InviteRows'
    BY <1>5, <1>6 DEF InvitesInHand
  <2> QED
    BY <2>2, <2>3, <2>4, <2>5 DEF InvitesInHand
<1>16. ~stale => SlotsAreSound'
  <2>1. ASSUME ~stale PROVE \A s \in Slots : OwnQuestion(q.copy.slots[s])
    BY <1>7, <2>1, NoneIsNothing DEF SlotsAreSound, OwnQuestion
  <2> QED
    BY <1>1, <1>8, <2>1 DEF SlotsAreSound, OwnQuestion
<1>17. ~stale /\ faults = 0 => OneInvite'
  <2> SUFFICES ASSUME OneInvite PROVE OneInvite'
    OBVIOUS
  <2>0. Scheduled' <=> Scheduled
    BY <1>1 DEF Scheduled
  <2>1. \A p \in Requests \ {r}, j \in Invites : HeldBy(p, j)' <=> HeldBy(p, j)
    BY <1>8 DEF HeldBy
  <2>2. \A j \in InviteRows : j \in Invites
    BY DEF InviteRows
  <2>3. CASE q = Idle
    <3>1. ByHand
      BY <1>1, <1>7, <2>3, NoneIsNothing DEF HandMade
    <3>2. Scheduled /\ InviteRows \ {i} = {}
      BY <1>13, <3>1 DEF HandMade, ByHand, Scheduled
    <3> QED
      BY <1>4, <1>5, <2>0, <3>2 DEF OneInvite
  <2>4. CASE q.pc = "status"
    <3>1. \A j \in Invites : HeldBy(r, j)' <=> HeldBy(r, j)
      BY <1>1, <1>2, <1>7, <1>8, <2>4, NoneIsNothing DEF HeldBy
    <3>2. \A j \in InviteRows : Held(j)' <=> Held(j)
      BY <2>1, <2>2, <3>1 DEF Held
    <3>3. ASSUME NEW w \in InviteRows,
                 invite[w].mailed \/ \E p \in Requests : HeldBy(p, w) /\ request[p].pc = "mail"
          PROVE  invite'[w].mailed \/ \E p \in Requests : HeldBy(p, w)' /\ request'[p].pc = "mail"
      <4>1. CASE invite[w].mailed
        BY <1>6, <2>2, <4>1
      <4>2. ASSUME NEW p \in Requests, HeldBy(p, w), request[p].pc = "mail", ~invite'[w].mailed
            PROVE  HeldBy(p, w)' /\ request'[p].pc = "mail"
        <5>1. w # i
          BY <1>4, <4>2
        <5>2. p # r
          BY <1>2, <4>2, <5>1 DEF HeldBy
        <5> QED
          BY <1>8, <2>1, <2>2, <4>2, <5>2
      <4> QED
        BY <3>3, <4>1, <4>2
    <3> QED
      BY <1>5, <2>0, <3>2, <3>3 DEF OneInvite
  <2> QED
    BY <1>7, <2>3, <2>4
<1> QED
  BY <1>1, <1>9, <1>11, <1>12, <1>14, <1>15, <1>16, <1>17

LEMMA ScheduleStep ==
  ASSUME ScheduleInv, Next PROVE ScheduleInv'
<1>1. ASSUME NEW r \in Requests, RequestStep(r) PROVE ScheduleInv'
  <2>1. CASE BeginScheduleAi(r) \/ BeginSchedule(r)
    BY <2>1, BeginKeeps
  <2>2. CASE ProposeBlueprint(r) \/ CommitBlueprint(r) \/ GenerateForSlot(r)
    BY <2>2, ProposeKeeps
  <2>3. CASE CommitExam(r)
    BY <2>3, ExamKeeps
  <2>4. ASSUME NEW kind \in Readers, NEW s \in Slots \cup {None}, ReadExam(r, kind, s) PROVE ScheduleInv'
    BY <2>4, ReadKeeps
  <2>5. CASE ListSlots(r)
    BY <2>5, ListKeeps
  <2>6. CASE PollJob(r)
    BY <2>6, PollKeeps
  <2>7. CASE CommitRefresh(r)
    BY <2>7, RefreshKeeps
  <2>8. CASE Decide(r)
    BY <2>8, DecideKeeps
  <2>9. CASE SetKey(r)
    BY <2>9, KeyKeeps
  <2>10. CASE CommitInvite(r)
    BY <2>10, InviteKeeps
  <2>11. CASE MailInvite(r)
    BY <2>11, MailKeeps
  <2>12. CASE CommitScheduled(r)
    BY <2>12, ScheduledKeeps
  <2>13. CASE LoadSlot(r)
    BY <2>13, LoadKeeps
  <2>14. CASE GenerateAgain(r)
    BY <2>14, AgainKeeps
  <2>15. CASE CommitReset(r)
    BY <2>15, ResetKeeps
  <2>16. CASE RequestFails(r)
    BY <2>16, FailKeeps
  <2> QED
    BY <1>1, <2>1, <2>2, <2>3, <2>4, <2>5, <2>6, <2>7, <2>8, <2>9, <2>10, <2>11, <2>12, <2>13, <2>14,
       <2>15, <2>16 DEF RequestStep, Readers
<1>2. ASSUME NEW j \in Jobs, JobEnds(j) PROVE ScheduleInv'
  <2>1. /\ UNCHANGED <<exam, slot, request, stale, faults, invite>>
        /\ job' \in [Jobs -> {"unused", "running", "succeeded", "failed"}]
    BY <1>2 DEF JobEnds, rows, ScheduleInv, Types
  <2>2. faults' \in Nat
    BY <2>1 DEF ScheduleInv, Types
  <2> QED
    BY <2>1, <2>2, RowsStay, OutsideKeeps
<1> QED
  BY <1>1, <1>2 DEF Next

-----------------------------------------------------------------------------
(* What ScheduleInv says of the questions and of the invites. *)

LEMMA SoundIsReady == ScheduleInv => ScheduledIsReady
BY NoneIsNothing DEF ScheduleInv, ScheduledIsReady, Scheduled, SlotsAreSound, OwnQuestion

LEMMA OneIsOnce == ScheduleInv => InvitedOnce
<1> SUFFICES ASSUME ScheduleInv, \A r \in Requests : request[r].pc = "idle", faults = 0, ~stale
             PROVE  /\ Cardinality(InviteRows) = IF Scheduled THEN 1 ELSE 0
                    /\ \A i \in InviteRows : invite[i].mailed
  BY DEF InvitedOnce
<1>1. \A i \in InviteRows : ~Held(i)
  BY DEF Held, HeldBy
<1>2. OneInvite
  BY DEF ScheduleInv
<1>3. CASE Scheduled
  <2>1. PICK w \in InviteRows : invite[w].mailed /\ InviteRows = {w}
    BY <1>1, <1>2, <1>3 DEF OneInvite
  <2>2. Cardinality(InviteRows) = 1
    BY <2>1, FS_Singleton
  <2> QED
    BY <1>3, <2>1, <2>2
<1>4. CASE ~Scheduled
  <2>1. InviteRows = {}
    BY <1>1, <1>2, <1>4 DEF OneInvite
  <2> QED
    BY <1>4, <2>1, FS_EmptySet
<1> QED
  BY <1>3, <1>4

-----------------------------------------------------------------------------
(***************************************************************************)
(* The inductive invariant of the keys.  Only an invite in the database    *)
(* has been mailed, so only one of those is ever exchanged; a request that *)
(* has set a key holds it alone until the row is there.                    *)
(***************************************************************************)
Buying(i) == {x \in Exchanges : exchange[x].invite = i /\ exchange[x].pc \in {"row", "answer"}}
Bought(i) == Cardinality(Buying(i)) + issued[i] + IF invite[i].key THEN 1 ELSE 0

Exchange == [pc : {"idle", "verify", "consume", "row", "answer"}, invite : Invites \cup {None}]
OneKeyEach ==
  \A r \in Requests : request[r].pc = "row" =>
    /\ request[r].invite \notin InviteRows /\ invite[request[r].invite].key
    /\ \A q \in Requests \ {r} : request[q].pc = "row" => request[q].invite # request[r].invite

KeysInv ==
  /\ exchange \in [Exchanges -> Exchange]
  /\ issued \in [Invites -> Nat] /\ open \in BOOLEAN
  /\ \A x \in Exchanges : exchange[x].pc # "idle" => exchange[x].invite \in InviteRows
  /\ \A i \in Invites : /\ Bought(i) <= 1
                        /\ i \notin InviteRows => issued[i] = 0
                        /\ i \in InviteRows /\ faults = 0 /\ open => Bought(i) = 1
  /\ open => OneKeyEach

LEMMA BuyersCounted ==
  ASSUME NEW i PROVE /\ IsFiniteSet(Buying(i)) /\ Cardinality(Buying(i)) \in Nat
                     /\ Buying(i) # {} => Cardinality(Buying(i)) >= 1
<1>1. IsFiniteSet(Buying(i))
  BY AccessAssumption, FS_Subset DEF Buying
<1>2. Cardinality(Buying(i)) \in Nat
  BY <1>1, FS_CardinalityType
<1>3. Buying(i) # {} => Cardinality(Buying(i)) # 0
  BY <1>1, FS_EmptySet
<1> QED
  BY <1>1, <1>2, <1>3

LEMMA NotYetBought ==
  ASSUME KeysInv, NEW i \in Invites, i \notin InviteRows
  PROVE  Buying(i) = {} /\ Cardinality(Buying(i)) = 0 /\ issued[i] = 0
<1>1. Buying(i) = {}
  BY DEF KeysInv, Buying
<1> QED
  BY <1>1, FS_EmptySet DEF KeysInv

\* the rows and the keys stay, and no request gets to the commit of an invite
LEMMA KeysStay ==
  ASSUME KeysInv, UNCHANGED accessVars, InviteRows' = InviteRows,
         \A i \in Invites : invite'[i].key = invite[i].key,
         faults' = 0 => faults = 0,
         \A r \in Requests : request'[r].pc = "row" =>
           request[r].pc = "row" /\ request'[r].invite = request[r].invite,
         \A r \in Requests : request[r].pc = "row" => request[r].invite \in Invites
  PROVE  KeysInv'
<1>1. UNCHANGED <<exchange, issued, open>>
  BY DEF accessVars
<1>2. \A i \in Invites : Buying(i)' = Buying(i)
  BY <1>1 DEF Buying
<1>3. \A i \in Invites : Bought(i)' = Bought(i)
  BY <1>1, <1>2 DEF Bought
<1>4. OneKeyEach => OneKeyEach'
  BY DEF OneKeyEach
<1> QED
  BY <1>1, <1>3, <1>4 DEF KeysInv

LEMMA KeySet ==
  ASSUME ScheduleInv, KeysInv, UNCHANGED accessVars, NEW r \in Requests, SetKey(r)
  PROVE  KeysInv'
<1> DEFINE free == {i \in Invites : ~invite[i].key /\ invite[i].row = "none"}
<1>1. /\ request[r].pc = "key" /\ free # {} /\ free \in SUBSET Nat /\ faults' = faults
      /\ invite' = [invite EXCEPT ![Least(free)].key = TRUE]
      /\ request' = [request EXCEPT ![r].pc = "row", ![r].invite = Least(free)]
  BY SchedulingAssumption DEF SetKey
<1>2. PICK i \in free : i = Least(free)
  BY <1>1, LeastOf
<1>3. i \in Invites /\ i \notin InviteRows /\ ~invite[i].key
  BY DEF InviteRows
<1> HIDE DEF free
<1>4. /\ invite'[i].key
      /\ \A j \in Invites : invite'[j].row = invite[j].row /\ (j # i => invite'[j] = invite[j])
  BY <1>1, <1>2, <1>3 DEF ScheduleInv, Types, Invite
<1>5. InviteRows' = InviteRows
  BY <1>4 DEF InviteRows
<1>6. UNCHANGED <<exchange, issued, open>>
  BY DEF accessVars
<1>7. \A j \in Invites : Buying(j)' = Buying(j)
  BY <1>6 DEF Buying
<1>8. \A j \in Invites \ {i} : Bought(j)' = Bought(j)
  BY <1>4, <1>6, <1>7 DEF Bought
<1>9. Bought(i)' = 1
  BY <1>3, <1>4, <1>6, <1>7, NotYetBought DEF Bought
<1>10. /\ request'[r].pc = "row" /\ request'[r].invite = i
       /\ \A p \in Requests \ {r} : request'[p] = request[p]
  BY <1>1, <1>2 DEF ScheduleInv, Types, Progress
<1>11. OneKeyEach => OneKeyEach'
  <2> SUFFICES ASSUME OneKeyEach PROVE OneKeyEach'
    OBVIOUS
  <2>1. \A p \in Requests \ {r} : request'[p].pc = "row" =>
          request[p].invite \in Invites /\ request[p].invite # i
    BY <1>3, <1>10 DEF OneKeyEach, ScheduleInv, InvitesInHand
  <2> QED
    BY <1>3, <1>4, <1>5, <1>10, <2>1 DEF OneKeyEach
<1> QED
  BY <1>1, <1>3, <1>5, <1>6, <1>8, <1>9, <1>11 DEF KeysInv

LEMMA KeyGetsItsRow ==
  ASSUME ScheduleInv, KeysInv, UNCHANGED accessVars, NEW r \in Requests, CommitInvite(r)
  PROVE  KeysInv'
<1>1. /\ request[r].pc = "row" /\ Goes(r, "mail") /\ faults' = faults
      /\ invite' = [invite EXCEPT ![request[r].invite].row = "pending"]
  BY DEF CommitInvite
<1>2. PICK i \in Invites : i = request[r].invite
  BY <1>1 DEF ScheduleInv, InvitesInHand
<1>3. /\ invite'[i].row = "pending"
      /\ \A j \in Invites : invite'[j].key = invite[j].key /\ (j # i => invite'[j] = invite[j])
  BY <1>1, <1>2 DEF ScheduleInv, Types, Invite
<1>4. InviteRows' = InviteRows \cup {i}
  BY <1>3 DEF InviteRows
<1>5. UNCHANGED <<exchange, issued, open>>
  BY DEF accessVars
<1>6. \A j \in Invites : Buying(j)' = Buying(j)
  BY <1>5 DEF Buying
<1>7. \A j \in Invites : Bought(j)' = Bought(j)
  BY <1>3, <1>5, <1>6 DEF Bought
<1>8. open => Bought(i) = 1
  <2>1. open => i \notin InviteRows /\ invite[i].key
    BY <1>1, <1>2 DEF KeysInv, OneKeyEach
  <2> QED
    BY <2>1, NotYetBought DEF Bought
<1>9. request'[r].pc = "mail" /\ \A p \in Requests \ {r} : request'[p] = request[p]
  BY <1>1 DEF Goes, ScheduleInv, Types, Progress
<1>10. OneKeyEach => OneKeyEach'
  <2> SUFFICES ASSUME OneKeyEach PROVE OneKeyEach'
    OBVIOUS
  <2>1. \A p \in Requests : request'[p].pc = "row" =>
          p # r /\ request'[p] = request[p] /\ request[p].invite \in Invites /\ request[p].invite # i
    BY <1>1, <1>2, <1>9 DEF OneKeyEach, ScheduleInv, InvitesInHand
  <2> QED
    BY <1>3, <1>4, <2>1 DEF OneKeyEach
<1> QED
  BY <1>1, <1>4, <1>5, <1>7, <1>8, <1>10 DEF KeysInv

LEMMA KeysUnderSchedule ==
  ASSUME ScheduleInv, KeysInv, UNCHANGED accessVars, Next
  PROVE  KeysInv'
<1>0. /\ \A r \in Requests : request[r].pc = "row" => request[r].invite \in Invites
      /\ request \in [Requests -> Progress] /\ invite \in [Invites -> Invite] /\ faults \in Nat
  BY DEF ScheduleInv, InvitesInHand, Types
<1>1. ASSUME NEW r \in Requests, RequestStep(r), ~SetKey(r), ~CommitInvite(r)
      PROVE  KeysInv'
  <2>1. /\ \A p \in Requests \ {r} : request'[p] = request[p]
        /\ request'[r].pc # "row"
    <3>0. request[r] \in Progress /\ Idle \in Progress /\ Idle.pc = "idle"
      BY <1>0, NoneIsNothing
    <3>1. CASE BeginScheduleAi(r) \/ BeginSchedule(r) \/ ProposeBlueprint(r) \/ CommitBlueprint(r)
      BY <1>0, <3>0, <3>1 DEF BeginScheduleAi, BeginSchedule, ProposeBlueprint, CommitBlueprint, Goes, Progress
    <3>2. CASE GenerateForSlot(r)
      BY <1>0, <3>0, <3>2 DEF GenerateForSlot, Progress
    <3>3. CASE CommitExam(r) \/ RequestFails(r) \/ CommitReset(r) \/ CommitScheduled(r)
      BY <1>0, <3>0, <3>3 DEF CommitExam, RequestFails, CommitReset, CommitScheduled, Ends
    <3>4. ASSUME NEW kind, NEW s, ReadExam(r, kind, s)
          PROVE  /\ \A p \in Requests \ {r} : request'[p] = request[p]
                 /\ request'[r].pc # "row"
      <4> DEFINE pc   == IF exam.status = "pending_generation" THEN "list" ELSE "decide"
                 seen == [exam |-> exam, slots |-> NoSlots]
                 q    == [Idle EXCEPT !.pc = pc, !.kind = kind, !.slot = s, !.read = seen, !.copy = seen]
      <4>1. request' = [request EXCEPT ![r] = q]
        BY <3>4 DEF ReadExam
      <4>2. pc # "row"
        OBVIOUS
      <4> HIDE DEF pc, seen
      <4>3. q.pc = pc
        BY <3>0 DEF Progress
      <4> HIDE DEF q
      <4> QED
        BY <1>0, <4>1, <4>2, <4>3
    <3>5. CASE ListSlots(r)
      BY <1>0, <3>0, <3>5 DEF ListSlots, Progress
    <3>6. CASE PollJob(r)
      BY <1>0, <3>0, <3>6 DEF PollJob, Progress
    <3>7. CASE CommitRefresh(r)
      BY <1>0, <3>0, <3>7 DEF CommitRefresh, Progress
    <3>8. CASE Decide(r)
      BY <1>0, <3>0, <3>8 DEF Decide, Goes, Ends, Progress
    <3>9. CASE MailInvite(r)
      BY <1>0, <3>0, <3>9 DEF MailInvite, Goes, Ends, Progress
    <3>10. CASE LoadSlot(r)
      BY <1>0, <3>0, <3>10 DEF LoadSlot, Progress
    <3>11. CASE GenerateAgain(r)
      BY <1>0, <3>0, <3>11 DEF GenerateAgain, Progress
    <3> QED
      BY <1>1, <3>1, <3>2, <3>3, <3>4, <3>5, <3>6, <3>7, <3>8, <3>9, <3>10, <3>11 DEF RequestStep
  <2>2. invite' = invite \/ MailInvite(r)
    BY <1>1 DEF RequestStep, BeginScheduleAi, ProposeBlueprint, CommitBlueprint, GenerateForSlot,
       CommitExam, BeginSchedule, ReadExam, ListSlots, PollJob, CommitRefresh, Decide, CommitScheduled,
       LoadSlot, GenerateAgain, CommitReset, RequestFails
  <2>3. faults' = faults \/ faults' = faults + 1
    BY <1>1 DEF RequestStep, BeginScheduleAi, ProposeBlueprint, CommitBlueprint, GenerateForSlot,
       CommitExam, BeginSchedule, ReadExam, ListSlots, PollJob, CommitRefresh, Decide, MailInvite,
       CommitScheduled, LoadSlot, GenerateAgain, CommitReset, RequestFails
  <2>4. InviteRows' = InviteRows /\ \A i \in Invites : invite'[i].key = invite[i].key
    <3>1. CASE invite' = invite
      BY <3>1 DEF InviteRows
    <3>2. CASE MailInvite(r)
      <4>1. request[r].invite \in Invites
        BY <3>2 DEF MailInvite, ScheduleInv, InvitesInHand, InviteRows
      <4>2. invite' = [invite EXCEPT ![request[r].invite].mailed = TRUE]
        BY <3>2 DEF MailInvite
      <4>3. \A i \in Invites : invite'[i].row = invite[i].row /\ invite'[i].key = invite[i].key
        BY <1>0, <4>1, <4>2 DEF Invite
      <4> QED
        BY <4>3 DEF InviteRows
    <3> QED
      BY <2>2, <3>1, <3>2
  <2>5. faults' = 0 => faults = 0
    BY <1>0, <2>3
  <2>6. \A p \in Requests : request'[p].pc = "row" =>
          request[p].pc = "row" /\ request'[p].invite = request[p].invite
    BY <2>1
  <2> QED
    BY <1>0, <2>4, <2>5, <2>6, KeysStay
<1>2. ASSUME NEW j \in Jobs, JobEnds(j) PROVE KeysInv'
  <2>1. UNCHANGED <<request, invite, faults>>
    BY <1>2 DEF JobEnds
  <2>2. InviteRows' = InviteRows
    BY <2>1 DEF InviteRows
  <2> QED
    BY <1>0, <2>1, <2>2, KeysStay
<1> QED
  BY <1>1, <1>2, KeySet, KeyGetsItsRow DEF Next

-----------------------------------------------------------------------------
(* The steps of an exchange. *)

LEMMA AccessKeeps ==
  ASSUME ScheduleInv, (\E x \in Exchanges : ExchangeStep(x)) \/ WindowEnds, KeysInv
  PROVE  ScheduleInv'
<1>0. /\ invite \in [Invites -> Invite] /\ faults \in Nat
      /\ job \in [Jobs -> {"unused", "running", "succeeded", "failed"}]
  BY DEF ScheduleInv, Types
<1>1. /\ UNCHANGED <<exam, slot, request, stale, job>> /\ faults' \in {faults, faults + 1}
      /\ invite' \in [Invites -> Invite] /\ InviteRows' = InviteRows
      /\ \A i \in Invites : invite'[i].mailed = invite[i].mailed
  <2>1. ASSUME NEW x \in Exchanges, ConsumeKey(x)
        PROVE  /\ UNCHANGED <<exam, slot, request, stale, job, faults>>
               /\ invite' \in [Invites -> Invite] /\ InviteRows' = InviteRows
               /\ \A i \in Invites : invite'[i].mailed = invite[i].mailed
    <3>1. /\ UNCHANGED <<exam, slot, request, stale, job, faults>>
          /\ invite' = [invite EXCEPT ![exchange[x].invite].key = FALSE]
      BY <2>1 DEF ConsumeKey, rows
    <3>2. PICK i \in Invites : i = exchange[x].invite
      BY <2>1 DEF ConsumeKey, KeysInv, InviteRows
    <3>3. /\ invite' \in [Invites -> Invite]
          /\ \A j \in Invites : invite'[j].row = invite[j].row /\ invite'[j].mailed = invite[j].mailed
      BY <1>0, <3>1, <3>2 DEF Invite
    <3> QED
      BY <3>1, <3>3 DEF InviteRows
  <2>2. ASSUME NEW x \in Exchanges, MarkConsumed(x)
        PROVE  /\ UNCHANGED <<exam, slot, request, stale, job, faults>>
               /\ invite' \in [Invites -> Invite] /\ InviteRows' = InviteRows
               /\ \A i \in Invites : invite'[i].mailed = invite[i].mailed
    <3>1. /\ UNCHANGED <<exam, slot, request, stale, job, faults>>
          /\ invite' = [invite EXCEPT ![exchange[x].invite].row = "consumed",
                                      ![exchange[x].invite].key = FALSE]
      BY <2>2 DEF MarkConsumed, rows
    <3>2. PICK i \in InviteRows : i = exchange[x].invite
      BY <2>2 DEF MarkConsumed, KeysInv
    <3>3. i \in Invites /\ invite[i].row # "none"
      BY DEF InviteRows
    <3>4. /\ invite' \in [Invites -> Invite] /\ invite'[i].row = "consumed"
          /\ \A j \in Invites : /\ invite'[j].mailed = invite[j].mailed
                                /\ j # i => invite'[j].row = invite[j].row
      BY <1>0, <3>1, <3>2, <3>3 DEF Invite
    <3> QED
      BY <3>1, <3>3, <3>4 DEF InviteRows
  <2>3. CASE WindowEnds
    <3>1. /\ UNCHANGED <<exam, slot, request, stale, job, faults>>
          /\ invite' = [i \in Invites |-> [invite[i] EXCEPT !.key = FALSE]]
      BY <2>3 DEF WindowEnds, rows
    <3>2. /\ invite' \in [Invites -> Invite]
          /\ \A j \in Invites : invite'[j].row = invite[j].row /\ invite'[j].mailed = invite[j].mailed
      BY <1>0, <3>1 DEF Invite
    <3> QED
      BY <3>1, <3>2 DEF InviteRows
  <2>4. ASSUME NEW x \in Exchanges,
               \/ \E i \in Invites : BeginExchange(x, i)
               \/ VerifyIdentity(x) \/ KeyIsGone(x) \/ IssueToken(x) \/ ExchangeFails(x)
        PROVE  UNCHANGED <<exam, slot, request, stale, job, invite>> /\ faults' \in {faults, faults + 1}
    BY <2>4 DEF BeginExchange, VerifyIdentity, KeyIsGone, IssueToken, ExchangeFails, vars, rows
  <2>5. invite' = invite => InviteRows' = InviteRows
    BY DEF InviteRows
  <2> QED
    BY <1>0, <2>1, <2>2, <2>3, <2>4, <2>5 DEF ExchangeStep
<1>2. /\ faults' \in Nat /\ (faults' = 0 => faults = 0)
      /\ job' \in [Jobs -> {"unused", "running", "succeeded", "failed"}]
  BY <1>0, <1>1
<1> QED
  BY <1>1, <1>2, OutsideKeeps

Moved(x, e) == exchange' = [exchange EXCEPT ![x] = e]

\* one exchange moves on, and what its invite has bought is not counted again
LEMMA ExchangeMoves ==
  ASSUME KeysInv, NEW x \in Exchanges, NEW e \in Exchange, Moved(x, e),
         UNCHANGED <<request, open>>, InviteRows' = InviteRows, faults' = 0 => faults = 0,
         \A i \in Invites : invite'[i].key => invite[i].key,
         open => \A r \in Requests : request[r].pc = "row" /\ invite[request[r].invite].key
                                     => invite'[request[r].invite].key,
         issued' \in [Invites -> Nat], \A i \in Invites : i \notin InviteRows => issued'[i] = issued[i],
         e.pc # "idle" => e.invite \in InviteRows,
         \A i \in Invites : /\ Bought(i)' <= Bought(i)
                            /\ faults' = 0 => Bought(i)' = Bought(i)
  PROVE  KeysInv'
<1>1. /\ exchange' \in [Exchanges -> Exchange]
      /\ \A y \in Exchanges : exchange'[y].pc # "idle" => exchange'[y].invite \in InviteRows'
  BY DEF KeysInv, Moved
<1>2. OneKeyEach /\ open => OneKeyEach'
  BY DEF OneKeyEach
<1>3. \A i \in Invites : /\ Bought(i) \in Nat /\ Bought(i)' \in Nat
                         /\ Bought(i) <= 1
                         /\ i \notin InviteRows => issued[i] = 0
                         /\ i \in InviteRows /\ faults = 0 /\ open => Bought(i) = 1
  <2>1. \A i \in Invites : /\ Cardinality(Buying(i)) \in Nat /\ issued[i] \in Nat
                           /\ issued'[i] \in Nat
    BY BuyersCounted DEF KeysInv
  <2>2. \A i \in Invites : Cardinality(Buying(i))' \in Nat
    <3> SUFFICES ASSUME NEW i \in Invites PROVE Cardinality(Buying(i)') \in Nat
      OBVIOUS
    <3>1. IsFiniteSet(Buying(i)')
      BY AccessAssumption, FS_Subset DEF Buying
    <3> QED
      BY <3>1, FS_CardinalityType
  <2> QED
    BY <2>1, <2>2 DEF Bought, KeysInv
<1>4. \A i \in Invites : /\ Bought(i)' <= 1
                         /\ i \notin InviteRows' => issued'[i] = 0
                         /\ i \in InviteRows' /\ faults' = 0 /\ open' => Bought(i)' = 1
  BY <1>3
<1> QED
  BY <1>1, <1>2, <1>4 DEF KeysInv

\* who is buying after x has moved
LEMMA BuyingAfter ==
  ASSUME KeysInv, NEW x \in Exchanges, NEW e \in Exchange, Moved(x, e)
  PROVE  \A i \in Invites :
           /\ e.invite = i /\ e.pc \in {"row", "answer"} => Buying(i)' = Buying(i) \cup {x}
           /\ ~(e.invite = i /\ e.pc \in {"row", "answer"}) => Buying(i)' = Buying(i) \ {x}
BY DEF KeysInv, Buying, Moved

LEMMA KeysUnderExchange ==
  ASSUME ScheduleInv, KeysInv, NEW x \in Exchanges, ExchangeStep(x)
  PROVE  KeysInv'
<1>0. /\ exchange \in [Exchanges -> Exchange] /\ issued \in [Invites -> Nat]
      /\ invite \in [Invites -> Invite] /\ faults \in Nat
      /\ NotAsked \in Exchange /\ NotAsked.pc = "idle"
      /\ \A i \in Invites : invite[i].key \in BOOLEAN
  BY DEF KeysInv, ScheduleInv, Types, NotAsked, Exchange, Invite
<1>1. PICK c \in Exchange : c = exchange[x]
  BY <1>0
<1>2. c.pc # "idle" => c.invite \in InviteRows /\ c.invite \in Invites
  BY <1>1 DEF KeysInv, InviteRows
<1>3. \A i \in Invites : IsFiniteSet(Buying(i)) /\ Cardinality(Buying(i)) \in Nat
  BY BuyersCounted
<1>4. ASSUME NEW e \in Exchange, Moved(x, e),
             UNCHANGED <<request, open, invite, issued>>, faults' = faults,
             e.pc # "idle" => e.invite \in InviteRows,
             c.pc \notin {"row", "answer"}, e.pc \notin {"row", "answer"}
      PROVE  KeysInv'
  <2>1. \A i \in Invites : Buying(i)' = Buying(i)
    <3>1. \A i \in Invites : x \notin Buying(i)
      BY <1>1, <1>4 DEF Buying
    <3> QED
      BY <1>4, <3>1, BuyingAfter
  <2>2. \A i \in Invites : Bought(i)' = Bought(i) /\ Bought(i) \in Nat
    BY <1>0, <1>3, <1>4, <2>1 DEF Bought
  <2>3. InviteRows' = InviteRows
    BY <1>4 DEF InviteRows
  <2> QED
    BY <1>0, <1>4, <2>2, <2>3, ExchangeMoves
<1>5. CASE \/ \E i \in Invites : BeginExchange(x, i)
           \/ VerifyIdentity(x) \/ KeyIsGone(x)
  <2>1. /\ UNCHANGED <<request, open, invite, issued, faults>>
        /\ c.pc \in {"idle", "verify", "consume"}
    BY <1>1, <1>5 DEF BeginExchange, VerifyIdentity, KeyIsGone, vars
  <2>2. ASSUME NEW i \in Invites, BeginExchange(x, i) PROVE KeysInv'
    <3> DEFINE e == [pc |-> "verify", invite |-> i]
    <3>1. e \in Exchange /\ e.pc = "verify" /\ Moved(x, e)
      BY <2>2 DEF Exchange, BeginExchange, Moved
    <3>2. i \in InviteRows
      BY <2>2 DEF BeginExchange, LinkIsValid, ScheduleInv, InvitesInHand
    <3> QED
      BY <1>4, <2>1, <3>1, <3>2
  <2>3. CASE Moved(x, NotAsked)
    BY <1>0, <1>4, <2>1, <2>3
  <2>4. CASE c.pc = "verify" /\ Asks(x, "consume")
    <3> DEFINE e == [c EXCEPT !.pc = "consume"]
    <3>1. e \in Exchange /\ e.pc = "consume" /\ e.invite = c.invite
      BY DEF Exchange
    <3>2. Moved(x, e)
      BY <1>1, <2>4 DEF Asks, Moved
    <3> HIDE DEF e
    <3> QED
      BY <1>2, <1>4, <2>1, <2>4, <3>1, <3>2
  <2> QED
    BY <1>1, <1>5, <2>2, <2>3, <2>4 DEF VerifyIdentity, KeyIsGone, Moved
<1>6. CASE ConsumeKey(x)
  <2>1. /\ c.pc = "consume" /\ Asks(x, "row") /\ UNCHANGED <<request, open, issued, faults>>
        /\ invite' = [invite EXCEPT ![c.invite].key = FALSE] /\ invite[c.invite].key
    BY <1>1, <1>6 DEF ConsumeKey
  <2>2. PICK i \in InviteRows : i = c.invite /\ i \in Invites
    BY <1>2, <2>1
  <2>3. PICK e \in Exchange : /\ e.pc = "row" /\ e.invite = i
                             /\ Moved(x, e)
    <3> DEFINE e == [c EXCEPT !.pc = "row"]
    <3>1. e \in Exchange /\ e.pc = "row" /\ e.invite = i
      BY <2>2 DEF Exchange
    <3>2. Moved(x, e)
      BY <1>1, <2>1 DEF Asks, Moved
    <3> QED
      BY <3>1, <3>2
  <2>4. /\ ~invite'[i].key /\ \A j \in Invites : invite'[j].row = invite[j].row
        /\ \A j \in Invites : j # i => invite'[j] = invite[j]
    BY <1>0, <2>1, <2>2 DEF Invite
  <2>5. InviteRows' = InviteRows
    BY <2>4 DEF InviteRows
  <2>6. \A j \in Invites : x \notin Buying(j)
    BY <1>1, <2>1 DEF Buying
  <2>7. /\ Buying(i)' = Buying(i) \cup {x}
        /\ \A j \in Invites \ {i} : Buying(j)' = Buying(j)
    BY <2>2, <2>3, <2>6, BuyingAfter
  <2>8. Cardinality(Buying(i)') = Cardinality(Buying(i)) + 1
    BY <1>3, <2>2, <2>6, <2>7, FS_AddElement
  <2>9. \A j \in Invites : Bought(j)' = Bought(j) /\ Bought(j) \in Nat
    <3>1. Bought(i)' = Bought(i)
      <4>1. Bought(i) = Cardinality(Buying(i)) + issued[i] + 1
        BY <2>1, <2>2 DEF Bought
      <4>2. Bought(i)' = Cardinality(Buying(i)') + issued[i] + 0
        BY <2>1, <2>4 DEF Bought
      <4> QED
        BY <1>0, <1>3, <2>2, <2>8, <4>1, <4>2
    <3>2. \A j \in Invites \ {i} : Bought(j)' = Bought(j)
      BY <2>1, <2>4, <2>7 DEF Bought
    <3>3. \A j \in Invites : Bought(j) \in Nat
      BY <1>0, <1>3 DEF Bought
    <3> QED
      BY <3>1, <3>2, <3>3
  <2>10. open => \A r \in Requests : request[r].pc = "row" /\ invite[request[r].invite].key
                                       => invite'[request[r].invite].key
    BY <2>2, <2>4 DEF KeysInv, OneKeyEach, ScheduleInv, InvitesInHand
  <2>11. \A j \in Invites : invite'[j].key => invite[j].key
    BY <2>2, <2>4
  <2> QED
    BY <1>0, <2>1, <2>2, <2>3, <2>5, <2>9, <2>10, <2>11, ExchangeMoves
<1>7. CASE MarkConsumed(x)
  <2>1. /\ c.pc = "row" /\ Asks(x, "answer") /\ UNCHANGED <<request, open, issued, faults>>
        /\ invite' = [invite EXCEPT ![c.invite].row = "consumed", ![c.invite].key = FALSE]
    BY <1>1, <1>7 DEF MarkConsumed
  <2>2. PICK i \in InviteRows : i = c.invite /\ i \in Invites
    BY <1>2, <2>1
  <2>3. PICK e \in Exchange : /\ e.pc = "answer" /\ e.invite = i
                             /\ Moved(x, e)
    <3> DEFINE e == [c EXCEPT !.pc = "answer"]
    <3>1. e \in Exchange /\ e.pc = "answer" /\ e.invite = i
      BY <2>2 DEF Exchange
    <3>2. Moved(x, e)
      BY <1>1, <2>1 DEF Asks, Moved
    <3> QED
      BY <3>1, <3>2
  <2>4. /\ ~invite'[i].key /\ invite'[i].row = "consumed"
        /\ \A j \in Invites : j # i => invite'[j] = invite[j]
    BY <1>0, <2>1, <2>2 DEF Invite
  <2>5. InviteRows' = InviteRows
    BY <2>2, <2>4 DEF InviteRows
  <2>6. x \in Buying(i) /\ \A j \in Invites \ {i} : x \notin Buying(j)
    BY <1>1, <2>1, <2>2 DEF Buying
  <2>7. \A j \in Invites : Buying(j)' = Buying(j)
    <3>1. Buying(i)' = Buying(i) \cup {x} /\ \A j \in Invites \ {i} : Buying(j)' = Buying(j) \ {x}
      BY <2>2, <2>3, BuyingAfter
    <3> QED
      BY <2>6, <3>1
  <2>8. ~invite[i].key
    <3>1. Cardinality(Buying(i)) >= 1 /\ Bought(i) <= 1
      BY <2>2, <2>6, BuyersCounted DEF KeysInv
    <3> QED
      BY <1>0, <1>3, <2>2, <3>1 DEF Bought
  <2>9. \A j \in Invites : Bought(j)' = Bought(j) /\ Bought(j) \in Nat
    <3>1. \A j \in Invites : invite'[j].key <=> invite[j].key
      BY <2>4, <2>8
    <3> QED
      BY <1>0, <1>3, <2>1, <2>7, <3>1 DEF Bought
  <2>10. open => \A r \in Requests : request[r].pc = "row" /\ invite[request[r].invite].key
                                       => invite'[request[r].invite].key
    BY <2>2, <2>4 DEF KeysInv, OneKeyEach, ScheduleInv, InvitesInHand
  <2>11. \A j \in Invites : invite'[j].key => invite[j].key
    BY <2>2, <2>4
  <2> QED
    <3>1. issued' \in [Invites -> Nat] /\ \A j \in Invites : issued'[j] = issued[j]
      BY <1>0, <2>1
    <3>2. UNCHANGED <<request, open>> /\ (faults' = 0 => faults = 0) /\ e.invite \in InviteRows
      BY <2>1, <2>2, <2>3
    <3>3. \A j \in Invites : Bought(j)' <= Bought(j) /\ (faults' = 0 => Bought(j)' = Bought(j))
      BY <2>9
    <3> QED
      BY <2>3, <2>5, <2>10, <2>11, <3>1, <3>2, <3>3, ExchangeMoves
<1>8. CASE IssueToken(x)
  <2>1. /\ c.pc = "answer" /\ Moved(x, NotAsked)
        /\ UNCHANGED <<request, open, invite, faults>>
        /\ issued' = [issued EXCEPT ![c.invite] = @ + 1]
    BY <1>1, <1>8 DEF IssueToken, vars, Moved
  <2>2. PICK i \in InviteRows : i = c.invite /\ i \in Invites
    BY <1>2, <2>1
  <2>3. /\ issued' \in [Invites -> Nat] /\ issued'[i] = issued[i] + 1
        /\ \A j \in Invites \ {i} : issued'[j] = issued[j]
    BY <1>0, <2>1, <2>2
  <2>4. x \in Buying(i) /\ \A j \in Invites \ {i} : x \notin Buying(j)
    BY <1>1, <2>1, <2>2 DEF Buying
  <2>5. Buying(i)' = Buying(i) \ {x} /\ \A j \in Invites \ {i} : Buying(j)' = Buying(j)
    <3>1. \A j \in Invites : Buying(j)' = Buying(j) \ {x}
      BY <1>0, <2>1, BuyingAfter
    <3> QED
      BY <2>2, <2>4, <3>1
  <2>6. Cardinality(Buying(i)') = Cardinality(Buying(i)) - 1
    BY <1>3, <2>2, <2>4, <2>5, FS_RemoveElement
  <2>7. \A j \in Invites : Bought(j)' = Bought(j) /\ Bought(j) \in Nat
    <3>1. Bought(i)' = Bought(i)
      <4>1. Bought(i)' = Cardinality(Buying(i)') + issued'[i] + IF invite[i].key THEN 1 ELSE 0
        BY <2>1 DEF Bought
      <4> QED
        BY <1>0, <1>3, <2>2, <2>3, <2>6, <4>1 DEF Bought
    <3>2. \A j \in Invites \ {i} : Bought(j)' = Bought(j)
      BY <2>1, <2>3, <2>5 DEF Bought
    <3>3. \A j \in Invites : Bought(j) \in Nat
      BY <1>0, <1>3 DEF Bought
    <3> QED
      BY <3>1, <3>2, <3>3
  <2>8. InviteRows' = InviteRows
    BY <2>1 DEF InviteRows
  <2>9. \A j \in Invites : j \notin InviteRows => issued'[j] = issued[j]
    BY <2>2, <2>3
  <2> QED
    BY <1>0, <2>1, <2>3, <2>7, <2>8, <2>9, ExchangeMoves
<1>9. CASE ExchangeFails(x)
  <2>1. /\ Moved(x, NotAsked)
        /\ UNCHANGED <<request, open, invite, issued>> /\ faults' = faults + 1
    BY <1>9 DEF ExchangeFails, Moved
  <2>2. \A i \in Invites : Cardinality(Buying(i)') <= Cardinality(Buying(i)) /\ Cardinality(Buying(i)') \in Nat
    <3> SUFFICES ASSUME NEW i \in Invites
                 PROVE  Cardinality(Buying(i)') <= Cardinality(Buying(i)) /\ Cardinality(Buying(i)') \in Nat
      OBVIOUS
    <3>1. Buying(i)' \subseteq Buying(i)
      BY <1>0, <2>1, BuyingAfter
    <3> QED
      BY <1>3, <3>1, FS_Subset, FS_CardinalityType
  <2>3. \A i \in Invites : Bought(i)' <= Bought(i)
    <3> SUFFICES ASSUME NEW i \in Invites PROVE Bought(i)' <= Bought(i)
      OBVIOUS
    <3>1. Bought(i)' = Cardinality(Buying(i)') + issued[i] + IF invite[i].key THEN 1 ELSE 0
      BY <2>1 DEF Bought
    <3> QED
      BY <1>0, <1>3, <2>2, <3>1 DEF Bought
  <2>4. InviteRows' = InviteRows /\ faults' # 0
    BY <1>0, <2>1 DEF InviteRows
  <2> QED
    BY <1>0, <2>1, <2>3, <2>4, ExchangeMoves
<1> QED
  BY <1>5, <1>6, <1>7, <1>8, <1>9 DEF ExchangeStep

LEMMA KeysAfterTheWindow ==
  ASSUME ScheduleInv, KeysInv, WindowEnds PROVE KeysInv'
<1>1. /\ open' = FALSE /\ UNCHANGED <<exchange, issued>>
      /\ invite' = [i \in Invites |-> [invite[i] EXCEPT !.key = FALSE]]
  BY DEF WindowEnds
<1>2. \A i \in Invites : invite'[i].row = invite[i].row /\ ~invite'[i].key
  BY <1>1 DEF ScheduleInv, Types, Invite
<1>3. InviteRows' = InviteRows
  BY <1>2 DEF InviteRows
<1>4. \A i \in Invites : Buying(i)' = Buying(i)
  BY <1>1 DEF Buying
<1>5. \A i \in Invites : Bought(i)' <= 1
  <2> SUFFICES ASSUME NEW i \in Invites PROVE Bought(i)' <= 1
    OBVIOUS
  <2>1. Bought(i)' = Cardinality(Buying(i)) + issued[i] + 0
    BY <1>1, <1>2, <1>4 DEF Bought
  <2>2. Cardinality(Buying(i)) + issued[i] <= 1
    <3>1. Cardinality(Buying(i)) \in Nat /\ issued[i] \in Nat /\ Bought(i) <= 1
      BY BuyersCounted DEF KeysInv
    <3> QED
      BY <3>1 DEF Bought
  <2> QED
    BY <2>1, <2>2, BuyersCounted DEF KeysInv
<1> QED
  BY <1>1, <1>3, <1>5 DEF KeysInv

-----------------------------------------------------------------------------
AccessInv == ScheduleInv /\ KeysInv

LEMMA AccessStart == AccessInit => AccessInv
<1> SUFFICES ASSUME AccessInit PROVE AccessInv
  OBVIOUS
<1>1. ScheduleInv
  BY ScheduleStart DEF AccessInit
<1>2. /\ exchange = [x \in Exchanges |-> NotAsked] /\ issued = [i \in Invites |-> 0] /\ open = TRUE
      /\ invite = [i \in Invites |-> Unsent] /\ request = [r \in Requests |-> Idle]
  BY DEF AccessInit, Init
<1>3. NotAsked \in Exchange /\ NotAsked.pc = "idle" /\ Idle.pc = "idle"
  BY NoneIsNothing DEF NotAsked, Exchange
<1>4. InviteRows = {}
  BY <1>2 DEF InviteRows, Unsent
<1>5. \A i \in Invites : Bought(i) = 0
  <2> SUFFICES ASSUME NEW i \in Invites PROVE Bought(i) = 0
    OBVIOUS
  <2>1. Buying(i) = {}
    BY <1>2, <1>3 DEF Buying
  <2>2. Cardinality(Buying(i)) = 0
    BY <2>1, FS_EmptySet
  <2> QED
    BY <1>2, <2>2 DEF Bought, Unsent
<1>6. OneKeyEach
  BY <1>2, <1>3 DEF OneKeyEach
<1> QED
  BY <1>1, <1>2, <1>3, <1>4, <1>5, <1>6 DEF AccessInv, KeysInv

LEMMA AccessStep == AccessInv /\ [AccessNext]_<<vars, accessVars>> => AccessInv'
<1> SUFFICES ASSUME AccessInv, [AccessNext]_<<vars, accessVars>> PROVE AccessInv'
  OBVIOUS
<1> USE DEF AccessInv
<1>1. CASE Next /\ UNCHANGED accessVars
  BY <1>1, ScheduleStep, KeysUnderSchedule
<1>2. ASSUME NEW x \in Exchanges, ExchangeStep(x) PROVE AccessInv'
  BY <1>2, AccessKeeps, KeysUnderExchange
<1>3. CASE WindowEnds
  BY <1>3, AccessKeeps, KeysAfterTheWindow
<1>4. CASE UNCHANGED <<vars, accessVars>>
  <2>1. UNCHANGED <<exam, slot, request, stale, job, faults, invite>> /\ UNCHANGED accessVars
    BY <1>4 DEF vars, rows
  <2>2. InviteRows' = InviteRows /\ \A r \in Requests : request[r].pc = "row" => request[r].invite \in Invites
    BY <2>1 DEF InviteRows, ScheduleInv, InvitesInHand
  <2>3. KeysInv'
    BY <2>1, <2>2, KeysStay
  <2>4. faults' \in Nat
    BY <2>1 DEF ScheduleInv, Types
  <2> QED
    BY <2>1, <2>3, <2>4, RowsStay, OutsideKeeps
<1> QED
  BY <1>1, <1>2, <1>3, <1>4 DEF AccessNext

\* The questions of an exam that is out are the ones its slots' own jobs made,
\* in every slot, as long as no commit went over rows that had changed: the
\* confirmation in confirm_exam and get_exam never passes an exam that is still
\* being generated, nor one of which a slot failed.
THEOREM ScheduledExamsAreReady == AccessSpec => []ScheduledIsReady
<1>1. AccessSpec => []AccessInv
  BY AccessStart, AccessStep, PTL DEF AccessSpec
<1> QED
  BY <1>1, SoundIsReady, PTL DEF AccessInv

\* With every request answered, none failed and none overwritten, there is one
\* mailed invite if the exam is scheduled and none otherwise, however the
\* schedulings, confirmations, reads and regenerations overlapped.
THEOREM ScheduledExamsAreInvitedOnce == AccessSpec => []InvitedOnce
<1>1. AccessSpec => []AccessInv
  BY AccessStart, AccessStep, PTL DEF AccessSpec
<1> QED
  BY <1>1, OneIsOnce, PTL DEF AccessInv

\* The key of an invite, the exchange that took it and the tokens it led to are
\* never two, for any number of exchanges of the same link at once; and while
\* nothing failed the candidate is never left without any of them.
THEOREM OneTokenForAKey == AccessSpec => []KeyBuysOneToken
<1>1. AccessSpec => []AccessInv
  BY AccessStart, AccessStep, PTL DEF AccessSpec
<1>2. AccessInv => KeyBuysOneToken
  <2> SUFFICES ASSUME AccessInv, NEW i \in Invites
               PROVE  /\ Bought(i) <= 1
                      /\ invite[i].row # "none" /\ faults = 0 /\ open => Bought(i) = 1
    BY DEF KeyBuysOneToken, Bought, Buying
  <2> QED
    BY DEF AccessInv, KeysInv, InviteRows
<1> QED
  BY <1>1, <1>2, PTL
=============================================================================
