---------------------- MODULE QuestionVersions_proofs ----------------------
(***************************************************************************)
(* Proofs about QuestionVersions.  However requests overlap there is one   *)
(* working copy, the latest version (OneWorkingCopy).  If they do not      *)
(* overlap, the rows implement the append-only history of QuestionHistory  *)
(* (ImplementsHistory).  A version that a session was given is written by  *)
(* nobody who found it published (PinnedFrozen).                           *)
(***************************************************************************)
EXTENDS QuestionVersions, SequenceTheorems, TLAPS

\* What a request has read is not ahead of the rows, and is complete for the
\* step it is about to take.
ReadInv ==
  \A r \in Requests :
     /\ Active(r) => /\ req[r].cur \in 1..current
                     /\ req[r].pub <= req[r].cur
                     /\ req[r].op \in Ops
     /\ req[r].pc \in {"version", "ordinal"} => req[r].row \in Content
     /\ req[r].pc \in {"case", "ordinal"} => req[r].ord \in Ordinals
     /\ req[r].pc = "version" /\ req[r].op = "delete" => req[r].ord \in Ordinals
     /\ req[r].pc = "case" => req[r].op = "delete"

IInv == TypeOK /\ CurrentIsLatest /\ 1 <= current /\ ReadInv

\* A transaction that commits well-formed contents leaves a well-formed,
\* gap-free list whose last version is current (ensure_mutable_version).
LEMMA WriteKeepsList ==
  ASSUME IInv, NEW r \in Requests, NEW v \in Content, Active(r), Write(r, v)
  PROVE  /\ versions' \in Seq(Content)
         /\ current' = Len(versions')
         /\ current <= current' /\ published <= current'
<1>0. /\ versions \in Seq(Content) /\ current \in Nat /\ published \in Nat
      /\ current = Len(versions) /\ published <= current
      /\ req[r].cur \in 1..current
  BY DEF IInv, TypeOK, CurrentIsLatest, ReadInv
<1>1. CASE Forks(r)
  <2>1. /\ versions' = Append(versions, v)
        /\ Len(versions) = req[r].cur /\ current' = req[r].cur + 1
    BY <1>1 DEF Write
  <2>2. Append(versions, v) \in Seq(Content) /\ Len(Append(versions, v)) = Len(versions) + 1
    BY <1>0, AppendProperties
  <2> QED
    BY <1>0, <2>1, <2>2
<1>2. CASE ~Forks(r)
  <2>1. versions' = [versions EXCEPT ![req[r].cur] = v] /\ current' = current
    BY <1>2 DEF Write
  <2>2. /\ [versions EXCEPT ![req[r].cur] = v] \in Seq(Content)
        /\ Len([versions EXCEPT ![req[r].cur] = v]) = Len(versions)
    BY <1>0, ExceptSeq
  <2> QED
    BY <1>0, <2>1, <2>2
<1> QED
  BY <1>1, <1>2

\* The contents a request works on are well-formed.
LEMMA TargetType ==
  ASSUME IInv, NEW r \in Requests, req[r].pc \in {"version", "ordinal"}
  PROVE  Target(r) \in Content
<1>1. versions \in Seq(Content) /\ req[r].cur \in 1..Len(versions) /\ req[r].row \in Content
  BY DEF IInv, TypeOK, CurrentIsLatest, ReadInv, Active
<1>2. versions[req[r].cur] \in Content
  BY <1>1, ElementOfSeq
<1> QED
  BY <1>1, <1>2 DEF Target

\* A request that has ended holds nothing but its verb and its victim.
LEMMA EndedType ==
  ASSUME IInv, NEW r \in Requests, NEW pc \in {"done", "failed"}, Ended(r, pc)
  PROVE  /\ req' \in [Requests -> Request]
         /\ \A q \in Requests : q # r => req'[q] = req[q]
         /\ req'[r].pc = pc /\ req'[r].op = req[r].op /\ req'[r].victim = req[r].victim
<1>0. req \in [Requests -> Request]
  BY DEF IInv, TypeOK
<1>1. req[r].op \in Ops \cup {None} /\ req[r].victim \in Victim
  BY <1>0 DEF Request
<1> DEFINE e == Blank(pc, req[r].op, req[r].victim)
<1>2. e \in Request /\ e.pc = pc /\ e.op = req[r].op /\ e.victim = req[r].victim
  BY <1>1, QuestionAssumption DEF Blank, Request
<1>3. req' = [req EXCEPT ![r] = e]
  BY DEF Ended
<1> HIDE DEF e
<1> QED
  BY <1>0, <1>2, <1>3

\* A request that commits contents and ends keeps the invariant.
LEMMA CommitInv ==
  ASSUME IInv, NEW r \in Requests, NEW v \in Content, Active(r), Write(r, v),
         Ended(r, "done"), UNCHANGED <<published, pinned>>
  PROVE  IInv'
<1>1. /\ versions' \in Seq(Content) /\ current' = Len(versions')
      /\ current <= current' /\ published <= current'
  BY WriteKeepsList
<1>2. /\ req' \in [Requests -> Request]
      /\ \A q \in Requests : q # r => req'[q] = req[q]
      /\ req'[r].pc = "done"
  BY EndedType
<1>3. current \in Nat /\ current' \in Nat
  BY <1>1, LenProperties DEF IInv, TypeOK
<1>4. TypeOK'
  BY <1>1, <1>2, <1>3 DEF IInv, TypeOK
<1>5. CurrentIsLatest'
  BY <1>1 DEF CurrentIsLatest
<1>6. ReadInv'
  BY <1>1, <1>2, <1>3 DEF IInv, ReadInv, Active
<1> QED
  BY <1>1, <1>3, <1>4, <1>5, <1>6 DEF IInv

\* A request that goes on with a chosen ordinal stays well typed.
LEMMA AdvanceType ==
  ASSUME req \in [Requests -> Request], NEW r \in Requests,
         NEW pc \in {"case", "ordinal"}, NEW o \in Ordinals,
         req' = [req EXCEPT ![r].pc = pc, ![r].ord = o]
  PROVE  req' \in [Requests -> Request]
<1> DEFINE e == [req[r] EXCEPT !.pc = pc, !.ord = o]
<1>1. req[r] \in Request /\ o \in 0..MaxOrdinal
  BY QuestionAssumption DEF Ordinals
<1>2. e \in Request
  BY <1>1 DEF Request
<1>3. req' = [req EXCEPT ![r] = e]
  OBVIOUS
<1> HIDE DEF e
<1> QED
  BY <1>2, <1>3

\* The initial question satisfies the invariant.
LEMMA InitInv == Init => IInv
<1> SUFFICES ASSUME Init PROVE IInv
  OBVIOUS
<1> DEFINE c == [text |-> None, cases |-> [o \in Ordinals |-> None]]
<1>1. c \in Content
  BY DEF Content
<1>2. versions = <<c>> /\ current = 1 /\ published = 0 /\ pinned = {}
      /\ req = [r \in Requests |-> Blank("idle", None, None)]
  BY DEF Init
<1> HIDE DEF c
<1>3. <<c>> \in Seq(Content) /\ Len(<<c>>) = 1
  BY <1>1
<1>4. Blank("idle", None, None) \in Request /\ Blank("idle", None, None).pc = "idle"
  BY QuestionAssumption DEF Blank, Request, Victim
<1>5. TypeOK
  BY <1>2, <1>3, <1>4 DEF TypeOK
<1>6. CurrentIsLatest
  BY <1>2, <1>3 DEF CurrentIsLatest
<1>7. ReadInv
  BY <1>2, <1>4 DEF ReadInv, Active
<1> QED
  BY <1>2, <1>5, <1>6, <1>7 DEF IInv

\* Whatever is committed, the contents are well-formed and the request is over.
LEMMA CommitShape ==
  ASSUME IInv, NEW r \in Requests, CommitEdit(r) \/ CommitAdd(r) \/ CommitDelete(r)
  PROVE  \E v \in Content : /\ Active(r) /\ Write(r, v)
                              /\ Ended(r, "done") /\ UNCHANGED <<published, pinned>>
<1>1. CASE CommitEdit(r)
  <2>1. Active(r) /\ req[r].pc = "version"
    BY <1>1 DEF CommitEdit, Active
  <2>2. [Target(r) EXCEPT !.text = r] \in Content
    BY <2>1, TargetType DEF Content
  <2> QED
    BY <1>1, <2>1, <2>2 DEF CommitEdit
<1>2. CASE CommitAdd(r)
  <2>1. Active(r) /\ req[r].pc = "ordinal"
    BY <1>2 DEF CommitAdd, Active
  <2>2. [Target(r) EXCEPT !.cases[req[r].ord] = r] \in Content
    BY <2>1, TargetType DEF Content
  <2> QED
    BY <1>2, <2>1, <2>2 DEF CommitAdd
<1>3. CASE CommitDelete(r)
  <2>1. Active(r) /\ req[r].pc = "version"
    BY <1>3 DEF CommitDelete, Active
  <2>2. Target(r) \in Content /\ [Target(r) EXCEPT !.cases[req[r].ord] = None] \in Content
    BY <2>1, TargetType DEF Content
  <2> DEFINE v == IF Forks(r) \/ Target(r).cases[req[r].ord] = req[r].victim[2]
                  THEN [Target(r) EXCEPT !.cases[req[r].ord] = None] ELSE Target(r)
  <2>3. v \in Content
    BY <2>2
  <2>4. Write(r, v) /\ Ended(r, "done") /\ UNCHANGED <<published, pinned>>
    BY <1>3 DEF CommitDelete
  <2> HIDE DEF v
  <2> QED
    BY <2>1, <2>3, <2>4
<1> QED
  BY <1>1, <1>2, <1>3

\* Every step of a request keeps the invariant.
LEMMA RequestStepInv ==
  ASSUME IInv, NEW r \in Requests, RequestStep(r)
  PROVE  IInv'
<1>0. /\ versions \in Seq(Content) /\ current \in Nat /\ published \in Nat
      /\ current = Len(versions) /\ published <= current
      /\ req \in [Requests -> Request] /\ pinned \in SUBSET Nat
  BY DEF IInv, TypeOK, CurrentIsLatest
<1>1. ASSUME NEW op \in Ops, ReadQuestion(r, op)
      PROVE  IInv'
  <2>1. UNCHANGED <<rows, pinned>>
    BY <1>1 DEF ReadQuestion
  <2>8. TestCases \subseteq Victim /\ None \in Victim /\ 0 \in 0..MaxOrdinal
    BY <1>0, QuestionAssumption DEF TestCases, Victim
  <2>2. PICK ord \in 0..MaxOrdinal, victim \in Victim :
           req' = [req EXCEPT ![r] = [pc |-> "question", op |-> op, cur |-> current,
                    pub |-> published, row |-> None, ord |-> ord, victim |-> victim]]
    BY <1>1, <2>8 DEF ReadQuestion
  <2> DEFINE e == [pc |-> "question", op |-> op, cur |-> current,
                   pub |-> published, row |-> None, ord |-> ord, victim |-> victim]
  <2>3. e \in Request
    BY <1>0 DEF Request
  <2>4. req' = [req EXCEPT ![r] = e] /\ e.pc = "question" /\ e.op = op
        /\ e.cur = current /\ e.pub = published
    BY <2>2
  <2> HIDE DEF e
  <2>5. TypeOK' /\ CurrentIsLatest'
    BY <1>0, <2>1, <2>3, <2>4 DEF IInv, TypeOK, CurrentIsLatest, rows
  <2>6. current \in 1..current
    BY <1>0 DEF IInv
  <2>7. ReadInv'
    BY <1>0, <2>1, <2>4, <2>6 DEF IInv, ReadInv, Active, rows
  <2> QED
    BY <2>1, <2>5, <2>7 DEF IInv, rows
<1>2. ASSUME FindCase(r)
      PROVE  IInv'
  <2>1. UNCHANGED <<rows, pinned>>
    BY <1>2 DEF FindCase
  <2>2. PICK o \in Ordinals : /\ req' = [req EXCEPT ![r].pc = "case", ![r].ord = o]
                              /\ req[r].pc = "question" /\ req[r].op = "delete"
    BY <1>2 DEF FindCase
  <2>5. req' \in [Requests -> Request]
    BY <1>0, <2>2, AdvanceType
  <2>3. TypeOK' /\ CurrentIsLatest'
    BY <1>0, <2>1, <2>2, <2>5 DEF TypeOK, CurrentIsLatest, rows
  <2>4. ReadInv'
    BY <1>0, <2>1, <2>2, <2>5 DEF IInv, ReadInv, Active, rows
  <2> QED
    BY <2>1, <2>3, <2>4 DEF IInv, rows
<1>3. ASSUME LoadVersion(r)
      PROVE  IInv'
  <2>1. UNCHANGED <<rows, pinned>>
    BY <1>3 DEF LoadVersion
  <2>2. /\ req' = [req EXCEPT ![r].pc = "version", ![r].row = versions[req[r].cur]]
        /\ \/ req[r].pc = "question" /\ req[r].op \in {"edit", "add"}
           \/ req[r].pc = "case"
    BY <1>3 DEF LoadVersion
  <2>6. versions[req[r].cur] \in Content
    BY <1>0, <2>2, ElementOfSeq DEF IInv, ReadInv, Active
  <2>5. req' \in [Requests -> Request]
    BY <1>0, <2>2, <2>6 DEF Request
  <2>3. TypeOK' /\ CurrentIsLatest'
    BY <1>0, <2>1, <2>2, <2>5, <2>6 DEF TypeOK, CurrentIsLatest, rows
  <2>4. ReadInv'
    BY <1>0, <2>1, <2>2, <2>5, <2>6 DEF IInv, ReadInv, Active, rows
  <2> QED
    BY <2>1, <2>3, <2>4 DEF IInv, rows
<1>4. ASSUME PickOrdinal(r)
      PROVE  IInv'
  <2>1. UNCHANGED <<rows, pinned>>
    BY <1>4 DEF PickOrdinal
  <2>2. PICK o \in Ordinals : /\ req' = [req EXCEPT ![r].pc = "ordinal", ![r].ord = o]
                              /\ req[r].pc = "version" /\ req[r].op = "add"
    BY <1>4 DEF PickOrdinal
  <2>5. req' \in [Requests -> Request]
    BY <1>0, <2>2, AdvanceType
  <2>3. TypeOK' /\ CurrentIsLatest'
    BY <1>0, <2>1, <2>2, <2>5 DEF TypeOK, CurrentIsLatest, rows
  <2>4. ReadInv'
    BY <1>0, <2>1, <2>2, <2>5 DEF IInv, ReadInv, Active, rows
  <2> QED
    BY <2>1, <2>3, <2>4 DEF IInv, rows
<1>5. ASSUME CommitEdit(r) \/ CommitAdd(r) \/ CommitDelete(r)
      PROVE  IInv'
  BY <1>5, CommitShape, CommitInv
<1>8. ASSUME CommitPublish(r)
      PROVE  IInv'
  <2>1. Ended(r, "done") /\ Active(r) /\ UNCHANGED <<versions, current, pinned>>
        /\ published' \in {published, req[r].cur}
    BY <1>8 DEF CommitPublish, Active, rows
  <2>2. /\ req' \in [Requests -> Request]
        /\ \A q \in Requests : q # r => req'[q] = req[q]
        /\ req'[r].pc = "done"
    BY <2>1, EndedType
  <2>3. published' \in Nat /\ published' <= current
    BY <1>0, <2>1 DEF IInv, ReadInv
  <2>4. TypeOK' /\ CurrentIsLatest'
    BY <1>0, <2>1, <2>2, <2>3 DEF TypeOK, CurrentIsLatest
  <2>5. ReadInv'
    BY <1>0, <2>1, <2>2 DEF IInv, ReadInv, Active
  <2> QED
    BY <2>1, <2>4, <2>5 DEF IInv
<1>9. ASSUME Fails(r)
      PROVE  IInv'
  <2>1. Ended(r, "failed") /\ Active(r) /\ UNCHANGED <<versions, current, pinned>>
        /\ published' \in {published, req[r].cur}
    BY <1>9 DEF Fails, Active, rows
  <2>2. /\ req' \in [Requests -> Request]
        /\ \A q \in Requests : q # r => req'[q] = req[q]
        /\ req'[r].pc = "failed"
    BY <2>1, EndedType
  <2>3. published' \in Nat /\ published' <= current
    BY <1>0, <2>1 DEF IInv, ReadInv
  <2>4. TypeOK' /\ CurrentIsLatest'
    BY <1>0, <2>1, <2>2, <2>3 DEF TypeOK, CurrentIsLatest
  <2>5. ReadInv'
    BY <1>0, <2>1, <2>2 DEF IInv, ReadInv, Active
  <2> QED
    BY <2>1, <2>4, <2>5 DEF IInv
<1> QED
  BY <1>1, <1>2, <1>3, <1>4, <1>5, <1>8, <1>9 DEF RequestStep

\* Every step keeps the invariant.
LEMMA NextInv == IInv /\ [Next]_vars => IInv'
<1> SUFFICES ASSUME IInv, [Next]_vars PROVE IInv'
  OBVIOUS
<1>1. ASSUME NEW r \in Requests, RequestStep(r)
      PROVE  IInv'
  BY <1>1, RequestStepInv
<1>2. CASE PinVersion
  <2>1. UNCHANGED <<versions, current, published, req>>
    BY <1>2 DEF PinVersion, rows
  <2>2. published \in Nat /\ pinned \subseteq Nat
    BY DEF IInv, TypeOK
  <2>3. pinned' \subseteq Nat
    <3>1. pinned' = pinned \cup {published} \/ pinned' = pinned \cup {1}
      BY <1>2 DEF PinVersion
    <3>2. {published} \subseteq Nat /\ {1} \subseteq Nat
      BY <2>2
    <3> QED
      BY <2>2, <3>1, <3>2, Zenon
  <2> QED
    BY <2>1, <2>3 DEF IInv, TypeOK, CurrentIsLatest, ReadInv, Active
<1>3. CASE UNCHANGED vars
  BY <1>3 DEF vars, rows, IInv, TypeOK, CurrentIsLatest, ReadInv, Active
<1> QED
  BY <1>1, <1>2, <1>3 DEF Next, AllEnded

\* However many requests overlap, the version with the highest number is the
\* only working copy and the published version is not ahead of it.
THEOREM OneWorkingCopy == Spec => []CurrentIsLatest
<1>1. IInv => CurrentIsLatest
  BY DEF IInv
<1> QED
  BY <1>1, InitInv, NextInv, PTL DEF Spec

\* Rows and requests are well typed in every reachable state.
THEOREM TypeCorrect == Spec => []TypeOK
<1>1. IInv => TypeOK
  BY DEF IInv
<1> QED
  BY <1>1, InitInv, NextInv, PTL DEF Spec

-----------------------------------------------------------------------------
(* Requests that do not overlap. *)

\* Whoever is at work is alone and has read the rows as they are.
SerialInv ==
  /\ current \in {published, published + 1}
  /\ \A r \in Requests : Active(r) =>
        /\ req[r].cur = current /\ req[r].pub = published
        /\ req[r].pc \in {"version", "ordinal"} => req[r].row = versions[current]
        /\ \A q \in Requests : Active(q) => q = r

\* A commit that is alone replaces or creates the working copy and nothing else.
LEMMA WriteSerial ==
  ASSUME IInv, SerialInv, NEW r \in Requests, NEW v \in Content, Active(r), Write(r, v),
         published' = published
  PROVE  /\ current' = published + 1 /\ versions'[current'] = v
         /\ \A n \in 1..published : versions'[n] = versions[n]
         /\ sealedBar' = sealedBar /\ draftBar' = v
<1>0. /\ versions \in Seq(Content) /\ published \in Nat /\ current \in Nat
      /\ current = Len(versions) /\ published <= current /\ 1 <= current
      /\ current \in {published, published + 1}
      /\ req[r].cur = current /\ req[r].pub = published
  BY DEF IInv, TypeOK, CurrentIsLatest, SerialInv
<1>1. /\ current' = published + 1 /\ versions'[current'] = v
      /\ \A n \in 1..published : versions'[n] = versions[n]
      /\ versions' \in Seq(Content) /\ Len(versions') = current'
  <2>1. CASE current = published
    <3>1. versions' = Append(versions, v) /\ current' = current + 1
      BY <1>0, <2>1 DEF Write, Forks
    <3>2. /\ Append(versions, v) \in Seq(Content)
          /\ Len(Append(versions, v)) = Len(versions) + 1
          /\ \A n \in 1..Len(versions) : Append(versions, v)[n] = versions[n]
          /\ Append(versions, v)[Len(versions) + 1] = v
      BY <1>0, AppendProperties
    <3> QED
      BY <1>0, <2>1, <3>1, <3>2
  <2>2. CASE current = published + 1
    <3>1. versions' = [versions EXCEPT ![current] = v] /\ current' = current
      BY <1>0, <2>2 DEF Write, Forks
    <3>2. /\ [versions EXCEPT ![current] = v] \in Seq(Content)
          /\ Len([versions EXCEPT ![current] = v]) = Len(versions)
          /\ \A n \in 1..published : [versions EXCEPT ![current] = v][n] = versions[n]
          /\ [versions EXCEPT ![current] = v][current] = v
      <4>1. current \in 1..Len(versions)
        BY <1>0
      <4>2. /\ [versions EXCEPT ![current] = v] \in Seq(Content)
            /\ Len([versions EXCEPT ![current] = v]) = Len(versions)
            /\ \A n \in 1..Len(versions) : [versions EXCEPT ![current] = v][n] =
                  IF n = current THEN v ELSE versions[n]
        BY <1>0, <4>1, ExceptSeq
      <4> QED
        BY <1>0, <2>2, <4>1, <4>2
    <3> QED
      BY <1>0, <2>2, <3>1, <3>2
  <2> QED
    BY <1>0, <2>1, <2>2
<1>2. sealedBar' = sealedBar
  <2>1. SubSeq(versions', 1, published) = SubSeq(versions, 1, published)
    BY <1>0, <1>1
  <2> QED
    BY <2>1 DEF sealedBar
<1>3. draftBar' = v
  BY <1>0, <1>1 DEF draftBar
<1> QED
  BY <1>1, <1>2, <1>3

\* What a request does to the rows, seen as history, when it is alone.
LEMMA SerialStep ==
  ASSUME ~Concurrent, IInv, SerialInv, NEW r \in Requests, RequestStep(r)
  PROVE  /\ SerialInv'
         /\ [QH!Next]_<<sealedBar, draftBar>>
         /\ \A n \in 1..published : versions'[n] = versions[n]
         /\ published <= published' /\ pinned' = pinned
<1>0. /\ versions \in Seq(Content) /\ published \in Nat /\ current \in Nat
      /\ current = Len(versions) /\ published <= current /\ 1 <= current
      /\ current \in {published, published + 1}
      /\ req \in [Requests -> Request]
  BY DEF IInv, TypeOK, CurrentIsLatest, SerialInv
<1>1. ASSUME UNCHANGED <<versions, current, published, pinned>>
      PROVE  /\ [QH!Next]_<<sealedBar, draftBar>>
             /\ \A n \in 1..published : versions'[n] = versions[n]
             /\ published <= published' /\ pinned' = pinned
  BY <1>0, <1>1 DEF sealedBar, draftBar
<1>2. ASSUME NEW v \in Content, Active(r), Write(r, v), Ended(r, "done"),
             UNCHANGED <<published, pinned>>
      PROVE  /\ SerialInv'
             /\ [QH!Next]_<<sealedBar, draftBar>>
             /\ \A n \in 1..published : versions'[n] = versions[n]
             /\ published <= published' /\ pinned' = pinned
  <2>1. /\ current' = published + 1 /\ versions'[current'] = v
        /\ \A n \in 1..published : versions'[n] = versions[n]
        /\ sealedBar' = sealedBar /\ draftBar' = v
    BY <1>2, WriteSerial
  <2>2. /\ \A q \in Requests : q # r => req'[q] = req[q]
        /\ req'[r].pc = "done"
    BY <1>2, EndedType
  <2>3. \A q \in Requests : ~(Active(q)')
    BY <1>2, <2>2 DEF SerialInv, Active
  <2>4. SerialInv'
    BY <1>2, <2>1, <2>3 DEF SerialInv
  <2>5. QH!ChangeDraft
    BY <2>1 DEF QH!ChangeDraft
  <2> QED
    BY <1>0, <1>2, <2>1, <2>4, <2>5 DEF QH!Next
<1>3. ASSUME NEW op \in Ops, ReadQuestion(r, op)
      PROVE  SerialInv' /\ UNCHANGED <<versions, current, published, pinned>>
  <2>1. UNCHANGED <<versions, current, published, pinned>> /\ \A q \in Requests : ~Active(q)
    BY <1>3 DEF ReadQuestion, rows
  <2>2. PICK e : /\ req' = [req EXCEPT ![r] = e]
                 /\ e.pc = "question" /\ e.cur = current /\ e.pub = published
    <3> DEFINE E(ord, victim) == [pc |-> "question", op |-> op, cur |-> current,
                   pub |-> published, row |-> None, ord |-> ord, victim |-> victim]
    <3>1. PICK ord, victim : req' = [req EXCEPT ![r] = E(ord, victim)]
      BY <1>3 DEF ReadQuestion
    <3>2. /\ E(ord, victim).pc = "question" /\ E(ord, victim).cur = current
          /\ E(ord, victim).pub = published
      OBVIOUS
    <3> HIDE DEF E
    <3> QED
      BY <3>1, <3>2
  <2> QED
    BY <1>0, <2>1, <2>2 DEF SerialInv, Active
<1>4. ASSUME FindCase(r) \/ PickOrdinal(r)
      PROVE  SerialInv' /\ UNCHANGED <<versions, current, published, pinned>>
  <2>1. UNCHANGED <<versions, current, published, pinned>> /\ Active(r)
    BY <1>4 DEF FindCase, PickOrdinal, rows, Active
  <2>2. PICK o \in Ordinals, pc \in {"case", "ordinal"} :
           /\ req' = [req EXCEPT ![r].pc = pc, ![r].ord = o]
           /\ pc = "ordinal" => req[r].pc = "version"
    BY <1>4 DEF FindCase, PickOrdinal
  <2> QED
    BY <1>0, <2>1, <2>2 DEF SerialInv, Active
<1>5. ASSUME LoadVersion(r)
      PROVE  SerialInv' /\ UNCHANGED <<versions, current, published, pinned>>
  <2>1. /\ UNCHANGED <<versions, current, published, pinned>> /\ Active(r)
        /\ req' = [req EXCEPT ![r].pc = "version", ![r].row = versions[req[r].cur]]
    BY <1>5 DEF LoadVersion, rows, Active
  <2> QED
    BY <1>0, <2>1 DEF SerialInv, Active
<1>6. ASSUME Fails(r)
      PROVE  SerialInv' /\ UNCHANGED <<versions, current, published, pinned>>
  <2>1. Ended(r, "failed") /\ UNCHANGED <<versions, current, published, pinned>>
    BY <1>6 DEF Fails, rows
  <2>2. \A q \in Requests : q # r => req'[q] = req[q]
    BY <2>1, EndedType
  <2>3. req'[r].pc = "failed"
    BY <2>1, EndedType
  <2> QED
    BY <1>0, <2>1, <2>2, <2>3 DEF SerialInv, Active
<1>7. CASE CommitEdit(r) \/ CommitAdd(r) \/ CommitDelete(r)
  BY <1>2, <1>7, CommitShape
<1>8. CASE CommitPublish(r)
  <2>1. /\ Ended(r, "done") /\ UNCHANGED <<versions, current, pinned>>
        /\ Active(r) /\ published' = current
    BY <1>8 DEF CommitPublish, Active, SerialInv
  <2>2. \A q \in Requests : ~(Active(q)')
    BY <2>1, EndedType DEF SerialInv, Active
  <2>3. SerialInv'
    BY <1>0, <2>1, <2>2 DEF SerialInv
  <2>4. CASE current = published
    BY <1>0, <2>1, <2>3, <2>4 DEF sealedBar, draftBar
  <2>5. CASE current = published + 1
    <3>1. draftBar = versions[current] /\ draftBar' = None
      BY <1>0, <2>1, <2>5 DEF draftBar
    <3>2. versions[current] # None
      BY <1>0, ElementOfSeq, QuestionAssumption
    <3>3. sealedBar' = Append(sealedBar, versions[current])
      BY <1>0, <2>1, <2>5 DEF sealedBar
    <3>4. QH!Seal
      BY <3>1, <3>2, <3>3 DEF QH!Seal
    <3> QED
      BY <1>0, <2>1, <2>3, <3>4 DEF QH!Next
  <2> QED
    BY <1>0, <2>4, <2>5
<1> QED
  BY <1>1, <1>3, <1>4, <1>5, <1>6, <1>7, <1>8 DEF RequestStep

\* Every step, of whoever, is a step of the history or leaves it alone.
LEMMA SerialNext ==
  ASSUME ~Concurrent, IInv, SerialInv, [Next]_vars
  PROVE  /\ SerialInv'
         /\ [QH!Next]_<<sealedBar, draftBar>>
         /\ \A n \in 1..published : versions'[n] = versions[n]
         /\ published <= published'
         /\ pinned' # pinned => PinVersion
<1>0. published \in Nat
  BY DEF IInv, TypeOK
<1>1. ASSUME NEW r \in Requests, RequestStep(r)
      PROVE  /\ SerialInv'
             /\ [QH!Next]_<<sealedBar, draftBar>>
             /\ \A n \in 1..published : versions'[n] = versions[n]
             /\ published <= published' /\ pinned' = pinned
  BY <1>1, SerialStep
<1>2. CASE PinVersion \/ UNCHANGED vars
  <2>1. UNCHANGED <<versions, current, published, req>>
    BY <1>2 DEF PinVersion, rows, vars
  <2>2. SerialInv' /\ UNCHANGED <<sealedBar, draftBar>>
    BY <2>1 DEF SerialInv, Active, sealedBar, draftBar
  <2>3. pinned' # pinned => PinVersion
    BY <1>2 DEF vars
  <2> QED
    BY <1>0, <2>1, <2>2, <2>3
<1> QED
  BY <1>1, <1>2 DEF Next, AllEnded

\* A new question has nothing sealed, nobody at work and an empty working copy.
LEMMA InitSerial == Init => SerialInv /\ QH!Init
<1> SUFFICES ASSUME Init PROVE SerialInv /\ QH!Init
  OBVIOUS
<1>1. SerialInv
  BY DEF Init, SerialInv, Active, Blank
<1>2. sealedBar = << >>
  BY DEF Init, sealedBar
<1>3. draftBar \in Content
  BY QuestionAssumption DEF Init, draftBar, Content
<1> QED
  BY <1>1, <1>2, <1>3 DEF QH!Init

\* Requests that do not overlap implement an append-only history of sealed
\* versions with one working copy in front of it (questions.py, test_cases.py).
THEOREM ImplementsHistory == ASSUME ~Concurrent PROVE Spec => KeepsHistory
<1>1. Init => IInv /\ SerialInv /\ QH!Init
  BY InitInv, InitSerial
<1>2. IInv /\ SerialInv /\ [Next]_vars
         => IInv' /\ SerialInv' /\ [QH!Next]_<<sealedBar, draftBar>>
  BY NextInv, SerialNext
<1> QED
  BY <1>1, <1>2, PTL DEF Spec, KeepsHistory, QH!Spec

-----------------------------------------------------------------------------
(* What sessions were given. *)

\* A commit writes at most one of the versions there are: the one the request
\* read as current, which it had not found published.
LEMMA WritesItsTarget ==
  ASSUME IInv, NEW r \in Requests, NEW v \in Content, Active(r), Write(r, v),
         NEW n \in 1..current, versions'[n] # versions[n]
  PROVE  req[r].cur = n /\ req[r].pub < n
<1>0. /\ versions \in Seq(Content) /\ current = Len(versions) /\ req[r].cur \in 1..current
      /\ req[r].pub <= req[r].cur /\ req[r].pub \in Nat /\ current \in Nat
  BY DEF IInv, TypeOK, CurrentIsLatest, ReadInv, Request
<1>1. CASE Forks(r)
  <2>1. versions' = Append(versions, v)
    BY <1>1 DEF Write
  <2> QED
    BY <1>0, <2>1, AppendProperties
<1>2. CASE ~Forks(r)
  <2>1. versions' = [versions EXCEPT ![req[r].cur] = v] /\ req[r].cur # req[r].pub
    BY <1>2 DEF Write, Forks
  <2>2. versions'[n] = versions[n] \/ n = req[r].cur
    BY <1>0, <2>1
  <2> QED
    BY <1>0, <2>1, <2>2
<1> QED
  BY <1>1, <1>2

\* A step writes the version of a session only for a request that commits.
LEMMA ChangesByCommit ==
  ASSUME IInv, [Next]_vars, NEW n \in 1..current, versions'[n] # versions[n]
  PROVE  \E r \in Requests : /\ Active(r) /\ req'[r].pc = "done"
                              /\ req[r].cur = n /\ req[r].pub < n
<1>1. PICK r \in Requests : CommitEdit(r) \/ CommitAdd(r) \/ CommitDelete(r)
  <2>1. versions' # versions
    OBVIOUS
  <2> QED
    BY <2>1 DEF Next, RequestStep, ReadQuestion, FindCase, LoadVersion, PickOrdinal,
         CommitPublish, Fails, PinVersion, AllEnded, rows, vars
<1>2. PICK v \in Content : /\ Active(r) /\ Write(r, v)
                           /\ Ended(r, "done") /\ UNCHANGED <<published, pinned>>
  BY <1>1, CommitShape
<1> QED
  BY <1>2, WritesItsTarget, EndedType

\* Sessions refer to versions there are; one at a time, to published ones, or
\* to the first draft.
PinInv ==
  /\ pinned \subseteq 1..current
  /\ ~Concurrent => \A n \in pinned : n <= published \/ (PinsDrafts /\ n = 1)

LEMMA CurrentGrows ==
  ASSUME IInv, [Next]_vars
  PROVE  current' \in Nat /\ current <= current'
<1>0. current \in Nat
  BY DEF IInv, TypeOK
<1>1. CASE \E r \in Requests : CommitEdit(r) \/ CommitAdd(r) \/ CommitDelete(r)
  BY <1>1, CommitShape, WriteKeepsList, LenProperties
<1>2. CASE ~\E r \in Requests : CommitEdit(r) \/ CommitAdd(r) \/ CommitDelete(r)
  <2>1. current' = current
    BY <1>2 DEF Next, RequestStep, ReadQuestion, FindCase, LoadVersion, PickOrdinal,
         CommitPublish, Fails, PinVersion, AllEnded, rows, vars
  <2> QED
    BY <1>0, <2>1
<1> QED
  BY <1>1, <1>2

LEMMA PinsKept ==
  ASSUME IInv, ~Concurrent => SerialInv, PinInv, [Next]_vars
  PROVE  PinInv'
<1>0. published \in Nat /\ current \in Nat /\ published <= current /\ 1 <= current
  BY DEF IInv, TypeOK, CurrentIsLatest
<1>1. current' \in Nat /\ current <= current'
  BY CurrentGrows
<1>2. ~Concurrent => published' \in Nat /\ published <= published'
  BY NextInv, SerialNext DEF IInv, TypeOK
<1>3. CASE PinVersion
  <2>1. \/ pinned' = pinned \cup {published} /\ published # 0
        \/ pinned' = pinned \cup {1} /\ PinsDrafts
    BY <1>3 DEF PinVersion
  <2>2. published' = published
    BY <1>3 DEF PinVersion, rows
  <2>3. ASSUME NEW n \in pinned'
        PROVE  n \in 1..current /\ (~Concurrent => n <= published \/ (PinsDrafts /\ n = 1))
    <3>1. n \in pinned \/ (n = published /\ published # 0) \/ (n = 1 /\ PinsDrafts)
      BY <2>1, <2>3
    <3>2. CASE n \in pinned
      BY <3>2 DEF PinInv
    <3>3. CASE n = published /\ published # 0
      <4>1. n \in 1..current /\ n <= published
        BY <1>0, <3>3
      <4> QED
        BY <4>1
    <3>4. CASE n = 1 /\ PinsDrafts
      BY <1>0, <3>4
    <3> QED
      BY <3>1, <3>2, <3>3, <3>4
  <2> QED
    BY <1>0, <1>1, <2>2, <2>3 DEF PinInv
<1>4. CASE ~PinVersion
  <2>1. pinned' = pinned
    BY <1>4 DEF Next, RequestStep, ReadQuestion, FindCase, LoadVersion, PickOrdinal, CommitEdit,
         CommitAdd, CommitDelete, CommitPublish, Fails, AllEnded, rows, vars
  <2>2. \A n \in pinned : n \in 1..current
    BY DEF PinInv
  <2> QED
    BY <1>0, <1>1, <1>2, <2>1, <2>2 DEF PinInv
<1> QED
  BY <1>3, <1>4

\* A version that a session was given is written only by a request that read it
\* as the working copy and did not find it published, and one request at a time
\* writes nothing but a draft that is pinned before the first publication
\* (ensure_mutable_version).
THEOREM PinnedFrozen == Spec => PinnedIsFrozen
<1> DEFINE Inv == IInv /\ (~Concurrent => SerialInv) /\ PinInv
           Frozen == \A n \in pinned : versions'[n] # versions[n] =>
             /\ \E r \in Requests : /\ Active(r) /\ req'[r].pc = "done"
                                    /\ req[r].cur = n /\ req[r].pub < n
             /\ Concurrent \/ (PinsDrafts /\ published = 0)
<1>1. Init => Inv
  <2>1. Init => PinInv
    BY DEF Init, PinInv
  <2> QED
    BY <2>1, InitInv, InitSerial
<1>2. Inv /\ [Next]_vars => Inv'
  <2> SUFFICES ASSUME Inv, [Next]_vars PROVE Inv'
    OBVIOUS
  <2>1. IInv'
    BY NextInv
  <2>2. ~Concurrent => SerialInv'
    BY SerialNext
  <2>3. PinInv'
    BY PinsKept
  <2> QED
    BY <2>1, <2>2, <2>3
<1>3. Inv /\ [Next]_vars => Frozen
  <2> SUFFICES ASSUME Inv, [Next]_vars, NEW n \in pinned, versions'[n] # versions[n]
               PROVE  /\ \E r \in Requests : /\ Active(r) /\ req'[r].pc = "done"
                                             /\ req[r].cur = n /\ req[r].pub < n
                      /\ Concurrent \/ (PinsDrafts /\ published = 0)
    OBVIOUS
  <2>0. published \in Nat /\ n \in 1..current /\ current \in Nat
    BY DEF IInv, TypeOK, PinInv
  <2>1. PICK r \in Requests : /\ Active(r) /\ req'[r].pc = "done"
                              /\ req[r].cur = n /\ req[r].pub < n
    BY <2>0, ChangesByCommit
  <2>2. ASSUME ~Concurrent PROVE PinsDrafts /\ published = 0
    <3>1. req[r].pub = published
      BY <2>1, <2>2 DEF SerialInv
    <3>2. PinsDrafts /\ n = 1
      BY <2>0, <2>1, <2>2, <3>1 DEF PinInv
    <3> QED
      BY <2>0, <2>1, <3>1, <3>2
  <2> QED
    BY <2>1, <2>2
<1>4. Init /\ [][Next]_vars => [][Frozen]_vars
  BY <1>1, <1>2, <1>3, PTL
<1> QED
  BY <1>4 DEF Spec, PinnedIsFrozen

-----------------------------------------------------------------------------
(* What was added stays. *)

Copied(r)  == \E o \in Ordinals : versions[current].cases[o] = r
Removed(r) == \E d \in Requests : /\ req[d].pc = "done" /\ req[d].op = "delete"
                                  /\ req[d].victim[2] = r

\* a delete that has found its test case names what is at the ordinal it found
Finds(r) ==
  /\ req[r].pc \in {"case", "version"} /\ req[r].op = "delete" =>
       versions[current].cases[req[r].ord] = req[r].victim[2]
  /\ req[r].pc = "ordinal" => req[r].op = "add"

KeptInv ==
  \A r \in Requests : /\ Finds(r)
                      /\ req[r].pc = "done" /\ req[r].op = "add" => Copied(r) \/ Removed(r)

\* nobody forgets a request that is done
DoneStays ==
  \A q \in Requests : req[q].pc = "done" => req'[q] = req[q]

LEMMA RemovedStays ==
  ASSUME DoneStays, NEW r \in Requests, Removed(r)
  PROVE  Removed(r)'
BY DEF DoneStays, Removed

\* a step that only moves one request on
LEMMA KeptReads ==
  ASSUME IInv, KeptInv, NEW r \in Requests, UNCHANGED <<versions, current>>,
         \A q \in Requests : q # r => req'[q] = req[q],
         req[r].pc # "done", req'[r].pc = "done" => req'[r].op # "add", Finds(r)'
  PROVE  KeptInv'
<1>1. DoneStays
  BY DEF DoneStays
<1>2. ASSUME NEW q \in Requests
      PROVE  Finds(q)'
  BY DEF KeptInv, Finds
<1>3. ASSUME NEW q \in Requests, req'[q].pc = "done", req'[q].op = "add"
      PROVE  (Copied(q) \/ Removed(q))'
  <2>1. req[q].pc = "done" /\ req[q].op = "add"
    BY <1>3
  <2>2. Copied(q) => Copied(q)'
    BY DEF Copied
  <2> QED
    BY <1>1, <2>1, <2>2, RemovedStays DEF KeptInv
<1> QED
  BY <1>2, <1>3 DEF KeptInv

\* a commit that is alone leaves every other request's test case where it is,
\* except one that it names as deleted
LEMMA KeptWrites ==
  ASSUME IInv, SerialInv, KeptInv, NEW r \in Requests, Active(r), Ended(r, "done"),
         req[r].op = "add" => Copied(r)',
         \A q \in Requests \ {r} : Copied(q) => Copied(q)' \/ Removed(q)'
  PROVE  KeptInv'
<1>1. /\ \A q \in Requests : q # r => req'[q] = req[q]
      /\ req'[r].pc = "done" /\ req'[r].op = req[r].op
  BY EndedType
<1>2. DoneStays
  BY <1>1 DEF DoneStays, Active
<1>3. ASSUME NEW q \in Requests
      PROVE  Finds(q)'
  <2>1. req'[q].pc \notin {"case", "version", "ordinal"}
    BY <1>1 DEF SerialInv, Active
  <2> QED
    BY <2>1 DEF Finds
<1>4. ASSUME NEW q \in Requests, req'[q].pc = "done", req'[q].op = "add"
      PROVE  Copied(q)' \/ Removed(q)'
  <2>1. CASE q = r
    BY <1>1, <1>4, <2>1
  <2>2. CASE q # r
    <3>1. req[q].pc = "done" /\ req[q].op = "add"
      BY <1>1, <1>4, <2>2
    <3>2. Copied(q) \/ Removed(q)
      BY <3>1 DEF KeptInv
    <3> QED
      BY <1>2, <2>2, <3>2, RemovedStays
  <2> QED
    BY <2>1, <2>2
<1> QED
  BY <1>3, <1>4 DEF KeptInv

LEMMA KeptStep ==
  ASSUME ~Concurrent, IInv, SerialInv, KeptInv, NEW r \in Requests, RequestStep(r)
  PROVE  KeptInv'
<1>0. /\ req \in [Requests -> Request] /\ versions \in Seq(Content)
      /\ current = Len(versions) /\ 1 <= current /\ current \in Nat
      /\ versions[current] \in Content /\ Finds(r)
  BY ElementOfSeq DEF IInv, TypeOK, CurrentIsLatest, KeptInv
<1>1. ASSUME NEW op \in Ops, ReadQuestion(r, op)
      PROVE  KeptInv'
  <2>1. PICK ord, victim :
           req' = [req EXCEPT ![r] = [pc |-> "question", op |-> op, cur |-> current,
                    pub |-> published, row |-> None, ord |-> ord, victim |-> victim]]
    BY <1>1 DEF ReadQuestion
  <2>2. req'[r].pc = "question" /\ \A q \in Requests : q # r => req'[q] = req[q]
    BY <1>0, <2>1
  <2>3. req[r].pc # "done" /\ UNCHANGED <<versions, current>>
    BY <1>1 DEF ReadQuestion, rows
  <2> QED
    BY <2>2, <2>3, KeptReads DEF Finds
<1>2. ASSUME FindCase(r)
      PROVE  KeptInv'
  <2>1. PICK o \in Ordinals : /\ versions[req[r].cur].cases[o] = req[r].victim[2]
                              /\ req' = [req EXCEPT ![r].pc = "case", ![r].ord = o]
    BY <1>2 DEF FindCase
  <2>2. /\ req'[r].pc = "case" /\ req'[r].ord = o /\ req'[r].victim = req[r].victim
        /\ \A q \in Requests : q # r => req'[q] = req[q]
    BY <1>0, <2>1 DEF Request
  <2>3. req[r].pc # "done" /\ UNCHANGED <<versions, current>> /\ req[r].cur = current
    BY <1>2 DEF FindCase, rows, SerialInv, Active
  <2> QED
    BY <2>1, <2>2, <2>3, KeptReads DEF Finds
<1>3. ASSUME LoadVersion(r)
      PROVE  KeptInv'
  <2>1. req' = [req EXCEPT ![r].pc = "version", ![r].row = versions[req[r].cur]]
    BY <1>3 DEF LoadVersion
  <2>2. /\ req'[r].pc = "version" /\ req'[r].ord = req[r].ord /\ req'[r].victim = req[r].victim
        /\ req'[r].op = req[r].op /\ \A q \in Requests : q # r => req'[q] = req[q]
    BY <1>0, <2>1 DEF Request
  <2>3. req[r].pc # "done" /\ UNCHANGED <<versions, current>>
    BY <1>3 DEF LoadVersion, rows
  <2>4. Finds(r)'
    BY <1>0, <1>3, <2>2, <2>3 DEF Finds, LoadVersion
  <2> QED
    BY <2>2, <2>3, <2>4, KeptReads
<1>4. ASSUME PickOrdinal(r)
      PROVE  KeptInv'
  <2>1. PICK o \in Ordinals : req' = [req EXCEPT ![r].pc = "ordinal", ![r].ord = o]
    BY <1>4 DEF PickOrdinal
  <2>2. /\ req'[r].pc = "ordinal" /\ req'[r].op = req[r].op
        /\ \A q \in Requests : q # r => req'[q] = req[q]
    BY <1>0, <2>1 DEF Request
  <2>3. req[r].pc # "done" /\ req[r].op = "add" /\ UNCHANGED <<versions, current>>
    BY <1>4 DEF PickOrdinal, rows
  <2> QED
    BY <2>2, <2>3, KeptReads DEF Finds
<1>5. ASSUME Fails(r)
      PROVE  KeptInv'
  <2>1. req'[r].pc = "failed" /\ \A q \in Requests : q # r => req'[q] = req[q]
    BY <1>5, EndedType DEF Fails
  <2> QED
    BY <1>5, <2>1, KeptReads DEF Fails, Finds, rows, Active
<1>6. ASSUME CommitPublish(r)
      PROVE  KeptInv'
  <2>1. /\ req'[r].pc = "done" /\ req'[r].op = req[r].op
        /\ \A q \in Requests : q # r => req'[q] = req[q]
    BY <1>6, EndedType DEF CommitPublish
  <2> QED
    BY <1>6, <2>1, KeptReads DEF CommitPublish, Finds
<1>7. ASSUME req[r].pc \in {"version", "ordinal"}
      PROVE  Active(r) /\ Target(r) = versions[current] /\ Target(r) \in Content
  BY <1>0, <1>7 DEF Active, SerialInv, Target
<1>8. ASSUME CommitEdit(r)
      PROVE  KeptInv'
  <2> DEFINE v == [Target(r) EXCEPT !.text = r]
  <2>1. v \in Content /\ v.cases = versions[current].cases /\ Active(r)
    BY <1>7, <1>8 DEF CommitEdit, Content
  <2>2. Write(r, v) /\ published' = published /\ Ended(r, "done") /\ req[r].op = "edit"
    BY <1>8 DEF CommitEdit
  <2> HIDE DEF v
  <2>3. versions'[current'] = v
    BY <2>1, <2>2, WriteSerial
  <2>4. \A q : Copied(q) => Copied(q)'
    BY <2>1, <2>3 DEF Copied
  <2> QED
    BY <2>1, <2>2, <2>4, KeptWrites
<1>9. ASSUME CommitAdd(r)
      PROVE  KeptInv'
  <2> DEFINE o == req[r].ord
             v == [Target(r) EXCEPT !.cases[o] = r]
  <2>0. o \in Ordinals /\ Active(r) /\ Target(r) = versions[current] /\ Target(r) \in Content
        /\ Target(r).cases[o] = None
    BY <1>7, <1>9 DEF CommitAdd, IInv, ReadInv
  <2>1. /\ v \in Content /\ v.cases[o] = r
        /\ \A p \in Ordinals \ {o} : v.cases[p] = versions[current].cases[p]
    BY <2>0 DEF Content
  <2>2. Write(r, v) /\ published' = published /\ Ended(r, "done")
    BY <1>9 DEF CommitAdd
  <2> HIDE DEF v
  <2>3. versions'[current'] = v
    BY <2>0, <2>1, <2>2, WriteSerial
  <2>4. \A q \in Requests : Copied(q) => Copied(q)'
    BY <2>0, <2>1, <2>3, QuestionAssumption DEF Copied
  <2>5. Copied(r)'
    BY <2>0, <2>1, <2>3 DEF Copied
  <2> QED
    BY <2>0, <2>2, <2>4, <2>5, KeptWrites
<1>10. ASSUME CommitDelete(r)
       PROVE  KeptInv'
  <2> DEFINE o == req[r].ord
             v == [Target(r) EXCEPT !.cases[o] = None]
  <2>0. /\ o \in Ordinals /\ Active(r) /\ Target(r) = versions[current] /\ Target(r) \in Content
        /\ Target(r).cases[o] = req[r].victim[2] /\ req[r].op = "delete"
    BY <1>0, <1>7, <1>10 DEF CommitDelete, IInv, ReadInv, Finds
  <2>1. /\ v \in Content
        /\ \A p \in Ordinals \ {o} : v.cases[p] = versions[current].cases[p]
    BY <2>0 DEF Content
  <2>2. Write(r, v) /\ published' = published /\ Ended(r, "done")
    BY <1>10, <2>0 DEF CommitDelete
  <2> HIDE DEF v
  <2>3. versions'[current'] = v
    BY <2>0, <2>1, <2>2, WriteSerial
  <2>4. req'[r].pc = "done" /\ req'[r].op = "delete" /\ req'[r].victim = req[r].victim
    BY <2>0, <2>2, EndedType
  <2>5. ASSUME NEW q \in Requests, Copied(q)
        PROVE  Copied(q)' \/ Removed(q)'
    <3>1. PICK p \in Ordinals : versions[current].cases[p] = q
      BY <2>5 DEF Copied
    <3>2. CASE p = o
      BY <2>0, <2>4, <3>1, <3>2 DEF Removed
    <3>3. CASE p # o
      BY <2>1, <2>3, <3>1, <3>3 DEF Copied
    <3> QED
      BY <3>2, <3>3
  <2> QED
    BY <2>0, <2>2, <2>5, KeptWrites
<1> QED
  BY <1>1, <1>2, <1>3, <1>4, <1>5, <1>6, <1>8, <1>9, <1>10 DEF RequestStep

\* If requests do not overlap, a test case whose upload was acknowledged is in
\* the current version, however often it was copied, until a delete names it.
THEOREM AddedCasesAreKept == ASSUME ~Concurrent PROVE Spec => []AddedCasesSurvive
<1>1. Init => IInv /\ SerialInv /\ KeptInv
  <2>1. Init => KeptInv
    <3>1. Blank("idle", None, None).pc = "idle"
      BY DEF Blank
    <3>2. Init => \A r \in Requests : req[r].pc = "idle"
      BY <3>1 DEF Init
    <3> QED
      BY <3>2 DEF KeptInv, Finds
  <2> QED
    BY <2>1, InitInv, InitSerial
<1>2. IInv /\ SerialInv /\ KeptInv /\ [Next]_vars => IInv' /\ SerialInv' /\ KeptInv'
  <2> SUFFICES ASSUME IInv, SerialInv, KeptInv, [Next]_vars
               PROVE  KeptInv'
    BY NextInv, SerialNext
  <2>1. CASE \E r \in Requests : RequestStep(r)
    BY <2>1, KeptStep
  <2>2. CASE UNCHANGED <<rows, req>>
    BY <2>2 DEF rows, KeptInv, Finds, Copied, Removed
  <2>3. CASE UNCHANGED vars
    BY <2>2, <2>3 DEF vars
  <2> QED
    BY <2>1, <2>2, <2>3 DEF Next, PinVersion, AllEnded
<1>3. KeptInv => AddedCasesSurvive
  BY DEF KeptInv, AddedCasesSurvive, Copied, Removed
<1> QED
  BY <1>1, <1>2, <1>3, PTL DEF Spec
=============================================================================
