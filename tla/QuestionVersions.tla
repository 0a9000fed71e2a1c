-------------------------- MODULE QuestionVersions --------------------------
(***************************************************************************)
(* The versions of one question, edited copy-on-write by the requests of   *)
(* the question service.  A request is one database transaction at READ    *)
(* COMMITTED: each of its reads sees what is committed at that moment, all *)
(* its writes become visible with its commit.  No row is locked, so what a *)
(* request read may be outdated when it writes.                            *)
(***************************************************************************)
EXTENDS Naturals, Sequences

CONSTANTS
  Requests,      \* requests, each made at most once; also the values they write
  None,          \* absent value
  MaxOrdinal,    \* bound: test case ordinals are 1..MaxOrdinal
  Concurrent,    \* whether requests overlap in time
  PinsDrafts     \* whether profile-driven exams pin generated drafts

Ordinals == 1..MaxOrdinal

\* the content columns by their last writer, a test case by the request whose
\* upload its keys name
Content == [text : Requests \cup {None}, cases : [Ordinals -> Requests \cup {None}]]

ASSUME QuestionAssumption ==
  /\ None \notin Requests /\ None \notin Content
  /\ MaxOrdinal \in Nat
  /\ Concurrent \in BOOLEAN /\ PinsDrafts \in BOOLEAN

VARIABLES
  versions,      \* versions[n]: the row with version_number n
  current,       \* questions.current_version_id, as a version number
  published,     \* questions.published_version_id, 0 when null
  pinned,        \* version numbers that session_questions rows refer to
  req            \* progress of each request

rows == <<versions, current, published>>
vars == <<rows, pinned, req>>

-----------------------------------------------------------------------------
Ops == {"edit", "add", "delete", "publish"}

\* cur, pub: the question row as read; row: the version row and its test
\* cases as copied; ord: an ordinal, 0 when not (yet) chosen; victim: the test
\* case <<version, upload>> to delete
Blank(pc, op, victim) == [pc |-> pc, op |-> op, cur |-> 0, pub |-> 0, row |-> None,
                          ord |-> 0, victim |-> victim]

Ended(r, pc) == req' = [req EXCEPT ![r] = Blank(pc, req[r].op, req[r].victim)]
Active(r) == req[r].pc \notin {"idle", "done", "failed"}

\* the test case rows there are, by version and upload
TestCases == {tc \in (1..Len(versions)) \X Requests :
                \E o \in Ordinals : versions[tc[1]].cases[o] = tc[2]}

\* faulty variants: the current version is edited in place, published or not;
\* the copy leaves the test cases behind
ForksNever(r) == FALSE

\* the request found the current version published: it works on a copy
Forks(r) == req[r].cur = req[r].pub

TargetWithoutCases(r) ==
  IF Forks(r) THEN [req[r].row EXCEPT !.cases = [o \in Ordinals |-> None]]
              ELSE versions[req[r].cur]

\* the version this request writes to, as it stands in its transaction
Target(r) == IF Forks(r) THEN req[r].row ELSE versions[req[r].cur]

\* faulty variant: no unique key on version numbers
WriteNoUniqueKey(r, v) ==
  IF Forks(r) THEN /\ versions' = Append(versions, v)
                   /\ current'  = req[r].cur + 1
  ELSE versions' = [versions EXCEPT ![req[r].cur] = v] /\ UNCHANGED current

\* the transaction commits v: a copy takes the next version number, which the
\* unique key (question, version_number) grants to one copy only
Write(r, v) ==
  IF Forks(r) THEN /\ Len(versions) = req[r].cur
                   /\ versions' = Append(versions, v)
                   /\ current'  = req[r].cur + 1
  ELSE versions' = [versions EXCEPT ![req[r].cur] = v] /\ UNCHANGED current

\* create_question: one version, not published
Init ==
  /\ versions  = << [text |-> None, cases |-> [o \in Ordinals |-> None]] >>
  /\ current   = 1
  /\ published = 0
  /\ pinned    = {}
  /\ req       = [r \in Requests |-> Blank("idle", None, None)]

-----------------------------------------------------------------------------
(* Faulty variants of two steps below: one ordinal too far; the row found  *)
(* before the copy was made is deleted instead of its copy.                *)

PickOrdinalSkips(r) ==
  /\ req[r].pc = "version" /\ req[r].op = "add"
  /\ \E o \in Ordinals :
        /\ Target(r).cases[o] = None
        /\ req' = [req EXCEPT ![r].pc = "ordinal", ![r].ord = o + 1]
  /\ UNCHANGED <<rows, pinned>>

CommitDeleteOriginal(r) ==
  /\ req[r].pc = "version" /\ req[r].op = "delete"
  /\ LET gone == [versions EXCEPT ![req[r].cur].cases[req[r].ord] = None]
     IN  IF Forks(r) THEN versions' = Append(gone, req[r].row) /\ current' = req[r].cur + 1
                     ELSE versions' = gone /\ UNCHANGED current
  /\ Ended(r, "done")
  /\ UNCHANGED <<published, pinned>>

-----------------------------------------------------------------------------
(* The steps of a request.  A publish of what is published already is      *)
(* refused at once and leaves nothing behind.                              *)

ReadQuestion(r, op) ==
  /\ req[r].pc = "idle"
  /\ Concurrent \/ \A q \in Requests : ~Active(q)
  /\ op = "publish" => current # published
  /\ \E ord \in (IF op = "add" THEN 0..MaxOrdinal ELSE {0}),
        victim \in (IF op = "delete" THEN TestCases ELSE {None}) :
        req' = [req EXCEPT ![r] = [pc |-> "question", op |-> op, cur |-> current,
                 pub |-> published, row |-> None, ord |-> ord, victim |-> victim]]
  /\ UNCHANGED <<rows, pinned>>

\* the test case to delete must be one of the current version
FindCase(r) ==
  /\ req[r].pc = "question" /\ req[r].op = "delete"
  /\ req[r].victim[1] = req[r].cur
  /\ \E o \in Ordinals :
        /\ versions[req[r].cur].cases[o] = req[r].victim[2]
        /\ req' = [req EXCEPT ![r].pc = "case", ![r].ord = o]
  /\ UNCHANGED <<rows, pinned>>

\* ensure_mutable_version: the current version, and its test cases to copy
LoadVersion(r) ==
  /\ \/ req[r].pc = "question" /\ req[r].op \in {"edit", "add"}
     \/ req[r].pc = "case"
  /\ req' = [req EXCEPT ![r].pc = "version", ![r].row = versions[req[r].cur]]
  /\ UNCHANGED <<rows, pinned>>

\* the wanted ordinal must be free; otherwise the next after the last one
PickOrdinal(r) ==
  /\ req[r].pc = "version" /\ req[r].op = "add"
  /\ \E o \in Ordinals :
        /\ Target(r).cases[o] = None
        /\ IF req[r].ord = 0
           THEN /\ \A p \in Ordinals : Target(r).cases[p] # None => p < o
                /\ o > 1 => Target(r).cases[o - 1] # None
           ELSE o = req[r].ord
        /\ req' = [req EXCEPT ![r].pc = "ordinal", ![r].ord = o]
  /\ UNCHANGED <<rows, pinned>>

CommitEdit(r) ==
  /\ req[r].pc = "version" /\ req[r].op = "edit"
  /\ Write(r, [Target(r) EXCEPT !.text = r])
  /\ Ended(r, "done")
  /\ UNCHANGED <<published, pinned>>

\* the unique key (version, ordinal) refuses an ordinal taken meanwhile
CommitAdd(r) ==
  LET o == req[r].ord
  IN  /\ req[r].pc = "ordinal"
      /\ Target(r).cases[o] = None
      /\ Write(r, [Target(r) EXCEPT !.cases[o] = r])
      /\ Ended(r, "done")
      /\ UNCHANGED <<published, pinned>>

\* a copy is found by its ordinal and must exist; a row is deleted by its id
CommitDelete(r) ==
  LET o == req[r].ord
      v == Target(r)
  IN  /\ req[r].pc = "version" /\ req[r].op = "delete"
      /\ Forks(r) => v.cases[o] # None
      /\ Write(r, IF Forks(r) \/ v.cases[o] = req[r].victim[2]
                  THEN [v EXCEPT !.cases[o] = None] ELSE v)
      /\ Ended(r, "done")
      /\ UNCHANGED <<published, pinned>>

CommitPublish(r) ==
  /\ req[r].pc = "question" /\ req[r].op = "publish"
  /\ published' = req[r].cur
  /\ Ended(r, "done")
  /\ UNCHANGED <<versions, current, pinned>>

\* an error response, a refused insert or a lost connection: all rolled back
Fails(r) ==
  /\ Active(r)
  /\ Ended(r, "failed")
  /\ UNCHANGED <<rows, pinned>>

\* the exam service pins what is published to a session; a profile-driven
\* exam pins the version its generation job has created
PinVersion ==
  /\ \/ published # 0 /\ pinned' = pinned \cup {published}
     \/ PinsDrafts /\ pinned' = pinned \cup {1}
  /\ UNCHANGED <<rows, req>>

AllEnded == (\A r \in Requests : req[r].pc \in {"done", "failed"}) /\ UNCHANGED vars

RequestStep(r) ==
  \/ \E op \in Ops : ReadQuestion(r, op)
  \/ FindCase(r) \/ LoadVersion(r) \/ PickOrdinal(r)
  \/ CommitEdit(r) \/ CommitAdd(r) \/ CommitDelete(r) \/ CommitPublish(r)
  \/ Fails(r)

Next == (\E r \in Requests : RequestStep(r)) \/ PinVersion \/ AllEnded

Spec == Init /\ [][Next]_vars

-----------------------------------------------------------------------------
(* Properties *)

Victim  == (Nat \X Requests) \cup {None}
Request == [pc : {"idle", "question", "case", "version", "ordinal", "done", "failed"},
            op : Ops \cup {None}, cur : Nat, pub : Nat, row : Content \cup {None},
            ord : 0..MaxOrdinal, victim : Victim]

\* Types of the rows and of what a request has read.
TypeOK ==
  /\ versions  \in Seq(Content)
  /\ current   \in Nat
  /\ published \in Nat
  /\ pinned    \in SUBSET Nat
  /\ req       \in [Requests -> Request]

\* However requests overlap, there is one working copy: the current version
\* is the one with the highest number, and what is published is not ahead of
\* it (ensure_mutable_version, unique key on question and version_number).
CurrentIsLatest == current = Len(versions) /\ published <= current

\* "Rows referenced by questions.published_version_id must never be mutated"
\* (models/question_version.py).
PublishedIsFrozen ==
  [][published # 0 => versions'[published] = versions[published]]_vars

\* What a session was given stays what it was: grading binds to the version
\* pinned in session_questions.  Whoever writes a pinned version all the same
\* read it as the working copy and did not find it published; for requests that
\* follow each other that leaves the drafts which profile-driven exams pin, up
\* to the first publication, and otherwise a publication has come in between.
PinnedIsFrozen ==
  [][\A n \in pinned : versions'[n] # versions[n] =>
       /\ \E r \in Requests : /\ Active(r) /\ req'[r].pc = "done"
                              /\ req[r].cur = n /\ req[r].pub < n
       /\ Concurrent \/ (PinsDrafts /\ published = 0)]_vars

\* A test case whose upload was acknowledged is in the current version, copied
\* along as often as it takes, unless an acknowledged delete names it.
AddedCasesSurvive ==
  \A r \in Requests : req[r].pc = "done" /\ req[r].op = "add" =>
     \/ \E o \in Ordinals : versions[current].cases[o] = r
     \/ \E d \in Requests : /\ req[d].pc = "done" /\ req[d].op = "delete"
                            /\ req[d].victim[2] = r

(***************************************************************************)
(* The abstract view: the versions up to the published one are sealed, the *)
(* one after it is the working copy.                                       *)
(***************************************************************************)
sealedBar == SubSeq(versions, 1, published)
draftBar  == IF current = published THEN None ELSE versions[current]

QH == INSTANCE QuestionHistory WITH Contents <- Content, NoDraft <- None,
                                    sealed <- sealedBar, draft <- draftBar

\* One request at a time, the rows implement an append-only history of sealed
\* versions with one working copy in front.
KeepsHistory == QH!Spec
=============================================================================
