--------------------------- MODULE QuestionEditor ---------------------------
(***************************************************************************)
(* The page on which an examiner writes one question.  The form is seeded  *)
(* once, from the first data the page has, which may be what the query     *)
(* cache kept from an earlier visit; a save sends the whole form; a test   *)
(* case is a row first and two uploads to S3 afterwards.                   *)
(***************************************************************************)
EXTENDS Naturals, FiniteSets, Sequences

CONSTANTS
  Contents,  \* what a question can say
  NoText,    \* an empty form
  MaxRows,   \* bound on test cases
  MaxTyping  \* bound on the author's edits and those of others

ASSUME EditorAssumption == NoText \notin Contents /\ MaxRows \in Nat

VARIABLES
  question,  \* server: [text, published]; NoText before it is created
  cases,     \* server: the objects each test case of it has in S3
  page,      \* "away", "new" or "open"
  form, seeded,  \* the form, and whether it was filled from the question
  cached,    \* the text in the query cache, or NoText
  asking,    \* the request for the question: "none", "asked" or [text]
  save,      \* the save under way: [pc, text]
  upload,    \* the test case being added: its number, or 0
  unsaved,   \* what the author typed last and has not saved, or NoText
  broken,    \* test cases whose upload was given up
  early,     \* the author typed before the form was filled
  others,    \* the question was shown from an old copy or changed by someone else
  edits

editorVars == <<question, cases, page, form, seeded, cached, asking, save, upload,
                unsaved, broken, early, others, edits>>
bank  == <<question, cases, broken>>
shown == <<page, form, seeded, unsaved, early>>

Parts    == {"input", "output"}
Exists   == question.text # NoText
NoFetch  == [pc |-> "none", text |-> NoText]
NewFetch == [pc |-> "asked", text |-> NoText]
NoSave   == [pc |-> "none", text |-> NoText]

EditorInit ==
  /\ question = [text |-> NoText, published |-> FALSE] /\ cases = <<>>
  /\ page = "away" /\ form = NoText /\ seeded = FALSE
  /\ cached = NoText /\ asking = NoFetch /\ save = NoSave /\ upload = 0
  /\ unsaved = NoText /\ broken = {} /\ early = FALSE /\ others = FALSE /\ edits = 0

-----------------------------------------------------------------------------
\* the form takes the question's content
Fill(text) == form' = text /\ unsaved' = NoText /\ seeded' = TRUE
EmptyForm  == form' = NoText /\ unsaved' = NoText /\ seeded' = FALSE

OpenNew ==
  /\ page = "away" /\ ~Exists /\ page' = "new"
  /\ EmptyForm
  /\ UNCHANGED <<bank, cached, asking, save, upload, early, others, edits>>

\* data of an earlier visit is shown at once, and asked for again
Shows ==
  /\ page' = "open"
  /\ asking' = IF asking.pc = "none" THEN NewFetch ELSE asking
  /\ IF cached = NoText THEN EmptyForm ELSE Fill(cached)
  /\ others' = (others \/ cached \notin {NoText, question.text} \/ save # NoSave)

OpenQuestion ==
  /\ page = "away" /\ Exists /\ Shows
  /\ UNCHANGED <<bank, cached, save, upload, early, edits>>

\* what is under way goes on
Leave ==
  /\ page # "away" /\ page' = "away" /\ EmptyForm
  /\ UNCHANGED <<bank, early, cached, asking, save, upload, others, edits>>

EditForm(text) ==
  /\ page # "away" /\ text # form /\ edits < MaxTyping
  /\ form' = text /\ unsaved' = text /\ edits' = edits + 1
  /\ early' = (early \/ (~seeded /\ (page = "open" \/ save # NoSave)))
  /\ UNCHANGED <<bank, page, seeded, cached, asking, save, upload, others>>

-----------------------------------------------------------------------------
\* the form's required fields are filled; a question whose creation was not
\* answered is not this page's any more
HandleSave ==
  /\ page # "away" /\ form # NoText /\ save = NoSave /\ (page = "new" => ~Exists)
  /\ save' = [pc |-> IF page = "new" THEN "create" ELSE "update", text |-> form]
  /\ UNCHANGED <<bank, shown, cached, asking, upload, others, edits>>

ServerCreates ==
  /\ save.pc = "create" /\ save' = [save EXCEPT !.pc = "created"]
  /\ question' = [text |-> save.text, published |-> FALSE]
  /\ UNCHANGED <<cases, broken, shown, cached, asking, upload, others, edits>>

\* on the working copy: a published version is left as it is and copied with
\* its test cases
ServerUpdates ==
  /\ save.pc = "update" /\ save' = [save EXCEPT !.pc = "updated"]
  /\ question' = [text |-> save.text, published |-> FALSE]
  /\ UNCHANGED <<cases, broken, shown, cached, asking, upload, others, edits>>

\* the server refuses, or the answer does not arrive: an error is shown
SaveFails ==
  /\ save # NoSave /\ save' = NoSave
  /\ UNCHANGED <<bank, shown, cached, asking, upload, others, edits>>

\* invalidateQueries: asked again if the page shows it, but the first request
\* is left alone
Refetch ==
  asking' = IF page = "open" /\ (asking = NoFetch \/ cached # NoText) THEN NewFetch ELSE asking

Settles == save' = NoSave /\ unsaved' = IF unsaved = save.text THEN NoText ELSE unsaved

Saved ==
  /\ save.pc = "updated" /\ Settles /\ Refetch
  /\ UNCHANGED <<bank, page, form, seeded, early, cached, upload, others, edits>>

\* the new form becomes the question's page and keeps its text until the
\* question arrives
Created ==
  /\ save.pc = "created" /\ page = "new" /\ Settles
  /\ page' = "open" /\ asking' = NewFetch
  /\ UNCHANGED <<bank, form, seeded, early, cached, upload, others, edits>>

\* the author has gone elsewhere: the answer takes them to the question
CreatedMeanwhile ==
  /\ save.pc = "created" /\ page = "away" /\ save' = NoSave /\ Shows
  /\ UNCHANGED <<bank, early, cached, upload, edits>>

CreatedWhileShown ==
  /\ save.pc = "created" /\ page = "open" /\ save' = NoSave /\ Refetch
  /\ UNCHANGED <<bank, shown, cached, upload, others, edits>>

PublishQuestion ==
  /\ page = "open" /\ ~question.published
  /\ question' = [question EXCEPT !.published = TRUE] /\ Refetch
  /\ UNCHANGED <<cases, broken, shown, cached, save, upload, others, edits>>

\* another author's save, or a follow-up
OthersUpdate(text) ==
  /\ Exists /\ edits < MaxTyping /\ edits' = edits + 1
  /\ question' = [text |-> text, published |-> FALSE] /\ others' = TRUE
  /\ UNCHANGED <<cases, broken, shown, cached, asking, save, upload>>

-----------------------------------------------------------------------------
FetchReads ==
  /\ asking.pc = "asked" /\ asking' = [pc |-> "read", text |-> question.text]
  /\ UNCHANGED <<bank, shown, cached, save, upload, others, edits>>

Arrives == asking.pc = "read" /\ asking' = NoFetch /\ cached' = asking.text

\* faulty variant: the form follows the question
FollowsQuestion ==
  /\ Arrives
  /\ IF page # "open" THEN UNCHANGED <<form, unsaved, seeded>>
     ELSE IF seeded THEN form' = asking.text /\ UNCHANGED <<unsaved, seeded>> ELSE Fill(asking.text)
  /\ UNCHANGED <<bank, page, early, save, upload, others, edits>>

FetchArrives ==
  /\ Arrives
  /\ IF page = "open" /\ ~seeded THEN Fill(asking.text) ELSE UNCHANGED <<form, unsaved, seeded>>
  /\ UNCHANGED <<bank, page, early, save, upload, others, edits>>

FetchFails ==
  /\ asking.pc # "none" /\ asking' = NoFetch
  /\ UNCHANGED <<bank, shown, cached, save, upload, others, edits>>

-----------------------------------------------------------------------------
\* the row on the working copy is committed before anything is uploaded
CreateTestCase ==
  /\ page = "open" /\ upload = 0 /\ Len(cases) < MaxRows
  /\ cases' = Append(cases, {}) /\ upload' = Len(cases')
  /\ question' = [question EXCEPT !.published = FALSE]
  /\ UNCHANGED <<broken, shown, cached, asking, save, others, edits>>

UploadInput ==
  /\ upload # 0 /\ cases[upload] = {}
  /\ cases' = [cases EXCEPT ![upload] = {"input"}]
  /\ UNCHANGED <<question, broken, shown, cached, asking, save, upload, others, edits>>

UploadOutput ==
  /\ upload # 0 /\ cases[upload] = {"input"}
  /\ cases' = [cases EXCEPT ![upload] = Parts] /\ upload' = 0 /\ Refetch
  /\ UNCHANGED <<question, broken, shown, cached, save, others, edits>>

\* a URL has expired, the bucket refuses, or the tab is closed
UploadFails ==
  /\ upload # 0 /\ broken' = broken \cup {upload} /\ upload' = 0
  /\ UNCHANGED <<question, cases, shown, cached, asking, save, others, edits>>

EditorNext ==
  \/ OpenNew \/ OpenQuestion \/ Leave \/ HandleSave \/ ServerCreates \/ ServerUpdates
  \/ SaveFails \/ Saved \/ Created \/ CreatedMeanwhile \/ CreatedWhileShown
  \/ PublishQuestion \/ FetchReads \/ FetchArrives \/ FetchFails
  \/ CreateTestCase \/ UploadInput \/ UploadOutput \/ UploadFails
  \/ \E t \in Contents : EditForm(t) \/ OthersUpdate(t)

EditorTypeOK ==
  LET Said == Contents \cup {NoText} IN
  /\ question \in [text : Said, published : BOOLEAN] /\ {form, unsaved, cached} \subseteq Said
  /\ cases \in Seq(SUBSET Parts) /\ Len(cases) <= MaxRows /\ upload \in 0..Len(cases)
  /\ page \in {"away", "new", "open"} /\ broken \subseteq 1..MaxRows
  /\ asking \in [pc : {"none", "asked", "read"}, text : Said]
  /\ save \in [pc : {"none", "create", "update", "created", "updated"}, text : Said]
  /\ {seeded, early, others} \subseteq BOOLEAN

(***************************************************************************)
(* Unless the author typed before the form was filled: no answer that      *)
(* arrives takes an unsaved edit away, and if the form was not opened on   *)
(* an old copy, or while a save was under way, and nobody else saves, a    *)
(* form without unsaved edits says what the server has.  A test case that  *)
(* lacks a file is one whose upload is under way or was given up.          *)
(***************************************************************************)
EditorHolds ==
  /\ page # "away" /\ ~early =>
       /\ unsaved # NoText => form = unsaved
       /\ page = "open" /\ seeded /\ unsaved = NoText /\ ~others => form = question.text
  /\ \A i \in DOMAIN cases : cases[i] = Parts \/ i \in broken \cup {upload}
=============================================================================
