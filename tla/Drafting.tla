------------------------------ MODULE Drafting ------------------------------
(***************************************************************************)
(* The ai service's background tasks up to the point where a question goes *)
(* to the judge or a profile is stored.  A call of the model is tried a    *)
(* few times; what it answers is parsed, checked against what it declares  *)
(* itself, and random inputs are made from that declaration.               *)
(***************************************************************************)
EXTENDS Integers, Sequences

CONSTANTS
  Absent,        \* a bound that is not given
  Values, Lengths,        \* the bounds a declaration may give
  Letter,        \* a token that is not a number
  ValueSpread, LengthSpread,  \* what the generator adds to a missing upper bound
  MaxVars,       \* bound on the variables of an input_spec
  Examples,      \* texts the model may give as examples: sequences of lines
  MaxAttempts    \* _MAX_ATTEMPTS

VARIABLES
  task,     \* [pc, tries, status]; status of the row
  spec,     \* the draft's declaration
  inputs,   \* the generated text, or nothing
  posts,    \* requests sent to the model
  stopped   \* the service stopped under the task

draftVars == <<task, spec, inputs, posts, stopped>>

Given(bound) == bound # Absent
Or(bound, default) == IF Given(bound) THEN bound ELSE default
Above(x, bound) == Given(bound) => x >= bound
Below(x, bound) == Given(bound) => x <= bound

InputVar == [kind : {"int", "int_array", "string"},
             lo : Values \cup {Absent}, hi : Values \cup {Absent},
             llo : Lengths \cup {Absent}, lhi : Lengths \cup {Absent}]

-----------------------------------------------------------------------------
(* validate.py *)

Crossed(lo, hi) == Given(lo) /\ Given(hi) /\ lo > hi

CheckBounds(v) ==
  /\ v.kind # "string" => ~Crossed(v.lo, v.hi)
  /\ v.kind # "int" => ~Crossed(v.llo, v.lhi)

InRange(v, token) == token # Letter /\ Above(token, v.lo) /\ Below(token, v.hi)

CheckValue(line, v) ==
  /\ v.kind = "int" => Len(line) = 1
  /\ v.kind # "int" => Above(Len(line), v.llo) /\ Below(Len(line), v.lhi)
  /\ v.kind # "string" => \A i \in DOMAIN line : InRange(v, line[i])

ValidateInput(text, s) ==
  Len(text) = Len(s) /\ \A i \in DOMAIN s : CheckValue(text[i], s[i])

\* the band, the starter code and the presence of examples are one flag
ValidateDraft(s, example, rest) ==
  rest /\ (\A i \in DOMAIN s : CheckBounds(s[i])) /\ ValidateInput(example, s)

-----------------------------------------------------------------------------
(* input_generator.py: randint has no value where the bounds cross. *)

ValuesOf(v)  == Or(v.lo, 0)..Or(v.hi, Or(v.lo, 0) + ValueSpread)
\* faulty variant: the default length is one too many at the upper end
LongerLengths(v) == Or(v.llo, 1)..(Or(v.lhi, Or(v.llo, 1)) + LengthSpread)
LengthsOf(v) == Or(v.llo, 1)..Or(v.lhi, Or(v.llo, 1) + LengthSpread)

\* a letter is no number, and what is not given no bound
ASSUME DraftingAssumption ==
  /\ Values \subseteq Int /\ Lengths \subseteq Nat /\ Absent \notin Values \cup Lengths
  /\ {ValueSpread, LengthSpread} \subseteq Nat /\ MaxAttempts \in Nat \ {0}
  /\ \A v \in InputVar : Letter \notin ValuesOf(v)

RenderVar(v) ==
  IF v.kind = "int" THEN {<<x>> : x \in ValuesOf(v)}
  ELSE UNION {[1..n -> IF v.kind = "string" THEN {Letter} ELSE ValuesOf(v)] : n \in LengthsOf(v)}

Raises(v) ==
  \/ v.kind # "string" /\ ValuesOf(v) = {} /\ (v.kind = "int" \/ \E n \in LengthsOf(v) : n > 0)
  \/ v.kind # "int" /\ LengthsOf(v) = {}

\* one bound of a pair is given and the generator's default for the other lies
\* on the wrong side of it
HalfBounded(v) ==
  \/ v.kind # "string" /\ ~Given(v.lo) /\ Given(v.hi) /\ v.hi < 0
  \/ v.kind # "int" /\ ~Given(v.llo) /\ Given(v.lhi) /\ v.lhi < 1

-----------------------------------------------------------------------------
DraftingInit ==
  /\ task = [pc |-> "idle", tries |-> 0, status |-> "none"]
  /\ spec = <<>> /\ inputs = <<>> /\ posts = 0 /\ stopped = FALSE

Goes(pc)        == task' = [task EXCEPT !.pc = pc, !.tries = 0]
EndsAs(status)  == task' = [task EXCEPT !.pc = "over", !.status = status]
Calling         == task.pc \in {"draft", "reference", "brute", "extract"}

\* the request commits the row, answers, and leaves the rest to a task
Queue(pc) ==
  /\ task.pc = "idle" /\ task' = [task EXCEPT !.pc = pc, !.status = "queued"]
  /\ UNCHANGED <<spec, inputs, posts, stopped>>

\* the tasks an examiner's two requests leave behind
StartGeneration == Queue("begin")
CreateProfile   == Queue("read")

\* _draft_and_start
BeginDrafting ==
  /\ task.pc = "begin" /\ task' = [task EXCEPT !.pc = "draft", !.status = "drafting"]
  /\ UNCHANGED <<spec, inputs, posts, stopped>>

\* ingest_profile: the row, the resume and its text, the repositories
BeginIngestion ==
  /\ task.pc = "read" /\ task' = [task EXCEPT !.pc = "resume", !.status = "processing"]
  /\ UNCHANGED <<spec, inputs, posts, stopped>>

ReadResume ==
  /\ task.pc = "resume" /\ \E pc \in {"github", "extract"} : Goes(pc)
  /\ UNCHANGED <<spec, inputs, posts, stopped>>

FetchSignals ==
  /\ task.pc = "github" /\ Goes("extract")
  /\ UNCHANGED <<spec, inputs, posts, stopped>>

\* a request to the model that is refused, lost or unreadable is tried again
CallRetries ==
  /\ Calling /\ task.tries + 1 < MaxAttempts
  /\ task' = [task EXCEPT !.tries = @ + 1] /\ posts' = posts + 1
  /\ UNCHANGED <<spec, inputs, stopped>>

\* the last one, or an answer without content, which no clause expects
CallGivesUp ==
  /\ Calling /\ EndsAs("failed") /\ posts' = posts + 1
  /\ UNCHANGED <<spec, inputs, stopped>>

\* the draft is checked before anything else is asked for
DraftAnswered(s, example, rest) ==
  /\ task.pc = "draft" /\ posts' = posts + 1 /\ spec' = s
  /\ IF ValidateDraft(s, example, rest)
     THEN task' = [task EXCEPT !.pc = "reference", !.tries = 0, !.status = "validating"]
     ELSE EndsAs("failed")
  /\ UNCHANGED <<inputs, stopped>>

\* the answer is a program, taken as it is
SolutionAnswered ==
  /\ task.pc \in {"reference", "brute"} /\ posts' = posts + 1
  /\ Goes(IF task.pc = "reference" THEN "brute" ELSE "render")
  /\ UNCHANGED <<spec, inputs, stopped>>

GenerateInputs ==
  /\ task.pc = "render"
  /\ \E t \in {f \in [DOMAIN spec -> UNION {RenderVar(spec[i]) : i \in DOMAIN spec}] :
                 \A i \in DOMAIN spec : f[i] \in RenderVar(spec[i])} : inputs' = t
  /\ Goes("over")
  /\ UNCHANGED <<spec, posts, stopped>>

GenerationRaises ==
  /\ task.pc = "render" /\ \E i \in DOMAIN spec : Raises(spec[i])
  /\ task' = [task EXCEPT !.pc = "raised", !.status = "failed"]
  /\ UNCHANGED <<spec, inputs, posts, stopped>>

\* the fields and the status are one commit
ProfileExtracted ==
  /\ task.pc = "extract" /\ posts' = posts + 1 /\ EndsAs("ready")
  /\ UNCHANGED <<spec, inputs, stopped>>

\* an exception in any step, the text that does not parse among them
TaskFails ==
  /\ task.pc \in {"draft", "extract", "resume", "github", "render"} /\ EndsAs("failed")
  /\ UNCHANGED <<spec, inputs, posts, stopped>>

\* nothing takes up the tasks of a process that stopped
ServiceStops ==
  /\ task.pc \notin {"idle", "over", "raised"} /\ Goes("over") /\ stopped' = TRUE
  /\ UNCHANGED <<spec, inputs, posts>>

DraftingNext ==
  \/ StartGeneration \/ CreateProfile \/ BeginDrafting \/ BeginIngestion \/ ReadResume \/ FetchSignals
  \/ CallRetries \/ CallGivesUp \/ SolutionAnswered \/ GenerateInputs \/ GenerationRaises
  \/ ProfileExtracted \/ TaskFails \/ ServiceStops
  \/ \E n \in 1..MaxVars : \E s \in [1..n -> InputVar], example \in Examples, rest \in BOOLEAN : DraftAnswered(s, example, rest)

DraftingTypeOK ==
  /\ task.tries \in 0..(MaxAttempts - 1) /\ \A i \in DOMAIN spec : spec[i] \in InputVar
  /\ task.status \in {"none", "queued", "processing", "drafting", "validating", "ready", "failed"}

(***************************************************************************)
(* Every input made from a draft that passed the checks passes them too;   *)
(* the generator fails on such a draft only where one bound of a pair is   *)
(* missing and its default crosses the other; a task that was not stopped  *)
(* ends in a final status, after at most MaxAttempts requests per answer.  *)
(***************************************************************************)
InputsFitTheSpec ==
  /\ inputs # <<>> => ValidateInput(inputs, spec)
  /\ task.pc = "raised" => \E i \in DOMAIN spec : HalfBounded(spec[i])
  /\ task.pc = "over" /\ ~stopped /\ inputs = <<>> => task.status \in {"ready", "failed"}
  /\ posts <= 3 * MaxAttempts
=============================================================================
