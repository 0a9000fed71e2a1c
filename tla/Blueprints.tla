----------------------------- MODULE Blueprints -----------------------------
(***************************************************************************)
(* One blueprint: every edit is a full replacement kept as a new version,  *)
(* an exam pins the version that was current when it was scheduled, and    *)
(* the session draws its questions, topic by topic, from what is published *)
(* at that moment.  The draw is seeded, which is abstracted to any draw.   *)
(***************************************************************************)
EXTENDS Naturals, Sequences, FiniteSetsExt, Functions

CONSTANTS
  Editors,      \* update requests that may overlap
  Questions,
  TopicsOf,     \* the topics a question is attached to
  Entries,      \* entries of a topic mix: [topic, weight, count]
  MaxEntries,   \* bound on the length of a mix
  MaxVersions   \* bound on the versions

ASSUME BlueprintsAssumption == MaxVersions \in Nat

VARIABLES
  version,    \* the rows by number: [mix, base, origin]
  current,    \* the number current_version_id stands for
  edit,       \* progress of each update: the version it read, or 0
  acked,      \* creations and edits that were answered
  pinned,     \* the version of the exam
  published,  \* questions that can be drawn
  drawn       \* what the session drew so far for each entry

blueprintVars == <<version, current, edit, acked, pinned, published, drawn>>

BlueprintsInit ==
  /\ version = <<>> /\ current = 0 /\ acked = 0 /\ pinned = 0
  /\ edit = [e \in Editors |-> 0]
  /\ published = {} /\ drawn = <<>>

\* what the model may answer when it is asked for a mix; no check of the whole
Proposals == UNION {[1..n -> Entries] : n \in 1..MaxEntries}

Weight(mix) == MapThenSumSet(LAMBDA i : mix[i].weight, DOMAIN mix)
NoRepeat(mix) == \A i, j \in DOMAIN mix : i # j => mix[i].topic # mix[j].topic

\* faulty variant: only the weights are checked
WeighedMixes == {mix \in Proposals : Weight(mix) = 100}

\* _check_mix, for a mix that an examiner sends
Mixes == {mix \in Proposals : Weight(mix) = 100 /\ NoRepeat(mix)}

\* the default backend: the first two topics it is offered share the weight
MockMix(topics) ==
  LET n    == IF Len(topics) < 2 THEN Len(topics) ELSE 2
      base == 100 \div n
  IN  [i \in 1..n |-> [topic |-> topics[i], weight |-> IF i < n THEN base ELSE 100 - base * (n - 1),
                       count |-> 2]]

OrgTopics == {e.topic : e \in Entries}
Offers == {f \in UNION {[1..n -> OrgTopics] : n \in 1..Cardinality(OrgTopics)} : IsInjective(f)}

Create(mix, origin) ==
  /\ version = <<>>
  /\ version' = <<[mix |-> mix, base |-> 0, origin |-> origin]>> /\ current' = 1 /\ acked' = 1
  /\ UNCHANGED <<edit, pinned, published, drawn>>

CreateBlueprint == \E mix \in Mixes : Create(mix, "examiner")

\* schedule_ai_exam stores what the model proposed as the first version
CreateProposed == \E mix \in Proposals : Create(mix, "model")
CreateMocked   == \E topics \in Offers : Create(MockMix(topics), "mock")

ReadCurrent(e) ==
  /\ edit[e] = 0 /\ current # 0 /\ Len(version) < MaxVersions
  /\ edit' = [edit EXCEPT ![e] = current]
  /\ UNCHANGED <<version, current, acked, pinned, published, drawn>>

Replaces(e, mix) ==
  /\ version' = Append(version, [mix |-> mix, base |-> edit[e], origin |-> "examiner"])
  /\ current' = Len(version') /\ acked' = acked + 1
  /\ edit' = [edit EXCEPT ![e] = 0]
  /\ UNCHANGED <<pinned, published, drawn>>

\* faulty variant: numbered after the last row, so that no two edits clash
CreateVersionAnyway(e, mix) == edit[e] # 0 /\ Replaces(e, mix)

\* create_version: the number after the one that was read
CreateVersion(e, mix) == edit[e] # 0 /\ edit[e] = Len(version) /\ Replaces(e, mix)

\* the number is taken by another edit: the request fails
VersionClashes(e) ==
  /\ edit[e] # 0 /\ edit[e] < Len(version)
  /\ edit' = [edit EXCEPT ![e] = 0]
  /\ UNCHANGED <<version, current, acked, pinned, published, drawn>>

PinVersion ==
  /\ current # 0 /\ pinned = 0 /\ pinned' = current
  /\ UNCHANGED <<version, current, edit, acked, published, drawn>>

QuestionPublished(q) ==
  /\ q \notin published /\ published' = published \cup {q}
  /\ UNCHANGED <<version, current, edit, acked, pinned, drawn>>

Mix == version[pinned].mix
Pool(t) == {q \in published : t \in TopicsOf[q]}

\* one entry of the mix; choose takes as many as it asks for
DrawEntry(i) ==
  /\ pinned # 0 /\ i \in DOMAIN Mix \ DOMAIN drawn
  /\ \E S \in kSubset(Mix[i].count, Pool(Mix[i].topic)) :
       drawn' = [j \in DOMAIN drawn \cup {i} |-> IF j = i THEN S ELSE drawn[j]]
  /\ UNCHANGED <<version, current, edit, acked, pinned, published>>

\* InsufficientQuestionPool: the session is not started
DrawFails(i) ==
  /\ pinned # 0 /\ i \in DOMAIN Mix \ DOMAIN drawn /\ Cardinality(Pool(Mix[i].topic)) < Mix[i].count
  /\ drawn' = <<>>
  /\ UNCHANGED <<version, current, edit, acked, pinned, published>>

BlueprintsNext ==
  \/ PinVersion
  \/ CreateBlueprint \/ CreateProposed \/ CreateMocked
  \/ \E mix \in Mixes, e \in Editors : CreateVersion(e, mix)
  \/ \E e \in Editors : ReadCurrent(e) \/ VersionClashes(e)
  \/ \E q \in Questions : QuestionPublished(q)
  \/ \E i \in 1..MaxEntries : DrawEntry(i) \/ DrawFails(i)

BlueprintsTypeOK ==
  /\ Len(version) <= MaxVersions + 1
  /\ version \in Seq([mix : Proposals \cup {MockMix(f) : f \in Offers}, base : 0..MaxVersions,
                     origin : {"examiner", "model", "mock"}])
  /\ {current, acked, pinned} \subseteq 0..Len(version)
  /\ \A e \in Editors : edit[e] \in 0..Len(version)
  /\ published \subseteq Questions
  /\ \A i \in DOMAIN drawn : drawn[i] \subseteq published

(***************************************************************************)
(* However updates overlap, every answered edit is a version of its own    *)
(* made by someone who had read the one before it, and the last is the     *)
(* current one; only a proposal of the model can break the rules that an   *)
(* examiner's mix is held to.  What an exam draws follows the version it   *)
(* pinned, and no question is drawn twice unless it is attached to two     *)
(* topics of the mix, or the model proposed the mix and named one twice.   *)
(***************************************************************************)
VersionsAreExact ==
  /\ current = Len(version) /\ acked = Len(version)
  /\ \A n \in 1..Len(version) :
       /\ version[n].base = n - 1
       /\ version[n].origin # "model" => Weight(version[n].mix) = 100 /\ NoRepeat(version[n].mix)
  /\ \A i \in DOMAIN drawn : i \in DOMAIN Mix /\ Cardinality(drawn[i]) = Mix[i].count
  /\ \A i, j \in DOMAIN drawn :
       i # j => \/ \A q \in drawn[i] \cap drawn[j] :
                     {Mix[i].topic, Mix[j].topic} \subseteq TopicsOf[q] /\ Mix[i].topic # Mix[j].topic
                \/ version[pinned].origin = "model"
=============================================================================
