------------------------------- MODULE Topics -------------------------------
(***************************************************************************)
(* The topic tree.  A move reads the topic, walks up from the new parent   *)
(* one row at a time looking for the topic, and then writes; other         *)
(* requests may write in between.  A foreign key keeps a parent in place.  *)
(* Names and links to questions are left out: they only refuse.            *)
(***************************************************************************)
EXTENDS Naturals

CONSTANTS
  Topics,
  Movers,   \* update requests that may overlap
  Root,     \* the parent of a top-level topic
  Nowhere   \* the "parent" of a topic that does not exist

ASSUME TopicsAssumption == Root \notin Topics /\ Nowhere \notin Topics /\ Root # Nowhere

VARIABLES
  parent,   \* the rows
  move,     \* progress of each update: [pc, topic, to, cursor, path]
  outdated  \* a move was written over a path that had changed since its walk

topicVars == <<parent, move, outdated>>

Existing == {t \in Topics : parent[t] # Nowhere}
NoMove == [pc |-> "idle", topic |-> Root, to |-> Root, cursor |-> Root, path |-> {}]

TopicsInit ==
  /\ parent = [t \in Topics |-> Nowhere]
  /\ move = [m \in Movers |-> NoMove] /\ outdated = FALSE

CreateTopic(t, p) ==
  /\ t \notin Existing /\ p \in Existing \cup {Root}
  /\ parent' = [parent EXCEPT ![t] = p]
  /\ UNCHANGED <<move, outdated>>

BeginMove(m, t, p) ==
  /\ move[m].pc = "idle" /\ t \in Existing
  /\ move' = [move EXCEPT ![m] = [pc |-> "walk", topic |-> t, to |-> p, cursor |-> p, path |-> {}]]
  /\ UNCHANGED <<parent, outdated>>

\* faulty variant: only the new parent itself is compared
WalkOneStep(m) ==
  LET c == move[m].cursor
  IN  /\ move[m].pc = "walk" /\ c \in Existing \ {move[m].topic}
      /\ move' = [move EXCEPT ![m].cursor = Root, ![m].path = {<<c, parent[c]>>}]
      /\ UNCHANGED <<parent, outdated>>

WalkUp(m) ==
  LET c == move[m].cursor
  IN  /\ move[m].pc = "walk" /\ c \in Existing \ {move[m].topic}
      /\ move' = [move EXCEPT ![m].cursor = parent[c], ![m].path = @ \cup {<<c, parent[c]>>}]
      /\ UNCHANGED <<parent, outdated>>

\* the walk met the topic, or a row that is gone
RefuseMove(m) ==
  /\ move[m].pc = "walk" /\ move[m].cursor \notin (Existing \ {move[m].topic}) \cup {Root}
  /\ move' = [move EXCEPT ![m] = NoMove]
  /\ UNCHANGED <<parent, outdated>>

\* the commit; it fails if the topic or its new parent was deleted meanwhile
CommitMove(m) ==
  LET t == move[m].topic
  IN  /\ move[m].pc = "walk" /\ move[m].cursor = Root
      /\ IF t \in Existing /\ move[m].to \in Existing \cup {Root}
         THEN /\ parent' = [parent EXCEPT ![t] = move[m].to]
              /\ outdated' = (outdated \/ \E step \in move[m].path : parent[step[1]] # step[2])
         ELSE UNCHANGED <<parent, outdated>>
      /\ move' = [move EXCEPT ![m] = NoMove]

\* has_children, and the foreign key behind it
DeleteTopic(t) ==
  /\ t \in Existing /\ \A c \in Topics : parent[c] # t
  /\ parent' = [parent EXCEPT ![t] = Nowhere]
  /\ UNCHANGED <<move, outdated>>

TopicsNext ==
  \/ \E t \in Topics : DeleteTopic(t)
  \/ \E t \in Topics, p \in Topics \cup {Root} :
       CreateTopic(t, p) \/ \E m \in Movers : BeginMove(m, t, p)
  \/ \E m \in Movers : WalkUp(m) \/ RefuseMove(m) \/ CommitMove(m)

TopicsTypeOK ==
  /\ parent \in [Topics -> Topics \cup {Root, Nowhere}]
  /\ outdated \in BOOLEAN
  /\ \A m \in Movers : /\ move[m].pc \in {"idle", "walk"}
                       /\ {move[m].topic, move[m].to} \subseteq Topics \cup {Root}
                       /\ move[m].path \subseteq Topics \X (Topics \cup {Root})

(***************************************************************************)
(* The topics stay a forest: a parent exists, and unless a move was        *)
(* written over a path that another request had changed meanwhile, every   *)
(* set of topics has one whose parent lies outside it, so that no walk up  *)
(* the tree runs for ever.                                                 *)
(***************************************************************************)
TreeStaysATree ==
  /\ \A t \in Existing : parent[t] \in Existing \cup {Root}
  /\ ~outdated => \A S \in (SUBSET Existing) \ {{}} : \E t \in S : parent[t] \notin S
=============================================================================
