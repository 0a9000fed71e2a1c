---------------------------- MODULE SessionStream ----------------------------
(***************************************************************************)
(* The event log of one session and its live viewers.  Every emitter takes *)
(* the next number, inserts the event under it (number unique), commits,   *)
(* and only then publishes to a Redis channel; a viewer's socket forwards  *)
(* what is published while it is subscribed.                               *)
(***************************************************************************)
EXTENDS Naturals, Sequences, SequencesExt

CONSTANTS
  Emitters,    \* who emits: "snapshot" is the candidate's socket handler
  Viewers,     \* sockets: "candidate" also sends the snapshots
  MaxEvents,   \* bound on the log
  MaxLost      \* bound on failed publications

ASSUME StreamAssumption == MaxEvents \in Nat

VARIABLES
  log,      \* the committed events: who emitted number 1, 2, ...
  emit,     \* progress of each emitter: [pc, seq, live]
  socket,   \* of each viewer: "closed", "accepted" or "subscribed"
  wire,     \* numbers on their way through the relay
  got,      \* numbers the viewer's page was given on this connection
  missed,   \* numbers published before this connection subscribed
  lost      \* numbers whose publication failed

streamVars == <<log, emit, socket, wire, got, missed, lost>>

Resting == [pc |-> "idle", seq |-> 0, live |-> FALSE]
Fresh(f, v, x) == [f EXCEPT ![v] = x]

StreamInit ==
  /\ log = <<>> /\ lost = {}
  /\ emit = [e \in Emitters |-> Resting]
  /\ socket = [v \in Viewers |-> "closed"]
  /\ wire = [v \in Viewers |-> <<>>] /\ got = [v \in Viewers |-> <<>>]
  /\ missed = [v \in Viewers |-> {}]

\* the page sends the editor's buffer while its socket is open, and the
\* handler works on one frame at a time
SendsSnapshot == socket["candidate"] = "subscribed"

\* create_event: select max(seq) + 1
ReadSeq(e) ==
  /\ emit[e].pc = "idle" /\ Len(log) < MaxEvents
  /\ (e = "snapshot") => SendsSnapshot
  /\ emit' = [emit EXCEPT ![e] = [pc |-> "insert", seq |-> Len(log) + 1, live |-> TRUE]]
  /\ UNCHANGED <<log, socket, wire, got, missed, lost>>

Sent(q) == [v \in Viewers |-> IF socket[v] = "subscribed" THEN Append(wire[v], q) ELSE wire[v]]

\* faulty variant: published while the transaction is still open
InsertAfterPublishing(e) ==
  /\ emit[e].pc = "insert"
  /\ wire' = Sent(emit[e].seq)
  /\ log' = IF emit[e].seq = Len(log) + 1 THEN Append(log, e) ELSE log
  /\ emit' = [emit EXCEPT ![e] = Resting]
  /\ UNCHANGED <<socket, got, missed, lost>>

InsertEvent(e) ==
  /\ emit[e].pc = "insert" /\ emit[e].seq = Len(log) + 1
  /\ log' = Append(log, e)
  /\ emit' = [emit EXCEPT ![e].pc = "publish"]
  /\ UNCHANGED <<socket, wire, got, missed, lost>>

\* only WebSocketDisconnect is caught in the candidate's handler: any other
\* exception ends it and with it the connection
HandlerEnds(e) ==
  /\ emit' = [emit EXCEPT ![e] = Resting]
  /\ LET ends == e = "snapshot" /\ emit[e].live
     IN  /\ socket' = IF ends THEN Fresh(socket, "candidate", "closed") ELSE socket
         /\ wire' = IF ends THEN Fresh(wire, "candidate", <<>>) ELSE wire
  /\ UNCHANGED <<got, missed>>

\* the number is taken by now: IntegrityError, no event
SeqIsTaken(e) ==
  /\ emit[e].pc = "insert" /\ emit[e].seq <= Len(log)
  /\ HandlerEnds(e)
  /\ UNCHANGED <<log, lost>>

PublishEvent(e) ==
  /\ emit[e].pc = "publish"
  /\ wire' = Sent(emit[e].seq)
  /\ emit' = [emit EXCEPT ![e] = Resting]
  /\ UNCHANGED <<log, socket, got, missed, lost>>

\* Redis is unavailable: the event stays in the log and is never published
EventIsLost(e) ==
  /\ emit[e].pc = "publish" /\ Cardinality(lost) < MaxLost
  /\ lost' = lost \cup {emit[e].seq}
  /\ HandlerEnds(e)
  /\ UNCHANGED log

\* the handshake: the page believes it is connected before the handler has
\* subscribed
AcceptSocket(v) ==
  /\ socket[v] = "closed"
  /\ socket' = [socket EXCEPT ![v] = "accepted"]
  /\ got' = [got EXCEPT ![v] = <<>>]
  /\ UNCHANGED <<log, emit, wire, missed, lost>>

Unpublished == {emit[e].seq : e \in {x \in Emitters : emit[x].pc = "publish"}}

SubscribeSocket(v) ==
  /\ socket[v] = "accepted"
  /\ socket' = [socket EXCEPT ![v] = "subscribed"]
  /\ missed' = [missed EXCEPT ![v] = DOMAIN log \ Unpublished]
  /\ UNCHANGED <<log, emit, wire, got, lost>>

\* pubsub.listen, the handler's send_text and the gateway's pump
ForwardEvent(v) ==
  /\ socket[v] = "subscribed" /\ wire[v] # <<>>
  /\ got' = [got EXCEPT ![v] = Append(@, Head(wire[v]))]
  /\ wire' = [wire EXCEPT ![v] = Tail(@)]
  /\ UNCHANGED <<log, emit, socket, missed, lost>>

\* either end closes; the gateway then closes the other.  A snapshot under
\* way is still written, by a handler that has no connection any more
CloseSocket(v) ==
  /\ socket[v] # "closed"
  /\ socket' = [socket EXCEPT ![v] = "closed"]
  /\ wire' = [wire EXCEPT ![v] = <<>>]
  /\ emit' = IF v = "candidate" THEN [emit EXCEPT !["snapshot"].live = FALSE] ELSE emit
  /\ UNCHANGED <<log, got, missed, lost>>

StreamNext ==
  \/ \E e \in Emitters :
       ReadSeq(e) \/ InsertEvent(e) \/ SeqIsTaken(e) \/ PublishEvent(e) \/ EventIsLost(e)
  \/ \E v \in Viewers :
       AcceptSocket(v) \/ SubscribeSocket(v) \/ ForwardEvent(v) \/ CloseSocket(v)

StreamTypeOK ==
  /\ log \in Seq(Emitters) /\ lost \subseteq DOMAIN log
  /\ emit \in [Emitters -> [pc : {"idle", "insert", "publish"}, seq : 0..MaxEvents, live : BOOLEAN]]
  /\ socket \in [Viewers -> {"closed", "accepted", "subscribed"}]
  /\ \A v \in Viewers : ToSet(wire[v]) \cup ToSet(got[v]) \cup missed[v] \subseteq DOMAIN log

(***************************************************************************)
(* A live view is the log: once nothing is on its way, a subscribed viewer *)
(* was given every event that was not published before it subscribed and   *)
(* whose publication did not fail, each exactly once and none that is not  *)
(* in the log, whatever emitters overlap and collide.                      *)
(***************************************************************************)
ViewersSeeTheLog ==
  (Unpublished = {}) =>
    \A v \in Viewers :
      (socket[v] = "subscribed" /\ wire[v] = <<>>) =>
        /\ \A i, j \in DOMAIN got[v] : got[v][i] = got[v][j] => i = j
        /\ ToSet(got[v]) = DOMAIN log \ (missed[v] \cup lost)
=============================================================================
