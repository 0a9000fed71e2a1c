------------------------------- MODULE Gateway -------------------------------
(***************************************************************************)
(* The edge: the longest listed prefix decides which service a request is  *)
(* for and which kind of token may reach it, and a counter in Redis allows *)
(* each identity a number of requests per window.  Counting is INCR and,   *)
(* for the first of a window, EXPIRE: two calls.                           *)
(***************************************************************************)
EXTENDS Naturals, Sequences, SequencesExt, TLC

CONSTANTS
  Paths,         \* the requested paths, as sequences of segments
  Calls,         \* requests that may be under way together
  Window,        \* rate_limit_window_seconds, in ticks
  LimitAuth,     \* rate_limit_auth
  LimitDefault,  \* rate_limit_default
  MaxTime,       \* bound on the clock
  MaxCalls       \* bound on the requests

ASSUME GatewayAssumption ==
  /\ Paths \subseteq Seq(STRING) /\ IsFiniteSet(Calls)
  /\ Window \in Nat \ {0} /\ {LimitAuth, LimitDefault, MaxTime, MaxCalls} \subseteq Nat

VARIABLES
  now,
  key,       \* per identity and window: [n, until], until = 0 without a TTL
  call,      \* progress of each request: [pc, path, plane, bucket, n, late]
  punctual,  \* requests allowed that were counted inside their window
  reached,   \* what this step let through: [path, plane, upstream], or nothing
  asked

gatewayVars == <<now, key, call, punctual, reached, asked>>

Planes == {"none", "examiner", "candidate"}  \* kind of the bearer token
Identities == {"ip", "examiner", "candidate"}
Buckets == 0..(MaxTime \div Window)

Route(prefix, upstream, policy) == [prefix |-> prefix, upstream |-> upstream, policy |-> policy]

Routes ==
  {Route(<<"internal">>, "none", "blocked"),
   Route(<<"auth">>, "exam", "public"), Route(<<"candidate", "auth">>, "exam", "public"),
   Route(<<"candidate">>, "exam", "candidate")} \cup
  {Route(<<p>>, "exam", "examiner") :
     p \in {"examiners", "blueprints", "exams", "submissions", "sessions"}} \cup
  {Route(<<p>>, "question", "examiner") : p \in {"topics", "questions"}} \cup
  {Route(<<"profiles">>, "ai", "examiner"), Route(<<"questions", "generate">>, "ai", "examiner"),
   Route(<<"test-cases", "generate">>, "ai", "examiner")}

Matching(path) == {r \in Routes : IsPrefix(r.prefix, path)}

\* match_route
Match(path) ==
  CHOOSE r \in Matching(path) : \A q \in Matching(path) : Len(q.prefix) <= Len(r.prefix)

Listed(path) == Matching(path) # {} /\ Match(path).policy # "blocked"

\* authorise
MayReach(path, plane) == Listed(path) /\ Match(path).policy \in {"public", plane}
IdentityOf(path, plane) == IF Match(path).policy = "public" THEN "ip" ELSE plane
Limit(id) == IF id = "ip" THEN LimitAuth ELSE LimitDefault

NoCall == [pc |-> "idle", path |-> <<>>, plane |-> "none", bucket |-> 0, n |-> 0, late |-> FALSE]

GatewayInit ==
  /\ now = 0 /\ asked = 0 /\ reached = <<>>
  /\ key = [k \in Identities \X Buckets |-> [n |-> 0, until |-> 0]]
  /\ punctual = [k \in Identities \X Buckets |-> 0]
  /\ call = [c \in Calls |-> NoCall]

\* refused at once (404, 401), or the window is computed and Redis is asked
Request(c, path, plane) ==
  /\ call[c].pc = "idle" /\ asked < MaxCalls /\ asked' = asked + 1
  /\ MayReach(path, plane)
  /\ call' = [call EXCEPT ![c] = [NoCall EXCEPT !.pc = "count", !.path = path, !.plane = plane,
                                               !.bucket = now \div Window]]
  /\ reached' = <<>> /\ UNCHANGED <<now, key, punctual>>

Reaches(path, plane) ==
  reached' = <<[path |-> path, plane |-> plane, upstream |-> Match(path).upstream]>>

\* gateway_ws: a WebSocket handshake is authorised alike, but not counted; as it
\* reads and writes no counter, it is explored before the first request only
Handshake(path, plane) ==
  /\ asked = 0 /\ MayReach(path, plane) /\ Reaches(path, plane)
  /\ UNCHANGED <<now, key, call, punctual, asked>>

KeyOf(c) == <<IdentityOf(call[c].path, call[c].plane), call[c].bucket>>

Incr(c) ==
  LET n == key[KeyOf(c)].n + 1
  IN  /\ call[c].pc = "count"
      /\ key' = [key EXCEPT ![KeyOf(c)].n = n]
      /\ call' = [call EXCEPT ![c].pc = IF n = 1 THEN "expire" ELSE "decide", ![c].n = n,
                              ![c].late = (now \div Window) # call[c].bucket]
      /\ reached' = <<>> /\ UNCHANGED <<now, punctual, asked>>

Alive(k) == key[k].n > 0

\* faulty variant: a time to live in the wrong unit
ExpireSoon(c) ==
  /\ call[c].pc = "expire"
  /\ key' = IF Alive(KeyOf(c)) THEN [key EXCEPT ![KeyOf(c)].until = now + 1] ELSE key
  /\ call' = [call EXCEPT ![c].pc = "decide"]
  /\ reached' = <<>> /\ UNCHANGED <<now, punctual, asked>>

Expire(c) ==
  /\ call[c].pc = "expire"
  /\ key' = IF Alive(KeyOf(c)) THEN [key EXCEPT ![KeyOf(c)].until = now + Window] ELSE key
  /\ call' = [call EXCEPT ![c].pc = "decide"]
  /\ reached' = <<>> /\ UNCHANGED <<now, punctual, asked>>

\* forwarded to the upstream of the route, or 429 with Retry-After
DecideCall(c) ==
  /\ call[c].pc = "decide"
  /\ IF call[c].n > Limit(KeyOf(c)[1]) THEN reached' = <<>> /\ UNCHANGED punctual
     ELSE /\ punctual' = [punctual EXCEPT ![KeyOf(c)] = IF call[c].late THEN @ ELSE @ + 1]
          /\ Reaches(call[c].path, call[c].plane)
  /\ call' = [call EXCEPT ![c] = NoCall]
  /\ UNCHANGED <<now, key, asked>>

\* the gateway stops between its two calls: the key never expires
CallDies(c) ==
  /\ call[c].pc # "idle" /\ call' = [call EXCEPT ![c] = NoCall]
  /\ reached' = <<>> /\ UNCHANGED <<now, key, punctual, asked>>

Tick ==
  /\ now < MaxTime /\ now' = now + 1
  /\ key' = [k \in DOMAIN key |-> IF key[k].until = now' THEN [n |-> 0, until |-> 0] ELSE key[k]]
  /\ reached' = <<>> /\ UNCHANGED <<call, punctual, asked>>

GatewayNext ==
  \/ Tick
  \/ \E c \in Calls : Incr(c) \/ Expire(c) \/ DecideCall(c) \/ CallDies(c)
  \/ \E c \in Calls, path \in Paths, plane \in Planes : Request(c, path, plane)
  \/ \E path \in Paths, plane \in Planes : Handshake(path, plane)

GatewayTypeOK ==
  /\ now \in 0..MaxTime /\ asked \in 0..MaxCalls
  /\ DOMAIN key = Identities \X Buckets
  /\ \A k \in DOMAIN key : key[k].n \in 0..MaxCalls /\ key[k].until \in 0..(MaxTime + Window)
  /\ \A c \in Calls : /\ call[c].pc \in {"idle", "count", "expire", "decide"}
                      /\ call[c].bucket \in Buckets /\ call[c].n \in 0..MaxCalls

(***************************************************************************)
(* However the calls to Redis of overlapping requests are ordered, and if  *)
(* some never happen, no identity gets more than its limit through in one  *)
(* window, unless a request was counted after its window had ended; nothing*)
(* under /internal gets through, the candidates' part only with their own  *)
(* token or for the exchange, and generation goes to the ai service.       *)
(***************************************************************************)
EdgeHolds ==
  /\ \A k \in DOMAIN punctual : punctual[k] <= Limit(k[1])
  /\ \A r \in ToSet(reached) :
       LET Under(prefix) == IsPrefix(prefix, r.path)
       IN  /\ ~Under(<<"internal">>)
           /\ Under(<<"candidate">>) => Under(<<"candidate", "auth">>) \/ r.plane = "candidate"
           /\ r.plane = "candidate" => r.upstream = "exam"
           /\ r.plane = "none" => Under(<<"auth">>) \/ Under(<<"candidate", "auth">>)
           /\ Under(<<"questions">>) => (Under(<<"questions", "generate">>) <=> r.upstream = "ai")
=============================================================================
