--------------------------- MODULE Services_proofs ---------------------------
(***************************************************************************)
(* Proofs about the components of MCServices.  Each has an inductive       *)
(* invariant of its own, over its own variables; a step of the composition *)
(* is a step of that component or leaves its variables alone.              *)
(***************************************************************************)
EXTENDS MCServices, FiniteSetTheorems, SequenceTheorems, WellFoundedInduction, TLAPS

-----------------------------------------------------------------------------
(* The topic tree. *)

OnPath(m) == {step[1] : step \in move[m].path}

(***************************************************************************)
(* What a walk has established: it started at the new parent, every row it *)
(* read leads to another row it read or to the one it reads next, and none *)
(* of them is the topic that moves.                                        *)
(***************************************************************************)
WalkOf(m) ==
  move[m].pc = "walk" =>
    /\ move[m].topic \in Topics \ OnPath(m)
    /\ move[m].to \in OnPath(m) \cup {move[m].cursor}
    /\ \A step \in move[m].path : step[2] \in OnPath(m) \cup {move[m].cursor}

Moves == [pc : {"idle", "walk"}, topic : Topics \cup {Root}, to : Topics \cup {Root},
          cursor : Topics \cup {Root}, path : SUBSET (Topics \X (Topics \cup {Root}))]

ParentsExist == \A t \in Existing : parent[t] \in Existing \cup {Root}
NoCycle == \A S \in (SUBSET Existing) \ {{}} : \E t \in S : parent[t] \notin S

TopicsInv ==
  /\ parent \in [Topics -> Topics \cup {Root, Nowhere}]
  /\ outdated \in BOOLEAN
  /\ move \in [Movers -> Moves]
  /\ ParentsExist
  /\ \A m \in Movers : WalkOf(m)
  /\ ~outdated => NoCycle

LEMMA TopicsStart == TopicsInit => TopicsInv
<1> SUFFICES ASSUME TopicsInit PROVE TopicsInv
  OBVIOUS
<1> USE DEF TopicsInit
<1>1. Existing = {}
  BY DEF Existing
<1>2. ParentsExist /\ NoCycle
  BY <1>1 DEF ParentsExist, NoCycle
<1>3. NoMove \in Moves /\ NoMove.pc # "walk"
  BY DEF NoMove, Moves
<1> QED
  BY <1>2, <1>3 DEF TopicsInv, WalkOf

(***************************************************************************)
(* A request that does not move a topic keeps the walks, for they only     *)
(* look at rows they have read.                                            *)
(***************************************************************************)
LEMMA CreateKeepsTree ==
  ASSUME TopicsInv, NEW t \in Topics, NEW p \in Topics \cup {Root}, CreateTopic(t, p)
  PROVE TopicsInv'
<1> USE DEF CreateTopic
<1>0. t # Root /\ t # Nowhere /\ Root # Nowhere
  BY TopicsAssumption
<1>1. parent' \in [Topics -> Topics \cup {Root, Nowhere}]
  BY DEF TopicsInv
<1>2. Existing' = Existing \cup {t} /\ p # Nowhere
  <2>1. p # Nowhere
    BY TopicsAssumption
  <2> QED
    BY <2>1, <1>1 DEF Existing, TopicsInv
<1>3. \A x \in Existing : x # t /\ parent'[x] = parent[x] /\ parent[x] # t
  BY <1>0 DEF Existing, TopicsInv, ParentsExist
<1>4. parent'[t] = p
  BY DEF TopicsInv
<1>5. ParentsExist'
  BY <1>2, <1>3, <1>4 DEF ParentsExist, TopicsInv
<1>6. \A m \in Movers : WalkOf(m)'
  BY DEF TopicsInv, WalkOf, OnPath
<1>7. ASSUME ~outdated' PROVE NoCycle'
  <2> SUFFICES ASSUME NEW S \in (SUBSET Existing') \ {{}}, \A x \in S : parent'[x] \in S
               PROVE FALSE
    BY DEF NoCycle
  <2>1. NoCycle
    BY <1>7 DEF TopicsInv
  <2>2. S \ {t} \in SUBSET Existing
    BY <1>2
  <2>3. \A x \in S \ {t} : parent[x] \in S \ {t}
    BY <1>3, <2>2
  <2>4. S \ {t} = {}
    BY <2>1, <2>2, <2>3 DEF NoCycle
  <2>5. S = {t} /\ p = t
    BY <2>4, <1>4
  <2> QED
    BY <2>5, <1>0, <1>3 DEF CreateTopic
<1> QED
  BY <1>1, <1>5, <1>6, <1>7 DEF TopicsInv

LEMMA DeleteKeepsTree ==
  ASSUME TopicsInv, NEW t \in Topics, DeleteTopic(t)
  PROVE TopicsInv'
<1> USE DEF DeleteTopic
<1>1. parent' \in [Topics -> Topics \cup {Root, Nowhere}]
  BY DEF TopicsInv
<1>2. Existing' = Existing \ {t}
  BY DEF Existing, TopicsInv
<1>3. \A x \in Existing \ {t} : parent'[x] = parent[x] /\ parent[x] # t
  BY DEF Existing, TopicsInv
<1>4. ParentsExist'
  BY <1>2, <1>3 DEF ParentsExist, TopicsInv
<1>5. \A m \in Movers : WalkOf(m)'
  BY DEF TopicsInv, WalkOf, OnPath
<1>6. ~outdated' => NoCycle'
  BY <1>2, <1>3 DEF NoCycle, TopicsInv
<1> QED
  BY <1>1, <1>4, <1>5, <1>6 DEF TopicsInv

\* only one move changes, and no row
LEMMA WalkingKeepsTree ==
  ASSUME TopicsInv, NEW m \in Movers, UNCHANGED <<parent, outdated>>, NEW r \in Moves,
         move' = [move EXCEPT ![m] = r], WalkOf(m)'
  PROVE TopicsInv'
<1>1. move' \in [Movers -> Moves]
  BY DEF TopicsInv
<1>2. \A n \in Movers : WalkOf(n)'
  BY DEF TopicsInv, WalkOf, OnPath
<1>3. Existing' = Existing
  BY DEF Existing
<1> QED
  BY <1>1, <1>2, <1>3 DEF TopicsInv, ParentsExist, NoCycle

LEMMA BeginKeepsTree ==
  ASSUME TopicsInv, NEW m \in Movers, NEW t \in Topics, NEW p \in Topics \cup {Root},
         BeginMove(m, t, p)
  PROVE TopicsInv'
<1>1. PICK r \in Moves : r = [pc |-> "walk", topic |-> t, to |-> p, cursor |-> p, path |-> {}]
  BY DEF Moves
<1>2. move' = [move EXCEPT ![m] = r] /\ UNCHANGED <<parent, outdated>>
  BY <1>1 DEF BeginMove
<1>3. move'[m] = r
  BY <1>2 DEF TopicsInv
<1>4. WalkOf(m)'
  BY <1>1, <1>3 DEF WalkOf, OnPath
<1> QED
  BY <1>2, <1>4, WalkingKeepsTree

LEMMA WalkUpKeepsTree ==
  ASSUME TopicsInv, NEW m \in Movers, WalkUp(m)
  PROVE TopicsInv'
<1>1. PICK c \in Existing : c = move[m].cursor /\ c # move[m].topic
  BY DEF WalkUp
<1>2. parent[c] \in Topics \cup {Root} /\ c \in Topics
  BY DEF TopicsInv, ParentsExist, Existing
<1>3. move[m] \in Moves /\ WalkOf(m) /\ move[m].pc = "walk"
  BY DEF TopicsInv, WalkUp
<1>4. PICK r \in Moves : r = [move[m] EXCEPT !.cursor = parent[c],
                                             !.path = @ \cup {<<c, parent[c]>>}]
  <2> DEFINE p == move[m].path \cup {<<c, parent[c]>>}
  <2>1. p \in SUBSET (Topics \X (Topics \cup {Root}))
    BY <1>2, <1>3 DEF Moves
  <2> QED
    BY <1>2, <1>3, <2>1 DEF Moves
<1>5. move' = [move EXCEPT ![m] = r] /\ UNCHANGED <<parent, outdated>>
  BY <1>1, <1>4 DEF WalkUp, TopicsInv
<1>6. move'[m] = r
  BY <1>5 DEF TopicsInv
<1>7. /\ r.topic = move[m].topic /\ r.to = move[m].to /\ r.cursor = parent[c]
      /\ r.path = move[m].path \cup {<<c, parent[c]>>}
  BY <1>3, <1>4 DEF Moves
<1>8. OnPath(m)' = OnPath(m) \cup {c}
  <2>1. move'[m].path = move[m].path \cup {<<c, parent[c]>>}
    BY <1>6, <1>7
  <2>2. <<c, parent[c]>>[1] = c
    OBVIOUS
  <2> QED
    BY <2>1, <2>2, Zenon DEF OnPath
<1>9. WalkOf(m)'
  BY <1>1, <1>3, <1>6, <1>7, <1>8 DEF WalkOf
<1> QED
  BY <1>5, <1>9, WalkingKeepsTree

LEMMA RefuseKeepsTree ==
  ASSUME TopicsInv, NEW m \in Movers, RefuseMove(m)
  PROVE TopicsInv'
<1>1. NoMove \in Moves /\ NoMove.pc # "walk"
  BY DEF NoMove, Moves
<1>2. move' = [move EXCEPT ![m] = NoMove] /\ UNCHANGED <<parent, outdated>>
  BY DEF RefuseMove
<1>3. WalkOf(m)'
  BY <1>1, <1>2 DEF WalkOf, TopicsInv
<1> QED
  BY <1>1, <1>2, <1>3, WalkingKeepsTree

(***************************************************************************)
(* The commit of a move.  If the moved topic were on a cycle afterwards,   *)
(* the part of the cycle on the path of the walk would have been one       *)
(* before, for the walk ended at the root without meeting the topic.       *)
(***************************************************************************)
LEMMA CommitKeepsTree ==
  ASSUME TopicsInv, NEW m \in Movers, CommitMove(m)
  PROVE TopicsInv'
<1>0. NoMove \in Moves /\ NoMove.pc # "walk"
  BY DEF NoMove, Moves
<1>1. move' = [move EXCEPT ![m] = NoMove]
  BY DEF CommitMove
<1>2. WalkOf(m)'
  BY <1>0, <1>1 DEF WalkOf, TopicsInv
<1>3. CASE UNCHANGED <<parent, outdated>>
  BY <1>0, <1>1, <1>2, <1>3, WalkingKeepsTree
<1>4. CASE ~UNCHANGED <<parent, outdated>>
  <2>1. PICK t \in Existing, p \in Existing \cup {Root} :
          /\ t = move[m].topic /\ p = move[m].to
          /\ parent' = [parent EXCEPT ![t] = p]
          /\ outdated' = (outdated \/ \E step \in move[m].path : parent[step[1]] # step[2])
    BY <1>4 DEF CommitMove
  <2>2. WalkOf(m) /\ move[m].pc = "walk" /\ move[m].cursor = Root
    BY DEF TopicsInv, CommitMove
  <2>3. move[m].path \subseteq Topics \X (Topics \cup {Root})
    BY DEF TopicsInv, Moves
  <2>4. t \in Topics /\ p \in Topics \cup {Root} /\ p # Nowhere
    BY TopicsAssumption DEF Existing
  <2>5. parent' \in [Topics -> Topics \cup {Root, Nowhere}]
    BY <2>1, <2>4 DEF TopicsInv
  <2>6. Existing' = Existing
    BY <2>1, <2>4 DEF Existing, TopicsInv
  <2>7. parent'[t] = p /\ \A x \in Topics \ {t} : parent'[x] = parent[x]
    BY <2>1, <2>4 DEF TopicsInv
  <2>8. ParentsExist'
    BY <2>1, <2>6, <2>7 DEF ParentsExist, TopicsInv, Existing
  <2>9. \A n \in Movers : WalkOf(n)'
    BY <1>1, <1>2 DEF TopicsInv, WalkOf, OnPath
  <2>10. move' \in [Movers -> Moves] /\ outdated' \in BOOLEAN
    BY <1>0, <1>1, <2>1 DEF TopicsInv
  <2>11. ASSUME ~outdated' PROVE NoCycle'
    <3>1. NoCycle /\ \A step \in move[m].path : parent[step[1]] = step[2]
      BY <2>1, <2>11 DEF TopicsInv
    <3> SUFFICES ASSUME NEW S \in (SUBSET Existing) \ {{}}, \A x \in S : parent'[x] \in S
                 PROVE FALSE
      BY <2>6 DEF NoCycle
    <3>2. S \subseteq Topics /\ Root \notin S
      BY TopicsAssumption DEF Existing
    <3>3. t \in S
      BY <2>7, <3>1, <3>2 DEF NoCycle
    <3>4. p \in S /\ p \in OnPath(m)
      BY <2>1, <2>2, <2>7, <3>2, <3>3 DEF WalkOf
    <3>5. \A x \in S \cap OnPath(m) : parent[x] \in S \cap OnPath(m)
      <4> TAKE x \in S \cap OnPath(m)
      <4>1. PICK step \in move[m].path : step[1] = x
        BY DEF OnPath
      <4>2. parent[x] = step[2] /\ x # t
        BY <2>1, <2>2, <3>1, <4>1 DEF WalkOf
      <4>3. parent[x] \in S
        BY <2>7, <3>2, <4>2
      <4>4. parent[x] \in OnPath(m)
        BY <2>2, <3>2, <4>2, <4>3 DEF WalkOf
      <4> QED
        BY <4>3, <4>4
    <3> QED
      BY <3>1, <3>4, <3>5 DEF NoCycle
  <2> QED
    BY <2>5, <2>8, <2>9, <2>10, <2>11 DEF TopicsInv
<1> QED
  BY <1>3, <1>4

LEMMA TopicsStep == TopicsInv /\ [TopicsNext]_topicVars => TopicsInv'
<1> SUFFICES ASSUME TopicsInv, [TopicsNext]_topicVars PROVE TopicsInv'
  OBVIOUS
<1>1. CASE UNCHANGED topicVars
  BY <1>1 DEF topicVars, TopicsInv, ParentsExist, NoCycle, WalkOf, OnPath, Existing
<1>2. CASE TopicsNext
  BY <1>2, CreateKeepsTree, DeleteKeepsTree, BeginKeepsTree, WalkUpKeepsTree, RefuseKeepsTree,
     CommitKeepsTree DEF TopicsNext
<1> QED
  BY <1>1, <1>2

(***************************************************************************)
(* However topics are created, deleted and moved at once, the topics are a *)
(* forest as long as no move was written over a path that had changed.     *)
(***************************************************************************)
THEOREM TopicsAreATree == SceneSpec => []TreeStaysATree
<1>1. SceneInit => TopicsInv
  BY TopicsStart DEF SceneInit
<1>2. TopicsInv /\ [SceneNext]_<<part, otherVars, consoleVars>> => TopicsInv'
  <2>1. [SceneNext]_<<part, otherVars, consoleVars>> => [TopicsNext]_topicVars
    BY DEF SceneNext, otherVars, consoleVars
  <2> QED
    BY <2>1, TopicsStep
<1>3. TopicsInv => TreeStaysATree
  BY DEF TopicsInv, TreeStaysATree, ParentsExist, NoCycle
<1> QED
  BY <1>1, <1>2, <1>3, PTL DEF SceneSpec

-----------------------------------------------------------------------------
(* The refresh tokens of one account. *)

Good == {"live", "expired"}
Pages == [pc : {"idle", "read", "rotate", "reuse", "answered", "refused"},
          old : Tokens \cup {None}, new : Tokens \cup {None}]

(***************************************************************************)
(* The refresh r that the tab's requests share: until the rotation the one *)
(* live token is the tab's, afterwards the one on its way to the tab.      *)
(***************************************************************************)
RefreshOf(r) ==
  /\ r.old = tab /\ tab \in Tokens /\ leaving = None
  /\ \/ r.pc \in {"read", "rotate"} /\ r.new = None /\ LiveTokens \subseteq {tab} /\ token[tab] \in Good
     \/ r.pc = "refused" /\ r.new = None /\ LiveTokens = {}
     \/ r.pc = "answered" /\ r.new \in Tokens /\ LiveTokens \subseteq {r.new} /\ token[r.new] \in Good

Calm ==
  /\ ~reuse
  /\ \A f \in Flights : f # inFlight => flight[f] = NoFlight
  /\ inFlight = None => LiveTokens \subseteq {tab} /\ (tab # None => token[tab] \in Good)
  /\ inFlight # None => RefreshOf(flight[inFlight])
  /\ leaving \in {None, tab}

AuthInv == AuthTypeOK /\ (~disturbed => Calm)

LEMMA AuthStart == AuthInit => AuthInv
<1> SUFFICES ASSUME AuthInit PROVE AuthInv
  OBVIOUS
<1> USE DEF AuthInit
<1>1. AuthTypeOK
  BY DEF AuthTypeOK, NoFlight
<1>2. LiveTokens = {}
  BY DEF LiveTokens
<1>3. Calm
  BY <1>2 DEF Calm
<1> QED
  BY <1>1, <1>3 DEF AuthInv

LEMMA AuthTypes == AuthTypeOK /\ [AuthNext]_authVars => AuthTypeOK'
<1> SUFFICES ASSUME AuthTypeOK, [AuthNext]_authVars PROVE AuthTypeOK'
  OBVIOUS
<1> USE DEF AuthTypeOK
<1>1. CASE UNCHANGED authVars
  BY <1>1 DEF authVars
<1>2. CASE Register \/ VerifyTotp \/ SignIn \/ ReplyIsLost \/ BeginSignOut
  BY <1>2 DEF Register, VerifyTotp, SignIn, ReplyIsLost, BeginSignOut, Unissued
<1>3. CASE EndSignOut
  BY <1>3 DEF EndSignOut
<1>4. ASSUME NEW t \in Tokens, TokenExpires(t) PROVE AuthTypeOK'
  BY <1>4 DEF TokenExpires
<1>5. ASSUME NEW f \in Flights, EnsureRefresh(f) PROVE AuthTypeOK'
  BY <1>5 DEF EnsureRefresh, Asks
<1>6. ASSUME NEW f \in Flights, ReadToken(f) \/ EdgeRefuses(f) PROVE AuthTypeOK'
  <2>1. PICK q \in {"reuse", "refused", "rotate"} : flight' = [flight EXCEPT ![f].pc = q]
    BY <1>6 DEF ReadToken, EdgeRefuses
  <2>2. flight' \in [Flights -> Pages]
    BY <2>1 DEF Pages
  <2> QED
    BY <1>6, <2>2 DEF ReadToken, EdgeRefuses, Pages
<1>7. ASSUME NEW f \in Flights, RevokeAll(f) PROVE AuthTypeOK'
  BY <1>7 DEF RevokeAll
<1>8. ASSUME NEW f \in Flights, Rotate(f) PROVE AuthTypeOK'
  <2>1. PICK t \in Tokens : /\ token' = [token EXCEPT ![flight[f].old] = "revoked", ![t] = "live"]
                            /\ flight' = [flight EXCEPT ![f].pc = "answered", ![f].new = t]
    BY <1>8 DEF Rotate, Unissued
  <2>2. token' \in [Tokens -> {"absent", "live", "expired", "revoked"}]
    BY <2>1
  <2>3. flight' \in [Flights -> Pages]
    BY <2>1 DEF Pages
  <2> QED
    BY <1>8, <2>2, <2>3 DEF Rotate, Pages
<1>9. ASSUME NEW f \in Flights, Answer(f) PROVE AuthTypeOK'
  BY <1>9 DEF Answer, NoFlight
<1> QED
  BY <1>1, <1>2, <1>3, <1>4, <1>5, <1>6, <1>7, <1>8, <1>9 DEF AuthNext

(***************************************************************************)
(* What the page and the account do by themselves.                         *)
(***************************************************************************)
LEMMA PageKeepsCalm ==
  ASSUME AuthInv, ~disturbed',
         Register \/ VerifyTotp \/ SignIn \/ ReplyIsLost \/ BeginSignOut \/ EndSignOut
  PROVE Calm'
<1> USE AuthAssumption DEF AuthInv, AuthTypeOK
<1>1. CASE Register \/ VerifyTotp
  BY <1>1 DEF Register, VerifyTotp, Calm, RefreshOf, LiveTokens
<1>2. CASE SignIn
  <2>1. inFlight = None /\ LiveTokens = {} /\ Calm
    BY <1>2 DEF SignIn, Calm, RefreshOf, LiveTokens
  <2>2. PICK t \in Tokens : token' = [token EXCEPT ![t] = "live"] /\ tab' = t
    BY <1>2 DEF SignIn, Unissued
  <2>3. LiveTokens' = {t} /\ token'[t] = "live"
    BY <2>1, <2>2 DEF LiveTokens
  <2> QED
    BY <1>2, <2>1, <2>2, <2>3 DEF SignIn, Calm, Good
<1>3. CASE ReplyIsLost
  BY <1>3 DEF ReplyIsLost
<1>4. CASE BeginSignOut
  BY <1>4 DEF BeginSignOut, Calm, RefreshOf, LiveTokens
<1>5. CASE EndSignOut
  <2>1. /\ Calm /\ inFlight = None /\ leaving = tab /\ tab \in Tokens
        /\ token' = [token EXCEPT ![tab] = "revoked"] /\ tab' = None /\ leaving' = None
    BY <1>5 DEF EndSignOut, Calm, RefreshOf
  <2>2. LiveTokens' = {}
    BY <2>1 DEF Calm, LiveTokens
  <2> QED
    BY <1>5, <2>1, <2>2 DEF EndSignOut, Calm
<1> QED
  BY <1>1, <1>2, <1>3, <1>4, <1>5

\* whether or not a refresh is under way, an expired token is not revoked
LEMMA ExpiryKeepsCalm ==
  ASSUME AuthInv, ~disturbed', NEW t \in Tokens, TokenExpires(t)
  PROVE Calm'
<1> USE AuthAssumption DEF AuthInv, AuthTypeOK
<1>1. Calm /\ UNCHANGED <<account, reuse, tab, inFlight, leaving, flight, disturbed>>
  BY DEF TokenExpires
<1>2. LiveTokens' \subseteq LiveTokens
  BY DEF TokenExpires, LiveTokens
<1>3. \A x \in Tokens : token[x] \in Good => token'[x] \in Good
  BY DEF TokenExpires, Good
<1>4. CASE inFlight = None
  BY <1>1, <1>2, <1>3, <1>4 DEF Calm
<1>5. CASE inFlight # None
  <2>1. RefreshOf(flight[inFlight])'
    BY <1>1, <1>2, <1>3, <1>5 DEF Calm, RefreshOf
  <2> QED
    BY <1>1, <1>5, <2>1 DEF Calm
<1> QED
  BY <1>4, <1>5

(***************************************************************************)
(* A call at the server.  Unless something was disturbed it is the one the *)
(* tab's requests share.                                                   *)
(***************************************************************************)
LEMMA RefreshKeepsCalm ==
  ASSUME AuthInv, ~disturbed', NEW f \in Flights,
         ReadToken(f) \/ EdgeRefuses(f) \/ RevokeAll(f) \/ Rotate(f) \/ Answer(f)
  PROVE Calm'
<1> USE AuthAssumption DEF AuthInv, AuthTypeOK
<1>1. Calm
  BY DEF ReadToken, EdgeRefuses, RevokeAll, Rotate, Answer
<1>2. flight[f].pc # "idle"
  BY DEF ReadToken, EdgeRefuses, RevokeAll, Rotate, Answer
<1>3. f = inFlight /\ f # None /\ RefreshOf(flight[f])
  BY <1>1, <1>2 DEF Calm, NoFlight
<1>4. CASE ReadToken(f)
  <2>1. flight'[f].pc \in {"rotate", "refused"} /\ (flight'[f].pc = "refused" => token[tab] = "expired")
    BY <1>3, <1>4 DEF ReadToken, RefreshOf, Good
  <2>2. flight'[f].old = flight[f].old /\ flight'[f].new = flight[f].new
    BY <1>4 DEF ReadToken
  <2>3. flight[f].pc = "read"
    BY <1>4 DEF ReadToken
  <2>4. token[tab] = "expired" => LiveTokens = {}
    BY <1>3, <2>3 DEF RefreshOf, LiveTokens
  <2>5. UNCHANGED <<token, reuse, tab, inFlight, leaving>>
    BY <1>4 DEF ReadToken
  <2>6. RefreshOf(flight[f])'
    BY <1>3, <2>1, <2>2, <2>3, <2>4, <2>5 DEF RefreshOf, LiveTokens
  <2> QED
    BY <1>1, <1>3, <1>4, <2>5, <2>6 DEF ReadToken, Calm
<1>5. CASE EdgeRefuses(f)
  BY <1>5 DEF EdgeRefuses
<1>6. CASE RevokeAll(f)
  BY <1>3, <1>6 DEF RevokeAll, RefreshOf
<1>7. CASE Rotate(f)
  <2>1. PICK t \in Tokens : /\ token[t] = "absent"
                            /\ token' = [token EXCEPT ![flight[f].old] = "revoked", ![t] = "live"]
                            /\ flight' = [flight EXCEPT ![f].pc = "answered", ![f].new = t]
    BY <1>7 DEF Rotate, Unissued
  <2>2. flight[f].pc = "rotate" /\ UNCHANGED <<reuse, tab, inFlight, leaving>>
    BY <1>7 DEF Rotate
  <2>3. flight[f].old = tab /\ tab \in Tokens /\ LiveTokens \subseteq {tab} /\ tab # t
    BY <1>3, <2>1, <2>2 DEF RefreshOf, Good
  <2>4. LiveTokens' = {t} /\ token'[t] = "live"
    BY <2>1, <2>3 DEF LiveTokens
  <2>5. flight'[f].pc = "answered" /\ flight'[f].new = t /\ flight'[f].old = tab
    BY <2>1, <2>3
  <2>6. RefreshOf(flight[f])'
    BY <1>3, <2>2, <2>3, <2>4, <2>5 DEF RefreshOf, Good
  <2> QED
    BY <1>1, <1>3, <2>1, <2>2, <2>6 DEF Calm
<1>8. CASE Answer(f)
  BY <1>1, <1>3, <1>8 DEF Answer, Calm, RefreshOf, NoFlight, LiveTokens
<1> QED
  BY <1>4, <1>5, <1>6, <1>7, <1>8

LEMMA AuthStep == AuthInv /\ [AuthNext]_authVars => AuthInv'
<1> SUFFICES ASSUME AuthInv, [AuthNext]_authVars, ~disturbed' PROVE Calm'
  BY AuthTypes DEF AuthInv
<1>1. CASE UNCHANGED authVars
  BY <1>1 DEF authVars, AuthInv, Calm, RefreshOf, LiveTokens
<1>2. ASSUME NEW f \in Flights, EnsureRefresh(f) PROVE Calm'
  <2> USE AuthAssumption DEF AuthInv, AuthTypeOK
  <2>1. /\ Calm /\ inFlight = None /\ leaving = None /\ tab \in Tokens
        /\ flight' = [flight EXCEPT ![f] = [pc |-> "read", old |-> tab, new |-> None]]
        /\ inFlight' = f /\ UNCHANGED <<token, reuse, tab, leaving>>
    BY <1>2 DEF EnsureRefresh, Asks
  <2>2. RefreshOf(flight[f])'
    BY <2>1 DEF RefreshOf, Calm, LiveTokens
  <2> QED
    BY <2>1, <2>2 DEF Calm
<1> QED
  BY <1>1, <1>2, PageKeepsCalm, ExpiryKeepsCalm, RefreshKeepsCalm DEF AuthNext

(***************************************************************************)
(* However many requests are refused at once, and whenever tokens expire:  *)
(* while no answer is lost, the edge refuses no refresh and no sign-out    *)
(* meets one, nobody is taken for a thief and the one live token is the    *)
(* tab's or on its way to it.                                              *)
(***************************************************************************)
THEOREM TabsHoldTheToken == SceneSpec => []RotationIsExact
<1>1. SceneInit => AuthInv
  BY AuthStart DEF SceneInit
<1>2. AuthInv /\ [SceneNext]_<<part, otherVars, consoleVars>> => AuthInv'
  <2>1. [SceneNext]_<<part, otherVars, consoleVars>> => [AuthNext]_authVars
    BY DEF SceneNext, otherVars, consoleVars
  <2> QED
    BY <2>1, AuthStep
<1>3. AuthInv => RotationIsExact
  <2> SUFFICES ASSUME AuthInv, ~disturbed PROVE RotationIsExact
    BY DEF RotationIsExact
  <2> USE AuthAssumption DEF AuthInv, Calm
  <2>1. CASE inFlight = None
    BY <2>1 DEF RotationIsExact, Good
  <2>2. CASE inFlight # None
    <3>1. inFlight \in Flights /\ RefreshOf(flight[inFlight])
      BY <2>2 DEF AuthTypeOK
    <3>2. LiveTokens \subseteq {tab} \/ LiveTokens \subseteq {flight[inFlight].new}
      BY <3>1 DEF RefreshOf
    <3> QED
      BY <2>2, <3>1, <3>2 DEF RotationIsExact
  <2> QED
    BY <2>1, <2>2
<1> QED
  BY <1>1, <1>2, <1>3, PTL DEF SceneSpec

-----------------------------------------------------------------------------
(* The live view of a session's event log. *)

Once(s) == \A i, j \in DOMAIN s : s[i] = s[j] => i = j

\* a viewer was given g and will be given w: the events of P, each once
Follows(g, w, P) ==
  Once(g) /\ Once(w) /\ ToSet(g) \cap ToSet(w) = {} /\ ToSet(g) \cup ToSet(w) = P

LEMMA AppendOnce ==
  ASSUME NEW s \in Seq(Nat), NEW q \in Nat
  PROVE  /\ ToSet(Append(s, q)) = ToSet(s) \cup {q}
         /\ Once(s) /\ q \notin ToSet(s) => Once(Append(s, q))
<1>1. /\ DOMAIN s = 1..Len(s) /\ Len(s) \in Nat /\ DOMAIN Append(s, q) = 1..(Len(s) + 1)
      /\ \A i \in 1..Len(s) : Append(s, q)[i] = s[i]
      /\ Append(s, q)[Len(s) + 1] = q
  BY AppendProperties, LenProperties
<1>2. DOMAIN Append(s, q) = DOMAIN s \cup {Len(s) + 1}
  BY <1>1
<1>3. ToSet(Append(s, q)) = ToSet(s) \cup {q}
  BY <1>1, <1>2 DEF ToSet
<1>4. Once(s) /\ q \notin ToSet(s) => Once(Append(s, q))
  BY <1>1, <1>2 DEF Once, ToSet
<1> QED
  BY <1>3, <1>4

LEMMA TailOnce ==
  ASSUME NEW s \in Seq(Nat), s # <<>>
  PROVE  /\ Head(s) \in Nat /\ Tail(s) \in Seq(Nat)
         /\ ToSet(s) = ToSet(Tail(s)) \cup {Head(s)}
         /\ Once(s) => Once(Tail(s)) /\ Head(s) \notin ToSet(Tail(s))
<1>1. /\ Head(s) \in Nat /\ Tail(s) \in Seq(Nat) /\ Len(Tail(s)) = Len(s) - 1
      /\ \A i \in 1..Len(Tail(s)) : Tail(s)[i] = s[i + 1]
  BY HeadTailProperties
<1>2. Len(s) \in Nat \ {0} /\ DOMAIN s = 1..Len(s) /\ Head(s) = s[1]
  BY EmptySeq, LenProperties
<1>3. DOMAIN Tail(s) = 1..(Len(s) - 1)
  BY <1>1, LenProperties
<1>4. \A i \in DOMAIN Tail(s) : i + 1 \in DOMAIN s /\ i + 1 # 1 /\ Tail(s)[i] = s[i + 1]
  BY <1>1, <1>2, <1>3
<1>5. \A i \in DOMAIN s : i # 1 => i - 1 \in DOMAIN Tail(s) /\ Tail(s)[i - 1] = s[i]
  BY <1>1, <1>2, <1>3
<1>6. ToSet(s) = ToSet(Tail(s)) \cup {Head(s)}
  <2>1. ToSet(s) \subseteq ToSet(Tail(s)) \cup {Head(s)}
    BY <1>2, <1>5 DEF ToSet
  <2>2. ToSet(Tail(s)) \cup {Head(s)} \subseteq ToSet(s)
    BY <1>2, <1>4 DEF ToSet
  <2> QED
    BY <2>1, <2>2
<1>7. Once(s) => Once(Tail(s))
  <2> SUFFICES ASSUME Once(s), NEW i \in DOMAIN Tail(s), NEW j \in DOMAIN Tail(s),
                      Tail(s)[i] = Tail(s)[j]
               PROVE i = j
    BY DEF Once
  <2>1. i + 1 = j + 1
    BY <1>4 DEF Once
  <2> QED
    BY <1>2, <1>3, <2>1
<1>8. Once(s) => Head(s) \notin ToSet(Tail(s))
  BY <1>2, <1>4 DEF Once, ToSet
<1> QED
  BY <1>1, <1>6, <1>7, <1>8

LEMMA QueueOne ==
  ASSUME NEW g \in Seq(Nat), NEW w \in Seq(Nat), NEW P, NEW q \in Nat,
         Follows(g, w, P), q \notin P
  PROVE  Follows(g, Append(w, q), P \cup {q})
BY AppendOnce DEF Follows

LEMMA HandOne ==
  ASSUME NEW g \in Seq(Nat), NEW w \in Seq(Nat), NEW P, Follows(g, w, P), w # <<>>
  PROVE  /\ Follows(Append(g, Head(w)), Tail(w), P)
         /\ Append(g, Head(w)) \in Seq(Nat) /\ Tail(w) \in Seq(Nat)
<1>1. /\ Head(w) \in Nat /\ Tail(w) \in Seq(Nat) /\ Once(Tail(w))
      /\ ToSet(w) = ToSet(Tail(w)) \cup {Head(w)} /\ Head(w) \notin ToSet(Tail(w))
  BY TailOnce DEF Follows
<1>2. Head(w) \notin ToSet(g)
  BY <1>1 DEF Follows
<1>3. /\ Append(g, Head(w)) \in Seq(Nat) /\ Once(Append(g, Head(w)))
      /\ ToSet(Append(g, Head(w))) = ToSet(g) \cup {Head(w)}
  BY <1>1, <1>2, AppendOnce, AppendProperties DEF Follows
<1> QED
  BY <1>1, <1>3 DEF Follows

\* the events that the relay has carried to v since it subscribed
PublishedTo(v) == DOMAIN log \ (missed[v] \cup lost \cup Unpublished)

Work == [pc : {"idle", "insert", "publish"}, seq : 0..MaxEvents, live : BOOLEAN]

StreamTypes ==
  /\ log \in Seq(Emitters) /\ lost \subseteq DOMAIN log
  /\ emit \in [Emitters -> Work]
  /\ socket \in [Viewers -> {"closed", "accepted", "subscribed"}]
  /\ wire \in [Viewers -> Seq(Nat)] /\ got \in [Viewers -> Seq(Nat)]
  /\ missed \in [Viewers -> SUBSET Nat]

\* an event that waits for its publication is its emitter's, and was not lost
Pending ==
  \A e \in Emitters : emit[e].pc = "publish" =>
    emit[e].seq \in DOMAIN log \ lost /\ log[emit[e].seq] = e

ViewerInv(v) ==
  /\ socket[v] = "subscribed" => Follows(got[v], wire[v], PublishedTo(v))
  /\ socket[v] = "accepted" => got[v] = <<>>
  /\ socket[v] # "subscribed" => wire[v] = <<>>
  /\ missed[v] \subseteq DOMAIN log \ Unpublished
  /\ ToSet(got[v]) \subseteq DOMAIN log

StreamInv == StreamTypes /\ Pending /\ \A v \in Viewers : ViewerInv(v)

LEMMA StreamStart == StreamInit => StreamInv
<1> SUFFICES ASSUME StreamInit PROVE StreamInv
  OBVIOUS
<1> USE DEF StreamInit
<1>1. <<>> \in Seq(Emitters) /\ <<>> \in Seq(Nat) /\ ToSet(<<>>) = {}
  BY EmptySeq DEF ToSet
<1>2. Resting \in Work
  BY StreamAssumption DEF Resting, Work
<1>3. StreamTypes
  BY <1>1, <1>2 DEF StreamTypes
<1>4. Unpublished = {} /\ Pending
  BY DEF Unpublished, Pending, Resting
<1>5. \A v \in Viewers : ViewerInv(v)
  BY <1>1, <1>4 DEF ViewerInv
<1> QED
  BY <1>3, <1>4, <1>5 DEF StreamInv

(***************************************************************************)
(* The sockets' steps: the log and the emitters' numbers stay.             *)
(***************************************************************************)
LEMMA SocketKeepsStream ==
  ASSUME StreamInv, NEW v \in Viewers,
         AcceptSocket(v) \/ SubscribeSocket(v) \/ ForwardEvent(v)
  PROVE StreamInv'
<1> USE DEF StreamInv, StreamTypes
<1>1. UNCHANGED <<log, emit, lost>> /\ Unpublished' = Unpublished
  BY DEF AcceptSocket, SubscribeSocket, ForwardEvent, Unpublished
<1>2. Pending'
  BY <1>1 DEF Pending
<1>3. CASE AcceptSocket(v)
  <2>1. <<>> \in Seq(Nat) /\ ToSet(<<>>) = {}
    BY EmptySeq DEF ToSet
  <2>2. StreamTypes'
    BY <1>1, <1>3, <2>1 DEF AcceptSocket
  <2>3. \A u \in Viewers : ViewerInv(u)'
    BY <1>1, <1>3, <2>1 DEF AcceptSocket, ViewerInv, PublishedTo
  <2> QED
    BY <1>2, <2>2, <2>3
<1>4. CASE SubscribeSocket(v)
  <2>1. StreamTypes'
    <3>1. DOMAIN log \ Unpublished \in SUBSET Nat
      BY LenProperties
    <3> QED
      BY <1>1, <1>4, <3>1 DEF SubscribeSocket
  <2>2. ViewerInv(v)'
    <3>1. got[v] = <<>> /\ wire[v] = <<>>
      BY <1>4 DEF SubscribeSocket, ViewerInv
    <3>2. PublishedTo(v)' = {}
      BY <1>1, <1>4 DEF SubscribeSocket, PublishedTo
    <3>3. Follows(<<>>, <<>>, {}) /\ ToSet(<<>>) = {}
      BY DEF Follows, Once, ToSet
    <3> QED
      BY <1>1, <1>4, <3>1, <3>2, <3>3 DEF SubscribeSocket, ViewerInv
  <2>3. \A u \in Viewers \ {v} : ViewerInv(u)'
    BY <1>1, <1>4 DEF SubscribeSocket, ViewerInv, PublishedTo
  <2> QED
    BY <1>2, <2>1, <2>2, <2>3
<1>5. CASE ForwardEvent(v)
  <2>1. /\ socket[v] = "subscribed" /\ wire[v] # <<>> /\ UNCHANGED <<socket, missed>>
        /\ got' = [got EXCEPT ![v] = Append(got[v], Head(wire[v]))]
        /\ wire' = [wire EXCEPT ![v] = Tail(wire[v])]
    BY <1>5 DEF ForwardEvent
  <2>2. Follows(got[v], wire[v], PublishedTo(v)) /\ got[v] \in Seq(Nat) /\ wire[v] \in Seq(Nat)
    BY <2>1 DEF ViewerInv
  <2>3. /\ Follows(Append(got[v], Head(wire[v])), Tail(wire[v]), PublishedTo(v))
        /\ Append(got[v], Head(wire[v])) \in Seq(Nat) /\ Tail(wire[v]) \in Seq(Nat)
    BY <2>1, <2>2, HandOne
  <2>4. PublishedTo(v)' = PublishedTo(v)
    BY <1>1, <2>1 DEF PublishedTo
  <2>5. ViewerInv(v)'
    <3>1. PublishedTo(v) \subseteq DOMAIN log
      BY DEF PublishedTo
    <3>2. got'[v] = Append(got[v], Head(wire[v])) /\ wire'[v] = Tail(wire[v])
      BY <2>1
    <3>3. ToSet(got'[v]) \subseteq DOMAIN log
      BY <2>3, <3>1, <3>2 DEF Follows
    <3> QED
      BY <1>1, <2>1, <2>3, <2>4, <3>2, <3>3 DEF ViewerInv
  <2>6. \A u \in Viewers \ {v} : ViewerInv(u)'
    BY <1>1, <2>1 DEF ViewerInv, PublishedTo
  <2>7. StreamTypes'
    BY <1>1, <2>1, <2>3
  <2> QED
    BY <1>2, <2>5, <2>6, <2>7
<1> QED
  BY <1>3, <1>4, <1>5

(***************************************************************************)
(* A step in which no number is published and a viewer's connection can    *)
(* only close: what it leaves alone keeps the invariant.                   *)
(***************************************************************************)
LEMMA ClosingKeepsViewers ==
  ASSUME StreamInv, UNCHANGED <<got, missed>>, Unpublished' \subseteq Unpublished,
         NEW v \in Viewers, DOMAIN log' = DOMAIN log,
         Unpublished \cup lost = Unpublished' \cup lost',
         \/ socket'[v] = socket[v] /\ wire'[v] = wire[v]
         \/ socket'[v] = "closed" /\ wire'[v] = <<>>
  PROVE ViewerInv(v)'
BY DEF StreamInv, ViewerInv, PublishedTo

LEMMA StreamStep == StreamInv /\ [StreamNext]_streamVars => StreamInv'
<1> SUFFICES ASSUME StreamInv, [StreamNext]_streamVars PROVE StreamInv'
  OBVIOUS
<1> USE DEF StreamInv, StreamTypes
<1>0. CASE UNCHANGED streamVars
  <2>1. UNCHANGED <<log, emit, socket, wire, got, missed, lost>> /\ Unpublished' = Unpublished
    BY <1>0 DEF streamVars, Unpublished
  <2>2. StreamTypes' /\ Pending'
    BY <2>1 DEF Pending
  <2>3. \A v \in Viewers : ViewerInv(v)'
    BY <2>1 DEF ViewerInv, PublishedTo
  <2> QED
    BY <2>2, <2>3
<1>1. ASSUME NEW e \in Emitters, ReadSeq(e) PROVE StreamInv'
  <2>1. /\ UNCHANGED <<log, socket, wire, got, missed, lost>> /\ Len(log) < MaxEvents
        /\ emit' = [emit EXCEPT ![e] = [pc |-> "insert", seq |-> Len(log) + 1, live |-> TRUE]]
        /\ emit[e].pc = "idle"
    BY <1>1 DEF ReadSeq
  <2>2. Len(log) \in Nat /\ Len(log) + 1 \in 0..MaxEvents
    BY <2>1, StreamAssumption, LenProperties
  <2>3. StreamTypes'
    BY <2>1, <2>2 DEF Work
  <2>4. Unpublished' = Unpublished /\ Pending'
    BY <2>1 DEF Unpublished, Pending
  <2>5. \A v \in Viewers : ViewerInv(v)'
    BY <2>1, <2>4 DEF ViewerInv, PublishedTo
  <2> QED
    BY <2>3, <2>4, <2>5
<1>2. ASSUME NEW e \in Emitters, InsertEvent(e) PROVE StreamInv'
  <2>1. /\ UNCHANGED <<socket, wire, got, missed, lost>> /\ log' = Append(log, e)
        /\ emit' = [emit EXCEPT ![e].pc = "publish"]
        /\ emit[e].pc = "insert" /\ emit[e].seq = Len(log) + 1
    BY <1>2 DEF InsertEvent
  <2>2. /\ Len(log) \in Nat /\ DOMAIN log = 1..Len(log) /\ log' \in Seq(Emitters)
        /\ DOMAIN log' = 1..(Len(log) + 1) /\ log'[Len(log) + 1] = e
        /\ \A i \in DOMAIN log : log'[i] = log[i]
    BY <2>1, LenProperties, AppendProperties
  <2> DEFINE n == Len(log) + 1
  <2>3. DOMAIN log' = DOMAIN log \cup {n} /\ n \notin DOMAIN log
    BY <2>2
  <2>4. StreamTypes'
    BY <2>1, <2>2, <2>3 DEF Work
  <2>5. Unpublished' = Unpublished \cup {emit[e].seq}
    BY <2>1 DEF Unpublished, Work
  <2>6. Pending'
    BY <2>1, <2>2, <2>3 DEF Pending, Work
  <2>7. PICK q \in Nat : /\ DOMAIN log' = DOMAIN log \cup {q} /\ q \notin DOMAIN log
                         /\ Unpublished' = Unpublished \cup {q}
    <3>1. n \in Nat /\ emit[e].seq = n
      BY <2>1, <2>2
    <3> HIDE DEF n
    <3> QED
      BY <2>3, <2>5, <3>1, Zenon
  <2>8. \A v \in Viewers : PublishedTo(v)' = PublishedTo(v)
    BY <2>1, <2>7 DEF PublishedTo
  <2>9. \A v \in Viewers : ViewerInv(v)'
    BY <2>1, <2>7, <2>8 DEF ViewerInv
  <2> QED
    BY <2>4, <2>6, <2>9
<1>3. ASSUME NEW e \in Emitters, HandlerEnds(e), DOMAIN log' = DOMAIN log, log' = log,
             lost' \subseteq DOMAIN log, emit[e].pc # "idle",
             \A f \in Emitters \ {e} : emit[f].pc = "publish" => emit[f].seq \notin lost',
             Unpublished \cup lost = Unpublished' \cup lost'
      PROVE StreamInv'
  <2>1. /\ UNCHANGED <<got, missed>> /\ emit' = [emit EXCEPT ![e] = Resting]
        /\ \/ UNCHANGED <<socket, wire>>
           \/ /\ socket' = [socket EXCEPT !["candidate"] = "closed"]
              /\ wire' = [wire EXCEPT !["candidate"] = <<>>]
    BY <1>3 DEF HandlerEnds, Fresh
  <2>2. <<>> \in Seq(Nat) /\ Resting \in Work
    BY EmptySeq, StreamAssumption DEF Resting, Work
  <2>3. StreamTypes'
    BY <1>3, <2>1, <2>2
  <2>4. Unpublished' \subseteq Unpublished
    BY <2>1 DEF Unpublished, Resting
  <2>5. Pending'
    BY <1>3, <2>1 DEF Pending, Resting
  <2>6. \A v \in Viewers : ViewerInv(v)'
    BY <1>3, <2>1, <2>4, ClosingKeepsViewers
  <2> QED
    BY <2>3, <2>5, <2>6
<1>4. ASSUME NEW e \in Emitters, SeqIsTaken(e) PROVE StreamInv'
  <2>1. HandlerEnds(e) /\ UNCHANGED <<log, lost>> /\ emit[e].pc = "insert"
    BY <1>4 DEF SeqIsTaken
  <2>2. Unpublished' = Unpublished
    BY <2>1 DEF HandlerEnds, Unpublished, Resting
  <2> QED
    BY <1>3, <2>1, <2>2 DEF Pending
<1>5. ASSUME NEW e \in Emitters, EventIsLost(e) PROVE StreamInv'
  <2>1. /\ HandlerEnds(e) /\ UNCHANGED log /\ emit[e].pc = "publish"
        /\ lost' = lost \cup {emit[e].seq}
    BY <1>5 DEF EventIsLost
  <2>2. emit[e].seq \in DOMAIN log /\ \A f \in Emitters \ {e} :
          emit[f].pc = "publish" => emit[f].seq # emit[e].seq /\ emit[f].seq \notin lost
    BY <2>1 DEF Pending
  <2>3. Unpublished' = Unpublished \ {emit[e].seq} /\ emit[e].seq \in Unpublished
    BY <2>1, <2>2 DEF HandlerEnds, Unpublished, Resting
  <2> QED
    BY <1>3, <2>1, <2>2, <2>3
<1>6. ASSUME NEW e \in Emitters, PublishEvent(e) PROVE StreamInv'
  <2>1. /\ UNCHANGED <<log, socket, got, missed, lost>> /\ emit[e].pc = "publish"
        /\ emit' = [emit EXCEPT ![e] = Resting] /\ wire' = Sent(emit[e].seq)
    BY <1>6 DEF PublishEvent
  <2>2. PICK q \in Nat : q = emit[e].seq
    BY DEF Work
  <2>3. q \in DOMAIN log \ lost /\ q \in Unpublished
    BY <2>1, <2>2 DEF Pending, Unpublished
  <2>4. Unpublished' = Unpublished \ {q}
    <3>1. \A f \in Emitters \ {e} : emit[f].pc = "publish" => emit[f].seq # q
      BY <2>1, <2>2 DEF Pending
    <3> QED
      BY <2>1, <2>2, <3>1 DEF Unpublished, Resting
  <2>5. StreamTypes'
    <3>1. Resting \in Work
      BY StreamAssumption DEF Resting, Work
    <3>2. \A v \in Viewers : Append(wire[v], q) \in Seq(Nat)
      BY AppendProperties
    <3> QED
      BY <2>1, <2>2, <3>1, <3>2 DEF Sent
  <2>6. Pending'
    BY <2>1 DEF Pending, Resting
  <2>7. ASSUME NEW v \in Viewers PROVE ViewerInv(v)'
    <3>1. CASE socket[v] # "subscribed"
      BY <2>1, <2>4, <3>1 DEF ViewerInv, Sent
    <3>2. CASE socket[v] = "subscribed"
      <4>1. wire'[v] = Append(wire[v], q)
        BY <2>1, <2>2, <3>2 DEF Sent
      <4>2. q \notin PublishedTo(v) /\ q \notin missed[v]
        BY <2>3 DEF PublishedTo, ViewerInv
      <4>3. PublishedTo(v)' = PublishedTo(v) \cup {q}
        BY <2>1, <2>3, <2>4, <4>2 DEF PublishedTo
      <4>4. Follows(got[v], Append(wire[v], q), PublishedTo(v) \cup {q})
        BY <3>2, <4>2, QueueOne DEF ViewerInv
      <4> QED
        BY <2>1, <2>4, <3>2, <4>1, <4>3, <4>4 DEF ViewerInv
    <3> QED
      BY <3>1, <3>2
  <2> QED
    BY <2>5, <2>6, <2>7
<1>7. ASSUME NEW v \in Viewers, CloseSocket(v) PROVE StreamInv'
  <2>1. /\ UNCHANGED <<log, got, missed, lost>>
        /\ socket' = [socket EXCEPT ![v] = "closed"] /\ wire' = [wire EXCEPT ![v] = <<>>]
        /\ emit' = emit \/ emit' = [emit EXCEPT !["snapshot"].live = FALSE]
    BY <1>7 DEF CloseSocket
  <2>2. \A e \in Emitters : emit'[e].pc = emit[e].pc /\ emit'[e].seq = emit[e].seq
    <3>1. CASE emit' = [emit EXCEPT !["snapshot"].live = FALSE]
      <4> TAKE e \in Emitters
      <4>1. emit[e] \in Work
        OBVIOUS
      <4>2. emit'[e] = IF e = "snapshot" THEN [emit[e] EXCEPT !.live = FALSE] ELSE emit[e]
        BY <3>1
      <4> QED
        BY <4>1, <4>2 DEF Work
    <3> QED
      BY <2>1, <3>1
  <2>3. Unpublished' = Unpublished
    BY <2>2 DEF Unpublished
  <2>6. Pending'
    BY <2>1, <2>2 DEF Pending
  <2>4. StreamTypes'
    <3>1. <<>> \in Seq(Nat)
      BY EmptySeq
    <3>2. emit' \in [Emitters -> Work]
      BY <2>1 DEF Work
    <3> QED
      BY <2>1, <3>1, <3>2
  <2>5. \A u \in Viewers : ViewerInv(u)'
    BY <2>1, <2>3, ClosingKeepsViewers
  <2> QED
    BY <2>4, <2>5, <2>6
<1> QED
  BY <1>0, <1>1, <1>2, <1>4, <1>5, <1>6, <1>7, SocketKeepsStream DEF StreamNext

(***************************************************************************)
(* Whatever emitters collide, connections break and publications fail: a   *)
(* subscribed viewer with nothing on its way was given every event that    *)
(* was published since it subscribed, once each, and no other.             *)
(***************************************************************************)
THEOREM ViewsAreTheLog == SceneSpec => []ViewersSeeTheLog
<1>1. SceneInit => StreamInv
  BY StreamStart DEF SceneInit
<1>2. StreamInv /\ [SceneNext]_<<part, otherVars, consoleVars>> => StreamInv'
  <2>1. [SceneNext]_<<part, otherVars, consoleVars>> => [StreamNext]_streamVars
    BY DEF SceneNext, otherVars, consoleVars
  <2> QED
    BY <2>1, StreamStep
<1>3. StreamInv => ViewersSeeTheLog
  <2> SUFFICES ASSUME StreamInv, Unpublished = {}, NEW v \in Viewers,
                      socket[v] = "subscribed", wire[v] = <<>>
               PROVE Once(got[v]) /\ ToSet(got[v]) = DOMAIN log \ (missed[v] \cup lost)
    BY DEF ViewersSeeTheLog, Once
  <2>1. PublishedTo(v) = DOMAIN log \ (missed[v] \cup lost)
    BY DEF PublishedTo
  <2>2. Follows(got[v], <<>>, DOMAIN log \ (missed[v] \cup lost))
    BY <2>1 DEF StreamInv, ViewerInv
  <2>3. ToSet(<<>>) = {}
    BY DEF ToSet
  <2> QED
    BY <2>2, <2>3 DEF Follows
<1> QED
  BY <1>1, <1>2, <1>3, PTL DEF SceneSpec

-----------------------------------------------------------------------------
(* The candidate's page. *)

Draft == [of : Keys \cup {<<0, "none">>}, n : Nat]
Posted == [pc : {"sent", "taken", "refused"}, of : Keys, own : BOOLEAN, shown : BOOLEAN,
           version : Nat]
Taken == [of : Keys, own : BOOLEAN, shown : BOOLEAN]

RoomTypes ==
  /\ assigned \in [Ordinals -> Nat \ {0}] /\ loaded \in [Ordinals -> Nat]
  /\ heard \in [Ordinals -> Nat] /\ fetch \in [Ordinals -> [busy : BOOLEAN, read : Nat]]
  /\ over \in BOOLEAN /\ graded \subseteq Taken
  /\ sending \subseteq Posted /\ (sending = {} \/ \E s \in Posted : sending = {s})
  /\ active \in Ordinals \cup {0} /\ language \in Languages /\ source \in Draft
  /\ saved \in [Keys -> Draft] /\ typed \in [Keys -> Nat]
  /\ hasty \subseteq Keys /\ raced \subseteq Ordinals /\ stale \subseteq Ordinals

(***************************************************************************)
(* The text: the editor shows the draft of the question it is for, and a   *)
(* draft holds what was typed.                                             *)
(***************************************************************************)
ShownIsSeed == active # 0 /\ ~Waiting => source = Seed(Here)
DraftKept(k) ==
  saved[k] \in {Empty, [of |-> k, n |-> typed[k]]} /\ (saved[k] = Empty => typed[k] = 0)
TextInv == ShownIsSeed /\ \A k \in Keys \ hasty : DraftKept(k)

\* what was sent was written for its question
OwnInv == \A s \in sending \cup graded : s.of \notin hasty => s.own

(***************************************************************************)
(* The contents: no answer names a version that was not assigned; and      *)
(* unless it met an older fetch, what is read of a question after the      *)
(* answer, or shown of it unmarked, is the version of the answer or later. *)
(***************************************************************************)
ContentInv ==
  /\ \A s \in sending : s.version <= assigned[s.of[1]]
  /\ \A o \in Ordinals :
       /\ heard[o] <= assigned[o] /\ loaded[o] <= assigned[o] /\ fetch[o].read <= assigned[o]
       /\ fetch[o].read # 0 => fetch[o].busy
       /\ o \notin raced /\ fetch[o].read # 0 => fetch[o].read >= heard[o]
       /\ o \notin raced \cup stale /\ loaded[o] # 0 => loaded[o] >= heard[o]

\* before the session has arrived there is nothing to show
FreshInv == active = 0 => sending = {} /\ \A o \in Ordinals : loaded[o] = 0 /\ fetch[o] = Idle

RoomInv == RoomTypes /\ TextInv /\ OwnInv /\ ContentInv /\ FreshInv

LEMMA TheFirst == FirstQuestion \in Ordinals
<1>1. PICK o \in Ordinals : \A p \in Ordinals : <<p, o>> \notin OpToRel(<, Nat)
  BY RoomAssumption, NatLessThanWellFounded, WFMin
<1>2. \A p \in Ordinals : ~(p < o)
  BY <1>1, RoomAssumption DEF OpToRel
<1>3. \A p \in Ordinals : o <= p
  BY <1>2, RoomAssumption
<1> QED
  BY <1>3 DEF FirstQuestion

\* drafts and starters are told apart
LEMMA Drafts ==
  /\ Empty \in Draft /\ Idle \in [busy : BOOLEAN, read : Nat] /\ Asked \in [busy : BOOLEAN, read : Nat]
  /\ \A k \in Keys : StarterOf(k) \in Draft /\ StarterOf(k) # Empty /\ StarterOf(k).of = k
  /\ \A k \in Keys : k[1] \in Ordinals /\ k # <<0, "none">>
<1>1. \A k \in Keys : k[1] \in Ordinals /\ k # <<0, "none">>
  <2> TAKE k \in Keys
  <2>1. PICK o \in Ordinals, l \in Languages : k = <<o, l>>
    BY DEF Keys
  <2>2. o # 0
    BY RoomAssumption
  <2> QED
    BY <2>1, <2>2
<1> QED
  BY <1>1 DEF Empty, Idle, Asked, StarterOf, Draft

LEMMA SeedType ==
  ASSUME RoomTypes, NEW k \in Keys
  PROVE  Seed(k) \in Draft
BY Drafts DEF RoomTypes, Seed

LEMMA HereIsAKey ==
  ASSUME RoomTypes, active # 0
  PROVE  Here \in Keys /\ active \in Ordinals /\ Here[1] = active
BY DEF RoomTypes, Here, Keys

LEMMA RoomStart == RoomInit => RoomInv
<1> SUFFICES ASSUME RoomInit PROVE RoomInv
  OBVIOUS
<1> USE DEF RoomInit
<1>1. RoomTypes
  <2>1. Empty \in Draft /\ Idle \in [busy : BOOLEAN, read : Nat] /\ "python" \in Languages
    BY Drafts, RoomAssumption
  <2>2. assigned \in [Ordinals -> Nat \ {0}] /\ loaded \in [Ordinals -> Nat]
    OBVIOUS
  <2>3. heard \in [Ordinals -> Nat] /\ fetch \in [Ordinals -> [busy : BOOLEAN, read : Nat]]
    BY <2>1
  <2>4. saved \in [Keys -> Draft] /\ typed \in [Keys -> Nat] /\ source \in Draft
    BY <2>1
  <2>5. /\ over \in BOOLEAN /\ graded = {} /\ sending = {} /\ active = 0 /\ language \in Languages
        /\ hasty = {} /\ raced = {} /\ stale = {}
    BY <2>1
  <2> HIDE DEF RoomInit
  <2> QED
    BY <2>2, <2>3, <2>4, <2>5 DEF RoomTypes
<1>2. TextInv
  BY DEF TextInv, ShownIsSeed, DraftKept, Waiting
<1>3. OwnInv
  BY DEF OwnInv
<1>4. ContentInv
  BY DEF ContentInv, Idle
<1>5. FreshInv
  BY DEF FreshInv
<1> QED
  BY <1>1, <1>2, <1>3, <1>4, <1>5 DEF RoomInv

-----------------------------------------------------------------------------
(* What a step that leaves some variables alone keeps. *)

LEMMA TextFrame ==
  ASSUME TextInv, UNCHANGED <<active, language, source, saved, typed, loaded>>,
         hasty \subseteq hasty'
  PROVE  TextInv'
BY DEF TextInv, ShownIsSeed, DraftKept, Waiting, Here, Seed

LEMMA OwnFrame ==
  ASSUME OwnInv, sending' \subseteq sending, graded' \subseteq graded, hasty \subseteq hasty'
  PROVE  OwnInv'
BY DEF OwnInv

LEMMA ContentFrame ==
  ASSUME ContentInv, UNCHANGED <<assigned, loaded, heard, fetch, stale, raced>>,
         sending' \subseteq sending
  PROVE  ContentInv'
BY DEF ContentInv

\* asking for content forgets what an older request read
LEMMA AskingKeepsContent ==
  ASSUME RoomTypes, ContentInv, UNCHANGED <<assigned, loaded, heard, stale, raced>>,
         sending' \subseteq sending,
         NEW o \in Ordinals, NEW r \in {Asked, Idle}, fetch' = [fetch EXCEPT ![o] = r]
  PROVE  ContentInv'
BY DEF ContentInv, RoomTypes, Asked, Idle

LEMMA ObserveAsks ==
  ASSUME NEW o \in Ordinals, Observe(o)
  PROVE  fetch' = fetch \/ fetch' = [fetch EXCEPT ![o] = Asked]
BY DEF Observe

-----------------------------------------------------------------------------
(* What the candidate does. *)

LEMMA LookingKeepsRoom ==
  ASSUME RoomInv, EnterRoom \/ \E o \in Ordinals : Select(o)
  PROVE  RoomInv'
<1> USE DEF RoomInv
<1>1. PICK o \in Ordinals : Observe(o) /\ active' = o /\ (EnterRoom \/ Select(o))
  BY TheFirst DEF EnterRoom, Select
<1>2. /\ UNCHANGED <<assigned, over, graded, language, saved, loaded, stale, sending, typed,
                     hasty, raced, heard>>
  BY <1>1 DEF EnterRoom, Select, serverVars, ghosts
<1>3. ContentInv' /\ OwnInv'
  BY <1>1, <1>2, Drafts, ObserveAsks, ContentFrame, AskingKeepsContent, OwnFrame
<1>4. fetch' \in [Ordinals -> [busy : BOOLEAN, read : Nat]]
  BY <1>1, ObserveAsks, Drafts DEF RoomTypes
<1>5. <<o, language>> \in Keys
  BY DEF RoomTypes, Keys
<1>8. FreshInv'
  BY <1>1, RoomAssumption DEF FreshInv
<1>6. CASE EnterRoom
  <2>1. source' = source /\ active = 0 /\ active' = FirstQuestion
    BY <1>6 DEF EnterRoom
  <2>2. RoomTypes'
    BY <1>1, <1>2, <1>4, <2>1 DEF RoomTypes
  <2>3. Waiting'
    BY <1>1, <1>2, <2>1, TheFirst, RoomAssumption DEF Waiting, FreshInv
  <2>4. TextInv'
    BY <1>2, <2>3 DEF TextInv, ShownIsSeed, DraftKept
  <2> QED
    BY <1>3, <1>8, <2>2, <2>4
<1>7. CASE Select(o)
  <2>1. source' = IF loaded[o] = 0 THEN source ELSE Seed(<<o, language>>)
    BY <1>7 DEF Select
  <2>2. source' \in Draft
    BY <1>5, <2>1, SeedType DEF RoomTypes
  <2>3. RoomTypes'
    BY <1>1, <1>2, <1>4, <2>2 DEF RoomTypes
  <2>4. TextInv'
    BY <1>1, <1>2, <2>1 DEF TextInv, ShownIsSeed, DraftKept, Waiting, Here, Seed
  <2> QED
    BY <1>3, <1>8, <2>3, <2>4
<1> QED
  BY <1>1, <1>6, <1>7

LEMMA ChooseKeepsRoom ==
  ASSUME RoomInv, NEW l \in Languages, ChooseLanguage(l)
  PROVE  RoomInv'
<1> USE DEF RoomInv
<1>1. /\ UNCHANGED <<assigned, over, graded, active, saved, loaded, stale, fetch, sending,
                     hasty, raced, heard, typed>>
      /\ active # 0 /\ language' = l
      /\ source' = IF Waiting THEN source ELSE Seed(<<active, l>>)
  BY DEF ChooseLanguage, serverVars
<1>2. <<active, l>> \in Keys
  BY <1>1 DEF RoomTypes, Keys
<1>3. RoomTypes'
  BY <1>1, <1>2, SeedType DEF RoomTypes
<1>4. TextInv'
  BY <1>1 DEF TextInv, ShownIsSeed, DraftKept, Waiting, Here, Seed
<1>5. OwnInv' /\ ContentInv' /\ FreshInv'
  BY <1>1, OwnFrame, ContentFrame DEF FreshInv
<1> QED
  BY <1>3, <1>4, <1>5

LEMMA TypeKeepsRoom ==
  ASSUME RoomInv, Type
  PROVE  RoomInv'
<1> USE DEF RoomInv
<1>1. /\ UNCHANGED <<assigned, over, graded, active, language, loaded, stale, fetch, sending,
                     raced, heard>>
      /\ active # 0
      /\ source' = IF source = Empty THEN [of |-> Here, n |-> 1] ELSE [source EXCEPT !.n = @ + 1]
      /\ saved' = [saved EXCEPT ![Here] = source']
      /\ typed' = [typed EXCEPT ![Here] = typed[Here] + 1]
      /\ hasty' = IF Waiting THEN hasty \cup {Here} ELSE hasty
  BY DEF Type, serverVars
<1>2. PICK k \in Keys : k = Here
  BY <1>1, HereIsAKey
<1>3. source \in Draft /\ saved[k] \in Draft /\ typed[k] \in Nat
  BY DEF RoomTypes
<1>4. source' \in Draft /\ source' # Empty
  <2>1. source' = IF source = Empty THEN [of |-> k, n |-> 1] ELSE [source EXCEPT !.n = @ + 1]
    BY <1>1, <1>2
  <2>2. CASE source = Empty
    <3>1. source' = [of |-> k, n |-> 1]
      BY <2>1, <2>2
    <3>2. source'.n = 1 /\ source' \in Draft
      BY <3>1 DEF Draft
    <3>3. Empty.n = 0
      BY DEF Empty
    <3> QED
      BY <3>2, <3>3
  <2>3. CASE source # Empty
    <3>0. PICK f \in Keys \cup {<<0, "none">>}, n \in Nat : source = [of |-> f, n |-> n]
      BY <1>3 DEF Draft
    <3>1. source' = [of |-> f, n |-> n + 1]
      BY <2>1, <2>3, <3>0
    <3>2. n + 1 \in Nat \ {0}
      BY <3>0
    <3> QED
      BY <3>1, <3>2 DEF Draft, Empty
  <2> QED
    BY <2>2, <2>3
<1>5. /\ saved'[k] = source' /\ typed'[k] = typed[k] + 1
      /\ \A j \in Keys \ {k} : saved'[j] = saved[j] /\ typed'[j] = typed[j]
  BY <1>1, <1>2 DEF RoomTypes
<1>6. RoomTypes'
  BY <1>1, <1>2, <1>3, <1>4 DEF RoomTypes
<1>7. ShownIsSeed'
  BY <1>1, <1>2, <1>4, <1>5 DEF ShownIsSeed, Seed, Here
<1>8. ASSUME k \notin hasty' PROVE DraftKept(k)'
  <2>1. source = Seed(k) /\ DraftKept(k)
    BY <1>1, <1>2, <1>8 DEF TextInv, ShownIsSeed
  <2>2. CASE saved[k] = Empty
    <3>1. source = StarterOf(k) /\ source # Empty /\ typed[k] = 0
      BY <2>1, <2>2, Drafts DEF Seed, DraftKept
    <3>2. source' = [of |-> k, n |-> 1]
      BY <1>1, <3>1 DEF StarterOf
    <3> QED
      BY <1>4, <1>5, <3>1, <3>2 DEF DraftKept
  <2>3. CASE saved[k] # Empty
    <3>1. source = [of |-> k, n |-> typed[k]] /\ source # Empty
      BY <2>1, <2>3 DEF Seed, DraftKept
    <3>2. source' = [of |-> k, n |-> typed[k] + 1]
      BY <1>1, <3>1
    <3> QED
      BY <1>4, <1>5, <3>2 DEF DraftKept
  <2> QED
    BY <2>2, <2>3
<1>9. TextInv'
  BY <1>1, <1>5, <1>7, <1>8 DEF TextInv, DraftKept
<1>10. OwnInv' /\ ContentInv' /\ FreshInv'
  BY <1>1, OwnFrame, ContentFrame DEF FreshInv
<1> QED
  BY <1>6, <1>9, <1>10

LEMMA SendKeepsRoom ==
  ASSUME RoomInv, Send
  PROVE  RoomInv'
<1> USE DEF RoomInv
<1>1. /\ UNCHANGED <<assigned, over, graded, active, language, source, saved, loaded, stale,
                     fetch, raced, heard, typed>>
      /\ active # 0
      /\ hasty' = IF Waiting THEN hasty \cup {Here} ELSE hasty
      /\ sending' = {[pc |-> "sent", of |-> Here, own |-> source.of = Here,
                      shown |-> loaded[active] \in {0, assigned[active]}, version |-> 0]}
  BY DEF Send, serverVars
<1>2. PICK k \in Keys : k = Here
  BY <1>1, HereIsAKey
<1>3. PICK s \in Posted : /\ sending' = {s} /\ s.of = k /\ s.version = 0
                          /\ s.own = (source.of = k)
  <2>1. PICK b \in BOOLEAN, c \in BOOLEAN :
          c = (source.of = k) /\ sending' = {[pc |-> "sent", of |-> k, own |-> c, shown |-> b,
                                             version |-> 0]}
    <3> DEFINE upToDate == loaded[active] \in {0, assigned[active]}
    <3>1. PICK b \in BOOLEAN : b = upToDate
      <4>1. upToDate \in BOOLEAN
        OBVIOUS
      <4> HIDE DEF upToDate
      <4> QED
        BY <4>1, Zenon
    <3>2. PICK c \in BOOLEAN : c = (source.of = k)
      <4>1. CASE source.of = k
        BY <4>1, Zenon
      <4>2. CASE source.of # k
        BY <4>2, Zenon
      <4> QED
        BY <4>1, <4>2, Zenon
    <3> QED
      BY <1>1, <1>2, <3>1, <3>2
  <2>2. [pc |-> "sent", of |-> k, own |-> c, shown |-> b, version |-> 0] \in Posted
    BY DEF Posted
  <2> QED
    BY <2>1, <2>2
<1>4. k \notin hasty' => s.own
  <2> SUFFICES ASSUME k \notin hasty' PROVE source.of = k
    BY <1>3
  <2>1. source = Seed(k) /\ DraftKept(k)
    BY <1>1, <1>2 DEF TextInv, ShownIsSeed
  <2>2. source = StarterOf(k) \/ source = [of |-> k, n |-> typed[k]]
    BY <2>1 DEF Seed, DraftKept
  <2> QED
    BY <2>2 DEF StarterOf
<1>5. OwnInv'
  BY <1>1, <1>3, <1>4 DEF OwnInv
<1>6. ContentInv'
  <2>1. k[1] \in Ordinals /\ s.of = k /\ s.version = 0
    BY <1>3, Drafts
  <2>2. assigned[k[1]] \in Nat
    BY <2>1 DEF RoomTypes
  <2>3. s.version <= assigned[s.of[1]]
    BY <2>1, <2>2
  <2> QED
    BY <1>1, <1>3, <2>3 DEF ContentInv
<1>7. RoomTypes'
  BY <1>1, <1>2, <1>3 DEF RoomTypes
<1>8. TextInv' /\ FreshInv'
  BY <1>1, TextFrame DEF FreshInv
<1> QED
  BY <1>5, <1>6, <1>7, <1>8

\* only the drafts survive, and nothing is shown of them yet
LEMMA ReloadKeepsRoom ==
  ASSUME RoomInv, Reload
  PROVE  RoomInv'
<1> USE DEF RoomInv
<1>1. /\ UNCHANGED <<assigned, over, saved, typed, hasty, raced, heard>>
      /\ language' = "python" /\ active' = 0 /\ source' = Empty
      /\ loaded' = [o \in Ordinals |-> 0] /\ stale' = {}
      /\ fetch' = [o \in Ordinals |-> Idle] /\ sending' = {}
      /\ \A g \in graded' \ graded : \E s \in sending : g = Graded(s)
  BY DEF Reload, FreshPage
<1>2. graded' \subseteq Taken
  BY <1>1 DEF RoomTypes, Posted, Taken, Graded
<1>3. RoomTypes'
  BY <1>1, <1>2, Drafts, RoomAssumption DEF RoomTypes
<1>4. TextInv' /\ FreshInv'
  BY <1>1 DEF TextInv, ShownIsSeed, DraftKept, FreshInv
<1>5. OwnInv'
  BY <1>1 DEF OwnInv, Graded
<1>6. ContentInv'
  BY <1>1 DEF ContentInv, RoomTypes, Idle
<1> QED
  BY <1>3, <1>4, <1>5, <1>6

-----------------------------------------------------------------------------
(* The server, and its answers. *)

LEMMA ServerKeepsRoom ==
  ASSUME RoomInv, SessionLocks \/ SessionArrives \/ \E o \in Ordinals : PushVersion(o)
  PROVE  RoomInv'
<1> USE DEF RoomInv
<1>1. UNCHANGED <<graded, active, language, source, saved, loaded, stale, fetch, sending,
                  hasty, raced, heard, typed>>
  BY DEF SessionLocks, SessionArrives, PushVersion, serverVars, ghosts
<1>2. TextInv' /\ OwnInv' /\ FreshInv'
  BY <1>1, TextFrame, OwnFrame DEF FreshInv
<1>3. CASE SessionLocks \/ SessionArrives
  <2>1. assigned' = assigned /\ over' \in BOOLEAN
    BY <1>3 DEF SessionLocks, SessionArrives, serverVars, RoomTypes
  <2> QED
    BY <1>1, <1>2, <2>1, ContentFrame DEF RoomTypes
<1>4. ASSUME NEW o \in Ordinals, PushVersion(o) PROVE RoomInv'
  <2>1. assigned' = [assigned EXCEPT ![o] = assigned[o] + 1] /\ over' = over
    BY <1>4 DEF PushVersion
  <2>2. RoomTypes' /\ \A p \in Ordinals : assigned[p] <= assigned'[p]
    BY <1>1, <2>1 DEF RoomTypes
  <2>3. \A s \in sending : s.of[1] \in Ordinals /\ s.version \in Nat
    BY Drafts DEF RoomTypes, Posted
  <2>4. ContentInv'
    BY <1>1, <2>2, <2>3 DEF ContentInv, RoomTypes
  <2> QED
    BY <1>2, <2>2, <2>4
<1> QED
  BY <1>3, <1>4

LEMMA TakeKeepsRoom ==
  ASSUME RoomInv, NEW s \in sending, TakeSubmission(s)
  PROVE  RoomInv'
<1> USE DEF RoomInv
<1>1. UNCHANGED <<assigned, over, active, language, source, saved, loaded, stale, fetch, ended,
                  typed, hasty, raced, heard>>
  BY DEF TakeSubmission, ghosts
<1>2. s \in Posted /\ s.of \in Keys /\ s.of[1] \in Ordinals
  BY Drafts DEF RoomTypes, Posted
<1>3. PICK r \in Posted : /\ sending' = {r} /\ r.of = s.of /\ r.own = s.own
                          /\ r.version \in {s.version, assigned[s.of[1]]}
  <2>1. [s EXCEPT !.pc = "refused"] \in Posted
    BY <1>2 DEF Posted
  <2>2. [s EXCEPT !.pc = "taken", !.version = assigned[s.of[1]]] \in Posted
    BY <1>2 DEF Posted, RoomTypes
  <2> QED
    BY <1>2, <2>1, <2>2 DEF TakeSubmission, Posted
<1>4. graded' \subseteq graded \cup {Graded(s)} /\ Graded(s) \in Taken
  BY <1>2 DEF TakeSubmission, Graded, Posted, Taken
<1>5. RoomTypes'
  BY <1>1, <1>3, <1>4 DEF RoomTypes
<1>6. OwnInv'
  BY <1>1, <1>3, <1>4 DEF OwnInv, Graded
<1>7. ContentInv'
  <2>1. r.version <= assigned[r.of[1]]
    BY <1>2, <1>3 DEF ContentInv, RoomTypes
  <2> QED
    BY <1>1, <1>3, <2>1 DEF ContentInv
<1>8. TextInv' /\ FreshInv'
  BY <1>1, TextFrame DEF FreshInv
<1> QED
  BY <1>5, <1>6, <1>7, <1>8

(***************************************************************************)
(* An answer marks every content; what an older fetch will bring is only   *)
(* trusted if it is asked for again.                                       *)
(***************************************************************************)
LEMMA ReplyKeepsRoom ==
  ASSUME RoomInv, NEW s \in sending, ReplyArrives(s)
  PROVE  RoomInv'
<1> USE DEF RoomInv
<1>1. /\ UNCHANGED <<assigned, over, graded, active, language, source, saved, loaded,
                     hasty, typed>>
      /\ sending' = {}
  BY DEF ReplyArrives, serverVars
<1>2. TextInv' /\ OwnInv'
  BY <1>1, TextFrame, OwnFrame
<1>3. active # 0 /\ active \in Ordinals
  BY DEF FreshInv, RoomTypes
<1>4. FreshInv'
  BY <1>1, <1>3 DEF FreshInv
<1>5. CASE s.pc = "refused"
  <2>1. UNCHANGED <<stale, fetch, heard, raced>>
    BY <1>5 DEF ReplyArrives
  <2>2. RoomTypes'
    BY <1>1, <2>1 DEF RoomTypes
  <2> QED
    BY <1>1, <1>2, <1>4, <2>1, <2>2, ContentFrame
<1>6. CASE s.pc # "refused"
  <2>1. PICK o \in Ordinals : o = s.of[1]
    BY Drafts DEF RoomTypes, Posted
  <2>2. /\ stale' = Ordinals
        /\ fetch' = [fetch EXCEPT ![active] = Refetched(active)]
        /\ heard' = [heard EXCEPT ![o] = s.version]
        /\ raced' = IF fetch[o].busy /\ (loaded[o] = 0 \/ o # active) THEN raced \cup {o} ELSE raced
    BY <1>6, <2>1 DEF ReplyArrives
  <2>3. s.version \in Nat /\ s.version <= assigned[o]
    BY <2>1 DEF RoomTypes, Posted, ContentInv
  <2>4. RoomTypes'
    BY <1>1, <1>3, <2>2, <2>3, Drafts DEF RoomTypes, Refetched
  <2>5. \A p \in Ordinals : fetch'[p] = fetch[p] \/ (fetch'[p] = Asked /\ p = active)
    BY <1>3, <2>2 DEF RoomTypes, Refetched
  <2>6. o \notin raced' => fetch'[o].read = 0
    <3> SUFFICES ASSUME o \notin raced' PROVE fetch'[o].read = 0
      OBVIOUS
    <3>1. CASE fetch[o].busy
      <4>1. loaded[o] # 0 /\ o = active
        BY <2>2, <3>1
      <4> QED
        BY <1>3, <2>2, <4>1 DEF RoomTypes, Refetched, Asked
    <3>2. CASE ~fetch[o].busy
      BY <2>5, <3>2 DEF ContentInv, RoomTypes, Asked
    <3> QED
      BY <3>1, <3>2
  <2>7. ASSUME NEW p \in Ordinals
        PROVE  /\ heard'[p] <= assigned[p] /\ fetch'[p].read <= assigned[p]
               /\ fetch'[p].read # 0 => fetch'[p].busy
               /\ p \notin raced' /\ fetch'[p].read # 0 => fetch'[p].read >= heard'[p]
    <3>1. heard'[p] = IF p = o THEN s.version ELSE heard[p]
      BY <2>2 DEF RoomTypes
    <3>2. raced \subseteq raced'
      BY <2>2
    <3> QED
      BY <2>3, <2>5, <2>6, <3>1, <3>2 DEF ContentInv, RoomTypes, Asked
  <2>8. ContentInv'
    BY <1>1, <2>2, <2>7 DEF ContentInv
  <2> QED
    BY <1>2, <1>4, <2>4, <2>8
<1> QED
  BY <1>5, <1>6

LEMMA ContentKeepsRoom ==
  ASSUME RoomInv, NEW o \in Ordinals, ReadContent(o) \/ ContentArrives(o) \/ ContentFails(o)
  PROVE  RoomInv'
<1> USE DEF RoomInv
<1>1. UNCHANGED <<assigned, over, graded, active, language, saved, sending, typed, hasty,
                  raced, heard>>
  BY DEF ReadContent, ContentArrives, ContentFails, serverVars, ghosts
<1>2. fetch[o] # Idle /\ active # 0 /\ FreshInv'
  <2>1. fetch[o] # Idle
    BY DEF ReadContent, ContentArrives, ContentFails, Idle, Asked
  <2> QED
    BY <1>1, <2>1 DEF FreshInv
<1>3. OwnInv'
  BY <1>1, OwnFrame
<1>4. CASE ReadContent(o)
  <2>1. /\ fetch[o] = Asked /\ fetch' = [fetch EXCEPT ![o].read = assigned[o]]
        /\ UNCHANGED <<source, loaded, stale>>
    BY <1>4 DEF ReadContent
  <2>2. RoomTypes'
    BY <1>1, <2>1 DEF RoomTypes
  <2>3. fetch'[o].read = assigned[o] /\ fetch'[o].busy /\ \A p \in Ordinals \ {o} : fetch'[p] = fetch[p]
    BY <2>1 DEF RoomTypes, Asked
  <2>4. ContentInv'
    BY <1>1, <2>1, <2>3 DEF ContentInv, RoomTypes
  <2> QED
    BY <1>1, <1>2, <1>3, <2>1, <2>2, <2>4, TextFrame
<1>5. CASE ContentArrives(o)
  <2>1. /\ fetch[o].read # 0 /\ loaded' = [loaded EXCEPT ![o] = fetch[o].read]
        /\ stale' = stale \ {o} /\ fetch' = [fetch EXCEPT ![o] = Idle]
        /\ source' = IF o = active /\ loaded'[o] # loaded[o] THEN Seed(Here) ELSE source
    BY <1>5 DEF ContentArrives
  <2>2. Seed(Here) \in Draft
    BY <1>2, HereIsAKey, SeedType
  <2>3. RoomTypes'
    BY <1>1, <2>1, <2>2, Drafts DEF RoomTypes
  <2>4. /\ loaded'[o] = fetch[o].read /\ fetch'[o] = Idle
        /\ \A p \in Ordinals \ {o} : fetch'[p] = fetch[p] /\ loaded'[p] = loaded[p]
    BY <2>1 DEF RoomTypes
  <2>5. TextInv'
    BY <1>1, <2>1, <2>4 DEF TextInv, ShownIsSeed, DraftKept, Waiting, Here, Seed, RoomTypes
  <2>6. ContentInv'
    BY <1>1, <2>1, <2>4 DEF ContentInv, RoomTypes, Idle
  <2> QED
    BY <1>2, <1>3, <2>3, <2>5, <2>6
<1>6. CASE ContentFails(o)
  <2>1. UNCHANGED <<source, loaded, stale>> /\ fetch' = [fetch EXCEPT ![o] = Idle]
    BY <1>6 DEF ContentFails
  <2>2. RoomTypes'
    BY <1>1, <2>1, Drafts DEF RoomTypes
  <2>3. TextInv' /\ ContentInv'
    BY <1>1, <2>1, TextFrame, AskingKeepsContent
  <2> QED
    BY <1>2, <1>3, <2>2, <2>3
<1> QED
  BY <1>4, <1>5, <1>6

LEMMA RoomStep == RoomInv /\ [RoomNext]_roomVars => RoomInv'
<1> SUFFICES ASSUME RoomInv, [RoomNext]_roomVars PROVE RoomInv'
  OBVIOUS
<1>1. CASE UNCHANGED roomVars
  <2>1. UNCHANGED <<assigned, over, graded, active, language, source, saved, loaded, stale, fetch,
                    sending, hasty, raced, heard, typed>>
    BY <1>1 DEF roomVars
  <2> QED
    BY <2>1, TextFrame, OwnFrame, ContentFrame DEF RoomInv, RoomTypes, FreshInv
<1>2. CASE RoomNext
  BY <1>2, LookingKeepsRoom, ChooseKeepsRoom, TypeKeepsRoom, SendKeepsRoom, ReloadKeepsRoom,
     ServerKeepsRoom, TakeKeepsRoom, ReplyKeepsRoom, ContentKeepsRoom DEF RoomNext
<1> QED
  BY <1>1, <1>2

(***************************************************************************)
(* In whatever order answers arrive, questions and languages are changed   *)
(* and the tab is loaded again, what the page shows and sends is the work  *)
(* done on that question, and what it shows of a question is not older     *)
(* than the last answer.                                                   *)
(***************************************************************************)
THEOREM RoomKeepsWork == SceneSpec => []RoomKeepsItsWork
<1>1. SceneInit => RoomInv
  BY RoomStart DEF SceneInit
<1>2. RoomInv /\ [SceneNext]_<<part, otherVars, consoleVars>> => RoomInv'
  <2>1. [SceneNext]_<<part, otherVars, consoleVars>> => [RoomNext]_roomVars
    BY DEF SceneNext, otherVars, consoleVars
  <2> QED
    BY <2>1, RoomStep
<1>3. RoomInv => RoomKeepsItsWork
  BY DEF RoomInv, RoomKeepsItsWork, TextInv, ShownIsSeed, DraftKept, OwnInv, ContentInv
<1> QED
  BY <1>1, <1>2, <1>3, PTL DEF SceneSpec

-----------------------------------------------------------------------------
(* Sign-up: one row for the address, named for whom it was made.           *)

SignUpInv ==
  /\ SignUpTypeOK /\ SignUpHolds
  /\ \A a \in Applicants : apply[a] \in {"enroll", "login", "in"} => secret[a] = a

LEMMA SignUpStart == SignUpInit => SignUpInv
BY SignUpAssumption DEF SignUpInit, SignUpInv, SignUpTypeOK, SignUpHolds, NoRow, Applicants

\* A request that leaves the row alone and does not claim it.
LEMMA RowUntouched ==
  ASSUME SignUpInv, NEW a \in Applicants, UNCHANGED <<examiner, orgs>>,
         NEW x \in {"form", "sent", "free", "taken", "failed", "enroll", "in"},
         apply' = [apply EXCEPT ![a] = x],
         NEW y \in Applicants \cup {Nobody}, secret' = [secret EXCEPT ![a] = y],
         x \in {"enroll", "in"} => examiner.secret = a /\ y = a,
         x = "in" => examiner.enrolled
  PROVE  SignUpInv'
<1>1. SignUpTypeOK'
  BY DEF SignUpInv, SignUpTypeOK
<1>2. /\ apply'[a] = x /\ secret'[a] = y
      /\ \A b \in Applicants : b # a => apply'[b] = apply[b] /\ secret'[b] = secret[b]
  BY DEF SignUpInv, SignUpTypeOK
<1>3. SignUpHolds'
  BY <1>2 DEF SignUpInv, SignUpHolds
<1>4. \A b \in Applicants : apply'[b] \in {"enroll", "login", "in"} => secret'[b] = b
  BY <1>2 DEF SignUpInv
<1> QED
  BY <1>1, <1>3, <1>4 DEF SignUpInv

\* The row is made once, by whom it is named for.
LEMMA RowIsMade ==
  ASSUME SignUpInv, NEW a \in Applicants, Registers(a) \/ AddsExaminer(a)
  PROVE  SignUpInv'
<1>1. /\ examiner = NoRow /\ UNCHANGED secret
      /\ examiner' = [secret |-> a, enrolled |-> FALSE]
      /\ apply' = [apply EXCEPT ![a] = "made"]
      /\ orgs' = IF a \in Founders THEN orgs \cup {a} ELSE orgs
  BY SignUpAssumption DEF Registers, AddsExaminer
<1>2. apply \in [Applicants -> {"form", "sent", "free", "taken", "failed", "made", "enroll",
                               "login", "in"}]
  BY DEF SignUpInv, SignUpTypeOK
<1>3. SignUpTypeOK'
  BY <1>1, <1>2 DEF SignUpInv, SignUpTypeOK
<1>4. orgs = {}
  BY <1>1, SignUpAssumption DEF SignUpInv, SignUpHolds, NoRow, Applicants
<1>5. \A b \in Applicants : apply[b] \notin {"made", "enroll", "login", "in"}
  BY <1>1, SignUpAssumption DEF SignUpInv, SignUpHolds, NoRow
<1>6. /\ apply'[a] = "made"
      /\ \A b \in Applicants : b # a => apply'[b] \notin {"made", "enroll", "login", "in"}
  BY <1>1, <1>2, <1>5
<1>7. orgs' = {examiner'.secret} \cap Founders
  BY <1>1, <1>4
<1>8. SignUpHolds'
  BY <1>1, <1>6, <1>7 DEF SignUpHolds
<1> QED
  BY <1>3, <1>6, <1>8 DEF SignUpInv

LEMMA EnrollmentKeeps ==
  ASSUME SignUpInv, NEW a \in Applicants, VerifyEnrollment(a)
  PROVE  SignUpInv'
<1>1. /\ examiner \in [secret : Applicants \cup {Nobody}, enrolled : BOOLEAN]
      /\ apply \in [Applicants -> {"form", "sent", "free", "taken", "failed", "made", "enroll",
                                  "login", "in"}]
  BY DEF SignUpInv, SignUpTypeOK
<1>2. /\ examiner'.secret = examiner.secret /\ examiner'.enrolled = TRUE
      /\ examiner' \in [secret : Applicants \cup {Nobody}, enrolled : BOOLEAN]
      /\ apply' = [apply EXCEPT ![a] = "login"] /\ UNCHANGED <<orgs, secret>>
      /\ apply[a] = "enroll"
  BY <1>1 DEF VerifyEnrollment
<1>3. SignUpTypeOK'
  BY <1>1, <1>2 DEF SignUpInv, SignUpTypeOK
<1>4. \A b \in Applicants : apply'[b] = apply[b] \/ (b = a /\ apply'[b] = "login")
  BY <1>1, <1>2
<1>5. SignUpHolds'
  BY <1>2, <1>4 DEF SignUpInv, SignUpHolds
<1>6. \A b \in Applicants : apply'[b] \in {"enroll", "login", "in"} => secret'[b] = b
  BY <1>2, <1>4 DEF SignUpInv
<1> QED
  BY <1>3, <1>5, <1>6 DEF SignUpInv

LEMMA SignUpStep == SignUpInv /\ [SignUpNext]_signUpVars => SignUpInv'
<1> SUFFICES ASSUME SignUpInv, [SignUpNext]_signUpVars PROVE SignUpInv'
  OBVIOUS
<1>1. CASE UNCHANGED signUpVars
  BY <1>1 DEF signUpVars, SignUpInv, SignUpTypeOK, SignUpHolds
<1>2. ASSUME NEW a \in Applicants,
             SendsForm(a) \/ LooksUpEmail(a) \/ InsertClashes(a) \/ BackToForm(a)
      PROVE  SignUpInv'
  <2>1. \E x \in {"form", "sent", "free", "taken", "failed"} : apply' = [apply EXCEPT ![a] = x]
    BY <1>2 DEF SendsForm, LooksUpEmail, InsertClashes, BackToForm
  <2>2. secret[a] \in Applicants \cup {Nobody} /\ secret' = [secret EXCEPT ![a] = secret[a]]
    BY <1>2 DEF SignUpInv, SignUpTypeOK, SendsForm, LooksUpEmail, InsertClashes, BackToForm
  <2>3. UNCHANGED <<examiner, orgs>>
    BY <1>2 DEF SendsForm, LooksUpEmail, InsertClashes, BackToForm
  <2> QED
    BY <2>1, <2>2, <2>3, RowUntouched
<1>3. ASSUME NEW a \in Applicants, ShowSecret(a) PROVE SignUpInv'
  <2>1. examiner.secret = a
    BY <1>3 DEF ShowSecret, SignUpInv, SignUpHolds
  <2> QED
    BY <1>3, <2>1, RowUntouched DEF ShowSecret
<1>4. ASSUME NEW a \in Applicants, LosesSecret(a) PROVE SignUpInv'
  BY <1>4, RowUntouched DEF LosesSecret
<1>5. ASSUME NEW a \in Applicants, SignsIn(a) PROVE SignUpInv'
  <2>1. apply[a] = "login" /\ secret[a] = a /\ examiner.secret = a /\ examiner.enrolled
    BY <1>5 DEF SignsIn, SignUpInv, SignUpHolds
  <2>2. secret' = [secret EXCEPT ![a] = a]
    BY <1>5, <2>1 DEF SignsIn, SignUpInv, SignUpTypeOK
  <2>3. apply' = [apply EXCEPT ![a] = "in"] /\ UNCHANGED <<examiner, orgs>>
    BY <1>5 DEF SignsIn
  <2> QED
    BY <2>1, <2>2, <2>3, RowUntouched
<1>6. ASSUME NEW a \in Applicants, VerifyEnrollment(a) PROVE SignUpInv'
  BY <1>6, EnrollmentKeeps
<1>7. ASSUME NEW a \in Applicants, Registers(a) \/ AddsExaminer(a) PROVE SignUpInv'
  BY <1>7, RowIsMade
<1> QED
  BY <1>1, <1>2, <1>3, <1>4, <1>5, <1>6, <1>7 DEF SignUpNext

-----------------------------------------------------------------------------
(* The blueprint form: what was let through keeps to the page's rules.     *)

Passed(body) ==
  /\ ValidateTopicMix(body.mix) /\ WithinAttributes(body.mix)
  /\ body.mix \in Seq(MixRow) /\ body.duration \in Int /\ body.duration >= 1
  /\ body.texts \in TextLengths \ {"empty"}

PageInv ==
  /\ rows \in Seq(MixRow)
  /\ answer = "pending" => Passed(posted)
  /\ answer = "refused" => posted.duration > 1440 \/ posted.texts = "long"
  /\ posted = [mix |-> posted.mix, duration |-> posted.duration, texts |-> posted.texts]

\* Both sets of rules say the same of a mix; the duration and the lengths are the server's.
LEMMA RulesAgree ==
  ASSUME NEW mix \in Seq(MixRow), NEW d \in Int, NEW texts
  PROVE  BodyIsValid([mix |-> mix, duration |-> d, texts |-> texts])
           <=> /\ ValidateTopicMix(mix) /\ WithinAttributes(mix)
               /\ d \in 1..1440 /\ texts = "fit"
<1> DEFINE total == TotalWeight(mix)
<1> HIDE DEF total
<1>1. \A i \in DOMAIN mix : mix[i] \in MixRow
  OBVIOUS
<1>2. ASSUME NEW i \in DOMAIN mix
      PROVE  EntryIsValid(mix[i]) <=>
               /\ mix[i].topic # NoTopic /\ mix[i].low <= mix[i].high /\ mix[i].count >= 1
               /\ mix[i].weight \in 1..100 /\ {mix[i].low, mix[i].high} \subseteq 1..5
  <2>1. mix[i].topic \in Subjects <=> mix[i].topic # NoTopic
    BY <1>1, PageAssumption DEF MixRow
  <2> QED
    BY <2>1 DEF EntryIsValid
<1>3. BodyIsValid([mix |-> mix, duration |-> d, texts |-> texts]) <=>
        /\ texts = "fit" /\ d \in 1..1440 /\ mix # <<>> /\ total = 100 /\ Distinct(mix)
        /\ \A i \in DOMAIN mix : EntryIsValid(mix[i])
  BY DEF BodyIsValid, total
<1>4. ValidateTopicMix(mix) <=>
        /\ mix # <<>> /\ total = 100
        /\ \A i \in DOMAIN mix : /\ mix[i].topic # NoTopic /\ mix[i].low <= mix[i].high
                                 /\ mix[i].count >= 1
        /\ \A i, j \in DOMAIN mix : i # j /\ mix[i].topic # NoTopic => mix[i].topic # mix[j].topic
  BY DEF ValidateTopicMix, total
<1>5. WithinAttributes(mix) <=>
        \A i \in DOMAIN mix : /\ mix[i].weight \in 1..100
                              /\ {mix[i].low, mix[i].high} \subseteq 1..5 /\ mix[i].count >= 1
  BY DEF WithinAttributes
<1> DEFINE inRow(i)  == mix[i].topic # NoTopic /\ mix[i].low <= mix[i].high /\ mix[i].count >= 1
           inForm(i) == mix[i].weight \in 1..100 /\ {mix[i].low, mix[i].high} \subseteq 1..5
<1>6. (\A i \in DOMAIN mix : EntryIsValid(mix[i]))
        <=> (\A i \in DOMAIN mix : inRow(i)) /\ (\A i \in DOMAIN mix : inForm(i))
  BY <1>2
<1>7. (\A i \in DOMAIN mix : inRow(i)) =>
        (Distinct(mix) <=> \A i, j \in DOMAIN mix :
                              i # j /\ mix[i].topic # NoTopic => mix[i].topic # mix[j].topic)
  BY DEF Distinct
<1>8. (\A i \in DOMAIN mix : inRow(i)) =>
        (WithinAttributes(mix) <=> \A i \in DOMAIN mix : inForm(i))
  BY <1>5
<1> QED
  BY <1>3, <1>4, <1>6, <1>7, <1>8

LEMMA PageStart == PageInit => PageInv
BY DEF PageInit, PageInv, EmptyEntry, NothingSent, MixRow

\* Editing keeps the rows rows.
LEMMA FormKeeps ==
  ASSUME PageInv, AddTopic \/ \E i \in 1..MaxMix : RemoveTopic(i) \/ UpdateRow(i)
  PROVE  PageInv'
<1>1. UNCHANGED <<posted, answer>>
  BY DEF AddTopic, RemoveTopic, UpdateRow
<1>2. ASSUME AddTopic PROVE rows' \in Seq(MixRow)
  <2>1. EmptyEntry \in MixRow
    BY DEF EmptyEntry, MixRow
  <2> QED
    BY <1>2, <2>1 DEF AddTopic, PageInv
<1>3. ASSUME NEW i \in 1..MaxMix, RemoveTopic(i) PROVE rows' \in Seq(MixRow)
  <2>1. /\ Len(rows) \in Nat \ {0} /\ \A j \in 1..Len(rows) : rows[j] \in MixRow
        /\ rows' = [j \in 1..Len(rows) - 1 |-> IF j < i THEN rows[j] ELSE rows[j + 1]]
    BY <1>3 DEF RemoveTopic, PageInv
  <2>2. \A j \in 1..Len(rows) - 1 : (IF j < i THEN rows[j] ELSE rows[j + 1]) \in MixRow
    BY <2>1
  <2>3. rows' \in [1..Len(rows) - 1 -> MixRow]
    BY <2>1, <2>2
  <2> QED
    BY <2>1, <2>3
<1>4. ASSUME NEW i \in 1..MaxMix, UpdateRow(i) PROVE rows' \in Seq(MixRow)
  <2>1. i \in DOMAIN rows /\ rows[i] \in MixRow
    BY <1>4 DEF UpdateRow, PageInv
  <2>2. PICK q \in MixRow : rows' = [rows EXCEPT ![i] = q]
    <3>1. CASE \E t \in Subjects \cup {NoTopic} : rows' = [rows EXCEPT ![i].topic = t]
      <4>1. PICK t \in Subjects \cup {NoTopic} : rows' = [rows EXCEPT ![i].topic = t]
        BY <3>1
      <4>2. [rows[i] EXCEPT !.topic = t] \in MixRow
        BY <2>1 DEF MixRow
      <4> QED
        BY <4>1, <4>2
    <3>2. CASE \E w \in Weights : rows' = [rows EXCEPT ![i].weight = w]
      <4>1. PICK w \in Weights : rows' = [rows EXCEPT ![i].weight = w]
        BY <3>2
      <4>2. [rows[i] EXCEPT !.weight = w] \in MixRow
        BY <2>1 DEF MixRow
      <4> QED
        BY <4>1, <4>2
    <3>3. CASE \E l \in Lows : rows' = [rows EXCEPT ![i].low = l]
      <4>1. PICK l \in Lows : rows' = [rows EXCEPT ![i].low = l]
        BY <3>3
      <4>2. [rows[i] EXCEPT !.low = l] \in MixRow
        BY <2>1 DEF MixRow
      <4> QED
        BY <4>1, <4>2
    <3>4. CASE \E h \in Highs : rows' = [rows EXCEPT ![i].high = h]
      <4>1. PICK h \in Highs : rows' = [rows EXCEPT ![i].high = h]
        BY <3>4
      <4>2. [rows[i] EXCEPT !.high = h] \in MixRow
        BY <2>1 DEF MixRow
      <4> QED
        BY <4>1, <4>2
    <3>5. CASE \E c \in Counts : rows' = [rows EXCEPT ![i].count = c]
      <4>1. PICK c \in Counts : rows' = [rows EXCEPT ![i].count = c]
        BY <3>5
      <4>2. [rows[i] EXCEPT !.count = c] \in MixRow
        BY <2>1 DEF MixRow
      <4> QED
        BY <4>1, <4>2
    <3> QED
      BY <1>4, <3>1, <3>2, <3>3, <3>4, <3>5 DEF UpdateRow
  <2> QED
    BY <2>1, <2>2 DEF PageInv
<1> QED
  BY <1>1, <1>2, <1>3, <1>4 DEF PageInv

\* What passed the page is refused for its duration or its texts only.
LEMMA RefusalKeeps == ASSUME PageInv, MixRefused PROVE PageInv'
<1>1. /\ Passed(posted) /\ ~BodyIsValid(posted) /\ UNCHANGED rows /\ answer' = "refused"
      /\ posted' = [posted EXCEPT !.mix = <<>>]
      /\ posted = [mix |-> posted.mix, duration |-> posted.duration, texts |-> posted.texts]
  BY DEF MixRefused, PageInv
<1>2. posted.duration \notin 1..1440 \/ posted.texts # "fit"
  <2> DEFINE body == [mix |-> posted.mix, duration |-> posted.duration, texts |-> posted.texts]
  <2>1. /\ ~BodyIsValid(body) /\ ValidateTopicMix(posted.mix) /\ WithinAttributes(posted.mix)
        /\ posted.mix \in Seq(MixRow) /\ posted.duration \in Int
    BY <1>1 DEF Passed
  <2> QED
    BY <2>1, RulesAgree
<1>3. posted.duration > 1440 \/ posted.texts = "long"
  <2>1. posted.duration \in Int /\ posted.duration >= 1 /\ posted.texts \in TextLengths \ {"empty"}
    BY <1>1 DEF Passed
  <2> QED
    BY <1>2, <2>1 DEF TextLengths
<1>4. /\ posted'.duration = posted.duration /\ posted'.texts = posted.texts
      /\ posted' = [mix |-> posted'.mix, duration |-> posted'.duration, texts |-> posted'.texts]
  BY <1>1
<1> QED
  BY <1>1, <1>3, <1>4 DEF PageInv

LEMMA PageStep == PageInv /\ [PageNext]_mixVars => PageInv'
<1> SUFFICES ASSUME PageInv, [PageNext]_mixVars PROVE PageInv'
  OBVIOUS
<1>1. CASE UNCHANGED mixVars
  BY <1>1 DEF mixVars, PageInv
<1>2. CASE SubmitMix
  <2>1. PICK d \in Durations, texts \in TextLengths \ {"empty"} :
               d >= 1 /\ posted' = [mix |-> rows, duration |-> d, texts |-> texts]
    BY <1>2 DEF SubmitMix
  <2>2. Passed(posted')
    BY <1>2, <2>1, PageAssumption DEF SubmitMix, Passed, PageInv
  <2> QED
    BY <1>2, <2>1, <2>2 DEF SubmitMix, PageInv
<1>3. CASE MixStored
  <2>1. EmptyEntry \in MixRow
    BY DEF EmptyEntry, MixRow
  <2> QED
    BY <1>3, <2>1 DEF MixStored, PageInv, NothingSent
<1> QED
  BY <1>1, <1>2, <1>3, FormKeeps, RefusalKeeps DEF PageNext

LEMMA PageAgrees == PageInv => PageAgreesWithServer
BY RulesAgree, PageAssumption DEF PageInv, PageAgreesWithServer

-----------------------------------------------------------------------------
(* The question form.                                                      *)

Said == Contents \cup {NoText}

(***************************************************************************)
(* Where the page, the cache and the requests can be at all: nothing is    *)
(* asked or kept of a question that does not exist, and an open form was   *)
(* filled exactly if the page has data.                                    *)
(***************************************************************************)
EditorPlaces ==
  /\ unsaved # NoText => form = unsaved
  /\ ~Exists => cached = NoText /\ asking = NoFetch /\ page # "open"
  /\ save.pc = "create" => ~Exists
  /\ save.pc \in {"update", "created", "updated"} => Exists
  /\ save.pc # "none" => save.text # NoText
  /\ asking.pc = "read" => asking.text # NoText
  /\ page = "new" => asking = NoFetch /\ cached = NoText /\ ~seeded
  /\ page = "open" => (seeded <=> cached # NoText)

(***************************************************************************)
(* What everything under way says of the question, if the author never     *)
(* typed too early and nobody else saved: the first answer, a save that    *)
(* was served, a save of a form that was not filled yet, and the form.     *)
(***************************************************************************)
EditorHonest ==
  /\ cached = NoText /\ asking.pc = "read" => asking.text = question.text
  /\ save.pc = "update" /\ cached = NoText => save.text = question.text
  /\ save.pc \in {"created", "updated"} => save.text = question.text
  /\ page = "new" /\ save # NoSave => form \in {NoText, save.text}
  /\ page = "open" /\ ~seeded /\ form # NoText => form = question.text
  /\ page = "open" /\ seeded /\ unsaved = NoText =>
       form = question.text /\ (save.pc = "update" => form = save.text)

EditorFiles == \A i \in DOMAIN cases : cases[i] = Parts \/ i \in broken \cup {upload}

EditorTexts == EditorPlaces /\ (~early /\ ~others => EditorHonest)

EditorInv == EditorTypeOK /\ EditorTexts /\ EditorFiles

LEMMA EditorStart == EditorInit => EditorInv
<1> SUFFICES ASSUME EditorInit PROVE EditorInv
  OBVIOUS
<1> USE DEF EditorInit, NoFetch, NoSave
<1>1. EditorTypeOK
  <2>1. cases \in Seq(SUBSET Parts) /\ Len(cases) <= MaxRows /\ upload \in 0..Len(cases)
    BY EditorAssumption
  <2>2. broken \subseteq 1..MaxRows /\ {seeded, early, others} \subseteq BOOLEAN
    OBVIOUS
  <2>3. /\ question \in [text : Contents \cup {NoText}, published : BOOLEAN]
        /\ {form, unsaved, cached} \subseteq Contents \cup {NoText}
        /\ asking \in [pc : {"none", "asked", "read"}, text : Contents \cup {NoText}]
        /\ save \in [pc : {"none", "create", "update", "created", "updated"},
                    text : Contents \cup {NoText}]
        /\ page \in {"away", "new", "open"}
    OBVIOUS
  <2> QED
    BY <2>1, <2>2, <2>3 DEF EditorTypeOK
<1>2. EditorTexts
  BY DEF EditorTexts, EditorPlaces, EditorHonest, Exists
<1>3. EditorFiles
  BY DEF EditorFiles
<1> QED
  BY <1>1, <1>2, <1>3 DEF EditorInv

LEMMA EditorFields ==
  ASSUME EditorTypeOK
  PROVE  /\ question \in [text : Said, published : BOOLEAN]
         /\ form \in Said /\ unsaved \in Said /\ cached \in Said
         /\ page \in {"away", "new", "open"}
         /\ asking \in [pc : {"none", "asked", "read"}, text : Said]
         /\ save \in [pc : {"none", "create", "update", "created", "updated"}, text : Said]
         /\ seeded \in BOOLEAN /\ early \in BOOLEAN /\ others \in BOOLEAN
BY DEF EditorTypeOK, Said

\* Steps that move or fill the page.
LEMMA PageSteps ==
  ASSUME EditorTypeOK, EditorTexts,
         OpenNew \/ Leave \/ OpenQuestion \/ Created \/ CreatedMeanwhile
  PROVE  EditorTexts'
<1> USE EditorFields DEF EditorTexts, EditorPlaces, EditorHonest, Exists, bank, EmptyForm, Fill,
        NoFetch, NewFetch, NoSave
<1>1. CASE OpenNew
  BY <1>1 DEF OpenNew
<1>2. CASE Leave
  BY <1>2 DEF Leave
<1>3. CASE OpenQuestion
  <2>1. /\ Exists /\ page' = "open" /\ UNCHANGED <<question, cached, save, early>>
        /\ asking' = IF asking.pc = "none" THEN NewFetch ELSE asking
        /\ others' = (others \/ cached \notin {NoText, question.text} \/ save # NoSave)
        /\ unsaved' = NoText /\ seeded' = (cached # NoText) /\ form' = cached
    BY <1>3 DEF OpenQuestion, Shows
  <2>2. EditorPlaces'
    BY <2>1
  <2>3. ASSUME ~early', ~others' PROVE EditorHonest'
    <3>1. /\ ~early /\ ~others /\ cached \in {NoText, question.text}
          /\ save'.pc = "none" /\ page' = "open"
      <4>1. ~(others \/ cached \notin {NoText, question.text} \/ save # NoSave)
        BY <2>1, <2>3, Zenon
      <4>2. save'.pc = "none"
        BY <2>1, <4>1
      <4>3. ~early /\ page' = "open"
        BY <2>1, <2>3
      <4> QED
        BY <4>1, <4>2, <4>3
    <3>2. cached' = NoText /\ asking'.pc = "read" => asking'.text = question'.text
      BY <2>1, <3>1
    <3>3. seeded' => form' = question'.text
      BY <2>1, <3>1
    <3>4. ~seeded' => form' = NoText
      BY <2>1
    <3> QED
      BY <3>1, <3>2, <3>3, <3>4
  <2> QED
    BY <2>2, <2>3
<1>4. CASE Created
  BY <1>4 DEF Created, Settles
<1>5. CASE CreatedMeanwhile
  BY <1>5 DEF CreatedMeanwhile, Shows
<1> QED
  BY <1>1, <1>2, <1>3, <1>4, <1>5

\* Steps of a save and of what the author and others type.
LEMMA SaveSteps ==
  ASSUME EditorTypeOK, EditorTexts,
         \/ HandleSave \/ ServerCreates \/ ServerUpdates \/ SaveFails \/ Saved
         \/ CreatedWhileShown \/ \E t \in Contents : EditForm(t) \/ OthersUpdate(t)
  PROVE  EditorTexts'
<1> USE EditorFields DEF EditorTexts, EditorPlaces, EditorHonest, Exists, bank, shown,
        NoFetch, NewFetch, NoSave
<1>1. CASE HandleSave
  BY <1>1 DEF HandleSave
<1>2. CASE ServerCreates \/ ServerUpdates
  <2>1. /\ save' \in [pc : {"created", "updated"}, text : Said] /\ save'.text = save.text
        /\ save.pc = "create" => save'.pc = "created"
        /\ save.pc = "update" => save'.pc = "updated"
        /\ question'.text = save.text
    BY <1>2 DEF ServerCreates, ServerUpdates
  <2> QED
    BY <1>2, <2>1 DEF ServerCreates, ServerUpdates
<1>3. CASE SaveFails
  BY <1>3 DEF SaveFails
<1>4. CASE Saved
  BY <1>4 DEF Saved, Settles, Refetch
<1>5. CASE CreatedWhileShown
  BY <1>5 DEF CreatedWhileShown, Refetch
<1>6. ASSUME NEW t \in Contents, EditForm(t) PROVE EditorTexts'
  BY <1>6, EditorAssumption DEF EditForm
<1>7. ASSUME NEW t \in Contents, OthersUpdate(t) PROVE EditorTexts'
  BY <1>7, EditorAssumption DEF OthersUpdate
<1> QED
  BY <1>1, <1>2, <1>3, <1>4, <1>5, <1>6, <1>7

\* Requests for the question, publication and test cases.
LEMMA OtherSteps ==
  ASSUME EditorTypeOK, EditorTexts,
         \/ PublishQuestion \/ FetchReads \/ FetchArrives \/ FetchFails
         \/ CreateTestCase \/ UploadInput \/ UploadOutput \/ UploadFails
  PROVE  EditorTexts'
<1> USE EditorFields DEF EditorTexts, EditorPlaces, EditorHonest, Exists, bank, shown,
        NoFetch, NewFetch, NoSave
<1>1. CASE PublishQuestion
  <2>1. question'.text = question.text
    BY <1>1 DEF PublishQuestion
  <2> QED
    BY <1>1, <2>1 DEF PublishQuestion, Refetch
<1>2. CASE FetchReads
  BY <1>2 DEF FetchReads
<1>3. CASE FetchArrives
  BY <1>3 DEF FetchArrives, Arrives, Fill
<1>4. CASE FetchFails
  BY <1>4 DEF FetchFails
<1>5. CASE CreateTestCase
  <2>1. question'.text = question.text
    BY <1>5 DEF CreateTestCase
  <2> QED
    BY <1>5, <2>1 DEF CreateTestCase
<1>6. CASE UploadInput \/ UploadFails
  BY <1>6 DEF UploadInput, UploadFails
<1>7. CASE UploadOutput
  BY <1>7 DEF UploadOutput, Refetch
<1> QED
  BY <1>1, <1>2, <1>3, <1>4, <1>5, <1>6, <1>7

\* The rows and objects of the test cases.
EditorCases ==
  /\ cases \in Seq(SUBSET Parts) /\ Len(cases) <= MaxRows /\ upload \in 0..Len(cases)
  /\ broken \subseteq 1..MaxRows

\* All the other types.
EditorWords ==
  /\ question \in [text : Said, published : BOOLEAN]
  /\ form \in Said /\ unsaved \in Said /\ cached \in Said
  /\ page \in {"away", "new", "open"}
  /\ asking \in [pc : {"none", "asked", "read"}, text : Said]
  /\ save \in [pc : {"none", "create", "update", "created", "updated"}, text : Said]
  /\ seeded \in BOOLEAN /\ early \in BOOLEAN /\ others \in BOOLEAN

LEMMA TwoKinds == EditorTypeOK <=> EditorCases /\ EditorWords
BY DEF EditorTypeOK, EditorCases, EditorWords, Said

\* The requests under way, and the question.
LEMMA RecordsStep ==
  ASSUME EditorWords, EditorNext
  PROVE  /\ (question \in [text : Said, published : BOOLEAN])'
         /\ (asking \in [pc : {"none", "asked", "read"}, text : Said])'
         /\ (save \in [pc : {"none", "create", "update", "created", "updated"}, text : Said])'
<1> DEFINE Q == [text : Said, published : BOOLEAN]
           A == [pc : {"none", "asked", "read"}, text : Said]
           S == [pc : {"none", "create", "update", "created", "updated"}, text : Said]
<1>0. /\ question \in Q /\ asking \in A /\ save \in S /\ form \in Said
      /\ NewFetch \in A /\ NoFetch \in A /\ NoSave \in S
  BY DEF EditorWords, NewFetch, NoFetch, NoSave, Said
<1>1. question' = question \/ \E t \in Said, b \in BOOLEAN : question' = [text |-> t, published |-> b]
  <2>1. ASSUME ServerCreates \/ ServerUpdates PROVE question' = [text |-> save.text, published |-> FALSE]
    BY <2>1 DEF ServerCreates, ServerUpdates
  <2>2. ASSUME PublishQuestion PROVE question' = [text |-> question.text, published |-> TRUE]
    BY <1>0, <2>2 DEF PublishQuestion
  <2>3. ASSUME CreateTestCase PROVE question' = [text |-> question.text, published |-> FALSE]
    BY <1>0, <2>3 DEF CreateTestCase
  <2>4. ASSUME NEW t \in Contents, OthersUpdate(t) PROVE question' = [text |-> t, published |-> FALSE]
    BY <2>4 DEF OthersUpdate
  <2>5. save.text \in Said /\ question.text \in Said /\ Contents \subseteq Said
    BY <1>0 DEF Said
  <2>6. \/ ServerCreates \/ ServerUpdates \/ PublishQuestion \/ CreateTestCase
        \/ \E t \in Contents : OthersUpdate(t)
        \/ question' = question
    BY DEF EditorNext, bank, OpenNew, OpenQuestion, Leave, HandleSave, SaveFails, Saved, Created,
           CreatedMeanwhile, CreatedWhileShown, FetchReads, FetchArrives, FetchFails, EditForm,
           UploadInput, UploadOutput, UploadFails
  <2> QED
    BY <2>1, <2>2, <2>3, <2>4, <2>5, <2>6
<1>2. \/ asking' \in {asking, NewFetch, NoFetch}
      \/ asking' = [pc |-> "read", text |-> question.text]
  BY DEF EditorNext, Refetch, Shows, OpenNew, OpenQuestion, Leave, HandleSave, ServerCreates,
         ServerUpdates, SaveFails, Saved, Created, CreatedMeanwhile, CreatedWhileShown,
         PublishQuestion, FetchReads, FetchArrives, Arrives, FetchFails, EditForm, OthersUpdate,
         CreateTestCase, UploadInput, UploadOutput, UploadFails
<1>3. \/ save' \in {save, NoSave}
      \/ \E pc \in {"create", "update", "created", "updated"} :
           save' \in {[pc |-> pc, text |-> form], [save EXCEPT !.pc = pc]}
  BY DEF EditorNext, Settles, OpenNew, OpenQuestion, Leave, HandleSave, ServerCreates,
         ServerUpdates, SaveFails, Saved, Created, CreatedMeanwhile, CreatedWhileShown,
         PublishQuestion, FetchReads, FetchArrives, FetchFails, EditForm, OthersUpdate,
         CreateTestCase, UploadInput, UploadOutput, UploadFails
<1>4. question' \in Q
  BY <1>0, <1>1
<1>5. asking' \in A
  BY <1>0, <1>2
<1>6. save' \in S
  BY <1>0, <1>3
<1> QED
  BY <1>4, <1>5, <1>6

\* The form and the cache.
LEMMA TextsStep ==
  ASSUME EditorWords, EditorNext
  PROVE  /\ form' \in Said /\ unsaved' \in Said /\ cached' \in Said
         /\ page' \in {"away", "new", "open"}
<1>0. /\ form \in Said /\ unsaved \in Said /\ cached \in Said /\ asking.text \in Said
      /\ NoText \in Said /\ Contents \subseteq Said
  BY DEF EditorWords, Said
<1>1. /\ form' \in {form, NoText, cached, asking.text} \cup Contents
      /\ unsaved' \in {unsaved, NoText} \cup Contents
      /\ cached' \in {cached, asking.text}
      /\ page' \in {page, "away", "new", "open"}
  BY DEF EditorNext, bank, shown, Shows, Fill, EmptyForm, Settles, Arrives, OpenNew, OpenQuestion,
         Leave, HandleSave, ServerCreates, ServerUpdates, SaveFails, Saved, Created,
         CreatedMeanwhile, CreatedWhileShown, PublishQuestion, FetchReads, FetchArrives,
         FetchFails, EditForm, OthersUpdate, CreateTestCase, UploadInput, UploadOutput, UploadFails
<1> QED
  BY <1>0, <1>1 DEF EditorWords

LEMMA FlagsStep ==
  ASSUME EditorWords, EditorNext
  PROVE  seeded' \in BOOLEAN /\ early' \in BOOLEAN /\ others' \in BOOLEAN
<1>0. seeded \in BOOLEAN /\ early \in BOOLEAN /\ others \in BOOLEAN
  BY DEF EditorWords
<1>1. seeded' \in {seeded, TRUE, FALSE}
  BY DEF EditorNext, bank, shown, Shows, Fill, EmptyForm, OpenNew, OpenQuestion, Leave, HandleSave,
         ServerCreates, ServerUpdates, SaveFails, Saved, Created, CreatedMeanwhile,
         CreatedWhileShown, PublishQuestion, FetchReads, FetchArrives, FetchFails, EditForm,
         OthersUpdate, CreateTestCase, UploadInput, UploadOutput, UploadFails
<1>2. early' = early \/ \E t \in Contents : EditForm(t)
  BY DEF EditorNext, bank, shown, OpenNew, OpenQuestion, Leave, HandleSave, ServerCreates,
         ServerUpdates, SaveFails, Saved, Created, CreatedMeanwhile, CreatedWhileShown,
         PublishQuestion, FetchReads, FetchArrives, FetchFails, OthersUpdate, CreateTestCase,
         UploadInput, UploadOutput, UploadFails
<1>3. ASSUME NEW t \in Contents, EditForm(t) PROVE early' \in BOOLEAN
  BY <1>3, Zenon DEF EditForm
<1>4. Shows => others' \in BOOLEAN
  BY Zenon DEF Shows
<1>5. Shows \/ others' = others \/ others' = TRUE
  BY DEF EditorNext, bank, shown, OpenNew, OpenQuestion, Leave, HandleSave, ServerCreates,
         ServerUpdates, SaveFails, Saved, Created, CreatedMeanwhile, CreatedWhileShown,
         PublishQuestion, FetchReads, FetchArrives, FetchFails, EditForm, OthersUpdate,
         CreateTestCase, UploadInput, UploadOutput, UploadFails
<1> QED
  BY <1>0, <1>1, <1>2, <1>3, <1>4, <1>5, Zenon

LEMMA WordsStep == ASSUME EditorWords, EditorNext PROVE EditorWords'
<1>1. /\ (question \in [text : Said, published : BOOLEAN])'
      /\ (asking \in [pc : {"none", "asked", "read"}, text : Said])'
      /\ (save \in [pc : {"none", "create", "update", "created", "updated"}, text : Said])'
  BY RecordsStep
<1>2. /\ form' \in Said /\ unsaved' \in Said /\ cached' \in Said
      /\ page' \in {"away", "new", "open"}
  BY TextsStep
<1>3. seeded' \in BOOLEAN /\ early' \in BOOLEAN /\ others' \in BOOLEAN
  BY FlagsStep
<1> QED
  BY <1>1, <1>2, <1>3, Zenon DEF EditorWords, Said

\* A case without its files is being uploaded or was given up.
LEMMA CasesStep ==
  ASSUME EditorCases, EditorFiles, EditorNext
  PROVE  EditorCases' /\ EditorFiles'
<1>1. CASE CreateTestCase
  <2>1. /\ cases' = Append(cases, {}) /\ upload' = Len(cases) + 1 /\ UNCHANGED broken
        /\ upload = 0 /\ Len(cases) < MaxRows /\ cases \in Seq(SUBSET Parts)
    BY <1>1 DEF CreateTestCase, EditorCases
  <2>2. /\ cases' \in Seq(SUBSET Parts) /\ Len(cases') = Len(cases) + 1
        /\ \A i \in DOMAIN cases' : i = upload' \/ (i \in DOMAIN cases /\ cases'[i] = cases[i])
    BY <2>1
  <2> QED
    BY <2>1, <2>2, EditorAssumption DEF EditorCases, EditorFiles
<1>2. CASE UploadInput \/ UploadOutput
  <2>1. PICK x \in SUBSET Parts : cases' = [cases EXCEPT ![upload] = x] /\ (x = Parts \/ upload' = upload)
    BY <1>2 DEF UploadInput, UploadOutput, Parts
  <2>2. /\ upload \in DOMAIN cases /\ upload' \in {upload, 0} /\ UNCHANGED broken
        /\ cases \in Seq(SUBSET Parts)
    BY <1>2 DEF UploadInput, UploadOutput, EditorCases
  <2>3. cases' \in Seq(SUBSET Parts) /\ Len(cases') = Len(cases) /\ DOMAIN cases' = DOMAIN cases
    BY <2>1, <2>2
  <2>4. /\ cases'[upload] = x
        /\ \A i \in DOMAIN cases : i # upload => cases'[i] = cases[i]
    BY <2>1, <2>2
  <2>5. EditorCases'
    BY <2>2, <2>3 DEF EditorCases
  <2>6. EditorFiles'
    BY <2>1, <2>2, <2>3, <2>4 DEF EditorFiles
  <2> QED
    BY <2>5, <2>6
<1>3. CASE UploadFails
  <2>1. /\ upload # 0 /\ broken' = broken \cup {upload} /\ upload' = 0 /\ UNCHANGED cases
        /\ Len(cases) \in Nat /\ Len(cases) <= MaxRows /\ upload \in 0..Len(cases)
    BY <1>3 DEF UploadFails, EditorCases
  <2>2. upload \in 1..MaxRows /\ 0 \in 0..Len(cases)
    BY <2>1, EditorAssumption
  <2>3. EditorCases'
    BY <2>1, <2>2 DEF EditorCases
  <2>4. EditorFiles'
    BY <2>1 DEF EditorFiles
  <2> QED
    BY <2>3, <2>4
<1>4. CASE UNCHANGED <<cases, broken, upload>>
  BY <1>4 DEF EditorCases, EditorFiles
<1>5. CreateTestCase \/ UploadInput \/ UploadOutput \/ UploadFails \/ UNCHANGED <<cases, broken, upload>>
  BY DEF EditorNext, bank, OpenNew, OpenQuestion, Leave, HandleSave, ServerCreates, ServerUpdates,
         SaveFails, Saved, Created, CreatedMeanwhile, CreatedWhileShown, PublishQuestion,
         FetchReads, FetchArrives, FetchFails, EditForm, OthersUpdate
<1> QED
  BY <1>1, <1>2, <1>3, <1>4, <1>5

LEMMA EditorStep == EditorInv /\ [EditorNext]_editorVars => EditorInv'
<1> SUFFICES ASSUME EditorInv, [EditorNext]_editorVars PROVE EditorInv'
  OBVIOUS
<1>1. CASE UNCHANGED editorVars
  BY <1>1 DEF editorVars, EditorInv, EditorTypeOK, EditorTexts, EditorPlaces, EditorHonest,
              EditorFiles, Exists
<1>2. CASE EditorNext
  <2>1. EditorTexts'
    BY <1>2, PageSteps, SaveSteps, OtherSteps DEF EditorInv, EditorNext
  <2>2. EditorCases /\ EditorWords /\ EditorFiles
    BY TwoKinds DEF EditorInv
  <2>3. EditorCases' /\ EditorWords' /\ EditorFiles'
    BY <1>2, <2>2, WordsStep, CasesStep
  <2>4. EditorTypeOK'
    BY <2>3 DEF EditorTypeOK, EditorCases, EditorWords, Said
  <2> QED
    BY <2>1, <2>3, <2>4 DEF EditorInv
<1> QED
  BY <1>1, <1>2

LEMMA FormIsKept == EditorInv => EditorHolds
BY EditorFields DEF EditorInv, EditorTexts, EditorPlaces, EditorHonest, EditorFiles, EditorHolds

-----------------------------------------------------------------------------
ConsoleInv == SignUpInv /\ EditorInv /\ PageInv

(***************************************************************************)
(* However applicants overlap, nobody is shown a secret that is not the    *)
(* account's; no answer takes an unsaved edit from the question form, and  *)
(* a form without one says what is stored; the blueprint form and the      *)
(* server follow the same rules for a topic mix, and a refusal is due to   *)
(* what the form does not ask about, a long duration or a long text: for   *)
(* any number of applicants, texts, topics and rows.                       *)
(***************************************************************************)
THEOREM ConsoleIsTruthful == SceneSpec => []ConsoleTellsTheTruth
<1>1. SceneInit => ConsoleInv
  BY SignUpStart, EditorStart, PageStart DEF SceneInit, ConsoleInv
<1>2. ConsoleInv /\ [SceneNext]_<<part, otherVars, consoleVars>> => ConsoleInv'
  <2>1. [SceneNext]_<<part, otherVars, consoleVars>> =>
          [SignUpNext]_signUpVars /\ [EditorNext]_editorVars /\ [PageNext]_mixVars
    BY DEF SceneNext, otherVars, consoleVars
  <2> QED
    BY <2>1, SignUpStep, EditorStep, PageStep DEF ConsoleInv
<1>3. ConsoleInv => ConsoleTellsTheTruth
  BY FormIsKept, PageAgrees DEF ConsoleInv, SignUpInv, ConsoleTellsTheTruth
<1> QED
  BY <1>1, <1>2, <1>3, PTL DEF SceneSpec
-----------------------------------------------------------------------------
(* The difficulty of one session.                                          *)

Tasks == [pc : {"idle", "read", "write", "answer"}, delta : -2..2, read : Int]

(***************************************************************************)
(* An answer is waited for, and is what Redis says.  A signal at work that *)
(* is not waited for was given up, and nothing was heard since; unless     *)
(* signals overlapped, that is.                                            *)
(***************************************************************************)
SignalOf(s) ==
  /\ signal[s].pc = "answer" => awaited = s
  /\ ~overlaps /\ s \in AtWork => awaited = s \/ (awaited = Unset /\ unheard)
  /\ ~overlaps /\ signal[s].pc = "answer" => value \in {Unset, signal[s].read}

DifficultyInv ==
  /\ value \in Int \cup {Unset}
  /\ signal \in [Signals -> Tasks]
  /\ \A s \in Signals : SignalOf(s)
  /\ BandsAgree

LEMMA DifficultyStart == DifficultyInit => DifficultyInv
<1>1. Ready \in Tasks /\ Ready.pc = "idle"
  BY DEF Ready, Tasks, DefaultDifficulty
<1> QED
  BY <1>1 DEF DifficultyInit, DifficultyInv, SignalOf, AtWork, BandsAgree

LEMMA Moves0 ==
  ASSUME NEW d \in Int, NEW delta \in -2..2 PROVE Moved(d, delta) \in Int
BY DEF Moved, MaxDifficulty, MinDifficulty

LEMMA SendKeepsBands ==
  ASSUME DifficultyInv, NEW s \in Signals, NEW v, NEW p, NEW h, SendSignal(s, v, p, h)
  PROVE  DifficultyInv'
<1>1. PICK d \in -2..2 : signal' = [signal EXCEPT ![s] = [Ready EXCEPT !.pc = "read", !.delta = d]]
  <2>1. Delta(v, p, h) \in -2..2
    BY DEF Delta
  <2> QED
    BY <2>1 DEF SendSignal
<1>2. PICK t \in Tasks : t.pc = "read" /\ signal' = [signal EXCEPT ![s] = t]
  <2>0. Ready \in Tasks
    BY DEF Ready, Tasks, DefaultDifficulty
  <2>1. PICK r \in Tasks : r = Ready
    BY <2>0
  <2>2. [r EXCEPT !.pc = "read", !.delta = d] \in Tasks
        /\ [r EXCEPT !.pc = "read", !.delta = d].pc = "read"
    BY DEF Tasks
  <2> QED
    BY <1>1, <2>1, <2>2
<1>3. signal' \in [Signals -> Tasks] /\ signal'[s].pc = "read"
      /\ \A x \in Signals \ {s} : signal'[x] = signal[x]
  BY <1>2 DEF DifficultyInv
<1>4. awaited = Unset /\ awaited' = s /\ s # Unset /\ overlaps' = (overlaps \/ AtWork # {})
      /\ UNCHANGED <<value, row, unheard>>
  BY DifficultyAssumption DEF SendSignal
<1>5. ASSUME NEW x \in Signals PROVE SignalOf(x)'
  BY <1>3, <1>4, DifficultyAssumption DEF DifficultyInv, SignalOf, AtWork
<1> QED
  BY <1>3, <1>4, <1>5 DEF DifficultyInv, BandsAgree

LEMMA TaskKeepsBands ==
  ASSUME DifficultyInv, NEW s \in Signals, ReadDifficulty(s) \/ SetDifficulty(s)
  PROVE  DifficultyInv'
<1>0. signal[s] \in Tasks /\ DefaultDifficulty \in Int
  BY DEF DifficultyInv, DefaultDifficulty
<1>1. CASE ReadDifficulty(s)
  <2>1. PICK d \in Int : signal' = [signal EXCEPT ![s].pc = "write", ![s].read = d]
    BY <1>0, <1>1 DEF ReadDifficulty, Current, DifficultyInv
  <2>2. signal' \in [Signals -> Tasks] /\ signal'[s].pc = "write"
        /\ \A x \in Signals \ {s} : signal'[x] = signal[x]
    BY <2>1 DEF DifficultyInv, Tasks
  <2>3. signal[s].pc = "read" /\ UNCHANGED <<value, row, awaited, unheard, overlaps>>
    BY <1>1 DEF ReadDifficulty
  <2>4. ASSUME NEW x \in Signals PROVE SignalOf(x)'
    BY <2>2, <2>3 DEF DifficultyInv, SignalOf, AtWork
  <2> QED
    BY <2>2, <2>3, <2>4 DEF DifficultyInv, BandsAgree
<1>2. CASE SetDifficulty(s)
  <2>1. PICK n \in Int : n = Moved(signal[s].read, signal[s].delta)
    BY <1>0, Moves0 DEF Tasks
  <2>2. PICK pc \in {"answer", "idle"} : /\ pc = IF awaited = s THEN "answer" ELSE "idle"
                                         /\ signal' = [signal EXCEPT ![s].pc = pc, ![s].read = n]
    BY <1>2, <2>1 DEF SetDifficulty
  <2>3. signal' \in [Signals -> Tasks] /\ signal'[s].pc = pc /\ signal'[s].read = n
        /\ \A x \in Signals \ {s} : signal'[x] = signal[x]
    BY <2>2 DEF DifficultyInv, Tasks
  <2>4. signal[s].pc = "write" /\ value' = n /\ UNCHANGED <<row, awaited, unheard, overlaps>>
    BY <1>2, <2>1 DEF SetDifficulty
  <2>5. ~overlaps => awaited = s \/ (awaited = Unset /\ unheard)
    BY <2>4 DEF DifficultyInv, SignalOf, AtWork
  <2>6. ASSUME NEW x \in Signals PROVE SignalOf(x)'
    BY <2>2, <2>3, <2>4, <2>5, DifficultyAssumption DEF DifficultyInv, SignalOf, AtWork
  <2> QED
    BY <2>3, <2>4, <2>5, <2>6, DifficultyAssumption DEF DifficultyInv, BandsAgree
<1> QED
  BY <1>1, <1>2

LEMMA AnswerKeepsBands ==
  ASSUME DifficultyInv, NEW s \in Signals, KeepAnswer(s) \/ GiveUp(s) PROVE DifficultyInv'
<1>0. Ready \in Tasks /\ Ready.pc = "idle" /\ s # Unset
  BY DifficultyAssumption DEF Ready, Tasks, DefaultDifficulty
<1>1. /\ awaited = s /\ awaited' = Unset /\ UNCHANGED <<value, overlaps>>
      /\ signal' = [signal EXCEPT ![s] = Ready] \/ (signal' = signal /\ signal[s].pc # "answer")
  BY DEF KeepAnswer, GiveUp
<1>2. /\ signal' \in [Signals -> Tasks]
      /\ \A x \in Signals \ {s} : signal'[x] = signal[x]
      /\ signal'[s].pc # "answer" /\ (s \in AtWork' => s \in AtWork)
  BY <1>0, <1>1 DEF DifficultyInv, AtWork
<1>3. ~overlaps => \A x \in Signals : x \in AtWork' => unheard'
  BY <1>0, <1>1, <1>2 DEF DifficultyInv, SignalOf, AtWork, KeepAnswer, GiveUp
<1>4. ASSUME NEW x \in Signals PROVE SignalOf(x)'
  BY <1>0, <1>1, <1>2, <1>3 DEF DifficultyInv, SignalOf, AtWork
<1>5. BandsAgree'
  BY <1>1 DEF DifficultyInv, SignalOf, BandsAgree, KeepAnswer, GiveUp
<1> QED
  BY <1>1, <1>2, <1>4, <1>5 DEF DifficultyInv

LEMMA DifficultyStep == DifficultyInv /\ [DifficultyNext]_difficultyVars => DifficultyInv'
<1> SUFFICES ASSUME DifficultyInv, [DifficultyNext]_difficultyVars PROVE DifficultyInv'
  OBVIOUS
<1>1. CASE UNCHANGED difficultyVars
  BY <1>1 DEF difficultyVars, DifficultyInv, SignalOf, AtWork, BandsAgree
<1>2. CASE KeyExpires
  BY <1>2 DEF KeyExpires, DifficultyInv, SignalOf, AtWork, BandsAgree
<1> QED
  BY <1>1, <1>2, SendKeepsBands, TaskKeepsBands, AnswerKeepsBands DEF DifficultyNext

-----------------------------------------------------------------------------
(* The edge. *)

(***************************************************************************)
(* The requests that were counted inside their window and will be let      *)
(* through if nothing stops them.                                          *)
(***************************************************************************)
Passing(k) ==
  {c \in Calls : /\ call[c].pc \in {"expire", "decide"} /\ KeyOf(c) = k
                 /\ ~call[c].late /\ call[c].n <= Limit(k[1])}

Requests ==
  [pc : {"idle", "count", "expire", "decide"}, path : Paths \cup {<<>>}, plane : Planes,
   bucket : Buckets, n : Nat, late : BOOLEAN]

\* a request under way was let in by its route, in a window that has begun
LetIn(c) ==
  call[c].pc # "idle" =>
    /\ call[c].path \in Paths /\ MayReach(call[c].path, call[c].plane)
    /\ call[c].bucket * Window <= now

(***************************************************************************)
(* A counter lives at least until its window ends, so in that window it    *)
(* counts the requests that got through and those that still will; how     *)
(* many these are is bounded by the limit for ever.                        *)
(***************************************************************************)
CountOf(k) ==
  /\ key[k].until = 0 \/ (k[2] + 1) * Window <= key[k].until
  /\ now < (k[2] + 1) * Window => punctual[k] + Cardinality(Passing(k)) <= key[k].n
  /\ punctual[k] + Cardinality(Passing(k)) <= Limit(k[1])

ReachedOnly ==
  \A r \in ToSet(reached) :
    /\ r.path \in Paths /\ r.plane \in Planes /\ MayReach(r.path, r.plane)
    /\ r.upstream = Match(r.path).upstream

Counters == Identities \X Buckets

GatewayInv ==
  /\ now \in 0..MaxTime
  /\ key \in [Counters -> [n : Nat, until : Nat]]
  /\ punctual \in [Counters -> Nat]
  /\ call \in [Calls -> Requests]
  /\ \A c \in Calls : LetIn(c)
  /\ \A k \in Counters : CountOf(k)
  /\ ReachedOnly

LEMMA GatewayConstants ==
  /\ Paths \subseteq Seq(STRING) /\ IsFiniteSet(Calls)
  /\ Window \in Nat /\ Window > 0
  /\ LimitAuth \in Nat /\ LimitDefault \in Nat /\ MaxTime \in Nat /\ MaxCalls \in Nat
<1> QED
  BY GatewayAssumption

LEMMA Division ==
  ASSUME NEW n \in Nat
  PROVE  /\ n \div Window \in Nat
         /\ (n \div Window) * Window <= n /\ n < (n \div Window + 1) * Window
<1>1. n \div Window \in Int /\ (n \div Window) * Window <= n
      /\ n < (n \div Window) * Window + Window
  BY GatewayConstants
<1>2. n \div Window \in Nat
  BY GatewayConstants
<1>3. \A d \in Nat : (d + 1) * Window = d * Window + Window
  BY GatewayConstants
<1> QED
  BY <1>1, <1>2, <1>3

LEMMA WindowsAreNumbered == ASSUME NEW n \in 0..MaxTime PROVE n \div Window \in Buckets
<1> DEFINE d == n \div Window
           m == MaxTime \div Window
<1>1. d \in Nat /\ m \in Nat /\ d * Window <= n /\ MaxTime < (m + 1) * Window
  BY Division, GatewayConstants
<1>2. d * Window < (m + 1) * Window
  BY <1>1, GatewayConstants
<1>3. \A i, j \in Nat : i * Window < j * Window => i < j
  <2>1. SUFFICES ASSUME NEW i \in Nat, NEW j \in Nat, j <= i PROVE j * Window <= i * Window
    BY GatewayConstants
  <2>2. PICK e \in Nat : i = j + e
    BY <2>1
  <2>3. i * Window = j * Window + e * Window /\ e * Window \in Nat /\ j * Window \in Nat
    BY <2>2, GatewayConstants
  <2> QED
    BY <2>3
<1>4. d < m + 1
  BY <1>1, <1>2, <1>3
<1> QED
  BY <1>1, <1>4 DEF Buckets

(***************************************************************************)
(* What IsPrefix says of the prefixes of the table.                        *)
(***************************************************************************)
LEMMA PrefixOf ==
  ASSUME NEW S, NEW T, NEW p \in Seq(S), NEW q \in Seq(T)
  PROVE  IsPrefix(p, q) <=> /\ Len(p) <= Len(q)
                            /\ \A i \in 1..Len(p) : p[i] = q[i]
<1>1. IsPrefix(p, q) <=> Len(p) <= Len(q) /\ SubSeq(p, 1, Len(p)) = SubSeq(q, 1, Len(p))
  BY DEF IsPrefix
<1>2. ASSUME Len(p) <= Len(q)
      PROVE  SubSeq(p, 1, Len(p)) = SubSeq(q, 1, Len(p)) <=> \A i \in 1..Len(p) : p[i] = q[i]
  <2>1. Len(p) \in Nat /\ Len(q) \in Nat
    OBVIOUS
  <2>2. SubSeq(p, 1, Len(p)) = [i \in 1..Len(p) |-> p[i]]
    BY <2>1
  <2>3. SubSeq(q, 1, Len(p)) = [i \in 1..Len(p) |-> q[i]]
    BY <2>1, <1>2
  <2> QED
    BY <2>2, <2>3
<1> QED
  BY <1>1, <1>2

LEMMA OneSegment ==
  ASSUME NEW a, NEW T, NEW q \in Seq(T)
  PROVE  IsPrefix(<<a>>, q) <=> Len(q) >= 1 /\ q[1] = a
<1>0. PICK S, p : S = {a} /\ p = <<a>>
  OBVIOUS
<1>1. p \in Seq(S) /\ Len(p) = 1 /\ p[1] = a
  BY <1>0
<1>2. 1..Len(p) = {1}
  BY <1>1
<1>3. IsPrefix(p, q) <=> Len(p) <= Len(q) /\ \A i \in 1..Len(p) : p[i] = q[i]
  <2>1. p \in Seq(S) /\ q \in Seq(T)
    BY <1>1
  <2> QED
    BY <2>1, PrefixOf
<1>4. IsPrefix(p, q) <=> 1 <= Len(q) /\ \A i \in {1} : p[i] = q[i]
  BY <1>1, <1>2, <1>3
<1> QED
  BY <1>0, <1>1, <1>4

LEMMA TwoSegments ==
  ASSUME NEW a, NEW b, NEW T, NEW q \in Seq(T)
  PROVE  IsPrefix(<<a, b>>, q) <=> Len(q) >= 2 /\ q[1] = a /\ q[2] = b
<1>0. PICK S, p : S = {a, b} /\ p = <<a, b>>
  OBVIOUS
<1>1. p \in Seq(S) /\ Len(p) = 2 /\ p[1] = a /\ p[2] = b
  BY <1>0
<1>2. 1..Len(p) = {1, 2}
  BY <1>1
<1>3. IsPrefix(p, q) <=> Len(p) <= Len(q) /\ \A i \in 1..Len(p) : p[i] = q[i]
  <2>1. p \in Seq(S) /\ q \in Seq(T)
    BY <1>1
  <2> QED
    BY <2>1, PrefixOf
<1>4. IsPrefix(p, q) <=> 2 <= Len(q) /\ \A i \in {1, 2} : p[i] = q[i]
  BY <1>1, <1>2, <1>3
<1> QED
  BY <1>0, <1>1, <1>4

-----------------------------------------------------------------------------
(***************************************************************************)
(* The route of a path is the listed one with the longest prefix.          *)
(***************************************************************************)
LEMMA PrefixesAreShort == ASSUME NEW r \in Routes PROVE \E n \in {1, 2} : n = Len(r.prefix)
<1> DEFINE Short(x) == \E n \in {1, 2} : n = Len(x.prefix)
<1>1. ASSUME NEW a, NEW b, NEW u, NEW c
      PROVE  Short(Route(<<a>>, u, c)) /\ Short(Route(<<a, b>>, u, c))
  BY DEF Route
<1> HIDE DEF Short
<1>2. Short(r)
  BY <1>1 DEF Routes
<1> QED
  BY <1>2 DEF Short

LEMMA LongestMatch ==
  ASSUME NEW path \in Paths, Matching(path) # {}
  PROVE  /\ Match(path) \in Routes /\ IsPrefix(Match(path).prefix, path)
         /\ \A q \in Routes : IsPrefix(q.prefix, path) => Len(q.prefix) <= Len(Match(path).prefix)
<1>1. Matching(path) \subseteq Routes
  BY DEF Matching
<1>2. \E r \in Matching(path) : \A q \in Matching(path) : Len(q.prefix) <= Len(r.prefix)
  <2>1. \A q \in Matching(path) : \E n \in {1, 2} : n = Len(q.prefix)
    BY <1>1, PrefixesAreShort
  <2>2. CASE \E r \in Matching(path) : 2 = Len(r.prefix)
    <3>1. PICK r \in Matching(path) : 2 = Len(r.prefix)
      BY <2>2
    <3>2. ASSUME NEW q \in Matching(path) PROVE Len(q.prefix) <= Len(r.prefix)
      <4>1. PICK n \in {1, 2} : n = Len(q.prefix)
        BY <2>1
      <4>2. n <= 2
        OBVIOUS
      <4> QED
        BY <3>1, <4>1, <4>2
    <3> QED
      BY <3>2
  <2>3. CASE \A r \in Matching(path) : 1 = Len(r.prefix)
    BY <2>3
  <2> QED
    BY <2>1, <2>2, <2>3
<1>3. /\ Match(path) \in Matching(path)
      /\ \A q \in Matching(path) : Len(q.prefix) <= Len(Match(path).prefix)
  BY <1>2 DEF Match
<1> QED
  BY <1>3 DEF Matching

LEMMA RouteCases ==
  ASSUME NEW path \in Paths, Listed(path)
  PROVE  LET Under(prefix) == IsPrefix(prefix, path)
             m == Match(path)
         IN  /\ m \in Routes /\ m.policy \in {"public", "examiner", "candidate"}
             /\ ~Under(<<"internal">>)
             /\ Under(<<"candidate">>) => Under(<<"candidate", "auth">>) \/ m.policy = "candidate"
             /\ m.policy \in {"public", "candidate"} => m.upstream = "exam"
             /\ m.policy = "public" => Under(<<"auth">>) \/ Under(<<"candidate", "auth">>)
             /\ Under(<<"questions">>) => (Under(<<"questions", "generate">>) <=> m.upstream = "ai")
<1>1. path \in Seq(STRING)
  BY GatewayConstants
<1>2. PICK m \in Routes : m = Match(path)
  BY LongestMatch DEF Listed
<1>3. /\ IsPrefix(m.prefix, path) /\ m.policy # "blocked"
      /\ \A q \in Routes : IsPrefix(q.prefix, path) => Len(q.prefix) <= Len(m.prefix)
  BY <1>2, LongestMatch DEF Listed
<1> DEFINE First(a) == Len(path) >= 1 /\ path[1] = a
           Both(a, b) == Len(path) >= 2 /\ path[1] = a /\ path[2] = b
<1>4. \A a : IsPrefix(<<a>>, path) <=> First(a)
  BY <1>1, OneSegment
<1>5. \A a, b : IsPrefix(<<a, b>>, path) <=> Both(a, b)
  BY <1>1, TwoSegments
<1> DEFINE Is(policy, upstream) == m.policy = policy /\ m.upstream = upstream
<1>6. \/ First("internal") /\ Is("blocked", "none")
      \/ First("auth") /\ Is("public", "exam")
      \/ Both("candidate", "auth") /\ Is("public", "exam")
      \/ First("candidate") /\ Is("candidate", "exam") /\ Len(m.prefix) = 1
      \/ /\ \E a \in {"examiners", "blueprints", "exams", "submissions", "sessions"} : First(a)
         /\ Is("examiner", "exam")
      \/ First("topics") /\ Is("examiner", "question")
      \/ First("questions") /\ Is("examiner", "question") /\ Len(m.prefix) = 1
      \/ First("profiles") /\ Is("examiner", "ai")
      \/ Both("questions", "generate") /\ Is("examiner", "ai")
      \/ Both("test-cases", "generate") /\ Is("examiner", "ai")
  <2> HIDE DEF First, Both
  <2>1. \A a, u, c : m = Route(<<a>>, u, c) => First(a) /\ Is(c, u) /\ Len(m.prefix) = 1
    BY <1>3, <1>4 DEF Route
  <2>2. \A a, b, u, c : m = Route(<<a, b>>, u, c) => Both(a, b) /\ Is(c, u)
    BY <1>3, <1>5 DEF Route
  <2> HIDE DEF Is
  <2> QED
    <3>1. \/ m = Route(<<"internal">>, "none", "blocked")
          \/ m = Route(<<"auth">>, "exam", "public")
          \/ m = Route(<<"candidate", "auth">>, "exam", "public")
          \/ m = Route(<<"candidate">>, "exam", "candidate")
          \/ \E a \in {"examiners", "blueprints", "exams", "submissions", "sessions"} :
               m = Route(<<a>>, "exam", "examiner")
          \/ m = Route(<<"topics">>, "question", "examiner")
          \/ m = Route(<<"questions">>, "question", "examiner")
          \/ m = Route(<<"profiles">>, "ai", "examiner")
          \/ m = Route(<<"questions", "generate">>, "ai", "examiner")
          \/ m = Route(<<"test-cases", "generate">>, "ai", "examiner")
      BY DEF Routes
    <3> QED
      BY <2>1, <2>2, <3>1
<1>7. Both("candidate", "auth") \/ Both("questions", "generate") => Len(m.prefix) # 1
  <2> DEFINE q == Route(<<"candidate", "auth">>, "exam", "public")
             h == Route(<<"questions", "generate">>, "ai", "examiner")
  <2>1. q \in Routes /\ h \in Routes
    BY DEF Routes
  <2>2. /\ q.prefix = <<"candidate", "auth">> /\ Len(q.prefix) = 2
        /\ h.prefix = <<"questions", "generate">> /\ Len(h.prefix) = 2
    BY DEF Route
  <2> HIDE DEF q, h
  <2>3. Both("candidate", "auth") \/ Both("questions", "generate") => 2 <= Len(m.prefix)
    <3> HIDE DEF Both
    <3>1. Both("candidate", "auth") => IsPrefix(q.prefix, path)
      BY <1>5, <2>2
    <3>2. Both("questions", "generate") => IsPrefix(h.prefix, path)
      BY <1>5, <2>2
    <3> QED
      BY <1>3, <2>1, <2>2, <3>1, <3>2
  <2>4. PICK n \in {1, 2} : n = Len(m.prefix)
    BY PrefixesAreShort
  <2>5. 2 <= n => n # 1
    OBVIOUS
  <2> HIDE DEF Both
  <2> QED
    BY <2>3, <2>4, <2>5
<1>8. \A a, b : Both(a, b) => First(a)
  OBVIOUS
<1>9. \A a, b : First(a) /\ First(b) => a = b
  OBVIOUS
<1> HIDE DEF First
<1>10. \A a, b, c : Both(a, b) /\ Both(a, c) => b = c
  OBVIOUS
<1> HIDE DEF Both
<1>11. /\ m \in Routes /\ m.policy \in {"public", "examiner", "candidate"}
       /\ ~First("internal")
       /\ First("candidate") => Both("candidate", "auth") \/ m.policy = "candidate"
       /\ m.policy \in {"public", "candidate"} => m.upstream = "exam"
       /\ m.policy = "public" => First("auth") \/ Both("candidate", "auth")
       /\ First("questions") => (Both("questions", "generate") <=> m.upstream = "ai")
  BY <1>3, <1>6, <1>7, <1>8, <1>9
<1> QED
  BY <1>2, <1>4, <1>5, <1>11

-----------------------------------------------------------------------------
(***************************************************************************)
(* Counting at the edge.                                                   *)
(***************************************************************************)
LEMMA Admission ==
  ASSUME NEW path \in Paths, NEW plane \in Planes, MayReach(path, plane)
  PROVE  IdentityOf(path, plane) \in Identities
<1>1. Match(path).policy \in {"public", "examiner", "candidate"}
  BY RouteCases DEF MayReach
<1> QED
  BY <1>1 DEF MayReach, IdentityOf, Identities

LEMMA FirstBucket == 0 \in Buckets
<1>1. MaxTime \div Window \in Nat
  BY Division, GatewayConstants
<1> QED
  BY <1>1 DEF Buckets

LEMMA SetsOfCalls ==
  /\ \A S \in SUBSET Calls : Cardinality(S) \in Nat
  /\ \A S, T \in SUBSET Calls : S \subseteq T => Cardinality(S) <= Cardinality(T)
  /\ \A S \in SUBSET Calls, c \in Calls : c \notin S => Cardinality(S \cup {c}) = Cardinality(S) + 1
<1>1. \A S \in SUBSET Calls : IsFiniteSet(S)
  BY GatewayConstants, FS_Subset
<1> QED
  BY <1>1, FS_CardinalityType, FS_Subset, FS_AddElement

LEMMA Limits == \A id : Limit(id) \in Nat
  BY GatewayConstants DEF Limit

LEMMA OfAnIdentity ==
  ASSUME GatewayInv, NEW c \in Calls, call[c].pc # "idle"
  PROVE  KeyOf(c) \in Counters /\ KeyOf(c)[2] = call[c].bucket
<1>1. call[c].path \in Paths /\ call[c].plane \in Planes /\ call[c].bucket \in Buckets
      /\ MayReach(call[c].path, call[c].plane)
  BY DEF GatewayInv, LetIn, Requests
<1> QED
  BY <1>1, Admission DEF KeyOf, Counters

(***************************************************************************)
(* A step of one request leaves the others under way as they are.          *)
(***************************************************************************)
LEMMA OthersPass ==
  ASSUME NEW c \in Calls, \A x \in Calls \ {c} : call'[x] = call[x], NEW k
  PROVE  Passing(k)' \ {c} = Passing(k) \ {c}
<1>1. \A x \in Calls \ {c} : KeyOf(x)' = KeyOf(x)
  BY DEF KeyOf
<1> QED
  BY <1>1 DEF Passing

LEMMA CountStays ==
  ASSUME GatewayInv, UNCHANGED <<now, punctual>>, NEW k \in Counters,
         key'[k] = key[k], Passing(k)' \subseteq Passing(k)
  PROVE  CountOf(k)'
<1>1. Cardinality(Passing(k)') <= Cardinality(Passing(k))
      /\ Cardinality(Passing(k)') \in Nat /\ Cardinality(Passing(k)) \in Nat
  <2>1. Passing(k) \in SUBSET Calls /\ Passing(k)' \in SUBSET Calls
    BY DEF Passing
  <2> QED
    BY <2>1, SetsOfCalls
<1>2. key[k].n \in Nat /\ punctual[k] \in Nat /\ Limit(k[1]) \in Nat
  BY Limits DEF GatewayInv
<1> QED
  BY <1>1, <1>2 DEF GatewayInv, CountOf

LEMMA GatewayStart == GatewayInit => GatewayInv
<1> SUFFICES ASSUME GatewayInit PROVE GatewayInv
  OBVIOUS
<1> USE DEF GatewayInit
<1>1. 0 \in 0..MaxTime /\ 0 \in Buckets
  BY FirstBucket, GatewayConstants
<1>2. NoCall \in Requests /\ NoCall.pc = "idle"
  BY <1>1 DEF NoCall, Requests, Planes
<1>3. key \in [Counters -> [n : Nat, until : Nat]] /\ punctual \in [Counters -> Nat]
  BY DEF Counters
<1>4. ASSUME NEW k \in Counters PROVE CountOf(k)
  <2>1. Passing(k) = {}
    BY <1>2 DEF Passing
  <2>2. key[k].n = 0 /\ key[k].until = 0 /\ punctual[k] = 0 /\ Cardinality({}) = 0
    BY FS_EmptySet DEF Counters
  <2> QED
    BY <2>1, <2>2, Limits DEF CountOf
<1>5. ReachedOnly
  BY DEF ReachedOnly, ToSet
<1> QED
  BY <1>1, <1>2, <1>3, <1>4, <1>5 DEF GatewayInv, LetIn

LEMMA RequestKeeps ==
  ASSUME GatewayInv, NEW c \in Calls, NEW path \in Paths, NEW plane \in Planes,
         Request(c, path, plane)
  PROVE  GatewayInv'
<1>0. now \in Nat /\ now \div Window \in Buckets /\ (now \div Window) * Window <= now
  BY Division, WindowsAreNumbered, GatewayConstants DEF GatewayInv
<1>1. 0 \in Buckets
  BY FirstBucket
<1>2. PICK r \in Requests : r = [NoCall EXCEPT !.pc = "count", !.path = path, !.plane = plane,
                                               !.bucket = now \div Window]
  <2>1. NoCall \in Requests
    BY <1>1 DEF NoCall, Requests, Planes
  <2> QED
    BY <2>1, <1>0 DEF Requests
<1>3. r.pc = "count" /\ r.path = path /\ r.plane = plane /\ r.bucket = now \div Window
  BY <1>2 DEF NoCall
<1>4. call' = [call EXCEPT ![c] = r] /\ call[c].pc = "idle" /\ MayReach(path, plane)
      /\ UNCHANGED <<now, key, punctual>> /\ reached' = <<>>
  BY <1>2 DEF Request
<1>5. call' \in [Calls -> Requests] /\ call'[c] = r /\ \A x \in Calls \ {c} : call'[x] = call[x]
  BY <1>4 DEF GatewayInv
<1>6. ASSUME NEW x \in Calls PROVE LetIn(x)'
  BY <1>0, <1>3, <1>4, <1>5 DEF GatewayInv, LetIn
<1>7. ASSUME NEW k \in Counters PROVE CountOf(k)'
  <2>1. c \notin Passing(k)'
    BY <1>3, <1>5 DEF Passing
  <2>2. Passing(k)' \subseteq Passing(k)
    BY <2>1, <1>5, OthersPass
  <2> QED
    BY <2>2, <1>4, CountStays
<1>8. ReachedOnly'
  BY <1>4 DEF ReachedOnly, ToSet
<1> QED
  BY <1>4, <1>5, <1>6, <1>7, <1>8 DEF GatewayInv

LEMMA HandshakeKeeps ==
  ASSUME GatewayInv, NEW path \in Paths, NEW plane \in Planes, Handshake(path, plane)
  PROVE  GatewayInv'
<1>1. MayReach(path, plane) /\ UNCHANGED <<now, key, call, punctual>>
      /\ reached' = <<[path |-> path, plane |-> plane, upstream |-> Match(path).upstream]>>
  BY DEF Handshake, Reaches
<1>2. ReachedOnly'
  BY <1>1 DEF ReachedOnly, ToSet
<1>3. \A c \in Calls : LetIn(c)'
  BY <1>1 DEF GatewayInv, LetIn
<1>4. \A k \in Counters : CountOf(k)'
  <2>1. \A k : Passing(k)' = Passing(k)
    BY <1>1 DEF Passing, KeyOf
  <2> QED
    BY <1>1, <2>1, CountStays
<1> QED
  BY <1>1, <1>2, <1>3, <1>4 DEF GatewayInv

LEMMA IncrKeeps == ASSUME GatewayInv, NEW c \in Calls, Incr(c) PROVE GatewayInv'
<1>1. PICK k0 \in Counters : k0 = KeyOf(c) /\ k0[2] = call[c].bucket
  BY OfAnIdentity DEF Incr
<1>2. PICK n \in Nat : n = key[k0].n + 1
  BY DEF GatewayInv
<1>3. PICK late \in BOOLEAN : late <=> (now \div Window) # call[c].bucket
  OBVIOUS
<1>4. PICK pc \in {"expire", "decide"} : pc = IF n = 1 THEN "expire" ELSE "decide"
  OBVIOUS
<1>5. PICK r \in Requests : r = [call[c] EXCEPT !.pc = pc, !.n = n, !.late = late]
  BY DEF GatewayInv, Requests
<1>6. /\ call[c] \in Requests /\ r.pc = pc /\ r.n = n /\ r.late = late
      /\ r.path = call[c].path /\ r.plane = call[c].plane /\ r.bucket = call[c].bucket
  BY <1>5 DEF GatewayInv, Requests
<1>7. /\ call[c].pc = "count" /\ call' = [call EXCEPT ![c] = r]
      /\ key' = [key EXCEPT ![k0].n = n] /\ UNCHANGED <<now, punctual>> /\ reached' = <<>>
  <2>1. call' = [call EXCEPT ![c].pc = IF n = 1 THEN "expire" ELSE "decide", ![c].n = n,
                             ![c].late = (now \div Window) # call[c].bucket]
    BY <1>1, <1>2 DEF Incr
  <2>2. call' = [call EXCEPT ![c].pc = pc, ![c].n = n, ![c].late = late]
    BY <2>1, <1>3, <1>4
  <2> QED
    BY <2>2, <1>1, <1>2, <1>5 DEF Incr, GatewayInv
<1>8. call' \in [Calls -> Requests] /\ call'[c] = r /\ \A x \in Calls \ {c} : call'[x] = call[x]
  BY <1>7 DEF GatewayInv
<1>9. /\ key' \in [Counters -> [n : Nat, until : Nat]] /\ \A k \in Counters \ {k0} : key'[k] = key[k]
      /\ key'[k0].n = n /\ key'[k0].until = key[k0].until
  BY <1>7 DEF GatewayInv
<1>10. KeyOf(c)' = k0
  BY <1>1, <1>6, <1>8 DEF KeyOf
<1>11. ASSUME NEW x \in Calls PROVE LetIn(x)'
  BY <1>6, <1>7, <1>8 DEF GatewayInv, LetIn
<1>12. \A k : c \notin Passing(k)
  BY <1>7 DEF Passing
<1>13. ASSUME NEW k \in Counters PROVE CountOf(k)'
  <2>1. CASE c \notin Passing(k)' /\ k # k0
    <3>1. Passing(k)' \subseteq Passing(k)
      BY <2>1, <1>8, OthersPass
    <3> QED
      BY <2>1, <3>1, <1>7, <1>9, CountStays
  <2>2. CASE k = k0
    <3>1. /\ Passing(k) \in SUBSET Calls /\ Passing(k)' \in SUBSET Calls
          /\ Passing(k)' = Passing(k) \/ (Passing(k)' = Passing(k) \cup {c} /\ ~late /\ n <= Limit(k[1]))
      <4>1. Passing(k)' \ {c} = Passing(k) \ {c}
        BY <1>8, OthersPass
      <4>2. c \in Passing(k)' => ~late /\ n <= Limit(k[1])
        BY <1>6, <1>8 DEF Passing
      <4> QED
        BY <4>1, <4>2, <1>12 DEF Passing
    <3>2. PICK old \in Nat : old = Cardinality(Passing(k))
      BY <3>1, SetsOfCalls
    <3>3. PICK new \in Nat : new = Cardinality(Passing(k)')
      BY <3>1, SetsOfCalls
    <3>4. new = old \/ (new = old + 1 /\ ~late /\ n <= Limit(k[1]))
      BY <3>1, <3>2, <3>3, <1>12, SetsOfCalls
    <3>5. ~late => now < (k[2] + 1) * Window
      <4>1. now \in Nat
        BY GatewayConstants DEF GatewayInv
      <4>2. now < (now \div Window + 1) * Window
        BY <4>1, Division
      <4>3. ~late => now \div Window = k[2]
        BY <2>2, <1>1, <1>3
      <4> QED
        BY <4>2, <4>3
    <3>6. punctual[k] \in Nat /\ Limit(k[1]) \in Nat /\ key[k].n \in Nat
      BY Limits DEF GatewayInv
    <3>7. /\ key[k].until = 0 \/ (k[2] + 1) * Window <= key[k].until
          /\ now < (k[2] + 1) * Window => punctual[k] + old <= key[k].n
          /\ punctual[k] + old <= Limit(k[1])
      BY <3>2 DEF GatewayInv, CountOf
    <3>8. now < (k[2] + 1) * Window => punctual[k] + new <= n
      BY <3>4, <3>6, <3>7, <2>2, <1>2
    <3>9. punctual[k] + new <= Limit(k[1])
      BY <3>4, <3>5, <3>6, <3>7, <2>2, <1>2
    <3> QED
      BY <3>3, <3>7, <3>8, <3>9, <2>2, <1>7, <1>9 DEF CountOf
  <2> QED
    BY <2>1, <2>2, <1>10 DEF Passing
<1>14. ReachedOnly'
  BY <1>7 DEF ReachedOnly, ToSet
<1> QED
  BY <1>7, <1>8, <1>9, <1>11, <1>13, <1>14 DEF GatewayInv

LEMMA ExpireKeeps == ASSUME GatewayInv, NEW c \in Calls, Expire(c) PROVE GatewayInv'
<1>1. PICK k0 \in Counters : k0 = KeyOf(c) /\ k0[2] = call[c].bucket
  BY OfAnIdentity DEF Expire
<1>2. PICK t \in Nat : t = now + Window
  BY GatewayConstants DEF GatewayInv
<1>3. /\ call[c].pc = "expire" /\ call' = [call EXCEPT ![c].pc = "decide"]
      /\ key' = key \/ key' = [key EXCEPT ![k0].until = t]
      /\ UNCHANGED <<now, punctual>> /\ reached' = <<>>
  BY <1>1, <1>2 DEF Expire
<1>4. call' \in [Calls -> Requests] /\ \A x \in Calls \ {c} : call'[x] = call[x]
  BY <1>3 DEF GatewayInv, Requests
<1>5. /\ call'[c].pc = "decide" /\ call'[c].path = call[c].path /\ call'[c].plane = call[c].plane
      /\ call'[c].bucket = call[c].bucket /\ call'[c].n = call[c].n /\ call'[c].late = call[c].late
  BY <1>3 DEF GatewayInv, Requests
<1>6. /\ key' \in [Counters -> [n : Nat, until : Nat]]
      /\ \A k \in Counters : /\ key'[k].n = key[k].n
                             /\ key'[k].until = key[k].until \/ (k = k0 /\ key'[k].until = t)
  BY <1>3 DEF GatewayInv
<1>7. (k0[2] + 1) * Window <= t
  <2>1. k0[2] \in Nat /\ k0[2] * Window <= now
    BY <1>1, <1>3 DEF GatewayInv, LetIn, Requests, Buckets
  <2>2. (k0[2] + 1) * Window = k0[2] * Window + Window
    BY <2>1, GatewayConstants
  <2>3. k0[2] * Window \in Nat
    BY <2>1, GatewayConstants
  <2> QED
    BY <2>1, <2>2, <2>3, <1>2, GatewayConstants DEF GatewayInv
<1>8. ASSUME NEW x \in Calls PROVE LetIn(x)'
  BY <1>3, <1>4, <1>5 DEF GatewayInv, LetIn
<1>9. ASSUME NEW k \in Counters PROVE CountOf(k)'
  <2>1. Passing(k)' = Passing(k)
    <3>1. KeyOf(c)' = KeyOf(c)
      BY <1>5 DEF KeyOf
    <3>2. c \in Passing(k)' <=> c \in Passing(k)
      BY <3>1, <1>3, <1>5 DEF Passing
    <3> QED
      BY <3>2, <1>4, OthersPass
  <2> QED
    BY <2>1, <1>3, <1>6, <1>7 DEF GatewayInv, CountOf
<1>10. ReachedOnly'
  BY <1>3 DEF ReachedOnly, ToSet
<1> QED
  BY <1>3, <1>4, <1>6, <1>8, <1>9, <1>10 DEF GatewayInv

LEMMA NobodyCalls ==
  ASSUME GatewayInv PROVE NoCall \in Requests /\ NoCall.pc = "idle"
<1>1. 0 \in Buckets
  BY FirstBucket
<1> QED
  BY <1>1 DEF NoCall, Requests, Planes

LEMMA DiesKeeps == ASSUME GatewayInv, NEW c \in Calls, CallDies(c) PROVE GatewayInv'
<1>1. call' = [call EXCEPT ![c] = NoCall] /\ UNCHANGED <<now, key, punctual>> /\ reached' = <<>>
  BY DEF CallDies
<1>2. /\ call' \in [Calls -> Requests] /\ call'[c].pc = "idle"
      /\ \A x \in Calls \ {c} : call'[x] = call[x]
  BY <1>1, NobodyCalls DEF GatewayInv
<1>3. ASSUME NEW x \in Calls PROVE LetIn(x)'
  BY <1>1, <1>2 DEF GatewayInv, LetIn
<1>4. ASSUME NEW k \in Counters PROVE CountOf(k)'
  <2>1. Passing(k)' \subseteq Passing(k)
    <3>1. c \notin Passing(k)'
      BY <1>2 DEF Passing
    <3> QED
      BY <3>1, <1>2, OthersPass
  <2> QED
    BY <2>1, <1>1, CountStays
<1>5. ReachedOnly'
  BY <1>1 DEF ReachedOnly, ToSet
<1> QED
  BY <1>1, <1>2, <1>3, <1>4, <1>5 DEF GatewayInv

LEMMA DecideKeeps == ASSUME GatewayInv, NEW c \in Calls, DecideCall(c) PROVE GatewayInv'
<1>1. PICK k0 \in Counters : k0 = KeyOf(c) /\ k0[2] = call[c].bucket
  BY OfAnIdentity DEF DecideCall
<1>2. /\ call[c].pc = "decide" /\ call' = [call EXCEPT ![c] = NoCall] /\ UNCHANGED <<now, key>>
  BY DEF DecideCall
<1>3. /\ call' \in [Calls -> Requests] /\ call'[c].pc = "idle"
      /\ \A x \in Calls \ {c} : call'[x] = call[x]
  BY <1>2, NobodyCalls DEF GatewayInv
<1>4. ASSUME NEW x \in Calls PROVE LetIn(x)'
  BY <1>2, <1>3 DEF GatewayInv, LetIn
<1>5. ASSUME NEW k \in Counters PROVE Passing(k)' = Passing(k) \ {c}
  <2>1. c \notin Passing(k)'
    BY <1>3 DEF Passing
  <2> QED
    BY <2>1, <1>3, OthersPass
<1>6. CASE call[c].n > Limit(k0[1])
  <2>1. UNCHANGED punctual /\ reached' = <<>>
    BY <1>1, <1>6 DEF DecideCall
  <2>2. \A k \in Counters : CountOf(k)'
    BY <2>1, <1>2, <1>5, CountStays
  <2>3. ReachedOnly'
    BY <2>1 DEF ReachedOnly, ToSet
  <2> QED
    BY <2>1, <2>2, <2>3, <1>2, <1>3, <1>4 DEF GatewayInv
<1>7. CASE call[c].n <= Limit(k0[1])
  <2>1. /\ punctual' = [punctual EXCEPT ![k0] = IF call[c].late THEN @ ELSE @ + 1]
        /\ Reaches(call[c].path, call[c].plane)
    <3>1. call[c].n \in Nat /\ Limit(k0[1]) \in Nat
      BY Limits DEF GatewayInv, Requests
    <3> QED
      BY <3>1, <1>1, <1>7 DEF DecideCall
  <2>2. /\ punctual' \in [Counters -> Nat]
        /\ \A k \in Counters \ {k0} : punctual'[k] = punctual[k]
        /\ call[c].late => punctual'[k0] = punctual[k0]
        /\ ~call[c].late => punctual'[k0] = punctual[k0] + 1
    BY <2>1 DEF GatewayInv
  <2>3. ASSUME NEW k \in Counters PROVE CountOf(k)'
    <3>1. Passing(k) \in SUBSET Calls /\ Passing(k)' \in SUBSET Calls
      BY DEF Passing
    <3>2. PICK old \in Nat : old = Cardinality(Passing(k))
      BY <3>1, SetsOfCalls
    <3>3. PICK new \in Nat : new = Cardinality(Passing(k)')
      BY <3>1, SetsOfCalls
    <3>4. new <= old
      BY <3>1, <3>2, <3>3, <1>5, SetsOfCalls
    <3>5. k = k0 /\ ~call[c].late => old = new + 1
      <4>1. k = k0 /\ ~call[c].late => c \in Passing(k)
        BY <1>1, <1>2, <1>7 DEF Passing
      <4>2. c \in Passing(k) => Passing(k) = Passing(k)' \cup {c} /\ c \notin Passing(k)'
        BY <1>5
      <4> QED
        BY <4>1, <4>2, <3>1, <3>2, <3>3, SetsOfCalls
    <3>6. punctual[k] \in Nat /\ punctual'[k] + new <= punctual[k] + old /\ punctual'[k] \in Nat
      BY <2>2, <3>4, <3>5 DEF GatewayInv
    <3>7. key[k].n \in Nat /\ Limit(k[1]) \in Nat
      BY Limits DEF GatewayInv
    <3>8. /\ key[k].until = 0 \/ (k[2] + 1) * Window <= key[k].until
          /\ now < (k[2] + 1) * Window => punctual[k] + old <= key[k].n
          /\ punctual[k] + old <= Limit(k[1])
      BY <3>2 DEF GatewayInv, CountOf
    <3>9. /\ now < (k[2] + 1) * Window => punctual'[k] + new <= key[k].n
          /\ punctual'[k] + new <= Limit(k[1])
      BY <3>6, <3>7, <3>8
    <3> QED
      BY <3>3, <3>8, <3>9, <1>2 DEF CountOf
  <2>4. ReachedOnly'
    <3>1. /\ call[c].path \in Paths /\ call[c].plane \in Planes
          /\ MayReach(call[c].path, call[c].plane)
      BY <1>2 DEF GatewayInv, LetIn, Requests
    <3>2. reached' = <<[path |-> call[c].path, plane |-> call[c].plane,
                        upstream |-> Match(call[c].path).upstream]>>
      BY <2>1 DEF Reaches
    <3> QED
      BY <3>1, <3>2 DEF ReachedOnly, ToSet
  <2> QED
    BY <2>2, <2>3, <2>4, <1>2, <1>3, <1>4 DEF GatewayInv
<1> QED
  <2>1. call[c].n \in Nat /\ Limit(k0[1]) \in Nat
    BY Limits DEF GatewayInv, Requests
  <2> QED
    BY <2>1, <1>6, <1>7

LEMMA TickKeeps == ASSUME GatewayInv, Tick PROVE GatewayInv'
<1>1. /\ now \in Nat /\ now' = now + 1 /\ now' \in 0..MaxTime
      /\ UNCHANGED <<call, punctual>> /\ reached' = <<>>
  BY GatewayConstants DEF GatewayInv, Tick
<1>2. PICK t \in Nat : t = now'
  BY <1>1
<1>3. /\ key' \in [Counters -> [n : Nat, until : Nat]]
      /\ \A k \in Counters : /\ key[k].until # t => key'[k] = key[k]
                             /\ key[k].until = t => key'[k].until = 0
  BY <1>2 DEF GatewayInv, Tick
<1>4. \A k : Passing(k)' = Passing(k)
  BY <1>1 DEF Passing, KeyOf
<1>5. ASSUME NEW c \in Calls PROVE LetIn(c)'
  <2>1. ASSUME call[c].bucket * Window <= now PROVE call[c].bucket * Window <= now'
    <3>1. call[c].bucket * Window \in Nat
      BY GatewayConstants DEF GatewayInv, Requests, Buckets
    <3> QED
      BY <2>1, <3>1, <1>1
  <2> QED
    BY <2>1, <1>1 DEF GatewayInv, LetIn
<1>6. ASSUME NEW k \in Counters PROVE CountOf(k)'
  <2>1. (k[2] + 1) * Window \in Nat
    BY GatewayConstants DEF Counters, Buckets
  <2>2. key[k].until # t => key'[k] = key[k]
    BY <1>3
  <2>3. key[k].until = t => key'[k].until = 0 /\ ~(now' < (k[2] + 1) * Window)
    <3>1. key[k].until = 0 \/ (k[2] + 1) * Window <= key[k].until
      BY DEF GatewayInv, CountOf
    <3>2. PICK e \in Nat : e = (k[2] + 1) * Window
      BY <2>1
    <3> QED
      BY <3>1, <3>2, <1>1, <1>2, <1>3
  <2>4. now' < (k[2] + 1) * Window => now < (k[2] + 1) * Window
    BY <2>1, <1>1
  <2>5. punctual'[k] = punctual[k] /\ Passing(k)' = Passing(k)
    BY <1>1, <1>4
  <2> QED
    BY <2>2, <2>3, <2>4, <2>5 DEF GatewayInv, CountOf
<1>7. ReachedOnly'
  BY <1>1 DEF ReachedOnly, ToSet
<1> QED
  BY <1>1, <1>3, <1>5, <1>6, <1>7 DEF GatewayInv

LEMMA GatewayStep == GatewayInv /\ [GatewayNext]_gatewayVars => GatewayInv'
<1> SUFFICES ASSUME GatewayInv, [GatewayNext]_gatewayVars PROVE GatewayInv'
  OBVIOUS
<1>1. CASE UNCHANGED gatewayVars
  <2>1. UNCHANGED <<now, key, punctual, call, reached>>
    BY <1>1 DEF gatewayVars
  <2>2. \A k : Passing(k)' = Passing(k)
    BY <2>1 DEF Passing, KeyOf
  <2>3. \A k \in Counters : CountOf(k)'
    BY <2>1, <2>2, CountStays
  <2> QED
    BY <2>1, <2>3 DEF GatewayInv, LetIn, ReachedOnly
<1> QED
  BY <1>1, TickKeeps, IncrKeeps, ExpireKeeps, DecideKeeps, DiesKeeps, RequestKeeps, HandshakeKeeps
     DEF GatewayNext

(***************************************************************************)
(* What EdgeHolds says of the routes follows from the table.               *)
(***************************************************************************)
LEMMA EdgeIsHeld == GatewayInv => EdgeHolds
<1> SUFFICES ASSUME GatewayInv PROVE EdgeHolds
  OBVIOUS
<1>1. ASSUME NEW k \in DOMAIN punctual PROVE punctual[k] <= Limit(k[1])
  <2>1. k \in Counters /\ punctual[k] \in Nat
    BY DEF GatewayInv
  <2>2. Passing(k) \in SUBSET Calls
    BY DEF Passing
  <2>3. Cardinality(Passing(k)) \in Nat /\ Limit(k[1]) \in Nat
    BY <2>2, SetsOfCalls, Limits
  <2> QED
    BY <2>1, <2>3 DEF GatewayInv, CountOf
<1>2. ASSUME NEW r \in ToSet(reached)
      PROVE  /\ r.path \in Paths /\ Listed(r.path)
             /\ Match(r.path).policy \in {"public", r.plane} /\ r.plane \in Planes
             /\ r.upstream = Match(r.path).upstream
  BY DEF GatewayInv, ReachedOnly, MayReach
<1>3. ASSUME NEW r \in ToSet(reached)
      PROVE  LET Under(prefix) == IsPrefix(prefix, r.path)
             IN  /\ ~Under(<<"internal">>)
                 /\ Under(<<"candidate">>) => Under(<<"candidate", "auth">>) \/ r.plane = "candidate"
                 /\ r.plane = "candidate" => r.upstream = "exam"
                 /\ r.plane = "none" => Under(<<"auth">>) \/ Under(<<"candidate", "auth">>)
                 /\ Under(<<"questions">>) => (Under(<<"questions", "generate">>) <=> r.upstream = "ai")
  <2> DEFINE Under(prefix) == IsPrefix(prefix, r.path)
             m == Match(r.path)
  <2>1. /\ m.policy \in {"public", "examiner", "candidate"} /\ ~Under(<<"internal">>)
        /\ Under(<<"candidate">>) => Under(<<"candidate", "auth">>) \/ m.policy = "candidate"
        /\ m.policy \in {"public", "candidate"} => m.upstream = "exam"
        /\ m.policy = "public" => Under(<<"auth">>) \/ Under(<<"candidate", "auth">>)
        /\ Under(<<"questions">>) => (Under(<<"questions", "generate">>) <=> m.upstream = "ai")
    BY <1>2, <1>3, RouteCases
  <2>2. m.policy \in {"public", r.plane} /\ r.upstream = m.upstream
    BY <1>2, <1>3
  <2> HIDE DEF Under, m
  <2>3. /\ Under(<<"candidate">>) => Under(<<"candidate", "auth">>) \/ r.plane = "candidate"
        /\ r.plane = "candidate" => r.upstream = "exam"
        /\ r.plane = "none" => Under(<<"auth">>) \/ Under(<<"candidate", "auth">>)
        /\ Under(<<"questions">>) => (Under(<<"questions", "generate">>) <=> r.upstream = "ai")
    BY <2>1, <2>2
  <2> QED
    BY <2>1, <2>3 DEF Under
<1> QED
  BY <1>1, <1>3 DEF EdgeHolds

-----------------------------------------------------------------------------
(* Blueprints. *)

\* the rows of the recursion by which the sum of the weights is defined
One(s) == CHOOSE x \in s : TRUE
Summed(mix, S, iter) == [s \in SUBSET S |-> IF s = {} THEN 0 ELSE mix[One(s)].weight + iter[s \ {One(s)}]]

LEMMA WeightIs ==
  ASSUME NEW mix, NEW sum, sum = Summed(mix, DOMAIN mix, sum)
  PROVE  \E iter : iter = Summed(mix, DOMAIN mix, iter) /\ Weight(mix) = iter[DOMAIN mix]
<1> DEFINE S == DOMAIN mix
<1>1. PICK iter : iter = CHOOSE i : i = Summed(mix, S, i)
  OBVIOUS
<1>2. iter = Summed(mix, S, iter)
  <2>1. \E i : i = Summed(mix, S, i)
    OBVIOUS
  <2> QED
    BY <1>1, <2>1, Zenon
<1>3. Weight(mix) = iter[S]
  BY <1>1 DEF Summed, One, Weight, MapThenSumSet, MapThenFoldSet
<1> QED
  BY <1>2, <1>3

LEMMA WeightOfOne ==
  ASSUME NEW mix, DOMAIN mix = {1}, mix[1].weight \in Int
  PROVE  Weight(mix) = mix[1].weight
<1>1. \A s \in SUBSET {1} : s # {} => s = {1} /\ One(s) = 1 /\ s \ {1} = {}
  BY DEF One
<1>2. PICK w \in Int : w = mix[1].weight
  OBVIOUS
<1>3. PICK sum : sum = [s \in SUBSET {1} |-> IF s = {} THEN 0 ELSE w]
  OBVIOUS
<1>4. sum = Summed(mix, {1}, sum)
  BY <1>1, <1>2, <1>3 DEF Summed
<1>5. PICK iter : iter = Summed(mix, {1}, iter) /\ Weight(mix) = iter[{1}]
  BY <1>4, WeightIs
<1>6. iter[{}] = 0 /\ iter[{1}] = w + iter[{}]
  <2>1. \A s \in SUBSET {1} : iter[s] = IF s = {} THEN 0 ELSE mix[One(s)].weight + iter[s \ {One(s)}]
    BY <1>5 DEF Summed
  <2>2. {} \in SUBSET {1} /\ {1} \in SUBSET {1} /\ {1} # {} /\ One({1}) = 1 /\ {1} \ {1} = {}
    BY <1>1
  <2> QED
    BY <1>2, <2>1, <2>2
<1> QED
  BY <1>2, <1>5, <1>6

LEMMA WeightOfTwo ==
  ASSUME NEW mix, DOMAIN mix = {1, 2}, mix[1].weight \in Int, mix[2].weight \in Int
  PROVE  Weight(mix) = mix[1].weight + mix[2].weight
<1>1. \A s \in SUBSET {1, 2} : \/ s = {}
                               \/ s = {1} /\ One(s) = 1 /\ s \ {1} = {}
                               \/ s = {2} /\ One(s) = 2 /\ s \ {2} = {}
                               \/ s = {1, 2} /\ One(s) \in {1, 2} /\ s \ {1} = {2} /\ s \ {2} = {1}
  BY DEF One
<1>2. PICK a \in Int, b \in Int : a = mix[1].weight /\ b = mix[2].weight
  OBVIOUS
<1>3. PICK sum : sum = [s \in SUBSET {1, 2} |->
                          (IF 1 \in s THEN a ELSE 0) + (IF 2 \in s THEN b ELSE 0)]
  OBVIOUS
<1>4. sum = Summed(mix, {1, 2}, sum)
  <2>1. ASSUME NEW s \in SUBSET {1, 2}
        PROVE  sum[s] = IF s = {} THEN 0 ELSE mix[One(s)].weight + sum[s \ {One(s)}]
    BY <1>1, <1>2, <1>3
  <2> QED
    BY <1>3, <2>1 DEF Summed
<1>5. PICK iter : iter = Summed(mix, {1, 2}, iter) /\ Weight(mix) = iter[{1, 2}]
  BY <1>4, WeightIs
<1>6. \A s \in SUBSET {1, 2} : iter[s] = IF s = {} THEN 0 ELSE mix[One(s)].weight + iter[s \ {One(s)}]
  BY <1>5 DEF Summed
<1>7. iter[{}] = 0 /\ iter[{1}] = a + iter[{}] /\ iter[{2}] = b + iter[{}]
  <2>1. {} \in SUBSET {1, 2} /\ {1} \in SUBSET {1, 2} /\ {2} \in SUBSET {1, 2}
    OBVIOUS
  <2>2. One({1}) = 1 /\ One({2}) = 2 /\ {1} \ {1} = {} /\ {2} \ {2} = {} /\ {1} # {} /\ {2} # {}
    BY DEF One
  <2> QED
    BY <1>2, <1>6, <2>1, <2>2
<1>8. iter[{1, 2}] = a + iter[{2}] \/ iter[{1, 2}] = b + iter[{1}]
  <2>1. /\ {1, 2} \in SUBSET {1, 2} /\ {1, 2} # {} /\ One({1, 2}) \in {1, 2}
        /\ {1, 2} \ {1} = {2} /\ {1, 2} \ {2} = {1}
    BY <1>1
  <2> QED
    BY <1>2, <1>6, <2>1
<1> QED
  BY <1>2, <1>5, <1>7, <1>8

Rows == [mix : Proposals \cup {MockMix(f) : f \in Offers}, base : Nat,
         origin : {"examiner", "model", "mock"}]

\* only the model's proposals are stored unchecked
Held(entry) == entry.origin # "model" => Weight(entry.mix) = 100 /\ NoRepeat(entry.mix)

BlueprintsInv ==
  /\ version \in Seq(Rows)
  /\ current = Len(version) /\ acked = Len(version) /\ pinned \in 0..Len(version)
  /\ edit \in [Editors -> 0..Len(version)]
  /\ \A n \in 1..Len(version) : version[n].base = n - 1 /\ Held(version[n])
  /\ pinned = 0 => DOMAIN drawn = {}
  /\ \A i \in DOMAIN drawn : /\ i \in DOMAIN Mix /\ drawn[i] \subseteq Pool(Mix[i].topic)
                            /\ Cardinality(drawn[i]) = Mix[i].count

(***************************************************************************)
(* The mock splits the weight between at most two topics it was offered.   *)
(***************************************************************************)
LEMMA MockIsSound ==
  ASSUME NEW topics \in Offers
  PROVE  Weight(MockMix(topics)) = 100 /\ NoRepeat(MockMix(topics))
<1>1. PICK n \in Nat : n >= 1 /\ topics \in [1..n -> OrgTopics]
  BY DEF Offers
<1>2. Len(topics) = n
  BY <1>1
<1>3. \A i, j \in 1..n : topics[i] = topics[j] => i = j
  BY <1>1 DEF Offers, IsInjective
<1>4. PICK mix : mix = MockMix(topics)
  OBVIOUS
<1>5. CASE n = 1
  <2>1. mix = [i \in 1..1 |-> [topic |-> topics[i], weight |-> IF i < 1 THEN 100 \div 1 ELSE 100 - (100 \div 1) * (1 - 1),
                              count |-> 2]]
    BY <1>2, <1>4, <1>5 DEF MockMix
  <2>2. DOMAIN mix = {1} /\ mix[1].weight = 100
    BY <2>1
  <2> QED
    BY <2>2, <1>4, WeightOfOne DEF NoRepeat
<1>6. CASE n >= 2
  <2>1. mix = [i \in 1..2 |-> [topic |-> topics[i], weight |-> IF i < 2 THEN 100 \div 2 ELSE 100 - (100 \div 2) * (2 - 1),
                              count |-> 2]]
    BY <1>2, <1>4, <1>6 DEF MockMix
  <2>2. /\ DOMAIN mix = {1, 2} /\ mix[1].weight = 50 /\ mix[2].weight = 50
        /\ mix[1].topic = topics[1] /\ mix[2].topic = topics[2]
    BY <2>1
  <2>3. Weight(mix) = 100
    BY <2>2, WeightOfTwo
  <2>4. NoRepeat(mix)
    BY <2>2, <1>3, <1>6 DEF NoRepeat
  <2> QED
    BY <2>3, <2>4, <1>4
<1> QED
  BY <1>1, <1>5, <1>6

LEMMA BlueprintsStart == BlueprintsInit => BlueprintsInv
  BY DEF BlueprintsInit, BlueprintsInv

LEMMA CreateKeeps ==
  ASSUME BlueprintsInv, NEW mix, NEW origin, [mix |-> mix, base |-> 0, origin |-> origin] \in Rows,
         origin # "model" => Weight(mix) = 100 /\ NoRepeat(mix), Create(mix, origin)
  PROVE  BlueprintsInv'
<1>1. PICK entry \in Rows : entry = [mix |-> mix, base |-> 0, origin |-> origin]
  OBVIOUS
<1>2. entry.base = 0 /\ Held(entry)
  BY <1>1 DEF Held
<1>3. /\ version = <<>> /\ version' = <<entry>> /\ current' = 1 /\ acked' = 1
      /\ UNCHANGED <<edit, pinned, published, drawn>>
  BY <1>1 DEF Create
<1>4. version' \in Seq(Rows) /\ Len(version') = 1 /\ version'[1] = entry /\ Len(version) = 0
  BY <1>3
<1>5. pinned = 0 /\ pinned' = 0 /\ DOMAIN drawn' = {}
  BY <1>3, <1>4 DEF BlueprintsInv
<1>6. edit' \in [Editors -> 0..1]
  BY <1>3, <1>4 DEF BlueprintsInv
<1> QED
  BY <1>2, <1>3, <1>4, <1>5, <1>6 DEF BlueprintsInv

LEMMA ReplaceKeeps ==
  ASSUME BlueprintsInv, NEW e \in Editors, NEW mix \in Mixes, CreateVersion(e, mix)
  PROVE  BlueprintsInv'
<1>1. PICK entry \in Rows : entry = [mix |-> mix, base |-> edit[e], origin |-> "examiner"]
  <2>1. edit[e] \in Nat /\ mix \in Proposals
    <3>1. Len(version) \in Nat
      BY DEF BlueprintsInv
    <3> QED
      BY <3>1 DEF BlueprintsInv, Mixes
  <2> QED
    BY <2>1 DEF Rows
<1>2. entry.base = Len(version) /\ Held(entry)
  BY <1>1 DEF Held, Mixes, CreateVersion
<1>3. /\ version' = Append(version, entry) /\ current' = Len(version') /\ acked' = acked + 1
      /\ edit' = [edit EXCEPT ![e] = 0] /\ UNCHANGED <<pinned, published, drawn>>
  BY <1>1 DEF CreateVersion, Replaces
<1>4. /\ version \in Seq(Rows) /\ version' \in Seq(Rows) /\ Len(version') = Len(version) + 1
      /\ \A n \in 1..Len(version) : version'[n] = version[n]
      /\ version'[Len(version')] = entry
  BY <1>3 DEF BlueprintsInv
<1>5. edit' \in [Editors -> 0..Len(version')]
  BY <1>3, <1>4 DEF BlueprintsInv
<1>6. \A n \in 1..Len(version') : version'[n].base = n - 1 /\ Held(version'[n])
  <2>1. Len(version) \in Nat
    BY <1>4
  <2> SUFFICES ASSUME NEW n \in 1..Len(version')
               PROVE  version'[n].base = n - 1 /\ Held(version'[n])
    OBVIOUS
  <2>2. CASE n \in 1..Len(version)
    <3>1. version[n].base = n - 1 /\ Held(version[n])
      BY <2>2 DEF BlueprintsInv
    <3>2. version'[n] = version[n]
      BY <1>4, <2>2
    <3> QED
      BY <3>1, <3>2
  <2>3. CASE n = Len(version')
    <3>1. version'[n] = entry /\ n - 1 = Len(version)
      BY <1>4, <2>1, <2>3
    <3> QED
      BY <1>2, <3>1
  <2> QED
    BY <1>4, <2>1, <2>2, <2>3
<1>7. pinned # 0 => Mix' = Mix
  BY <1>3, <1>4 DEF BlueprintsInv, Mix
<1>8. \A t : Pool(t)' = Pool(t)
  BY <1>3 DEF Pool
<1> QED
  BY <1>3, <1>4, <1>5, <1>6, <1>7, <1>8 DEF BlueprintsInv

\* steps that write no version
LEMMA RowsStay ==
  ASSUME BlueprintsInv, UNCHANGED <<version, current, acked>>,
         pinned' \in 0..Len(version), edit' \in [Editors -> 0..Len(version)],
         pinned' = 0 => DOMAIN drawn' = {},
         \A i \in DOMAIN drawn' : /\ i \in DOMAIN Mix' /\ drawn'[i] \subseteq Pool(Mix[i].topic)'
                                /\ Cardinality(drawn'[i]) = Mix'[i].count
  PROVE  BlueprintsInv'
  BY DEF BlueprintsInv

LEMMA BlueprintsStep == BlueprintsInv /\ [BlueprintsNext]_blueprintVars => BlueprintsInv'
<1> SUFFICES ASSUME BlueprintsInv, [BlueprintsNext]_blueprintVars PROVE BlueprintsInv'
  OBVIOUS
<1>1. CASE UNCHANGED blueprintVars
  BY <1>1 DEF blueprintVars, BlueprintsInv, Mix, Pool
<1>2. CASE PinVersion
  <2>1. /\ current # 0 /\ pinned = 0 /\ pinned' = current
        /\ UNCHANGED <<version, current, edit, acked, published, drawn>>
    BY <1>2 DEF PinVersion
  <2>2. DOMAIN drawn' = {} /\ pinned' \in 0..Len(version) /\ pinned' # 0
    BY <2>1 DEF BlueprintsInv
  <2> QED
    BY <2>1, <2>2 DEF BlueprintsInv
<1>3. CASE CreateBlueprint
  <2>1. PICK mix \in Mixes : Create(mix, "examiner")
    BY <1>3 DEF CreateBlueprint
  <2> QED
    BY <2>1, CreateKeeps DEF Mixes, Rows
<1>4. CASE CreateProposed
  <2>1. PICK mix \in Proposals : Create(mix, "model")
    BY <1>4 DEF CreateProposed
  <2> QED
    BY <2>1, CreateKeeps DEF Rows
<1>5. CASE CreateMocked
  <2>1. PICK topics \in Offers : Create(MockMix(topics), "mock")
    BY <1>5 DEF CreateMocked
  <2> QED
    BY <2>1, CreateKeeps, MockIsSound DEF Rows
<1>6. ASSUME NEW e \in Editors, ReadCurrent(e) PROVE BlueprintsInv'
  <2>1. edit' = [edit EXCEPT ![e] = current]
        /\ UNCHANGED <<version, current, acked, pinned, published, drawn>>
    BY <1>6 DEF ReadCurrent
  <2>2. edit' \in [Editors -> 0..Len(version)]
    BY <2>1 DEF BlueprintsInv
  <2> QED
    BY <2>1, <2>2 DEF BlueprintsInv, Mix, Pool
<1>7. ASSUME NEW e \in Editors, VersionClashes(e) PROVE BlueprintsInv'
  <2>1. edit' = [edit EXCEPT ![e] = 0]
        /\ UNCHANGED <<version, current, acked, pinned, published, drawn>>
    BY <1>7 DEF VersionClashes
  <2>2. edit' \in [Editors -> 0..Len(version)]
    BY <2>1 DEF BlueprintsInv
  <2> QED
    BY <2>1, <2>2 DEF BlueprintsInv, Mix, Pool
<1>8. ASSUME NEW q \in Questions, QuestionPublished(q) PROVE BlueprintsInv'
  <2>1. published' = published \cup {q}
        /\ UNCHANGED <<version, current, edit, acked, pinned, drawn>>
    BY <1>8 DEF QuestionPublished
  <2>2. Mix' = Mix /\ \A t : Pool(t) \subseteq Pool(t)'
    BY <2>1 DEF Mix, Pool
  <2> QED
    BY <2>1, <2>2 DEF BlueprintsInv
<1>9. ASSUME NEW i \in 1..MaxEntries, DrawEntry(i) PROVE BlueprintsInv'
  <2>1. PICK S \in kSubset(Mix[i].count, Pool(Mix[i].topic)) :
          drawn' = [j \in DOMAIN drawn \cup {i} |-> IF j = i THEN S ELSE drawn[j]]
    BY <1>9 DEF DrawEntry
  <2>2. pinned # 0 /\ i \in DOMAIN Mix \ DOMAIN drawn
        /\ UNCHANGED <<version, current, edit, acked, pinned, published>>
    BY <1>9 DEF DrawEntry
  <2>3. S \subseteq Pool(Mix[i].topic) /\ Cardinality(S) = Mix[i].count
    BY <2>1 DEF kSubset
  <2>4. Mix' = Mix /\ \A t : Pool(t)' = Pool(t)
    BY <2>2 DEF Mix, Pool
  <2>5. \A j \in DOMAIN drawn' : /\ j \in DOMAIN Mix /\ drawn'[j] \subseteq Pool(Mix[j].topic)
                              /\ Cardinality(drawn'[j]) = Mix[j].count
    BY <2>1, <2>2, <2>3 DEF BlueprintsInv
  <2> QED
    BY <2>2, <2>4, <2>5 DEF BlueprintsInv
<1>10. ASSUME NEW i \in 1..MaxEntries, DrawFails(i) PROVE BlueprintsInv'
  <2>1. drawn' = <<>> /\ UNCHANGED <<version, current, edit, acked, pinned, published>>
    BY <1>10 DEF DrawFails
  <2>2. DOMAIN drawn' = {}
    BY <2>1
  <2> QED
    BY <2>1, <2>2 DEF BlueprintsInv
<1> QED
  BY <1>1, <1>2, <1>3, <1>4, <1>5, <1>6, <1>7, <1>8, <1>9, <1>10, ReplaceKeeps DEF BlueprintsNext

LEMMA VersionsKeepRules == BlueprintsInv => VersionsAreExact
<1> SUFFICES ASSUME BlueprintsInv PROVE VersionsAreExact
  OBVIOUS
<1>1. ASSUME NEW i \in DOMAIN drawn, NEW j \in DOMAIN drawn, i # j,
             version[pinned].origin # "model", NEW q \in drawn[i] \cap drawn[j]
      PROVE  {Mix[i].topic, Mix[j].topic} \subseteq TopicsOf[q] /\ Mix[i].topic # Mix[j].topic
  <2>1. pinned \in 1..Len(version) /\ i \in DOMAIN Mix /\ j \in DOMAIN Mix
        /\ q \in Pool(Mix[i].topic) /\ q \in Pool(Mix[j].topic)
    BY <1>1 DEF BlueprintsInv
  <2>2. NoRepeat(Mix)
    BY <2>1, <1>1 DEF BlueprintsInv, Held, Mix
  <2> QED
    BY <2>1, <2>2, <1>1 DEF NoRepeat, Pool
<1> QED
  BY <1>1 DEF BlueprintsInv, Held, VersionsAreExact

-----------------------------------------------------------------------------
(***************************************************************************)
(* What overlapping calls count stays exact, for every number of them: the *)
(* requests of an identity, the versions of a blueprint with what an exam  *)
(* draws from the one it pinned, and the difficulty that Redis and the     *)
(* exam service keep of one session.                                       *)
(***************************************************************************)
THEOREM CountsAreExact == SceneSpec => []CountersAreExact
<1> DEFINE Inv == GatewayInv /\ BlueprintsInv /\ DifficultyInv
<1>1. SceneInit => Inv
  BY GatewayStart, BlueprintsStart, DifficultyStart DEF SceneInit
<1>2. Inv /\ [SceneNext]_<<part, otherVars, consoleVars>> => Inv'
  <2>1. GatewayInv /\ [SceneNext]_<<part, otherVars, consoleVars>> => GatewayInv'
    BY GatewayStep DEF SceneNext, otherVars
  <2>2. BlueprintsInv /\ [SceneNext]_<<part, otherVars, consoleVars>> => BlueprintsInv'
    BY BlueprintsStep DEF SceneNext, otherVars
  <2>3. DifficultyInv /\ [SceneNext]_<<part, otherVars, consoleVars>> => DifficultyInv'
    BY DifficultyStep DEF SceneNext, otherVars
  <2> QED
    BY <2>1, <2>2, <2>3
<1>3. Inv => CountersAreExact
  BY EdgeIsHeld, VersionsKeepRules DEF DifficultyInv, CountersAreExact
<1> QED
  BY <1>1, <1>2, <1>3, PTL DEF SceneSpec

-----------------------------------------------------------------------------
(* Drafting. *)

Statuses == {"none", "queued", "processing", "drafting", "validating", "ready", "failed"}
Stages == {"idle", "begin", "read", "draft", "reference", "brute", "render", "resume", "github",
           "extract", "over", "raised"}

\* a declaration that passed the checks before the solutions are asked for
Declared == DOMAIN spec # {} /\ \A i \in DOMAIN spec : CheckBounds(spec[i])

(***************************************************************************)
(* How many requests the stages before can have cost: each is over after   *)
(* MaxAttempts, and the tries of the present one are counted.              *)
(***************************************************************************)
Spent ==
  /\ task.pc \in {"idle", "begin", "read", "resume", "github"} => posts = 0 /\ task.tries = 0
  /\ task.pc \in {"draft", "extract"} => posts <= task.tries
  /\ task.pc = "reference" => posts <= MaxAttempts + task.tries
  /\ task.pc = "brute" => posts <= 2 * MaxAttempts + task.tries
  /\ posts <= 3 * MaxAttempts

TaskRows == [pc : Stages, tries : 0..(MaxAttempts - 1), status : Statuses]

DraftingInv ==
  /\ task \in TaskRows
  /\ posts \in Nat
  /\ \E n \in Nat : spec \in [1..n -> InputVar]
  /\ Spent
  /\ task.pc \in {"reference", "brute", "render"} => Declared
  /\ inputs # <<>> => task.pc = "over" /\ ValidateInput(inputs, spec)
  /\ task.pc = "raised" => \E i \in DOMAIN spec : HalfBounded(spec[i])
  /\ task.pc = "over" /\ ~stopped /\ inputs = <<>> => task.status \in {"ready", "failed"}

LEMMA Bounds ==
  /\ Values \subseteq Int /\ Lengths \subseteq Nat /\ Absent \notin Values /\ Absent \notin Lengths
  /\ ValueSpread \in Nat /\ LengthSpread \in Nat /\ MaxAttempts \in Nat /\ MaxAttempts > 0
  /\ \A v \in InputVar : Letter \notin ValuesOf(v)
<1> QED
  BY DraftingAssumption

LEMMA BoundsOf ==
  ASSUME NEW v \in InputVar
  PROVE  /\ v.kind \in {"int", "int_array", "string"}
         /\ Given(v.lo) => v.lo \in Int
         /\ Given(v.hi) => v.hi \in Int
         /\ Given(v.llo) => v.llo \in Nat
         /\ Given(v.lhi) => v.lhi \in Nat
  BY Bounds DEF InputVar, Given

(***************************************************************************)
(* The generator has a value wherever the bounds do not cross, unless the  *)
(* default of a missing one does.                                          *)
(***************************************************************************)
LEMMA OnlyHalfBoundedRaise ==
  ASSUME NEW v \in InputVar, CheckBounds(v), Raises(v) PROVE HalfBounded(v)
<1> USE BoundsOf, Bounds
<1>1. CASE v.kind # "string" /\ ValuesOf(v) = {}
  <2>1. CASE Given(v.lo) /\ Given(v.hi)
    <3>1. v.lo \in ValuesOf(v)
      BY <2>1, <1>1 DEF ValuesOf, Or, CheckBounds, Crossed
    <3> QED
      BY <3>1, <1>1
  <2>2. CASE Given(v.lo) /\ ~Given(v.hi)
    <3>1. v.lo \in ValuesOf(v)
      BY <2>2 DEF ValuesOf, Or
    <3> QED
      BY <3>1, <1>1
  <2>3. CASE ~Given(v.lo) /\ ~Given(v.hi)
    <3>1. 0 \in ValuesOf(v)
      BY <2>3 DEF ValuesOf, Or
    <3> QED
      BY <3>1, <1>1
  <2>4. CASE ~Given(v.lo) /\ Given(v.hi)
    <3>1. v.hi >= 0 => 0 \in ValuesOf(v)
      BY <2>4 DEF ValuesOf, Or
    <3> QED
      BY <3>1, <2>4, <1>1 DEF HalfBounded
  <2> QED
    BY <2>1, <2>2, <2>3, <2>4
<1>2. CASE v.kind # "int" /\ LengthsOf(v) = {}
  <2>1. CASE Given(v.llo) /\ Given(v.lhi)
    <3>1. v.llo \in LengthsOf(v)
      BY <2>1, <1>2 DEF LengthsOf, Or, CheckBounds, Crossed
    <3> QED
      BY <3>1, <1>2
  <2>2. CASE Given(v.llo) /\ ~Given(v.lhi)
    <3>1. v.llo \in LengthsOf(v)
      BY <2>2 DEF LengthsOf, Or
    <3> QED
      BY <3>1, <1>2
  <2>3. CASE ~Given(v.llo) /\ ~Given(v.lhi)
    <3>1. 1 \in LengthsOf(v)
      BY <2>3 DEF LengthsOf, Or
    <3> QED
      BY <3>1, <1>2
  <2>4. CASE ~Given(v.llo) /\ Given(v.lhi)
    <3>1. v.lhi >= 1 => 1 \in LengthsOf(v)
      BY <2>4 DEF LengthsOf, Or
    <3> QED
      BY <3>1, <2>4, <1>2 DEF HalfBounded
  <2> QED
    BY <2>1, <2>2, <2>3, <2>4
<1> QED
  BY <1>1, <1>2 DEF Raises

(***************************************************************************)
(* What the generator makes of a variable passes the check of a value.     *)
(***************************************************************************)
LEMMA ValuesFit ==
  ASSUME NEW v \in InputVar, v.kind # "string", NEW x \in ValuesOf(v) PROVE InRange(v, x)
<1>1. x \in Int /\ x # Letter
  BY Bounds, BoundsOf DEF ValuesOf, Or
<1>2. Given(v.lo) => x >= v.lo
  BY BoundsOf, Bounds DEF ValuesOf, Or
<1>3. Given(v.hi) => x <= v.hi
  BY BoundsOf, Bounds DEF ValuesOf, Or
<1> QED
  BY <1>1, <1>2, <1>3 DEF InRange, Above, Below

LEMMA LengthsFit ==
  ASSUME NEW v \in InputVar, NEW n \in LengthsOf(v)
  PROVE  n \in Nat /\ Above(n, v.llo) /\ Below(n, v.lhi)
<1>1. n \in Int /\ (Given(v.llo) => n >= v.llo) /\ (~Given(v.llo) => n >= 1)
  BY BoundsOf, Bounds DEF LengthsOf, Or
<1>2. Given(v.lhi) => n <= v.lhi
  BY BoundsOf, Bounds DEF LengthsOf, Or
<1> QED
  BY <1>1, <1>2, BoundsOf DEF Above, Below

LEMMA RenderedFits ==
  ASSUME NEW v \in InputVar, NEW line \in RenderVar(v) PROVE CheckValue(line, v)
<1>1. CASE v.kind = "int"
  <2>1. PICK x \in ValuesOf(v) : line = <<x>>
    BY <1>1 DEF RenderVar
  <2>2. Len(line) = 1 /\ DOMAIN line = {1} /\ line[1] = x
    BY <2>1
  <2> QED
    BY <2>1, <2>2, <1>1, ValuesFit DEF CheckValue
<1>2. CASE v.kind # "int"
  <2> DEFINE S == IF v.kind = "string" THEN {Letter} ELSE ValuesOf(v)
  <2>1. PICK n \in LengthsOf(v) : line \in [1..n -> S]
    BY <1>2 DEF RenderVar
  <2>2. n \in Nat /\ Above(n, v.llo) /\ Below(n, v.lhi)
    BY LengthsFit
  <2>3. Len(line) = n /\ DOMAIN line = 1..n
    BY <2>1, <2>2
  <2>4. v.kind # "string" => \A i \in DOMAIN line : InRange(v, line[i])
    BY <2>1, <2>3, ValuesFit
  <2> QED
    BY <2>2, <2>3, <2>4, <1>2 DEF CheckValue
<1> QED
  BY <1>1, <1>2

LEMMA DraftingStart == DraftingInit => DraftingInv
<1> SUFFICES ASSUME DraftingInit PROVE DraftingInv
  OBVIOUS
<1>1. PICK t \in TaskRows :
        t = [pc |-> "idle", tries |-> 0, status |-> "none"]
  <2>1. 0 \in 0..(MaxAttempts - 1) /\ "idle" \in Stages /\ "none" \in Statuses
    BY Bounds DEF Stages, Statuses
  <2> QED
    BY <2>1 DEF TaskRows
<1>2. t.pc = "idle" /\ t.tries = 0
  BY <1>1
<1>3. task = t /\ spec = <<>> /\ inputs = <<>> /\ posts = 0
  BY <1>1 DEF DraftingInit
<1>4. spec \in [1..0 -> InputVar]
  BY <1>3
<1> QED
  BY <1>2, <1>3, <1>4, Bounds DEF DraftingInv, Spent

\* steps before a draft is checked, or after a task has failed
LEMMA EarlyKeeps ==
  ASSUME DraftingInv, NEW t \in TaskRows, task' = t, UNCHANGED <<spec, inputs>>, posts' \in Nat,
         t.pc \notin {"reference", "brute", "render", "raised"}, inputs = <<>>,
         t.pc = "over" => stopped' \/ t.status \in {"ready", "failed"},
         Spent'
  PROVE  DraftingInv'
  BY DEF DraftingInv

LEMMA TaskIs ==
  ASSUME DraftingInv
  PROVE  /\ task.pc \in Stages /\ task.tries \in Nat /\ task.tries <= MaxAttempts - 1
         /\ task.status \in Statuses /\ MaxAttempts \in Nat /\ posts \in Nat
         /\ task.pc # "over" => inputs = <<>>
  BY Bounds DEF DraftingInv, TaskRows

LEMMA GoesTo ==
  ASSUME DraftingInv, NEW pc \in Stages, Goes(pc)
  PROVE  task' \in TaskRows /\ task'.pc = pc /\ task'.tries = 0 /\ task'.status = task.status
<1>1. 0 \in 0..(MaxAttempts - 1)
  BY Bounds
<1> QED
  BY <1>1 DEF DraftingInv, TaskRows, Goes

LEMMA EndsWith ==
  ASSUME DraftingInv, NEW status \in Statuses, EndsAs(status)
  PROVE  task' \in TaskRows /\ task'.pc = "over" /\ task'.tries = task.tries /\ task'.status = status
  BY Bounds DEF DraftingInv, TaskRows, EndsAs, Stages

LEMMA DraftingStep == DraftingInv /\ [DraftingNext]_draftVars => DraftingInv'
<1> SUFFICES ASSUME DraftingInv, [DraftingNext]_draftVars PROVE DraftingInv'
  OBVIOUS
<1>0. CASE UNCHANGED draftVars
  BY <1>0 DEF draftVars, DraftingInv, Spent, Declared
<1>1. ASSUME NEW pc \in {"begin", "read"}, Queue(pc) PROVE DraftingInv'
  <2>1. task' \in TaskRows /\ task'.pc = pc /\ task'.tries = task.tries
    BY <1>1 DEF Queue, DraftingInv, TaskRows, Stages, Statuses
  <2>2. posts' = posts /\ posts = 0 /\ task.tries = 0 /\ UNCHANGED <<spec, inputs>> /\ inputs = <<>>
    BY <1>1 DEF Queue, DraftingInv, Spent
  <2>3. Spent'
    BY <2>1, <2>2, Bounds DEF Spent
  <2> QED
    BY <2>1, <2>2, <2>3, EarlyKeeps
<1>2. CASE BeginDrafting \/ BeginIngestion
  <2>1. PICK pc \in {"draft", "resume"} : task' \in TaskRows /\ task'.pc = pc /\ task'.tries = task.tries
    BY <1>2 DEF BeginDrafting, BeginIngestion, DraftingInv, TaskRows, Stages, Statuses
  <2>2. posts' = posts /\ posts = 0 /\ task.tries = 0 /\ UNCHANGED <<spec, inputs>> /\ inputs = <<>>
    BY <1>2 DEF BeginDrafting, BeginIngestion, DraftingInv, Spent
  <2>3. Spent'
    BY <2>1, <2>2, Bounds DEF Spent
  <2> QED
    BY <2>1, <2>2, <2>3, EarlyKeeps
<1>3. CASE ReadResume \/ FetchSignals
  <2>1. PICK pc \in {"github", "extract"} : Goes(pc)
    BY <1>3 DEF ReadResume, FetchSignals
  <2>2. task' \in TaskRows /\ task'.pc = pc /\ task'.tries = 0
    BY <2>1, GoesTo DEF Stages
  <2>3. posts' = posts /\ posts = 0 /\ UNCHANGED <<spec, inputs>> /\ inputs = <<>>
    BY <1>3 DEF ReadResume, FetchSignals, DraftingInv, Spent
  <2>4. Spent'
    BY <2>2, <2>3, Bounds DEF Spent
  <2> QED
    BY <2>2, <2>3, <2>4, EarlyKeeps
<1>4. CASE CallRetries
  <2>1. /\ task' \in TaskRows /\ task'.pc = task.pc /\ task'.tries = task.tries + 1
        /\ task'.status = task.status
    BY <1>4, Bounds DEF CallRetries, DraftingInv, TaskRows
  <2>2. /\ posts' = posts + 1 /\ UNCHANGED <<spec, inputs, stopped>>
        /\ task.pc \in {"draft", "reference", "brute", "extract"} /\ task.tries + 1 < MaxAttempts
    BY <1>4 DEF CallRetries, Calling
  <2>3. Spent'
    <3>1. PICK n \in Nat, m \in Nat : n = task.tries /\ m = MaxAttempts /\ n + 1 < m
      BY <2>2, TaskIs
    <3>2. PICK p \in Nat : p = posts
      BY TaskIs
    <3>3. /\ task.pc \in {"draft", "extract"} => p <= n
          /\ task.pc = "reference" => p <= m + n
          /\ task.pc = "brute" => p <= 2 * m + n
      BY <3>1, <3>2 DEF DraftingInv, Spent
    <3>4. /\ task.pc \in {"draft", "extract"} => p + 1 <= n + 1
          /\ task.pc = "reference" => p + 1 <= m + (n + 1)
          /\ task.pc = "brute" => p + 1 <= 2 * m + (n + 1)
          /\ p + 1 <= 3 * m
      BY <3>1, <3>3, <2>2
    <3> QED
      BY <3>1, <3>2, <3>4, <2>1, <2>2 DEF Spent
  <2> QED
    BY <2>1, <2>2, <2>3 DEF DraftingInv, Declared
<1>5. CASE CallGivesUp
  <2>1. task' \in TaskRows /\ task'.pc = "over" /\ task'.status = "failed"
    BY <1>5, EndsWith DEF CallGivesUp, Statuses
  <2>2. /\ posts' = posts + 1 /\ UNCHANGED <<spec, inputs, stopped>>
        /\ task.pc \in {"draft", "reference", "brute", "extract"}
    BY <1>5 DEF CallGivesUp, Calling
  <2>3. Spent' /\ inputs = <<>> /\ posts' \in Nat
    BY <2>1, <2>2, TaskIs DEF Spent, DraftingInv
  <2> QED
    BY <2>1, <2>2, <2>3, EarlyKeeps
<1>6. ASSUME NEW n \in 1..MaxVars, NEW s \in [1..n -> InputVar], NEW example \in Examples, NEW rest \in BOOLEAN,
             DraftAnswered(s, example, rest)
      PROVE  DraftingInv'
  <2>0. /\ task.pc = "draft" /\ posts' = posts + 1 /\ spec' = s /\ UNCHANGED <<inputs, stopped>>
        /\ n \in Nat /\ DOMAIN s # {} /\ inputs = <<>> /\ posts' \in Nat
    BY <1>6, TaskIs DEF DraftAnswered
  <2>1. CASE ValidateDraft(s, example, rest)
    <3>1. task' \in TaskRows /\ task'.pc = "reference" /\ task'.tries = 0
      <4>1. 0 \in 0..(MaxAttempts - 1) /\ "reference" \in Stages /\ "validating" \in Statuses
        BY Bounds DEF Stages, Statuses
      <4>2. task' = [task EXCEPT !.pc = "reference", !.tries = 0, !.status = "validating"]
        BY <1>6, <2>1 DEF DraftAnswered
      <4> QED
        BY <4>1, <4>2 DEF DraftingInv, TaskRows
    <3>2. Declared'
      BY <2>0, <2>1 DEF Declared, ValidateDraft
    <3>3. Spent'
      BY <2>0, <3>1, TaskIs DEF Spent, DraftingInv
    <3> QED
      BY <2>0, <3>1, <3>2, <3>3 DEF DraftingInv
  <2>2. CASE ~ValidateDraft(s, example, rest)
    <3>1. task' \in TaskRows /\ task'.pc = "over" /\ task'.status = "failed"
      BY <1>6, <2>2, EndsWith DEF DraftAnswered, Statuses
    <3>2. Spent'
      BY <2>0, <3>1, TaskIs DEF Spent, DraftingInv
    <3> QED
      BY <2>0, <3>1, <3>2 DEF DraftingInv
  <2> QED
    BY <2>1, <2>2
<1>7. CASE SolutionAnswered
  <2>1. PICK pc \in {"brute", "render"} : pc = IF task.pc = "reference" THEN "brute" ELSE "render"
    OBVIOUS
  <2>2. task' \in TaskRows /\ task'.pc = pc /\ task'.tries = 0
    BY <1>7, <2>1, GoesTo DEF SolutionAnswered, Stages
  <2>3. /\ posts' = posts + 1 /\ UNCHANGED <<spec, inputs, stopped>>
        /\ task.pc \in {"reference", "brute"}
    BY <1>7 DEF SolutionAnswered
  <2>4. Spent' /\ inputs = <<>> /\ posts' \in Nat
    BY <2>1, <2>2, <2>3, TaskIs DEF Spent, DraftingInv
  <2>5. Declared'
    BY <2>3 DEF Declared, DraftingInv
  <2> QED
    BY <2>2, <2>3, <2>4, <2>5 DEF DraftingInv
<1>8. CASE GenerateInputs
  <2>1. task' \in TaskRows /\ task'.pc = "over" /\ task.pc = "render"
    BY <1>8, GoesTo DEF GenerateInputs, Stages
  <2>2. UNCHANGED <<spec, posts, stopped>>
    BY <1>8 DEF GenerateInputs
  <2>3. /\ DOMAIN inputs' = DOMAIN spec /\ \A i \in DOMAIN spec : inputs'[i] \in RenderVar(spec[i])
        /\ \E T : inputs' \in [DOMAIN spec -> T]
    BY <1>8 DEF GenerateInputs
  <2>4. PICK n \in Nat : spec \in [1..n -> InputVar]
    BY DEF DraftingInv
  <2>5. Len(inputs') = Len(spec) /\ DOMAIN spec # {}
    BY <2>1, <2>3, <2>4 DEF DraftingInv, Declared
  <2>6. ValidateInput(inputs', spec)
    BY <2>3, <2>4, <2>5, RenderedFits DEF ValidateInput
  <2>7. inputs' # <<>>
    BY <2>3, <2>5
  <2>8. Spent'
    BY <2>1, <2>2, TaskIs DEF Spent, DraftingInv
  <2> QED
    BY <2>1, <2>2, <2>6, <2>7, <2>8 DEF DraftingInv
<1>9. CASE GenerationRaises
  <2>1. task' \in TaskRows /\ task'.pc = "raised" /\ task.pc = "render"
    BY <1>9 DEF GenerationRaises, DraftingInv, TaskRows, Stages, Statuses
  <2>2. UNCHANGED <<spec, inputs, posts, stopped>> /\ \E i \in DOMAIN spec : Raises(spec[i])
    BY <1>9 DEF GenerationRaises
  <2>3. \E i \in DOMAIN spec : HalfBounded(spec[i])
    BY <2>1, <2>2, OnlyHalfBoundedRaise DEF DraftingInv, Declared
  <2>4. Spent' /\ inputs = <<>>
    BY <2>1, <2>2, TaskIs DEF Spent, DraftingInv
  <2> QED
    BY <2>1, <2>2, <2>3, <2>4 DEF DraftingInv
<1>10. CASE ProfileExtracted
  <2>1. task' \in TaskRows /\ task'.pc = "over" /\ task'.status = "ready"
    BY <1>10, EndsWith DEF ProfileExtracted, Statuses
  <2>2. posts' = posts + 1 /\ UNCHANGED <<spec, inputs, stopped>> /\ task.pc = "extract"
    BY <1>10 DEF ProfileExtracted
  <2>3. Spent' /\ inputs = <<>> /\ posts' \in Nat
    BY <2>1, <2>2, TaskIs DEF Spent, DraftingInv
  <2> QED
    BY <2>1, <2>2, <2>3, EarlyKeeps
<1>11. CASE TaskFails
  <2>1. task' \in TaskRows /\ task'.pc = "over" /\ task'.status = "failed"
    BY <1>11, EndsWith DEF TaskFails, Statuses
  <2>2. UNCHANGED <<spec, inputs, posts, stopped>> /\ task.pc # "over"
    BY <1>11 DEF TaskFails
  <2>3. Spent' /\ inputs = <<>> /\ posts' \in Nat
    BY <2>1, <2>2, TaskIs DEF Spent, DraftingInv
  <2> QED
    BY <2>1, <2>2, <2>3, EarlyKeeps
<1>12. CASE ServiceStops
  <2>1. task' \in TaskRows /\ task'.pc = "over" /\ stopped' = TRUE
    BY <1>12, GoesTo DEF ServiceStops, Stages
  <2>2. UNCHANGED <<spec, inputs, posts>> /\ task.pc # "over"
    BY <1>12 DEF ServiceStops
  <2>3. Spent' /\ inputs = <<>> /\ posts' \in Nat
    BY <2>1, <2>2, TaskIs DEF Spent, DraftingInv
  <2> QED
    BY <2>1, <2>2, <2>3, EarlyKeeps
<1> QED
  BY <1>0, <1>1, <1>2, <1>3, <1>4, <1>5, <1>6, <1>7, <1>8, <1>9, <1>10, <1>11, <1>12
     DEF DraftingNext, StartGeneration, CreateProfile

LEMMA InputsFit == DraftingInv => InputsFitTheSpec
  BY DEF DraftingInv, InputsFitTheSpec, Spent

-----------------------------------------------------------------------------
(* Judging. *)

Verdicts == {"AC", "WA", "RE", "TLE", "MLE"}

\* what the generation lane keeps: a clean run with its output, cut twice
KeptCases ==
  {[run |-> r, expected |-> Cut(Cut(r.output, OutputCap), CaptureCap)] :
     r \in {x \in Runs : x.ending = "ok"}}

Results == [verdict : Verdicts, again : BOOLEAN, clean : BOOLEAN]

ResultOf(i) ==
  /\ results[i].again /\ Len(kept[i].run.output) <= CaptureCap => results[i].verdict = "AC"
  /\ results[i].verdict = "AC" => results[i].clean

JudgingInv ==
  /\ lane \in {"gen", "live", "over"}
  /\ kept \in Seq(KeptCases) /\ results \in Seq(Results) /\ Len(results) <= Len(kept)
  /\ \A i \in 1..Len(results) : ResultOf(i)
  /\ lane = "gen" => results = <<>> /\ summary = "pending"
  /\ lane = "live" => summary = "pending"
  /\ lane # "gen" => Len(kept) > 0
  /\ summary = "AC" <=> /\ lane = "over" /\ Len(results) = Len(kept)
                        /\ \A i \in 1..Len(results) : results[i].verdict = "AC"

LEMMA CutShort ==
  ASSUME NEW T, NEW s \in Seq(T), NEW cap \in Nat
  PROVE  /\ Cut(s, cap) \in Seq(T) /\ Len(Cut(s, cap)) <= cap /\ Len(Cut(s, cap)) <= Len(s)
         /\ Len(s) <= cap => Cut(s, cap) = s
<1>1. CASE Len(s) <= cap
  BY <1>1 DEF Cut
<1>2. CASE ~(Len(s) <= cap)
  <2>1. Cut(s, cap) = SubSeq(s, 1, cap) /\ cap <= Len(s) /\ Len(s) \in Nat
    BY <1>2 DEF Cut
  <2>2. SubSeq(s, 1, cap) \in Seq(T) /\ Len(SubSeq(s, 1, cap)) = cap
    BY <2>1
  <2> QED
    BY <2>1, <2>2, <1>2
<1> QED
  BY <1>1, <1>2

LEMMA EnvelopeOf ==
  ASSUME NEW run \in Runs
  PROVE  /\ run.output \in Seq(STRING) /\ run.ending \in Endings
         /\ ~Envelope(run).truncated /\ Envelope(run).output = Cut(run.output, OutputCap)
         /\ Envelope(run).exit_code = ExitCode(run)
         /\ Envelope(run).timed_out <=> run.ending = "slow"
         /\ Envelope(run).oom_killed <=> run.ending = "ok after oom"
<1>1. run.output \in Seq(STRING) /\ run.ending \in Endings /\ OutputCap \in Nat
  BY JudgingAssumption DEF Runs
<1>2. PICK file \in Seq(STRING) : file = Cut(run.output, OutputCap) /\ Len(file) <= OutputCap
  BY <1>1, CutShort
<1>3. Cut(file, OutputCap) = file /\ ~(Len(file) > OutputCap)
  BY <1>1, <1>2, CutShort
<1>4. PICK code, slow, oom, cut, out :
         /\ code = ExitCode(run) /\ slow = (run.ending = "slow")
         /\ oom = (run.ending = "ok after oom")
         /\ cut = (Len(file) > OutputCap) /\ out = Cut(file, OutputCap)
  BY Zenon
<1>5. Envelope(run) = [exit_code |-> code, timed_out |-> slow, oom_killed |-> oom,
                       truncated |-> cut, output |-> out]
  BY <1>2, <1>4, Zenon DEF Envelope
<1>6. /\ Envelope(run).exit_code = code /\ Envelope(run).timed_out = slow
      /\ Envelope(run).oom_killed = oom /\ Envelope(run).truncated = cut
      /\ Envelope(run).output = out
  BY <1>5
<1>7. ~cut /\ out = file
  BY <1>3, <1>4, Zenon
<1> QED
  BY <1>1, <1>2, <1>4, <1>6, <1>7, Zenon

LEMMA ExitsClean ==
  ASSUME NEW run, run.ending \in Endings
  PROVE  /\ run.ending \in {"ok", "ok after oom"} => ExitCode(run) = 0
         /\ ExitCode(run) = 0 => run.ending \in {"ok", "slow", "ok after oom"}
<1>1. run.ending = "error" => ExitCode(run) = 1
  BY Zenon DEF ExitCode
<1>2. run.ending = "killed" => ExitCode(run) = -9
  BY Zenon DEF ExitCode
<1>3. run.ending = "ok" => ExitCode(run) = 0
  BY Zenon DEF ExitCode
<1>4. run.ending = "ok after oom" => ExitCode(run) = 0
  BY Zenon DEF ExitCode
<1>5. 1 # 0 /\ -9 # 0
  OBVIOUS
<1> QED
  BY <1>1, <1>2, <1>3, <1>4, <1>5 DEF Endings

LEMMA OutcomeOf ==
  ASSUME NEW run, NEW event
  PROVE  /\ Outcome(run, event).killed_by_worker <=> event = "wall"
         /\ event = "none" => Outcome(run, event).envelope = <<Envelope(run)>>
         /\ event # "none" => Outcome(run, event).envelope = <<>>
  BY Zenon DEF Outcome

\* an envelope that says the run was clean
LEMMA CleanMeansOk ==
  ASSUME NEW run \in Runs, ~Envelope(run).oom_killed, ~Envelope(run).timed_out,
         Envelope(run).exit_code = 0
  PROVE  run.ending = "ok"
  BY EnvelopeOf, ExitsClean

LEMMA OkMeansClean ==
  ASSUME NEW run \in Runs, run.ending = "ok"
  PROVE  ~Envelope(run).oom_killed /\ ~Envelope(run).timed_out /\ Envelope(run).exit_code = 0
  BY EnvelopeOf, ExitsClean

LEMMA ClassifiedIsKept ==
  ASSUME NEW run \in Runs, NEW event \in Events, ClassifyRun(Outcome(run, event)) # <<>>
  PROVE  run.ending = "ok" /\ ClassifyRun(Outcome(run, event))[1] = Cut(run.output, OutputCap)
<1>1. event = "none" /\ Outcome(run, event).envelope = <<Envelope(run)>>
  BY OutcomeOf DEF ClassifyRun
<1>2. PICK env : env = Envelope(run)
  OBVIOUS
<1>3. ~env.oom_killed /\ ~env.timed_out /\ env.exit_code = 0
      /\ ClassifyRun(Outcome(run, event)) = <<env.output>>
  BY <1>1, <1>2 DEF ClassifyRun
<1>4. run.ending = "ok" /\ env.output = Cut(run.output, OutputCap)
  BY <1>2, <1>3, CleanMeansOk, EnvelopeOf
<1>5. <<env.output>>[1] = env.output
  OBVIOUS
<1> QED
  BY <1>3, <1>4, <1>5, Zenon

LEMMA AcceptedIsClean ==
  ASSUME NEW run \in Runs, NEW event \in Events, NEW expected,
         VerdictForCase(Outcome(run, event), expected) = "AC"
  PROVE  event = "none" /\ run.ending = "ok"
<1>1. event = "none" /\ Outcome(run, event).envelope = <<Envelope(run)>>
  BY OutcomeOf DEF VerdictForCase
<1>2. PICK env : env = Envelope(run)
  OBVIOUS
<1>3. ~env.oom_killed /\ ~env.timed_out /\ env.exit_code = 0
  BY <1>1, <1>2 DEF VerdictForCase
<1> QED
  BY <1>1, <1>2, <1>3, CleanMeansOk

LEMMA OkIsAccepted ==
  ASSUME NEW run \in Runs, run.ending = "ok", NEW expected, expected = Cut(run.output, OutputCap)
  PROVE  VerdictForCase(Outcome(run, "none"), expected) = "AC"
<1>1. /\ ~Outcome(run, "none").killed_by_worker
      /\ Outcome(run, "none").envelope = <<Envelope(run)>>
  BY OutcomeOf
<1>2. PICK env : env = Envelope(run)
  OBVIOUS
<1>3. /\ ~env.oom_killed /\ ~env.timed_out /\ env.exit_code = 0 /\ ~env.truncated
      /\ env.output = expected
  BY <1>2, EnvelopeOf, OkMeansClean
<1>4. OutputsMatch(env.output, expected, mode)
  BY <1>3 DEF OutputsMatch
<1>5. 0 # -9
  OBVIOUS
<1> QED
  BY <1>1, <1>2, <1>3, <1>4, <1>5 DEF VerdictForCase

LEMMA VerdictIs ==
  ASSUME NEW outcome, NEW expected PROVE VerdictForCase(outcome, expected) \in Verdicts
  BY DEF VerdictForCase, Verdicts

LEMMA FirstOf ==
  ASSUME NEW S \in SUBSET Nat, S # {} PROVE Min(S) \in S
<1>1. PICK x \in S : \A y \in S : <<y, x>> \notin OpToRel(<, Nat)
  BY NatLessThanWellFounded, WFMin
<1>2. \A y \in S : ~(y < x)
  BY <1>1 DEF OpToRel
<1>3. \A y \in S : x <= y
  BY <1>2
<1> QED
  BY <1>3 DEF Min

LEMMA SummaryIs ==
  ASSUME NEW verdicts \in Seq(Verdicts)
  PROVE  Summary(verdicts) = "AC" <=> \A i \in 1..Len(verdicts) : verdicts[i] = "AC"
<1> DEFINE bad == {i \in DOMAIN verdicts : verdicts[i] # "AC"}
<1>1. bad \in SUBSET Nat /\ DOMAIN verdicts = 1..Len(verdicts)
  OBVIOUS
<1>2. CASE bad = {}
  <2>1. Summary(verdicts) = "AC"
    BY <1>2 DEF Summary
  <2> QED
    BY <2>1, <1>1, <1>2
<1>3. CASE bad # {}
  <2>1. Min(bad) \in bad
    BY <1>1, <1>3, FirstOf
  <2>2. Summary(verdicts) = verdicts[Min(bad)]
    BY <1>3 DEF Summary
  <2> QED
    BY <1>1, <2>1, <2>2
<1> QED
  BY <1>2, <1>3

LEMMA JudgingStart == JudgingInit => JudgingInv
  BY DEF JudgingInit, JudgingInv

\* an input both solutions agree on gives the case of a clean run
LEMMA AgreedIsKept ==
  ASSUME NEW ref \in Runs, NEW bf \in Runs,
         NEW e1 \in Events \ {"docker"}, NEW e2 \in Events \ {"docker"},
         Agree(GenRun[ref][e1], GenRun[bf][e2])
  PROVE  [run |-> ref, expected |-> Cut(GenRun[ref][e1][1], CaptureCap)] \in KeptCases
<1>1. GenRun[ref][e1] = ClassifyRun(Outcome(ref, e1))
  BY DEF GenRun
<1>2. GenRun[ref][e1] # <<>> /\ e1 \in Events
  BY Zenon DEF Agree
<1>3. ref.ending = "ok" /\ GenRun[ref][e1][1] = Cut(ref.output, OutputCap)
  BY <1>1, <1>2, ClassifiedIsKept
<1> QED
  BY <1>3, Zenon DEF KeptCases

\* the reference, run again undisturbed, prints what was kept of it
LEMMA ReferenceIsAccepted ==
  ASSUME NEW case \in KeptCases, Len(case.run.output) <= CaptureCap
  PROVE  VerdictForCase(Outcome(case.run, "none"), case.expected) = "AC"
<1>1. PICK r \in Runs : r.ending = "ok" /\ case = [run |-> r,
                          expected |-> Cut(Cut(r.output, OutputCap), CaptureCap)]
  BY DEF KeptCases
<1>2. case.run = r /\ case.expected = Cut(Cut(r.output, OutputCap), CaptureCap)
  BY <1>1, Zenon
<1>3. r.output \in Seq(STRING) /\ {OutputCap, CaptureCap} \subseteq Nat
  BY EnvelopeOf, JudgingAssumption
<1>4. PICK out \in Seq(STRING) : out = Cut(r.output, OutputCap) /\ Len(out) <= Len(r.output)
  BY <1>3, CutShort
<1>5. Len(out) <= CaptureCap
  BY <1>2, <1>3, <1>4
<1>6. Cut(out, CaptureCap) = out
  BY <1>3, <1>5, CutShort
<1>7. case.expected = Cut(r.output, OutputCap)
  BY <1>2, <1>4, <1>6, Zenon
<1> QED
  BY <1>1, <1>2, <1>7, OkIsAccepted

LEMMA JudgeCaseKeeps ==
  ASSUME JudgingInv, NEW run \in Runs, NEW event \in Events, JudgeCase(run, event)
  PROVE  JudgingInv'
<1> DEFINE case == kept[Len(results) + 1]
<1>1. /\ lane = "live" /\ Len(results) < Len(kept)
      /\ kept \in Seq(KeptCases) /\ results \in Seq(Results)
      /\ lane' = lane /\ mode' = mode /\ kept' = kept /\ summary' = summary /\ summary = "pending"
  BY DEF JudgeCase, JudgingInv
<1>2. PICK n \in Nat : n = Len(results)
  BY <1>1
<1>3. PICK c \in KeptCases : c = kept[n + 1]
  BY <1>1, <1>2
<1>4. PICK again, clean, v :
         /\ again = (event = "none" /\ run = c.run)
         /\ clean = (event = "none" /\ run.ending = "ok")
         /\ v = VerdictForCase(Outcome(run, event), c.expected)
  BY Zenon
<1>5. again \in BOOLEAN /\ clean \in BOOLEAN /\ v \in Verdicts
  BY <1>4, VerdictIs, Zenon
<1>6. PICK r : r = [verdict |-> v, again |-> again, clean |-> clean]
  OBVIOUS
<1>7. results' = Append(results, r)
  BY <1>2, <1>3, <1>4, <1>6, Zenon DEF JudgeCase
<1>8. r \in Results /\ r.verdict = v /\ r.again = again /\ r.clean = clean
  BY <1>5, <1>6 DEF Results
<1>9. r.again /\ Len(c.run.output) <= CaptureCap => r.verdict = "AC"
  <2> SUFFICES ASSUME again, Len(c.run.output) <= CaptureCap PROVE v = "AC"
    BY <1>8, Zenon
  <2>1. event = "none" /\ run = c.run
    BY <1>4, Zenon
  <2> QED
    BY <2>1, <1>4, ReferenceIsAccepted
<1>10. r.verdict = "AC" => r.clean
  <2> SUFFICES ASSUME v = "AC" PROVE clean
    BY <1>8, Zenon
  <2>1. event = "none" /\ run.ending = "ok"
    BY <1>4, AcceptedIsClean
  <2> QED
    BY <2>1, <1>4, Zenon
<1>11. /\ results' \in Seq(Results) /\ Len(results') = n + 1
       /\ \A i \in 1..n : results'[i] = results[i]
       /\ results'[n + 1] = r
  BY <1>1, <1>2, <1>7, <1>8
<1>12. n + 1 <= Len(kept)
  BY <1>1, <1>2
<1>13. ASSUME NEW i \in 1..Len(results') PROVE ResultOf(i)'
  <2>1. CASE i \in 1..n
    <3>1. ResultOf(i) /\ results'[i] = results[i]
      BY <2>1, <1>2, <1>11 DEF JudgingInv
    <3> QED
      BY <3>1, <1>1, Zenon DEF ResultOf
  <2>2. CASE i = n + 1
    BY <2>2, <1>1, <1>3, <1>9, <1>10, <1>11, Zenon DEF ResultOf
  <2> QED
    BY <2>1, <2>2, <1>11
<1> QED
  BY <1>1, <1>11, <1>12, <1>13, Zenon DEF JudgingInv

LEMMA JudgingStep == JudgingInv /\ [JudgingNext]_judgingVars => JudgingInv'
<1> SUFFICES ASSUME JudgingInv, [JudgingNext]_judgingVars PROVE JudgingInv'
  OBVIOUS
<1>0. /\ lane \in {"gen", "live", "over"} /\ Len(results) \in Nat /\ Len(kept) \in Nat
      /\ kept \in Seq(KeptCases) /\ results \in Seq(Results) /\ Len(results) <= Len(kept)
  BY DEF JudgingInv
<1>1. ASSUME NEW ref \in Runs, NEW bf \in Runs,
             NEW e1 \in Events \ {"docker"}, NEW e2 \in Events \ {"docker"},
             DiffCase(ref, bf, e1, e2)
      PROVE  JudgingInv'
  <2>1. /\ lane = "gen" /\ results = <<>> /\ summary = "pending"
        /\ lane' = lane /\ results' = results /\ summary' = summary
    BY <1>1 DEF DiffCase, JudgingInv
  <2>2. PICK c \in KeptCases : kept' = Append(kept, c)
    BY <1>1, AgreedIsKept DEF DiffCase
  <2>3. kept' \in Seq(KeptCases) /\ Len(kept') \in Nat
    BY <1>0, <2>2
  <2> QED
    BY <2>1, <2>3 DEF JudgingInv
<1>2. ASSUME NEW run \in Runs, NEW event \in Events, JudgeCase(run, event) PROVE JudgingInv'
  BY <1>2, JudgeCaseKeeps
<1>3. CASE DiffFails
  BY <1>3 DEF DiffFails, JudgingInv
<1>4. CASE BeginLive
  <2>1. /\ lane = "gen" /\ results = <<>> /\ summary = "pending" /\ Len(kept) > 0
        /\ lane' = "live" /\ kept' = kept /\ results' = results /\ summary' = summary
    BY <1>4, <1>0 DEF BeginLive, JudgingInv
  <2> QED
    BY <2>1, <1>0 DEF JudgingInv
<1>5. CASE JudgeBreaks
  <2>1. /\ lane = "live" /\ summary = "pending" /\ Len(kept) > 0
        /\ lane' = lane /\ kept' = kept /\ results' = <<>> /\ summary' = summary
    BY <1>5 DEF JudgeBreaks, JudgingInv
  <2> QED
    BY <2>1, <1>0 DEF JudgingInv
<1>6. CASE SendVerdict
  <2> DEFINE verdicts == [i \in DOMAIN results |-> results[i].verdict]
  <2>1. /\ lane = "live" /\ Len(kept) > 0 /\ Len(results) = Len(kept)
        /\ lane' = "over" /\ kept' = kept /\ results' = results
        /\ \A i \in 1..Len(results) : ResultOf(i)
    BY <1>6 DEF SendVerdict, JudgingInv
  <2>2. /\ verdicts \in Seq(Verdicts) /\ Len(verdicts) = Len(results)
        /\ \A i \in 1..Len(results) : verdicts[i] = results[i].verdict
    <3>1. \A i \in DOMAIN results : results[i] \in Results
      BY <1>0
    <3>2. \A i \in DOMAIN results : results[i].verdict \in Verdicts
      BY <3>1 DEF Results
    <3>3. DOMAIN results = 1..Len(results)
      BY <1>0
    <3>4. verdicts \in [1..Len(results) -> Verdicts]
      BY <3>2, <3>3
    <3> QED
      BY <1>0, <3>3, <3>4
  <2>3. summary' = Summary(verdicts)
    BY <1>6, Zenon DEF SendVerdict
  <2>4. summary' = "AC" <=> \A i \in 1..Len(results) : results[i].verdict = "AC"
    <3> HIDE DEF verdicts
    <3> QED
      BY <2>2, <2>3, SummaryIs
  <2>5. \A i \in 1..Len(results') : ResultOf(i)'
    BY <2>1, Zenon DEF ResultOf
  <2> HIDE DEF verdicts
  <2> QED
    BY <2>1, <2>4, <2>5, <1>0 DEF JudgingInv
<1>7. CASE CompileFails
  <2>1. /\ lane = "live" /\ Len(kept) > 0 /\ results = <<>> /\ Len(results) # Len(kept)
        /\ lane' = "over" /\ kept' = kept /\ results' = results /\ summary' = "CE"
    BY <1>7 DEF CompileFails, JudgingInv
  <2> QED
    BY <2>1, <1>0 DEF JudgingInv
<1>8. CASE UNCHANGED judgingVars
  BY <1>8, Zenon DEF judgingVars, JudgingInv, ResultOf
<1> QED
  BY <1>1, <1>2, <1>3, <1>4, <1>5, <1>6, <1>7, <1>8, Zenon DEF JudgingNext

LEMMA KeptAccept == JudgingInv => KeptCasesAccept
<1> SUFFICES ASSUME JudgingInv PROVE KeptCasesAccept
  OBVIOUS
<1>1. DOMAIN results = 1..Len(results)
  BY DEF JudgingInv
<1> QED
  BY <1>1, Zenon DEF JudgingInv, ResultOf, KeptCasesAccept

(***************************************************************************)
(* What the factory drafts and the judge captures is sound: every input    *)
(* that reaches the solutions fits the input spec, and a submission is     *)
(* accepted on the cases the generation lane kept exactly when it should   *)
(* be, whatever the programs print and wherever the output is cut.         *)
(***************************************************************************)
THEOREM FactoryIsSound == SceneSpec => []FactoryCasesAreSound
<1> DEFINE Inv == DraftingInv /\ JudgingInv
<1>1. SceneInit => Inv
  BY DraftingStart, JudgingStart DEF SceneInit
<1>2. Inv /\ [SceneNext]_<<part, otherVars, consoleVars>> => Inv'
  <2>1. DraftingInv /\ [SceneNext]_<<part, otherVars, consoleVars>> => DraftingInv'
    BY DraftingStep DEF SceneNext, otherVars
  <2>2. JudgingInv /\ [SceneNext]_<<part, otherVars, consoleVars>> => JudgingInv'
    BY JudgingStep DEF SceneNext, otherVars
  <2> QED
    BY <2>1, <2>2
<1>3. Inv => FactoryCasesAreSound
  BY InputsFit, KeptAccept DEF FactoryCasesAreSound
<1> QED
  BY <1>1, <1>2, <1>3, PTL DEF SceneSpec

-----------------------------------------------------------------------------
(* Scoring. *)

\* induction downward is by the smallest counterexample
LEMMA Smallest ==
  ASSUME NEW S \in SUBSET Nat, S # {} PROVE \E x \in S : \A y \in S : x <= y
<1>1. PICK x \in S : \A y \in S : <<y, x>> \notin OpToRel(<, Nat)
  BY NatLessThanWellFounded, WFMin
<1>2. \A y \in S : ~(y < x)
  BY <1>1 DEF OpToRel
<1> QED
  BY <1>2

LEMMA Largest ==
  ASSUME NEW n \in Nat, NEW S \in SUBSET (0..n), S # {}
  PROVE  Max(S) \in S /\ \A x \in S : x <= Max(S)
<1> DEFINE D == {d \in 0..n : n - d \in S}
<1>0. D \in SUBSET Nat
  OBVIOUS
<1>1. D # {}
  <2>1. PICK x \in S : TRUE
    OBVIOUS
  <2>2. n - x \in D
    <3>1. n - x \in 0..n /\ n - (n - x) = x
      OBVIOUS
    <3> QED
      BY <3>1
  <2> HIDE DEF D
  <2> QED
    BY <2>2
<1>2. PICK d \in D : \A e \in D : d <= e
  <2> HIDE DEF D
  <2> QED
    BY <1>0, <1>1, Smallest
<1>3. n - d \in S
  OBVIOUS
<1>4. ASSUME NEW x \in S PROVE x <= n - d
  <2>1. n - x \in 0..n /\ n - (n - x) = x
    OBVIOUS
  <2>2. d <= n - x
    BY <1>2, <2>1
  <2> QED
    BY <2>2
<1>5. \E x \in S : \A y \in S : x >= y
  BY <1>3, <1>4
<1>6. Max(S) \in S /\ \A y \in S : Max(S) >= y
  BY <1>5 DEF Max
<1> QED
  BY <1>6

LEMMA MaxOfTwo ==
  ASSUME NEW a \in Nat, NEW b \in Nat
  PROVE  Max({a, b}) = IF a >= b THEN a ELSE b
<1>1. CASE a >= b
  <2>1. \E x \in {a, b} : \A y \in {a, b} : x >= y
    BY <1>1
  <2>2. Max({a, b}) \in {a, b} /\ \A y \in {a, b} : Max({a, b}) >= y
    BY <2>1 DEF Max
  <2> QED
    BY <2>2, <1>1
<1>2. CASE ~(a >= b)
  <2>1. \E x \in {a, b} : \A y \in {a, b} : x >= y
    BY <1>2
  <2>2. Max({a, b}) \in {a, b} /\ \A y \in {a, b} : Max({a, b}) >= y
    BY <2>1 DEF Max
  <2> QED
    BY <2>2, <1>2
<1> QED
  BY <1>1, <1>2

\* the scan of a text, as the recursive function it is
ScanStep(tokens, f) ==
  f = [n \in 0..Len(tokens) |->
         IF n = 0 THEN [stack |-> <<>>, next |-> "block", best |-> 0]
         ELSE Scanned(f[n - 1], tokens[n])]

Upto(tokens, k, f) ==
  /\ f[0] = [stack |-> <<>>, next |-> "block", best |-> 0]
  /\ \A n \in 1..k : f[n] = Scanned(f[n - 1], tokens[n])

LEMMA ScanExists ==
  ASSUME NEW tokens, Len(tokens) \in Nat
  PROVE  ScanStep(tokens, Scan(tokens))
<1> DEFINE Bad == {k \in 0..Len(tokens) : ~\E f : Upto(tokens, k, f)}
<1>1. Bad = {}
  <2> SUFFICES ASSUME Bad # {} PROVE FALSE
    OBVIOUS
  <2>1. PICK k \in Bad : \A m \in Bad : k <= m
    <3>1. Bad \in SUBSET Nat
      OBVIOUS
    <3> HIDE DEF Bad
    <3> QED
      BY <3>1, Smallest
  <2>2. k \in 0..Len(tokens) /\ ~\E f : Upto(tokens, k, f)
    OBVIOUS
  <2>3. CASE k = 0
    <3> DEFINE f == [n \in {0} |-> [stack |-> <<>>, next |-> "block", best |-> 0]]
    <3>1. Upto(tokens, 0, f)
      BY DEF Upto
    <3> QED
      BY <2>2, <2>3, <3>1
  <2>4. CASE k # 0
    <3>1. k - 1 \in 0..Len(tokens) /\ ~(k <= k - 1)
      BY <2>2, <2>4
    <3>2. PICK f : Upto(tokens, k - 1, f)
      BY <2>1, <3>1
    <3> DEFINE g == [n \in 0..k |-> IF n = k THEN Scanned(f[k - 1], tokens[k]) ELSE f[n]]
    <3>3. /\ g[0] = f[0] /\ g[k] = Scanned(f[k - 1], tokens[k])
          /\ \A n \in 0..(k - 1) : g[n] = f[n]
      BY <2>2, <2>4
    <3> HIDE DEF g
    <3>4. ASSUME NEW n \in 1..k PROVE g[n] = Scanned(g[n - 1], tokens[n])
      <4>1. n - 1 \in 0..(k - 1) /\ k \in Nat
        BY <2>2
      <4>2. CASE n = k
        BY <3>3, <4>1, <4>2
      <4>3. CASE n # k
        <5>1. n \in 1..(k - 1) /\ n \in 0..(k - 1)
          BY <4>1, <4>3
        <5> QED
          BY <3>2, <3>3, <4>1, <5>1 DEF Upto
      <4> QED
        BY <4>2, <4>3
    <3>5. Upto(tokens, k, g)
      BY <3>2, <3>3, <3>4 DEF Upto
    <3> QED
      BY <2>2, <3>5
  <2> QED
    BY <2>3, <2>4
<1>2. PICK f : Upto(tokens, Len(tokens), f)
  BY <1>1
<1> DEFINE g == [n \in 0..Len(tokens) |-> f[n]]
<1>3. /\ g[0] = f[0] /\ \A n \in 0..Len(tokens) : g[n] = f[n]
  OBVIOUS
<1>4. ASSUME NEW n \in 0..Len(tokens), n # 0 PROVE g[n] = Scanned(g[n - 1], tokens[n])
  <2>1. n \in 1..Len(tokens) /\ n - 1 \in 0..Len(tokens)
    BY <1>4
  <2>2. f[n] = Scanned(f[n - 1], tokens[n])
    BY <2>1, <1>2 DEF Upto
  <2> HIDE DEF g
  <2> QED
    BY <2>1, <2>2, <1>3
<1>5. g[0] = [stack |-> <<>>, next |-> "block", best |-> 0]
  BY <1>2, <1>3 DEF Upto
<1>6. ScanStep(tokens, g)
  <2>1. g = [n \in 0..Len(tokens) |-> g[n]]
    OBVIOUS
  <2>2. \A n \in 0..Len(tokens) :
          g[n] = IF n = 0 THEN [stack |-> <<>>, next |-> "block", best |-> 0]
                 ELSE Scanned(g[n - 1], tokens[n])
    <3> HIDE DEF g
    <3> QED
      BY <1>4, <1>5
  <2> HIDE DEF g
  <2> QED
    BY <2>1, <2>2, Zenon DEF ScanStep
<1>7. Scan(tokens) = CHOOSE h : ScanStep(tokens, h)
  BY Zenon DEF Scan, ScanStep
<1> QED
  BY <1>6, <1>7, Zenon

\* one tok more is one step more
LEMMA ScanOfMore ==
  ASSUME NEW T, NEW tokens \in Seq(T), NEW x \in T
  PROVE  /\ Scan(<<>>)[0] = [stack |-> <<>>, next |-> "block", best |-> 0]
         /\ Scan(Append(tokens, x))[Len(tokens) + 1] = Scanned(Scan(tokens)[Len(tokens)], x)
<1>0. Len(<<>>) = 0 /\ Len(tokens) \in Nat
  OBVIOUS
<1>1. PICK f : f = Scan(tokens)
  OBVIOUS
<1>2. PICK g : g = Scan(Append(tokens, x))
  OBVIOUS
<1>3. PICK n \in Nat : n = Len(tokens)
  BY <1>0
<1>4. /\ Len(Append(tokens, x)) = n + 1 /\ Append(tokens, x)[n + 1] = x
      /\ \A i \in 1..n : Append(tokens, x)[i] = tokens[i]
  BY <1>3
<1>5. /\ f[0] = [stack |-> <<>>, next |-> "block", best |-> 0]
      /\ \A i \in 1..n : f[i] = Scanned(f[i - 1], tokens[i])
  <2>1. ScanStep(tokens, f)
    BY <1>0, <1>1, ScanExists
  <2> QED
    BY <2>1, <1>3 DEF ScanStep
<1>6. /\ g[0] = [stack |-> <<>>, next |-> "block", best |-> 0]
      /\ \A i \in 1..(n + 1) : g[i] = Scanned(g[i - 1], Append(tokens, x)[i])
  <2>1. Len(Append(tokens, x)) \in Nat
    BY <1>4
  <2>2. ScanStep(Append(tokens, x), g)
    BY <2>1, <1>2, ScanExists
  <2> QED
    BY <2>2, <1>4 DEF ScanStep
<1> DEFINE Bad == {i \in 0..n : g[i] # f[i]}
<1>7. Bad = {}
  <2> SUFFICES ASSUME Bad # {} PROVE FALSE
    OBVIOUS
  <2>1. PICK k \in Bad : \A m \in Bad : k <= m
    <3>1. Bad \in SUBSET Nat
      OBVIOUS
    <3> HIDE DEF Bad
    <3> QED
      BY <3>1, Smallest
  <2>2. k \in 0..n /\ g[k] # f[k]
    OBVIOUS
  <2>3. k # 0
    BY <2>2, <1>5, <1>6
  <2>4. k - 1 \in 0..n /\ ~(k <= k - 1) /\ k \in 1..n /\ k \in 1..(n + 1)
    BY <2>2, <2>3
  <2>5. g[k - 1] = f[k - 1]
    BY <2>1, <2>4
  <2> QED
    BY <2>2, <2>4, <2>5, <1>4, <1>5, <1>6
<1>8. g[n] = f[n]
  BY <1>7
<1>9. g[n + 1] = Scanned(g[n], x)
  <2>1. n + 1 \in 1..(n + 1) /\ (n + 1) - 1 = n
    OBVIOUS
  <2> QED
    BY <2>1, <1>4, <1>6
<1>10. Scan(<<>>)[0] = [stack |-> <<>>, next |-> "block", best |-> 0]
  <2>1. ScanStep(<<>>, Scan(<<>>))
    BY <1>0, ScanExists
  <2> QED
    BY <2>1, <1>0 DEF ScanStep
<1> QED
  BY <1>1, <1>2, <1>3, <1>8, <1>9, <1>10

(***************************************************************************)
(* Loops, and blocks of a do, among the open ones but the innermost k.     *)
(***************************************************************************)
Beneath(bs, k) == Cardinality({i \in 1..(Len(bs) - k) : bs[i] # "block"})
Inner(bs, k)   == Cardinality({i \in 1..Len(bs) : i > Len(bs) - k /\ bs[i] = "do"})

LEMMA UptoIsFinite ==
  ASSUME NEW n \in Nat, NEW S \in SUBSET (1..n)
  PROVE  IsFiniteSet(S) /\ Cardinality(S) \in Nat /\ Cardinality(S) <= n
<1>1. IsFiniteSet(1..n)
  BY FS_Interval
<1>2. IsFiniteSet(S) /\ Cardinality(S) \in Nat /\ Cardinality(S) <= Cardinality(1..n)
  BY <1>1, FS_Subset, FS_CardinalityType
<1>3. Cardinality(1..n) = n
  BY FS_Interval
<1> QED
  BY <1>2, <1>3

LEMMA BeneathIs ==
  ASSUME NEW T, NEW bs \in Seq(T), NEW k \in Nat
  PROVE  /\ Beneath(bs, k) \in Nat /\ Beneath(bs, k) <= Len(bs)
         /\ Beneath(bs, 0) = Nesting(bs)
         /\ Beneath(bs, k + 1) \in {Beneath(bs, k), Beneath(bs, k) - 1}
<1> DEFINE S(j) == {i \in 1..(Len(bs) - j) : bs[i] # "block"}
<1>1. Len(bs) \in Nat /\ DOMAIN bs = 1..Len(bs)
  OBVIOUS
<1>2. /\ S(k) \in SUBSET (1..Len(bs)) /\ S(k + 1) \in SUBSET (1..Len(bs))
      /\ IsFiniteSet(S(k + 1))
  <2>1. S(k) \in SUBSET (1..Len(bs)) /\ S(k + 1) \in SUBSET (1..Len(bs))
    BY <1>1
  <2> HIDE DEF S
  <2> QED
    BY <2>1, <1>1, UptoIsFinite, Zenon
<1>3. Beneath(bs, k) \in Nat /\ Beneath(bs, k) <= Len(bs)
  <2>1. Beneath(bs, k) = Cardinality(S(k))
    BY DEF Beneath
  <2> HIDE DEF S
  <2> QED
    BY <2>1, <1>1, <1>2, UptoIsFinite, Zenon
<1>4. Beneath(bs, 0) = Nesting(bs)
  <2>1. {i \in 1..(Len(bs) - 0) : bs[i] # "block"} = {i \in DOMAIN bs : bs[i] # "block"}
    BY <1>1
  <2> QED
    BY <2>1, Zenon DEF Beneath, Nesting
<1>5. Beneath(bs, k + 1) \in {Beneath(bs, k), Beneath(bs, k) - 1}
  <2>1. Beneath(bs, k) = Cardinality(S(k)) /\ Beneath(bs, k + 1) = Cardinality(S(k + 1))
    BY DEF Beneath
  <2>2. CASE Len(bs) - k \in 1..Len(bs) /\ bs[Len(bs) - k] # "block"
    <3>1. S(k) = S(k + 1) \cup {Len(bs) - k} /\ Len(bs) - k \notin S(k + 1)
      BY <1>1, <2>2
    <3> HIDE DEF S
    <3>2. Cardinality(S(k)) = Cardinality(S(k + 1)) + 1
      BY <3>1, <1>2, FS_AddElement
    <3>3. Cardinality(S(k + 1)) \in Nat
      BY <1>2, FS_CardinalityType
    <3> QED
      BY <2>1, <3>2, <3>3
  <2>3. CASE ~(Len(bs) - k \in 1..Len(bs) /\ bs[Len(bs) - k] # "block")
    <3>1. S(k) = S(k + 1)
      BY <1>1, <2>3
    <3> HIDE DEF S
    <3> QED
      BY <2>1, <3>1
  <2> QED
    BY <2>2, <2>3
<1> QED
  BY <1>3, <1>4, <1>5

LEMMA InnerIs ==
  ASSUME NEW T, NEW bs \in Seq(T), NEW k \in Nat
  PROVE  Inner(bs, k) \in Nat /\ Inner(bs, 0) = 0
<1> DEFINE S == {i \in 1..Len(bs) : i > Len(bs) - k /\ bs[i] = "do"}
<1>1. Len(bs) \in Nat /\ S \in SUBSET (1..Len(bs)) /\ Inner(bs, k) = Cardinality(S)
  BY DEF Inner
<1> HIDE DEF S
<1>2. Inner(bs, k) \in Nat
  BY <1>1, UptoIsFinite, Zenon
<1>3. {i \in 1..Len(bs) : i > Len(bs) - 0 /\ bs[i] = "do"} = {}
  BY <1>1
<1>4. Inner(bs, 0) = Cardinality({})
  BY <1>3, Zenon DEF Inner
<1> QED
  BY <1>2, <1>4, FS_EmptySet

\* a brace opens
LEMMA Pushed ==
  ASSUME NEW T, NEW bs \in Seq(T), NEW x \in T, NEW k \in Nat
  PROVE  /\ Beneath(Append(bs, x), 0) = Beneath(bs, 0) + (IF x # "block" THEN 1 ELSE 0)
         /\ Beneath(Append(bs, x), k + 1) = Beneath(bs, k)
         /\ Inner(Append(bs, x), k + 1) = Inner(bs, k) + (IF x = "do" THEN 1 ELSE 0)
<1>1. PICK n \in Nat : n = Len(bs)
  OBVIOUS
<1>2. PICK more \in Seq(T) : more = Append(bs, x)
  <2>1. Append(bs, x) \in Seq(T)
    OBVIOUS
  <2> QED
    BY <2>1
<1>3. /\ Len(more) = n + 1 /\ more[n + 1] = x
      /\ \A i \in 1..n : more[i] = bs[i]
  BY <1>1, <1>2
<1>4. Beneath(more, k + 1) = Beneath(bs, k)
  <2>1. {i \in 1..(Len(more) - (k + 1)) : more[i] # "block"}
          = {i \in 1..(Len(bs) - k) : bs[i] # "block"}
    BY <1>1, <1>3
  <2> QED
    BY <2>1, Zenon DEF Beneath
<1>5. Beneath(more, 0) = Beneath(bs, 0) + (IF x # "block" THEN 1 ELSE 0)
  <2> DEFINE S == {i \in 1..(Len(bs) - 0) : bs[i] # "block"}
             R == {i \in 1..(Len(more) - 0) : more[i] # "block"}
  <2>1. S \in SUBSET (1..n) /\ Beneath(bs, 0) = Cardinality(S) /\ Beneath(more, 0) = Cardinality(R)
    BY <1>1 DEF Beneath
  <2>2. x # "block" => R = S \cup {n + 1} /\ n + 1 \notin S
    BY <1>1, <1>3
  <2>3. x = "block" => R = S
    BY <1>1, <1>3
  <2> HIDE DEF S, R
  <2>4. IsFiniteSet(S) /\ Cardinality(S) \in Nat
    BY <2>1, UptoIsFinite, Zenon
  <2>5. x # "block" => Cardinality(R) = Cardinality(S) + 1
    BY <2>2, <2>4, FS_AddElement
  <2> QED
    BY <2>1, <2>3, <2>4, <2>5
<1>6. Inner(more, k + 1) = Inner(bs, k) + (IF x = "do" THEN 1 ELSE 0)
  <2> DEFINE S == {i \in 1..Len(bs) : i > Len(bs) - k /\ bs[i] = "do"}
             R == {i \in 1..Len(more) : i > Len(more) - (k + 1) /\ more[i] = "do"}
  <2>1. S \in SUBSET (1..n) /\ Inner(bs, k) = Cardinality(S) /\ Inner(more, k + 1) = Cardinality(R)
    BY <1>1 DEF Inner
  <2>2. x = "do" => R = S \cup {n + 1} /\ n + 1 \notin S
    BY <1>1, <1>3
  <2>3. x # "do" => R = S
    BY <1>1, <1>3
  <2> HIDE DEF S, R
  <2>4. IsFiniteSet(S) /\ Cardinality(S) \in Nat
    BY <2>1, UptoIsFinite, Zenon
  <2>5. x = "do" => Cardinality(R) = Cardinality(S) + 1
    BY <2>2, <2>4, FS_AddElement
  <2> QED
    BY <2>1, <2>3, <2>4, <2>5
<1> QED
  BY <1>2, <1>4, <1>5, <1>6

\* the innermost one closes
LEMMA Popped ==
  ASSUME NEW T, NEW bs \in Seq(T), bs # <<>>, NEW k \in Nat
  PROVE  /\ Front(bs) \in Seq(T) /\ Last(bs) \in T /\ Len(Front(bs)) = Len(bs) - 1
         /\ Beneath(Front(bs), k) = Beneath(bs, k + 1)
         /\ Inner(bs, k + 1) = Inner(Front(bs), k) + (IF Last(bs) = "do" THEN 1 ELSE 0)
<1>0. Len(bs) \in Nat /\ Len(bs) # 0 /\ Len(bs) - 1 \in 0..Len(bs)
  <2>1. Len(bs) \in Nat /\ Len(bs) # 0
    OBVIOUS
  <2> QED
    BY <2>1
<1>1. PICK less \in Seq(T) : less = Front(bs)
  <2>1. SubSeq(bs, 1, Len(bs) - 1) \in Seq(T)
    BY <1>0, SubSeqProperties
  <2> QED
    BY <2>1, Zenon DEF Front
<1>2. PICK x \in T : x = Last(bs)
  <2>1. bs[Len(bs)] \in T
    BY <1>0
  <2> QED
    BY <2>1, Zenon DEF Last
<1>3. PICK n \in Nat : Len(bs) = n + 1
  <2>1. Len(bs) \in Nat /\ Len(bs) # 0
    OBVIOUS
  <2>2. Len(bs) - 1 \in Nat /\ Len(bs) = (Len(bs) - 1) + 1
    BY <2>1
  <2> QED
    BY <2>2
<1>4. Len(less) = n /\ bs[n + 1] = x /\ \A i \in 1..n : less[i] = bs[i]
  BY <1>1, <1>2, <1>3 DEF Front, Last
<1>5. bs = Append(less, x)
  BY <1>3, <1>4
<1>6. /\ Beneath(bs, k + 1) = Beneath(less, k)
      /\ Inner(bs, k + 1) = Inner(less, k) + (IF x = "do" THEN 1 ELSE 0)
  BY <1>5, Pushed
<1> QED
  BY <1>1, <1>2, <1>3, <1>4, <1>6

Kinds == {"loop", "block", "do"}
Marks == {"loop", "block"}
Owed(next) == IF next = "loop" THEN 1 ELSE 0

(***************************************************************************)
(* At every level the loops the program has open and those the scan counts *)
(* differ by no more than the keywords and braces that mislead it, less    *)
(* the keyword it still has to spend and the blocks of a do, whose "while" *)
(* is to come.  Levels are counted from the inside, where blocks open and  *)
(* close.                                                                  *)
(***************************************************************************)
LevelAgrees(bs, st, next, l, k) ==
  /\ Beneath(bs, k) - Beneath(st, k) + Owed(next) + Inner(bs, k) <= l
  /\ Beneath(st, k) - Beneath(bs, k) + Owed(next) + Inner(bs, k) <= l

LevelsAgree(bs, st, next, l) == \A k \in Nat : LevelAgrees(bs, st, next, l, k)

\* the stack after a closing brace
Shut(st) == IF st = <<>> THEN st ELSE Front(st)

LEMMA ShutIs ==
  ASSUME NEW st \in Seq(Marks), NEW k \in Nat
  PROVE  Shut(st) \in Seq(Marks) /\ Beneath(Shut(st), k) = Beneath(st, k + 1)
<1>1. CASE st = <<>>
  <2>1. \A j \in Nat : Beneath(st, j) = 0
    <3> SUFFICES ASSUME NEW j \in Nat PROVE Beneath(st, j) = 0
      OBVIOUS
    <3>1. Len(st) = 0
      BY <1>1
    <3>2. Beneath(st, j) \in Nat /\ Beneath(st, j) <= Len(st)
      BY BeneathIs
    <3> QED
      BY <3>1, <3>2
  <2> QED
    BY <1>1, <2>1 DEF Shut
<1>2. CASE st # <<>>
  BY <1>2, Popped DEF Shut
<1> QED
  BY <1>1, <1>2

\* what is known of the numbers at one level
LEMMA Numbers ==
  ASSUME NEW bs \in Seq(Kinds), NEW st \in Seq(Marks), NEW next \in Marks, NEW k \in Nat
  PROVE  /\ Beneath(bs, k) \in Nat /\ Beneath(st, k) \in Nat
         /\ Inner(bs, k) \in Nat /\ Inner(bs, 0) = 0
         /\ Owed(next) \in {0, 1} /\ Owed("block") = 0 /\ Owed("loop") = 1
         /\ Owed(next) = IF next = "loop" THEN 1 ELSE 0
         /\ Beneath(st, k + 1) \in {Beneath(st, k), Beneath(st, k) - 1}
<1>1. Owed(next) \in {0, 1} /\ Owed("block") = 0 /\ Owed("loop") = 1
        /\ Owed(next) = IF next = "loop" THEN 1 ELSE 0
  BY DEF Owed
<1>2. /\ Beneath(bs, k) \in Nat /\ Inner(bs, k) \in Nat /\ Inner(bs, 0) = 0
  BY BeneathIs, InnerIs
<1>3. Beneath(st, k) \in Nat /\ Beneath(st, k + 1) \in {Beneath(st, k), Beneath(st, k) - 1}
  BY BeneathIs
<1> QED
  BY <1>1, <1>2, <1>3, Zenon

LEMMA LevelsOpen ==
  ASSUME NEW bs \in Seq(Kinds), NEW st \in Seq(Marks), NEW next \in Marks, NEW l \in Nat,
         LevelsAgree(bs, st, next, l), NEW kind \in Kinds, NEW mark \in Marks, NEW strays \in {0, 1},
         kind = "loop" => mark = "loop", kind # "loop" => mark = next, kind = "do" => strays = 1
  PROVE  LevelsAgree(Append(bs, kind), Append(st, mark), "block", l + strays)
<1> SUFFICES ASSUME NEW k \in Nat
             PROVE  LevelAgrees(Append(bs, kind), Append(st, mark), "block", l + strays, k)
  BY DEF LevelsAgree
<1>1. CASE k = 0
  <2>1. LevelAgrees(bs, st, next, l, 0)
    BY DEF LevelsAgree
  <2>2. /\ Beneath(Append(bs, kind), 0) = Beneath(bs, 0) + (IF kind # "block" THEN 1 ELSE 0)
        /\ Beneath(Append(st, mark), 0) = Beneath(st, 0) + (IF mark # "block" THEN 1 ELSE 0)
    BY Pushed
  <2>3. Inner(Append(bs, kind), 0) = 0
    <3>1. Append(bs, kind) \in Seq(Kinds)
      OBVIOUS
    <3> QED
      BY <3>1, InnerIs
  <2>4. /\ Beneath(bs, 0) \in Nat /\ Beneath(st, 0) \in Nat /\ Inner(bs, 0) = 0
        /\ Owed(next) = (IF next = "loop" THEN 1 ELSE 0) /\ Owed("block") = 0
    BY Numbers
  <2>5. /\ (kind # "block") = (kind \in {"loop", "do"}) /\ (mark # "block") = (mark = "loop")
        /\ kind \in {"loop", "block", "do"} /\ next \in {"loop", "block"}
    BY DEF Kinds, Marks
  <2>6. /\ Beneath(bs, 0) - Beneath(st, 0) + Owed(next) + Inner(bs, 0) <= l
        /\ Beneath(st, 0) - Beneath(bs, 0) + Owed(next) + Inner(bs, 0) <= l
    BY <2>1, Zenon DEF LevelAgrees
  <2>7. /\ Beneath(Append(bs, kind), 0) - Beneath(Append(st, mark), 0) <= l + strays
        /\ Beneath(Append(st, mark), 0) - Beneath(Append(bs, kind), 0) <= l + strays
    BY <2>2, <2>4, <2>5, <2>6
  <2>8. /\ Beneath(Append(bs, kind), 0) \in Int /\ Beneath(Append(st, mark), 0) \in Int
    BY <2>2, <2>4
  <2> QED
    BY <1>1, <2>3, <2>4, <2>7, <2>8 DEF LevelAgrees
<1>2. CASE k # 0
  <2>1. PICK j \in Nat : k = j + 1
    <3>1. k - 1 \in Nat /\ k = (k - 1) + 1
      BY <1>2
    <3> QED
      BY <3>1
  <2>2. LevelAgrees(bs, st, next, l, j)
    BY DEF LevelsAgree
  <2>3. /\ Beneath(Append(bs, kind), j + 1) = Beneath(bs, j)
        /\ Beneath(Append(st, mark), j + 1) = Beneath(st, j)
        /\ Inner(Append(bs, kind), j + 1) = Inner(bs, j) + (IF kind = "do" THEN 1 ELSE 0)
    <3>1. Beneath(Append(bs, kind), j + 1) = Beneath(bs, j)
      BY Pushed
    <3>2. Inner(Append(bs, kind), j + 1) = Inner(bs, j) + (IF kind = "do" THEN 1 ELSE 0)
      BY Pushed
    <3>3. Beneath(Append(st, mark), j + 1) = Beneath(st, j)
      BY Pushed
    <3> QED
      BY <3>1, <3>2, <3>3, Zenon
  <2>4. /\ Beneath(bs, j) \in Nat /\ Beneath(st, j) \in Nat /\ Inner(bs, j) \in Nat
        /\ Owed(next) \in {0, 1} /\ Owed("block") = 0
    BY Numbers
  <2>5. PICK a \in Nat, b \in Nat, i \in Nat, o \in {0, 1}, e \in {0, 1} :
           /\ a = Beneath(bs, j) /\ b = Beneath(st, j) /\ i = Inner(bs, j) /\ o = Owed(next)
           /\ e = (IF kind = "do" THEN 1 ELSE 0)
    BY <2>4
  <2>6. a - b + o + i <= l /\ b - a + o + i <= l
    BY <2>2, <2>5, Zenon DEF LevelAgrees
  <2>7. e <= strays
    BY <2>5
  <2>8. a - b + 0 + (i + e) <= l + strays /\ b - a + 0 + (i + e) <= l + strays
    BY <2>6, <2>7
  <2>9. /\ Beneath(Append(bs, kind), k) = a /\ Beneath(Append(st, mark), k) = b
        /\ Inner(Append(bs, kind), k) = i + e /\ Owed("block") = 0
    BY <2>1, <2>3, <2>4, <2>5, Zenon
  <2> QED
    BY <2>8, <2>9, Zenon DEF LevelAgrees
<1> QED
  BY <1>1, <1>2

LEMMA LevelsClose ==
  ASSUME NEW bs \in Seq(Kinds), bs # <<>>, NEW st \in Seq(Marks), NEW next \in Marks, NEW l \in Nat,
         LevelsAgree(bs, st, next, l)
  PROVE  LevelsAgree(Front(bs), Shut(st), IF Last(bs) = "do" THEN "loop" ELSE next, l)
<1> SUFFICES ASSUME NEW k \in Nat
             PROVE  LevelAgrees(Front(bs), Shut(st), IF Last(bs) = "do" THEN "loop" ELSE next, l, k)
  BY DEF LevelsAgree
<1>1. LevelAgrees(bs, st, next, l, k + 1)
  BY DEF LevelsAgree
<1>2. /\ Beneath(Front(bs), k) = Beneath(bs, k + 1) /\ Beneath(Shut(st), k) = Beneath(st, k + 1)
      /\ Inner(bs, k + 1) = Inner(Front(bs), k) + (IF Last(bs) = "do" THEN 1 ELSE 0)
      /\ Front(bs) \in Seq(Kinds)
  BY Popped, ShutIs
<1>3. /\ Beneath(bs, k + 1) \in Nat /\ Beneath(st, k + 1) \in Nat /\ Inner(Front(bs), k) \in Nat
      /\ Owed(next) \in {0, 1} /\ Owed("loop") = 1
  <2>1. k + 1 \in Nat
    OBVIOUS
  <2>2. Beneath(bs, k + 1) \in Nat /\ Beneath(st, k + 1) \in Nat
    BY <2>1, BeneathIs, Zenon
  <2>3. Inner(Front(bs), k) \in Nat
    BY <1>2, InnerIs, Zenon
  <2>4. Owed(next) \in {0, 1} /\ Owed("loop") = 1
    BY DEF Owed
  <2> QED
    BY <2>2, <2>3, <2>4
<1>4. PICK spent \in {0, 1}, late \in {0, 1} :
         /\ spent = Owed(next) /\ late = (IF Last(bs) = "do" THEN 1 ELSE 0)
  BY <1>3
<1>5. PICK owed \in {0, 1} : owed = Owed(IF Last(bs) = "do" THEN "loop" ELSE next)
                           /\ owed <= spent + late
  BY <1>3, <1>4
<1>6. /\ Beneath(Front(bs), k) - Beneath(Shut(st), k) + spent + (Inner(Front(bs), k) + late) <= l
      /\ Beneath(Shut(st), k) - Beneath(Front(bs), k) + spent + (Inner(Front(bs), k) + late) <= l
  BY <1>1, <1>2, <1>4 DEF LevelAgrees
<1>7. Beneath(Front(bs), k) \in Nat /\ Beneath(Shut(st), k) \in Nat /\ Inner(Front(bs), k) \in Nat
  BY <1>2, <1>3
<1>8. /\ Beneath(Front(bs), k) - Beneath(Shut(st), k) + owed + Inner(Front(bs), k) <= l
      /\ Beneath(Shut(st), k) - Beneath(Front(bs), k) + owed + Inner(Front(bs), k) <= l
  <2>1. owed <= spent + late /\ owed \in Int /\ spent \in Int /\ late \in Int
    BY <1>5
  <2>2. PICK a \in Nat, b \in Nat, i \in Nat :
          a = Beneath(Front(bs), k) /\ b = Beneath(Shut(st), k) /\ i = Inner(Front(bs), k)
    BY <1>7
  <2>3. a - b + spent + (i + late) <= l /\ b - a + spent + (i + late) <= l
    BY <1>6, <2>2, Zenon
  <2>4. a - b + owed + i <= l /\ b - a + owed + i <= l
    BY <2>1, <2>3
  <2> QED
    BY <2>2, <2>4, Zenon
<1> QED
  BY <1>5, <1>8 DEF LevelAgrees

\* a keyword, an opening and a closing brace that mean nothing
LEMMA LevelsMislead ==
  ASSUME NEW bs \in Seq(Kinds), NEW st \in Seq(Marks), NEW next \in Marks, NEW l \in Nat,
         LevelsAgree(bs, st, next, l)
  PROVE  /\ LevelsAgree(bs, st, "loop", l + 1)
         /\ LevelsAgree(bs, Append(st, next), "block", l + 1)
         /\ LevelsAgree(bs, Shut(st), next, l + 1)
<1>1. LevelsAgree(bs, st, "loop", l + 1)
  <2> SUFFICES ASSUME NEW k \in Nat PROVE LevelAgrees(bs, st, "loop", l + 1, k)
    BY DEF LevelsAgree
  <2>1. LevelAgrees(bs, st, next, l, k)
    BY DEF LevelsAgree
  <2>2. /\ Beneath(bs, k) \in Nat /\ Beneath(st, k) \in Nat /\ Inner(bs, k) \in Nat
        /\ Owed(next) \in {0, 1} /\ Owed("loop") = 1
    BY Numbers
  <2> QED
    BY <2>1, <2>2 DEF LevelAgrees
<1>2. LevelsAgree(bs, Shut(st), next, l + 1)
  <2> SUFFICES ASSUME NEW k \in Nat PROVE LevelAgrees(bs, Shut(st), next, l + 1, k)
    BY DEF LevelsAgree
  <2>1. LevelAgrees(bs, st, next, l, k)
    BY DEF LevelsAgree
  <2>2. Beneath(Shut(st), k) = Beneath(st, k + 1)
    BY ShutIs
  <2>3. /\ Beneath(bs, k) \in Nat /\ Beneath(st, k) \in Nat /\ Inner(bs, k) \in Nat
        /\ Owed(next) \in {0, 1}
        /\ Beneath(st, k + 1) \in {Beneath(st, k), Beneath(st, k) - 1}
    BY Numbers
  <2>4. /\ Beneath(bs, k) - Beneath(st, k) + Owed(next) + Inner(bs, k) <= l
        /\ Beneath(st, k) - Beneath(bs, k) + Owed(next) + Inner(bs, k) <= l
    BY <2>1, Zenon DEF LevelAgrees
  <2>5. /\ Beneath(bs, k) - Beneath(Shut(st), k) + Owed(next) + Inner(bs, k) <= l + 1
        /\ Beneath(Shut(st), k) - Beneath(bs, k) + Owed(next) + Inner(bs, k) <= l + 1
    <3>1. PICK a \in Nat, b \in Nat, i \in Nat, o \in {0, 1}, c \in Int :
             /\ a = Beneath(bs, k) /\ b = Beneath(st, k) /\ i = Inner(bs, k) /\ o = Owed(next)
             /\ c = Beneath(Shut(st), k) /\ (c = b \/ c = b - 1)
      BY <2>2, <2>3
    <3>2. a - b + o + i <= l /\ b - a + o + i <= l
      BY <2>4, <3>1, Zenon
    <3>3. c = b \/ c = b - 1
      BY <3>1
    <3>4. a - c + o + i <= l + 1 /\ c - a + o + i <= l + 1
      BY <3>2, <3>3
    <3> QED
      BY <3>1, <3>4, Zenon
  <2> QED
    BY <2>5, Zenon DEF LevelAgrees
<1>3. LevelsAgree(bs, Append(st, next), "block", l + 1)
  <2> SUFFICES ASSUME NEW k \in Nat PROVE LevelAgrees(bs, Append(st, next), "block", l + 1, k)
    BY DEF LevelsAgree
  <2>1. LevelAgrees(bs, st, next, l, k)
    BY DEF LevelsAgree
  <2>2. CASE k = 0
    <3>1. Beneath(Append(st, next), 0) = Beneath(st, 0) + (IF next # "block" THEN 1 ELSE 0)
      BY Pushed
    <3>2. /\ Beneath(bs, 0) \in Nat /\ Beneath(st, 0) \in Nat /\ Inner(bs, 0) = 0
          /\ Owed(next) \in {0, 1} /\ Owed("block") = 0
      BY Numbers
    <3> QED
      BY <2>1, <2>2, <3>1, <3>2 DEF LevelAgrees
  <2>3. CASE k # 0
    <3>1. PICK j \in Nat : k = j + 1
      <4>1. k - 1 \in Nat /\ k = (k - 1) + 1
        BY <2>3
      <4> QED
        BY <4>1
    <3>2. Beneath(Append(st, next), k) = Beneath(st, j)
      BY <3>1, Pushed
    <3>3. Beneath(st, k) \in {Beneath(st, j), Beneath(st, j) - 1} /\ Beneath(st, j) \in Nat
      BY <3>1, Numbers
    <3>4. /\ Beneath(bs, k) \in Nat /\ Inner(bs, k) \in Nat
          /\ Owed(next) \in {0, 1} /\ Owed("block") = 0
      BY Numbers
    <3>5. PICK a \in Nat, b \in Nat, i \in Nat, o \in {0, 1}, c \in Nat :
             /\ a = Beneath(bs, k) /\ b = Beneath(st, k) /\ i = Inner(bs, k) /\ o = Owed(next)
             /\ c = Beneath(Append(st, next), k)
             /\ b = c \/ b = c - 1
      <4>1. Beneath(st, k) \in Nat
        BY Numbers
      <4>2. PICK c \in Nat : c = Beneath(st, j)
        BY <3>3
      <4>3. Beneath(st, k) = c \/ Beneath(st, k) = c - 1
        BY <3>3, <4>2
      <4> QED
        BY <3>2, <3>4, <4>1, <4>2, <4>3, Zenon
    <3>6. a - b + o + i <= l /\ b - a + o + i <= l
      BY <2>1, <3>5, Zenon DEF LevelAgrees
    <3>7. b = c \/ b = c - 1
      BY <3>5
    <3>8. a - c + 0 + i <= l + 1 /\ c - a + 0 + i <= l + 1
      BY <3>6, <3>7
    <3> QED
      BY <3>4, <3>5, <3>8, Zenon DEF LevelAgrees
  <2> QED
    BY <2>2, <2>3
<1> QED
  BY <1>1, <1>2, <1>3

Scannable == {"loop", "{", "}"}
ScanStates == [stack : Seq(Marks), next : Marks, best : Nat]

\* the scan of a text ends in this state
Scans(tokens, st) ==
  tokens \in Seq(Scannable) /\ st \in ScanStates /\ st = Scan(tokens)[Len(tokens)]

Fits(bs, d, l, st) ==
  /\ LevelsAgree(bs, st.stack, st.next, l)
  /\ st.best - d <= l /\ d - st.best <= l /\ Nesting(bs) <= d

LEMMA NestingIs ==
  ASSUME NEW T, NEW bs \in Seq(T)
  PROVE  Nesting(bs) \in Nat /\ Nesting(bs) <= Len(bs) /\ Nesting(bs) = Beneath(bs, 0)
BY BeneathIs

LEMMA ScannedIs ==
  ASSUME NEW st \in ScanStates
  PROVE  /\ Scanned(st, "loop") = [stack |-> st.stack, next |-> "loop", best |-> st.best]
         /\ Scanned(st, "{") = [stack |-> Append(st.stack, st.next), next |-> "block",
                                best |-> Max({st.best, Nesting(Append(st.stack, st.next))})]
         /\ Scanned(st, "}") = [stack |-> Shut(st.stack), next |-> st.next, best |-> st.best]
<1>1. PICK a \in Seq(Marks), x \in Marks, b \in Nat : st = [stack |-> a, next |-> x, best |-> b]
  BY DEF ScanStates
<1>2. st.stack = a /\ st.next = x /\ st.best = b
  BY <1>1
<1>3. Scanned(st, "loop") = [stack |-> a, next |-> "loop", best |-> b]
  BY <1>1 DEF Scanned
<1>4. Scanned(st, "{") = [stack |-> Append(a, x), next |-> "block",
                          best |-> Max({b, Nesting(Append(a, x))})]
  BY <1>2, Zenon DEF Scanned
<1>5. Scanned(st, "}") = [stack |-> Shut(a), next |-> x, best |-> b]
  <2>1. Scanned(st, "}") = IF st.stack = <<>> THEN st ELSE [st EXCEPT !.stack = Front(@)]
    BY DEF Scanned
  <2>2. [st EXCEPT !.stack = Front(@)] = [stack |-> Front(a), next |-> x, best |-> b]
    BY <1>1
  <2> QED
    BY <1>1, <1>2, <2>1, <2>2 DEF Shut
<1> QED
  BY <1>2, <1>3, <1>4, <1>5

LEMMA ScannedType ==
  ASSUME NEW st \in ScanStates, NEW tok \in Scannable
  PROVE  Scanned(st, tok) \in ScanStates
<1>1. st.stack \in Seq(Marks) /\ st.next \in Marks /\ st.best \in Nat /\ {"loop", "block"} \subseteq Marks
  BY DEF ScanStates, Marks
<1>2. Append(st.stack, st.next) \in Seq(Marks) /\ Shut(st.stack) \in Seq(Marks)
  BY <1>1, ShutIs
<1>3. Nesting(Append(st.stack, st.next)) \in Nat
  BY <1>2, NestingIs
<1>4. Max({st.best, Nesting(Append(st.stack, st.next))}) \in Nat
  BY <1>1, <1>3, MaxOfTwo
<1>5. /\ [stack |-> st.stack, next |-> "loop", best |-> st.best] \in ScanStates
      /\ [stack |-> Shut(st.stack), next |-> st.next, best |-> st.best] \in ScanStates
      /\ [stack |-> Append(st.stack, st.next), next |-> "block",
          best |-> Max({st.best, Nesting(Append(st.stack, st.next))})] \in ScanStates
  BY <1>1, <1>2, <1>4, Zenon DEF ScanStates
<1>6. tok \in {"loop", "{", "}"}
  BY DEF Scannable
<1> QED
  BY <1>5, <1>6, ScannedIs, Zenon

LEMMA OneMore ==
  ASSUME NEW tokens, NEW st, Scans(tokens, st), NEW x \in Scannable
  PROVE  Scans(Append(tokens, x), Scanned(st, x))
<1>1. tokens \in Seq(Scannable) /\ st \in ScanStates /\ st = Scan(tokens)[Len(tokens)]
  BY DEF Scans
<1>2. Append(tokens, x) \in Seq(Scannable) /\ Len(Append(tokens, x)) = Len(tokens) + 1
  BY <1>1
<1>3. Scan(Append(tokens, x))[Len(tokens) + 1] = Scanned(Scan(tokens)[Len(tokens)], x)
  BY <1>1, ScanOfMore
<1> QED
  BY <1>1, <1>2, <1>3, ScannedType DEF Scans

\* both counts follow when a block opens
LEMMA FitsOpen ==
  ASSUME NEW bs \in Seq(Kinds), NEW d \in Nat, NEW l \in Nat, NEW st \in ScanStates,
         Fits(bs, d, l, st), NEW kind \in Kinds, NEW strays \in {0, 1}, kind = "do" => strays = 1,
         NEW mark \in Marks, kind = "loop" => mark = "loop", kind # "loop" => mark = st.next,
         NEW after \in ScanStates,
         after = [stack |-> Append(st.stack, mark), next |-> "block",
                  best |-> Max({st.best, Nesting(Append(st.stack, mark))})]
  PROVE  Fits(Append(bs, kind), Max({d, Nesting(Append(bs, kind))}), l + strays, after)
<1>1. st.stack \in Seq(Marks) /\ st.next \in Marks /\ st.best \in Nat
  BY DEF ScanStates
<1>2. LevelsAgree(Append(bs, kind), Append(st.stack, mark), "block", l + strays)
  BY <1>1, LevelsOpen, Zenon DEF Fits
<1>3. Append(bs, kind) \in Seq(Kinds) /\ Append(st.stack, mark) \in Seq(Marks)
  BY <1>1
<1>4. PICK n \in Nat, m \in Nat : n = Nesting(Append(bs, kind)) /\ m = Nesting(Append(st.stack, mark))
  BY <1>3, NestingIs
<1>5. n - m <= l + strays /\ m - n <= l + strays
  <2>1. LevelAgrees(Append(bs, kind), Append(st.stack, mark), "block", l + strays, 0)
    BY <1>2 DEF LevelsAgree
  <2>2. n = Beneath(Append(bs, kind), 0) /\ m = Beneath(Append(st.stack, mark), 0)
    BY <1>3, <1>4, NestingIs
  <2>3. Owed("block") = 0 /\ Inner(Append(bs, kind), 0) = 0
    BY <1>3, InnerIs DEF Owed
  <2> QED
    BY <2>1, <2>2, <2>3 DEF LevelAgrees
<1>6. PICK b \in Nat : b = st.best /\ b - d <= l /\ d - b <= l
  BY <1>1 DEF Fits
<1>7. /\ Max({d, n}) = (IF d >= n THEN d ELSE n)
      /\ Max({b, m}) = (IF b >= m THEN b ELSE m)
  BY MaxOfTwo
<1>8. /\ Max({b, m}) - Max({d, n}) <= l + strays /\ Max({d, n}) - Max({b, m}) <= l + strays
      /\ n <= Max({d, n})
  <2>1. PICK e \in Nat, c \in Nat : e = Max({d, n}) /\ c = Max({b, m})
    BY <1>7
  <2>2. e = (IF d >= n THEN d ELSE n) /\ c = (IF b >= m THEN b ELSE m)
    BY <1>7, <2>1
  <2>3. c - e <= l + strays /\ e - c <= l + strays /\ n <= e
    <3>1. {d, n, b, m, e, c, l, strays} \subseteq Int /\ strays >= 0
      OBVIOUS
    <3>2. b - d <= l /\ d - b <= l
      BY <1>6
    <3> QED
      BY <1>5, <2>2, <3>1, <3>2
  <2> QED
    BY <2>1, <2>3, Zenon
<1>9. /\ after.stack = Append(st.stack, mark) /\ after.next = "block" /\ after.best = Max({b, m})
  BY <1>4, <1>6
<1> QED
  BY <1>2, <1>4, <1>8, <1>9, Zenon DEF Fits

ScanInv ==
  /\ blocks \in Seq(Kinds) /\ depth \in Nat /\ loose \in Nat
  /\ Len(blocks) <= Len(text) /\ depth <= Len(text) /\ loose <= Len(text) /\ Len(text) <= MaxText
  /\ \E st : Scans(text, st) /\ Fits(blocks, depth, loose, st)

LEMMA ScanStart == ScoringInit => ScanInv
<1> SUFFICES ASSUME ScoringInit PROVE ScanInv
  OBVIOUS
<1>1. text = <<>> /\ blocks = <<>> /\ depth = 0 /\ loose = 0 /\ MaxText \in Nat
  BY ScoringAssumption DEF ScoringInit
<1> DEFINE st == [stack |-> <<>>, next |-> "block", best |-> 0]
<1>2. text \in Seq(Scannable) /\ blocks \in Seq(Kinds) /\ <<>> \in Seq(Marks) /\ Len(text) = 0 /\ Len(blocks) = 0
  BY <1>1
<1>3. st \in ScanStates
  BY <1>2 DEF ScanStates, Marks
<1>4. Scan(<<>>)[0] = st
  BY <1>2, ScanOfMore DEF Scannable
<1>5. Scans(text, st)
  BY <1>1, <1>2, <1>3, <1>4 DEF Scans
<1>6. Nesting(<<>>) = 0
  <2>1. <<>> \in Seq(Kinds) /\ Len(<<>>) = 0
    OBVIOUS
  <2>2. Nesting(<<>>) \in Nat /\ Nesting(<<>>) <= Len(<<>>)
    BY <2>1, NestingIs, Zenon
  <2> QED
    BY <2>1, <2>2
<1>7. LevelsAgree(<<>>, <<>>, "block", 0)
  <2> SUFFICES ASSUME NEW k \in Nat PROVE LevelAgrees(<<>>, <<>>, "block", 0, k)
    BY DEF LevelsAgree
  <2>1. <<>> \in Seq(Kinds) /\ Len(<<>>) = 0 /\ Owed("block") = 0
    BY DEF Owed
  <2>2. Beneath(<<>>, k) = 0
    <3>1. Beneath(<<>>, k) \in Nat /\ Beneath(<<>>, k) <= Len(<<>>)
      BY <2>1, BeneathIs
    <3> QED
      BY <2>1, <3>1
  <2>3. Inner(<<>>, k) = 0
    <3>1. {i \in 1..Len(<<>>) : i > Len(<<>>) - k /\ <<>>[i] = "do"} = {}
      BY <2>1
    <3>2. Inner(<<>>, k) = Cardinality({})
      BY <3>1, Zenon DEF Inner
    <3> QED
      BY <3>2, FS_EmptySet
  <2> QED
    BY <2>1, <2>2, <2>3 DEF LevelAgrees
<1>8. Fits(blocks, depth, loose, st)
  BY <1>1, <1>6, <1>7 DEF Fits
<1> QED
  <2>1. /\ depth \in Nat /\ loose \in Nat /\ Len(blocks) <= Len(text) /\ depth <= Len(text)
        /\ loose <= Len(text) /\ Len(text) <= MaxText
    BY <1>1, <1>2
  <2> HIDE DEF st
  <2> QED
    BY <2>1, <1>2, <1>5, <1>8, Zenon DEF ScanInv

LEMMA WritesOne ==
  ASSUME text \in Seq(Scannable), NEW x \in Scannable, Writes(<<x>>)
  PROVE  /\ text' = Append(text, x) /\ Len(text') = Len(text) + 1 /\ Len(text') <= MaxText
         /\ records' = records /\ signals' = signals
<1>1. <<x>> \in Seq(Scannable) /\ Len(<<x>>) = 1 /\ <<x>>[1] = x
  OBVIOUS
<1>2. text \o <<x>> = Append(text, x)
  BY <1>1
<1> QED
  BY <1>1, <1>2 DEF Writes

LEMMA WritesTwo ==
  ASSUME text \in Seq(Scannable), NEW x \in Scannable, NEW y \in Scannable, Writes(<<x, y>>)
  PROVE  /\ text' = Append(Append(text, x), y) /\ Len(text') = Len(text) + 2 /\ Len(text') <= MaxText
         /\ records' = records /\ signals' = signals
<1>1. <<x, y>> \in Seq(Scannable) /\ Len(<<x, y>>) = 2 /\ <<x, y>>[1] = x /\ <<x, y>>[2] = y
  OBVIOUS
<1>2. text \o <<x, y>> = Append(Append(text, x), y)
  BY <1>1
<1> QED
  BY <1>1, <1>2 DEF Writes

\* what a step has to show
LEMMA ScanFits ==
  ASSUME ScanInv, blocks' \in Seq(Kinds), depth' \in Nat, loose' \in Nat,
         Len(blocks') <= Len(text'), depth' <= Len(text'), loose' <= Len(text'),
         Len(text') <= MaxText,
         NEW st, Scans(text', st), Fits(blocks', depth', loose', st)
  PROVE  ScanInv'
BY Zenon DEF ScanInv, Scans, Fits

LEMMA OpensKeeps ==
  ASSUME ScanInv, OpensBlock PROVE ScanInv'
<1>0. {"loop", "{", "}"} \subseteq Scannable /\ {"loop", "block", "do"} \subseteq Kinds
      /\ {"loop", "block"} \subseteq Marks
  BY DEF Scannable, Kinds, Marks
<1>1. PICK st : Scans(text, st) /\ Fits(blocks, depth, loose, st)
  BY DEF ScanInv
<1>2. /\ text \in Seq(Scannable) /\ st \in ScanStates /\ st.next \in Marks
      /\ blocks \in Seq(Kinds) /\ depth \in Nat /\ loose \in Nat
      /\ Len(text) \in Nat /\ Len(blocks) \in Nat
      /\ Len(blocks) <= Len(text) /\ depth <= Len(text) /\ loose <= Len(text)
  BY <1>1 DEF ScanInv, Scans, ScanStates
<1>3. ASSUME NEW kind \in Kinds, NEW strays \in {0, 1}, kind = "do" => strays = 1,
             NEW after, Scans(text', after),
             NEW mark \in Marks, kind = "loop" => mark = "loop", kind # "loop" => mark = st.next,
             after = [stack |-> Append(st.stack, mark), next |-> "block",
                      best |-> Max({st.best, Nesting(Append(st.stack, mark))})],
             Len(text') > Len(text), Len(text') \in Nat, Len(text') <= MaxText,
             loose' = loose + strays, blocks' = Append(blocks, kind),
             depth' = Max({depth, Nesting(blocks')})
      PROVE  ScanInv'
  <2>1. blocks' \in Seq(Kinds) /\ Len(blocks') = Len(blocks) + 1
    BY <1>2, <1>3
  <2>2. PICK n \in Nat : n = Nesting(blocks') /\ n <= Len(blocks')
    BY <2>1, NestingIs
  <2>3. depth' = (IF depth >= n THEN depth ELSE n)
    BY <1>2, <1>3, <2>2, MaxOfTwo
  <2>4. /\ depth' \in Nat /\ loose' \in Nat /\ Len(blocks') <= Len(text')
        /\ depth' <= Len(text') /\ loose' <= Len(text')
    BY <1>2, <1>3, <2>1, <2>2, <2>3
  <2>5. after \in ScanStates
    BY <1>3 DEF Scans
  <2>6. Fits(Append(blocks, kind), Max({depth, Nesting(Append(blocks, kind))}), loose + strays, after)
    BY <1>1, <1>2, <1>3, <2>5, FitsOpen
  <2>7. Fits(blocks', depth', loose', after)
    BY <1>3, <2>6, Zenon
  <2> QED
    BY <1>3, <2>1, <2>4, <2>7, ScanFits
<1>4. Scanned(st, "{") = [stack |-> Append(st.stack, st.next), next |-> "block",
                          best |-> Max({st.best, Nesting(Append(st.stack, st.next))})]
  BY <1>2, ScannedIs
<1>5. ASSUME Opens("loop", <<"loop", "{">>, 0) PROVE ScanInv'
  <2>1. /\ text' = Append(Append(text, "loop"), "{") /\ Len(text') = Len(text) + 2
        /\ Len(text') <= MaxText
    BY <1>0, <1>2, <1>5, WritesTwo DEF Opens
  <2>2. PICK mid \in ScanStates : mid = [stack |-> st.stack, next |-> "loop", best |-> st.best]
                               /\ mid = Scanned(st, "loop")
    BY <1>0, <1>2, ScannedIs, ScannedType
  <2>3. mid.stack = st.stack /\ mid.next = "loop" /\ mid.best = st.best
    BY <2>2
  <2>4. Scanned(mid, "{") = [stack |-> Append(st.stack, "loop"), next |-> "block",
                             best |-> Max({st.best, Nesting(Append(st.stack, "loop"))})]
    BY <2>3, ScannedIs
  <2>5. Scans(Append(text, "loop"), mid)
    BY <1>0, <1>1, <2>2, OneMore
  <2>6. Scans(text', Scanned(mid, "{"))
    BY <1>0, <2>1, <2>5, OneMore
  <2>7. /\ Len(text') > Len(text) /\ Len(text') \in Nat
        /\ loose' = loose + 0 /\ blocks' = Append(blocks, "loop")
        /\ depth' = Max({depth, Nesting(blocks')})
    <3>1. Len(text) \in Nat /\ Len(text') = Len(text) + 2
      BY <1>2, <2>1, Zenon
    <3>2. Len(text') > Len(text) /\ Len(text') \in Nat
      BY <3>1
    <3> QED
      BY <1>5, <3>2, Zenon DEF Opens
  <2> QED
    BY <1>0, <1>3, <2>1, <2>4, <2>6, <2>7
<1>6. ASSUME NEW kind \in {"block", "do"}, NEW strays \in {0, 1}, kind = "do" => strays = 1,
             Opens(kind, <<"{">>, strays)
      PROVE  ScanInv'
  <2>1. text' = Append(text, "{") /\ Len(text') = Len(text) + 1 /\ Len(text') <= MaxText
    BY <1>0, <1>2, <1>6, WritesOne DEF Opens
  <2>2. Scans(text', Scanned(st, "{"))
    BY <1>0, <1>1, <2>1, OneMore
  <2>3. /\ Len(text') > Len(text) /\ Len(text') \in Nat
        /\ loose' = loose + strays /\ blocks' = Append(blocks, kind)
        /\ depth' = Max({depth, Nesting(blocks')})
    <3>1. Len(text) \in Nat /\ Len(text') = Len(text) + 1
      BY <1>2, <2>1, Zenon
    <3>2. Len(text') > Len(text) /\ Len(text') \in Nat
      BY <3>1
    <3> QED
      BY <1>6, <3>2, Zenon DEF Opens
  <2>4. kind \in Kinds /\ kind # "loop"
    BY <1>0
  <2> QED
    BY <1>2, <1>3, <1>4, <1>6, <2>1, <2>2, <2>3, <2>4
<1> QED
  BY <1>5, <1>6 DEF OpensBlock

LEMMA ClosesKeeps ==
  ASSUME ScanInv, ClosesBlock PROVE ScanInv'
<1>0. {"loop", "{", "}"} \subseteq Scannable
  BY DEF Scannable
<1>1. PICK st : Scans(text, st) /\ Fits(blocks, depth, loose, st)
  BY DEF ScanInv
<1>2. /\ text \in Seq(Scannable) /\ st \in ScanStates
      /\ st.stack \in Seq(Marks) /\ st.next \in Marks /\ st.best \in Nat
      /\ blocks \in Seq(Kinds) /\ depth \in Nat /\ loose \in Nat
      /\ Len(text) \in Nat /\ Len(blocks) \in Nat
      /\ Len(blocks) <= Len(text) /\ depth <= Len(text) /\ loose <= Len(text)
  BY <1>1 DEF ScanInv, Scans, ScanStates
<1>3. blocks # <<>> /\ blocks' = Front(blocks) /\ depth' = depth /\ loose' = loose
  BY DEF ClosesBlock
<1>4. blocks' \in Seq(Kinds) /\ Len(blocks') = Len(blocks) - 1
  BY <1>2, <1>3, Popped, 0 \in Nat
<1>5. Nesting(blocks') <= depth
  <2>1. /\ Beneath(blocks', 0) = Beneath(blocks, 1)
        /\ Beneath(blocks, 1) \in {Beneath(blocks, 0), Beneath(blocks, 0) - 1}
        /\ Beneath(blocks, 0) \in Nat
    <3>1. 0 \in Nat /\ 0 + 1 = 1
      OBVIOUS
    <3>2. Beneath(Front(blocks), 0) = Beneath(blocks, 0 + 1)
      BY <1>2, <1>3, <3>1, Popped
    <3>3. /\ Beneath(blocks, 0 + 1) \in {Beneath(blocks, 0), Beneath(blocks, 0) - 1}
          /\ Beneath(blocks, 0) \in Nat
      BY <1>2, <3>1, BeneathIs
    <3> QED
      BY <1>3, <3>1, <3>2, <3>3
  <2>2. Nesting(blocks) = Beneath(blocks, 0) /\ Nesting(blocks') = Beneath(blocks', 0)
    BY <1>2, <1>4, NestingIs
  <2>3. Nesting(blocks) <= depth
    BY <1>1 DEF Fits
  <2> QED
    BY <1>2, <2>1, <2>2, <2>3
<1>6. Scanned(st, "}") = [stack |-> Shut(st.stack), next |-> st.next, best |-> st.best]
  BY <1>2, ScannedIs
<1>7. /\ LevelsAgree(Front(blocks), Shut(st.stack), IF Last(blocks) = "do" THEN "loop" ELSE st.next, loose)
      /\ st.best - depth <= loose /\ depth - st.best <= loose
  BY <1>1, <1>2, <1>3, LevelsClose, Zenon DEF Fits
<1>8. PICK shut \in ScanStates : shut = Scanned(st, "}") /\ Scans(Append(text, "}"), shut)
  BY <1>0, <1>1, <1>2, OneMore, ScannedType
<1>9. shut.stack = Shut(st.stack) /\ shut.next = st.next /\ shut.best = st.best
  <2>1. shut = [stack |-> Shut(st.stack), next |-> st.next, best |-> st.best]
    BY <1>6, <1>8, Zenon
  <2> QED
    BY <2>1, Zenon
<1>10. ASSUME NEW after, Scans(text', after), after.stack = Shut(st.stack), after.best = st.best,
              after.next = (IF Last(blocks) = "do" THEN "loop" ELSE st.next),
              Len(text') \in Nat, Len(text') > Len(text), Len(text') <= MaxText
       PROVE  ScanInv'
  <2>1. Fits(blocks', depth', loose', after)
    BY <1>3, <1>5, <1>7, <1>10, Zenon DEF Fits
  <2>2. /\ depth' \in Nat /\ loose' \in Nat /\ Len(blocks') <= Len(text')
        /\ depth' <= Len(text') /\ loose' <= Len(text')
    BY <1>2, <1>3, <1>4, <1>10
  <2> QED
    BY <1>4, <1>10, <2>1, <2>2, ScanFits
<1>11. CASE Last(blocks) = "do"
  <2>1. Writes(<<"}", "loop">>)
    BY <1>11, Zenon DEF ClosesBlock
  <2>2. /\ text' = Append(Append(text, "}"), "loop") /\ Len(text') = Len(text) + 2
        /\ Len(text') <= MaxText
    BY <1>0, <1>2, <2>1, WritesTwo
  <2>3. Scans(text', Scanned(shut, "loop"))
    BY <1>0, <1>8, <2>2, OneMore
  <2>4. Scanned(shut, "loop") = [stack |-> shut.stack, next |-> "loop", best |-> shut.best]
    BY ScannedIs
  <2>5. PICK after : after = Scanned(shut, "loop")
    OBVIOUS
  <2>6. after.stack = Shut(st.stack) /\ after.best = st.best /\ after.next = "loop"
    BY <1>9, <2>4, <2>5
  <2>7. Len(text') \in Nat /\ Len(text') > Len(text)
    <3>1. Len(text) \in Nat /\ Len(text') = Len(text) + 2
      BY <1>2, <2>2, Zenon
    <3> QED
      BY <3>1
  <2> QED
    BY <1>10, <1>11, <2>2, <2>3, <2>5, <2>6, <2>7
<1>12. CASE Last(blocks) # "do"
  <2>1. Writes(<<"}">>)
    BY <1>12, Zenon DEF ClosesBlock
  <2>2. text' = Append(text, "}") /\ Len(text') = Len(text) + 1 /\ Len(text') <= MaxText
    BY <1>0, <1>2, <2>1, WritesOne
  <2>3. Len(text') \in Nat /\ Len(text') > Len(text)
    <3>1. Len(text) \in Nat /\ Len(text') = Len(text) + 1
      BY <1>2, <2>2, Zenon
    <3> QED
      BY <3>1
  <2> QED
    BY <1>8, <1>9, <1>10, <1>12, <2>2, <2>3
<1> QED
  BY <1>11, <1>12

\* what misleads the scan by one: a tok that belongs to no block
LEMMA MisleadKeeps ==
  ASSUME ScanInv, NEW tok \in Scannable, Writes(<<tok>>), loose' = loose + 1, blocks' = blocks,
         tok = "loop" => depth' = depth \/ depth' = Max({depth, Nesting(blocks) + 1}),
         tok # "loop" => depth' = depth
  PROVE  ScanInv'
<1>1. PICK st : Scans(text, st) /\ Fits(blocks, depth, loose, st)
  BY DEF ScanInv
<1>2. /\ text \in Seq(Scannable) /\ st \in ScanStates
      /\ st.stack \in Seq(Marks) /\ st.next \in Marks /\ st.best \in Nat
      /\ blocks \in Seq(Kinds) /\ depth \in Nat /\ loose \in Nat
      /\ Len(text) \in Nat /\ Len(blocks) \in Nat
      /\ Len(blocks) <= Len(text) /\ depth <= Len(text) /\ loose <= Len(text)
  BY <1>1 DEF ScanInv, Scans, ScanStates
<1>3. text' = Append(text, tok) /\ Len(text') = Len(text) + 1 /\ Len(text') <= MaxText
  BY <1>2, WritesOne
<1>4. PICK after \in ScanStates : after = Scanned(st, tok) /\ Scans(text', after)
  BY <1>1, <1>2, <1>3, OneMore, ScannedType
<1>5. PICK n \in Nat : n = Nesting(blocks) /\ n <= Len(blocks) /\ n = Beneath(blocks, 0)
  BY <1>2, NestingIs
<1>6. /\ LevelsAgree(blocks, st.stack, st.next, loose)
      /\ st.best - depth <= loose /\ depth - st.best <= loose /\ n <= depth
  BY <1>1, <1>5, Zenon DEF Fits
<1>7. /\ LevelsAgree(blocks, st.stack, "loop", loose + 1)
      /\ LevelsAgree(blocks, Append(st.stack, st.next), "block", loose + 1)
      /\ LevelsAgree(blocks, Shut(st.stack), st.next, loose + 1)
  BY <1>2, <1>6, LevelsMislead
<1>8. /\ depth' \in Nat /\ depth <= depth' /\ depth' <= depth + 1
      /\ depth' <= Len(text) + 1 /\ (tok # "loop" => depth' = depth)
  <2>1. Max({depth, n + 1}) = IF depth >= n + 1 THEN depth ELSE n + 1
    BY <1>2, MaxOfTwo
  <2>2. depth' = depth \/ depth' = Max({depth, n + 1})
    BY <1>5, Zenon
  <2> QED
    BY <1>2, <1>5, <1>6, <2>1, <2>2
<1>9. Fits(blocks', depth', loose', after)
  <2>1. CASE tok = "loop"
    <3>1. after = [stack |-> st.stack, next |-> "loop", best |-> st.best]
      BY <1>2, <1>4, <2>1, ScannedIs
    <3>2. after.stack = st.stack /\ after.next = "loop" /\ after.best = st.best
      BY <3>1, Zenon
    <3>3. st.best - depth' <= loose + 1 /\ depth' - st.best <= loose + 1 /\ n <= depth'
      BY <1>2, <1>6, <1>8
    <3> QED
      BY <1>5, <1>7, <3>2, <3>3, Zenon DEF Fits
  <2>2. CASE tok = "}"
    <3>1. after = [stack |-> Shut(st.stack), next |-> st.next, best |-> st.best]
      BY <1>2, <1>4, <2>2, ScannedIs
    <3>2. after.stack = Shut(st.stack) /\ after.next = st.next /\ after.best = st.best
      BY <3>1, Zenon
    <3>3. st.best - depth' <= loose + 1 /\ depth' - st.best <= loose + 1 /\ n <= depth'
      BY <1>2, <1>6, <1>8
    <3> QED
      BY <1>5, <1>7, <3>2, <3>3, Zenon DEF Fits
  <2>3. CASE tok = "{"
    <3>1. after = [stack |-> Append(st.stack, st.next), next |-> "block",
                   best |-> Max({st.best, Nesting(Append(st.stack, st.next))})]
      BY <1>2, <1>4, <2>3, ScannedIs
    <3>2. /\ after.stack = Append(st.stack, st.next) /\ after.next = "block"
          /\ after.best = Max({st.best, Nesting(Append(st.stack, st.next))})
      BY <3>1, Zenon
    <3>3. Append(st.stack, st.next) \in Seq(Marks)
      BY <1>2
    <3>4. PICK m \in Nat : /\ m = Nesting(Append(st.stack, st.next))
                           /\ m = Beneath(Append(st.stack, st.next), 0)
      BY <3>3, NestingIs
    <3>5. m - n <= loose + 1
      <4>1. LevelAgrees(blocks, Append(st.stack, st.next), "block", loose + 1, 0)
        BY <1>7 DEF LevelsAgree
      <4>2. Owed("block") = 0 /\ Inner(blocks, 0) = 0
        BY <1>2, InnerIs DEF Owed
      <4> QED
        BY <1>5, <3>4, <4>1, <4>2 DEF LevelAgrees
    <3>6. PICK c \in Nat : c = after.best /\ c = (IF st.best >= m THEN st.best ELSE m)
      <4>1. Max({st.best, m}) = IF st.best >= m THEN st.best ELSE m
        BY <1>2, MaxOfTwo
      <4> QED
        BY <1>2, <3>2, <3>4, <4>1
    <3>7. depth' = depth
      BY <1>8, <2>3
    <3>8. c - depth <= loose + 1 /\ depth - c <= loose + 1
      <4>1. c = (IF st.best >= m THEN st.best ELSE m)
        BY <3>6
      <4> QED
        BY <1>2, <1>6, <3>5, <4>1
    <3>9. after.best - depth' <= loose' /\ depth' - after.best <= loose'
      BY <3>6, <3>7, <3>8, Zenon
    <3>10. Nesting(blocks') <= depth'
      BY <1>5, <1>6, <3>7, Zenon
    <3>11. LevelsAgree(blocks', after.stack, after.next, loose')
      BY <1>7, <3>2, Zenon
    <3> QED
      BY <3>9, <3>10, <3>11, Zenon DEF Fits
  <2> QED
    BY <2>1, <2>2, <2>3 DEF Scannable
<1>10. /\ blocks' \in Seq(Kinds) /\ loose' \in Nat /\ Len(blocks') <= Len(text')
       /\ depth' <= Len(text') /\ loose' <= Len(text')
  <2>1. Len(text') = Len(text) + 1
    BY <1>3, Zenon
  <2> QED
    BY <1>2, <1>8, <2>1
<1> QED
  BY <1>3, <1>4, <1>8, <1>9, <1>10, ScanFits

LEMMA ScanStays ==
  ASSUME ScanInv, UNCHANGED <<text, blocks, depth, loose>> PROVE ScanInv'
<1>1. text' = text /\ blocks' = blocks /\ depth' = depth /\ loose' = loose
  OBVIOUS
<1> QED
  BY <1>1, Zenon DEF ScanInv

LEMMA ScanKept == ScanInv /\ [ScoringNext]_scoringVars => ScanInv'
<1> SUFFICES ASSUME ScanInv, [ScoringNext]_scoringVars PROVE ScanInv'
  OBVIOUS
<1>1. CASE LoopsWithoutBlock
  <2>1. "loop" \in Scannable
    BY DEF Scannable
  <2>2. /\ Writes(<<"loop">>) /\ loose' = loose + 1 /\ blocks' = blocks
        /\ depth' = Max({depth, Nesting(blocks) + 1})
    BY <1>1, Zenon DEF LoopsWithoutBlock
  <2> QED
    BY <2>1, <2>2, MisleadKeeps
<1>2. CASE Mentions
  <2>1. PICK tok \in Scannable : Writes(<<tok>>)
    BY <1>2, Zenon DEF Mentions, Scannable
  <2>2. loose' = loose + 1 /\ blocks' = blocks /\ depth' = depth
    BY <1>2, Zenon DEF Mentions
  <2> QED
    BY <2>1, <2>2, MisleadKeeps
<1>3. ASSUME NEW how \in {"run", "submit"}, TakesRecord(how) PROVE ScanInv'
  BY <1>3, ScanStays DEF TakesRecord
<1>4. ASSUME NEW i, NEW v, RecordGraded(i, v) PROVE ScanInv'
  BY <1>4, ScanStays DEF RecordGraded
<1>5. CASE ScoreRecords
  BY <1>5, ScanStays DEF ScoreRecords
<1>6. CASE UNCHANGED scoringVars
  BY <1>6, ScanStays DEF scoringVars
<1> QED
  BY <1>1, <1>2, <1>3, <1>4, <1>5, <1>6, OpensKeeps, ClosesKeeps, Zenon DEF ScoringNext

LEMMA ScanIsClose == ScanInv => (BraceHeuristic(text) - depth) \in (-loose)..loose
<1> SUFFICES ASSUME ScanInv PROVE (BraceHeuristic(text) - depth) \in (-loose)..loose
  OBVIOUS
<1>1. PICK st : Scans(text, st) /\ Fits(blocks, depth, loose, st)
  BY DEF ScanInv
<1>2. BraceHeuristic(text) = st.best
  BY <1>1, Zenon DEF BraceHeuristic, Scans
<1>3. st.best \in Nat /\ depth \in Nat /\ loose \in Nat
  BY <1>1 DEF ScanInv, Scans, ScanStates
<1>4. st.best - depth <= loose /\ depth - st.best <= loose
  BY <1>1, Zenon DEF Fits
<1> QED
  BY <1>2, <1>3, <1>4

-----------------------------------------------------------------------------
(* The behavioural signals. *)

Records == [mode : {"run", "submit"}, verdict : {"pending", "AC", "WA"}]

\* runs from the i-th submission on that no acceptance comes before
DueFrom(rs, i) == {j \in i..Len(rs) : rs[j].mode = "run" /\ \A k \in i..j : ~Accepted(rs[k])}

CountStep(rs, f) ==
  f = [i \in 1..(Len(rs) + 1) |->
         IF i = Len(rs) + 1 THEN 0
         ELSE IF rs[i].mode = "run" THEN 1 + f[i + 1]
         ELSE IF Accepted(rs[i]) THEN 0 ELSE f[i + 1]]

LEMMA DueIsFinite ==
  ASSUME NEW rs \in Seq(Records), NEW i \in Nat
  PROVE  IsFiniteSet(DueFrom(rs, i)) /\ Cardinality(DueFrom(rs, i)) \in Nat
<1>1. IsFiniteSet(i..Len(rs))
  BY FS_Interval
<1>2. DueFrom(rs, i) \subseteq i..Len(rs)
  BY DEF DueFrom
<1> QED
  BY <1>1, <1>2, FS_Subset, FS_CardinalityType

\* the count of the loop at one position
LEMMA DueHere ==
  ASSUME NEW rs \in Seq(Records), NEW i \in 1..(Len(rs) + 1)
  PROVE  Cardinality(DueFrom(rs, i)) =
           IF i = Len(rs) + 1 THEN 0
           ELSE IF rs[i].mode = "run" THEN 1 + Cardinality(DueFrom(rs, i + 1))
           ELSE IF Accepted(rs[i]) THEN 0 ELSE Cardinality(DueFrom(rs, i + 1))
<1>0. PICK n \in Nat : n = Len(rs)
  OBVIOUS
<1>1. CASE i = n + 1
  <2>1. DueFrom(rs, i) = {}
    BY <1>0, <1>1 DEF DueFrom
  <2> QED
    BY <1>0, <1>1, <2>1, FS_EmptySet
<1>2. CASE i # n + 1
  <2>0. i \in 1..n /\ i + 1 \in Nat /\ i \in Nat
    BY <1>0, <1>2
  <2>1. CASE rs[i].mode = "run"
    <3>1. ~Accepted(rs[i])
      BY <2>1 DEF Accepted
    <3>2. DueFrom(rs, i) = DueFrom(rs, i + 1) \cup {i}
      <4>1. ASSUME NEW j \in DueFrom(rs, i) PROVE j \in DueFrom(rs, i + 1) \cup {i}
        BY <1>0, <2>0 DEF DueFrom
      <4>2. i \in DueFrom(rs, i)
        <5>1. \A k \in i..i : k = i
          BY <2>0
        <5> QED
          BY <1>0, <2>0, <2>1, <3>1, <5>1 DEF DueFrom
      <4>3. ASSUME NEW j \in DueFrom(rs, i + 1) PROVE j \in DueFrom(rs, i)
        <5>1. j \in (i + 1)..n /\ rs[j].mode = "run" /\ \A k \in (i + 1)..j : ~Accepted(rs[k])
          BY <1>0 DEF DueFrom
        <5>2. \A k \in i..j : k = i \/ k \in (i + 1)..j
          BY <2>0, <5>1
        <5>3. \A k \in i..j : ~Accepted(rs[k])
          BY <3>1, <5>1, <5>2
        <5>4. j \in i..n
          BY <2>0, <5>1
        <5> QED
          BY <1>0, <5>1, <5>3, <5>4 DEF DueFrom
      <4> QED
        BY <4>1, <4>2, <4>3
    <3>3. i \notin DueFrom(rs, i + 1)
      BY <2>0 DEF DueFrom
    <3>4. Cardinality(DueFrom(rs, i)) = Cardinality(DueFrom(rs, i + 1)) + 1
      BY <2>0, <3>2, <3>3, DueIsFinite, FS_AddElement
    <3>5. Cardinality(DueFrom(rs, i + 1)) \in Nat
      BY <2>0, DueIsFinite
    <3> QED
      BY <1>0, <1>2, <2>1, <3>4, <3>5
  <2>2. CASE rs[i].mode # "run" /\ Accepted(rs[i])
    <3>1. DueFrom(rs, i) = {}
      BY <2>0, <2>2 DEF DueFrom
    <3> QED
      BY <1>0, <1>2, <2>2, <3>1, FS_EmptySet
  <2>3. CASE rs[i].mode # "run" /\ ~Accepted(rs[i])
    <3>1. ASSUME NEW j \in DueFrom(rs, i) PROVE j \in DueFrom(rs, i + 1)
      <4>1. j \in i..n /\ rs[j].mode = "run" /\ \A k \in i..j : ~Accepted(rs[k])
        BY <1>0 DEF DueFrom
      <4>2. j \in (i + 1)..n /\ \A k \in (i + 1)..j : k \in i..j
        BY <2>0, <2>3, <4>1
      <4> QED
        BY <1>0, <4>1, <4>2 DEF DueFrom
    <3>2. ASSUME NEW j \in DueFrom(rs, i + 1) PROVE j \in DueFrom(rs, i)
      <4>1. j \in (i + 1)..n /\ rs[j].mode = "run" /\ \A k \in (i + 1)..j : ~Accepted(rs[k])
        BY <1>0 DEF DueFrom
      <4>2. \A k \in i..j : k = i \/ k \in (i + 1)..j
        BY <2>0, <4>1
      <4>3. \A k \in i..j : ~Accepted(rs[k])
        BY <2>3, <4>1, <4>2
      <4>4. j \in i..n
        BY <2>0, <4>1
      <4> QED
        BY <1>0, <4>1, <4>3, <4>4 DEF DueFrom
    <3>3. DueFrom(rs, i) = DueFrom(rs, i + 1)
      BY <3>1, <3>2
    <3> QED
      BY <1>0, <1>2, <2>3, <3>3
  <2> QED
    BY <2>1, <2>2, <2>3
<1> QED
  BY <1>1, <1>2

LEMMA RunsAreDue ==
  ASSUME NEW rs \in Seq(Records) PROVE RunsBeforeAc(rs) = RunsDue(rs)
<1>0. PICK n \in Nat : n = Len(rs)
  OBVIOUS
<1> DEFINE g == [i \in 1..(Len(rs) + 1) |-> Cardinality(DueFrom(rs, i))]
<1>1. \A i \in 1..(Len(rs) + 1) : g[i] = Cardinality(DueFrom(rs, i))
  OBVIOUS
<1>2. CountStep(rs, g)
  <2>1. \A i \in 1..(Len(rs) + 1) :
          Cardinality(DueFrom(rs, i)) =
            IF i = Len(rs) + 1 THEN 0
            ELSE IF rs[i].mode = "run" THEN 1 + g[i + 1]
            ELSE IF Accepted(rs[i]) THEN 0 ELSE g[i + 1]
    <3> TAKE i \in 1..(Len(rs) + 1)
    <3>1. i # Len(rs) + 1 => i + 1 \in 1..(Len(rs) + 1)
      BY <1>0
    <3>2. i # Len(rs) + 1 => g[i + 1] = Cardinality(DueFrom(rs, i + 1))
      BY <1>1, <3>1
    <3> HIDE DEF g
    <3> QED
      BY <3>2, DueHere
  <2> QED
    BY <2>1, Zenon DEF CountStep
<1>3. PICK f : f = (CHOOSE h : CountStep(rs, h))
  OBVIOUS
<1>4. CountStep(rs, f)
  <2> HIDE DEF g
  <2> QED
    BY <1>2, <1>3, Zenon
<1>5. RunsBeforeAc(rs) = f[1]
  BY <1>3, Zenon DEF RunsBeforeAc, CountStep
<1>6. \A i \in 1..(n + 1) :
        f[i] = IF i = n + 1 THEN 0
               ELSE IF rs[i].mode = "run" THEN 1 + f[i + 1]
               ELSE IF Accepted(rs[i]) THEN 0 ELSE f[i + 1]
  BY <1>0, <1>4 DEF CountStep
<1> DEFINE Bad == {d \in 0..n : f[n + 1 - d] # Cardinality(DueFrom(rs, n + 1 - d))}
<1>7. Bad = {}
  <2> SUFFICES ASSUME Bad # {} PROVE FALSE
    OBVIOUS
  <2>1. PICK d \in Bad : \A e \in Bad : d <= e
    <3>1. Bad \in SUBSET Nat
      OBVIOUS
    <3> HIDE DEF Bad
    <3> QED
      BY <3>1, Smallest
  <2>2. d \in 0..n /\ f[n + 1 - d] # Cardinality(DueFrom(rs, n + 1 - d))
    OBVIOUS
  <2>3. PICK i \in 1..(n + 1) : i = n + 1 - d
    BY <2>2
  <2>4. Cardinality(DueFrom(rs, i)) =
           IF i = n + 1 THEN 0
           ELSE IF rs[i].mode = "run" THEN 1 + Cardinality(DueFrom(rs, i + 1))
           ELSE IF Accepted(rs[i]) THEN 0 ELSE Cardinality(DueFrom(rs, i + 1))
    BY <1>0, DueHere
  <2>5. ASSUME i # n + 1 PROVE f[i + 1] = Cardinality(DueFrom(rs, i + 1))
    <3>1. d - 1 \in 0..n /\ ~(d <= d - 1) /\ n + 1 - (d - 1) = i + 1
      BY <2>2, <2>3, <2>5
    <3>2. d - 1 \notin Bad
      <4> HIDE DEF Bad
      <4> QED
        BY <2>1, <3>1
    <3> QED
      BY <3>1, <3>2
  <2>6. f[i] = Cardinality(DueFrom(rs, i))
    BY <1>6, <2>4, <2>5
  <2> QED
    BY <2>2, <2>3, <2>6
<1>8. f[1] = Cardinality(DueFrom(rs, 1))
  <2>1. n \in 0..n /\ n + 1 - n = 1
    OBVIOUS
  <2> QED
    BY <1>7, <2>1
<1>9. DueFrom(rs, 1) = {i \in DOMAIN rs : rs[i].mode = "run" /\ \A j \in 1..i : ~Accepted(rs[j])}
  <2>1. DOMAIN rs = 1..Len(rs)
    OBVIOUS
  <2> QED
    BY <2>1, Zenon DEF DueFrom
<1> QED
  BY <1>5, <1>8, <1>9, Zenon DEF RunsDue

LEMMA LastSubmit ==
  ASSUME NEW rs \in Seq(Records), NEW S \in SUBSET SubmitsOf(rs), S # {}
  PROVE  Max(S) \in S /\ Max(S) \in 1..Len(rs) /\ \A i \in S : i <= Max(S)
<1>1. Len(rs) \in Nat /\ DOMAIN rs = 1..Len(rs)
  OBVIOUS
<1>2. S \in SUBSET (0..Len(rs)) /\ S \subseteq 1..Len(rs)
  BY <1>1 DEF SubmitsOf
<1>3. Max(S) \in S /\ \A i \in S : i <= Max(S)
  BY <1>1, <1>2, Largest, Zenon
<1> QED
  BY <1>2, <1>3

LEMMA TestedIsDue ==
  ASSUME NEW rs \in Seq(Records), SubmitsOf(rs) # {}
  PROVE  EdgeCasesTested(rs) =
           (\E i, j \in 1..Len(rs) : i < j /\ rs[i].mode = "run" /\ rs[j].mode = "submit")
<1>1. PICK last \in 1..Len(rs) : /\ last = Max(SubmitsOf(rs)) /\ rs[last].mode = "submit"
                                 /\ \A i \in SubmitsOf(rs) : i <= last
  <2>1. SubmitsOf(rs) \in SUBSET SubmitsOf(rs)
    OBVIOUS
  <2>2. Max(SubmitsOf(rs)) \in SubmitsOf(rs) /\ Max(SubmitsOf(rs)) \in 1..Len(rs)
        /\ \A i \in SubmitsOf(rs) : i <= Max(SubmitsOf(rs))
    BY <2>1, LastSubmit
  <2> QED
    BY <2>2 DEF SubmitsOf
<1>2. EdgeCasesTested(rs) = (\E i \in 1..(last - 1) : rs[i].mode = "run")
  BY <1>1, Zenon DEF EdgeCasesTested
<1>3. Len(rs) \in Nat /\ DOMAIN rs = 1..Len(rs)
  OBVIOUS
<1>4. ASSUME NEW i \in 1..(last - 1) PROVE i \in 1..Len(rs) /\ i < last
  BY <1>1, <1>3
<1>5. ASSUME NEW i \in 1..Len(rs), NEW j \in 1..Len(rs), i < j, rs[j].mode = "submit"
      PROVE  i \in 1..(last - 1)
  <2>1. j <= last
    BY <1>1, <1>3, <1>5 DEF SubmitsOf
  <2> QED
    BY <1>5, <2>1
<1> QED
  BY <1>1, <1>2, <1>4, <1>5, Zenon

LEMMA ResponseIsDue ==
  ASSUME NEW rs \in Seq(Records), SubmitsOf(rs) # {}
  PROVE  FailureResponse(rs) = ResponseDue(rs)
<1> DEFINE last == Max(SubmitsOf(rs))
           earlier == SubmitsOf(rs) \ {last}
           before == {i \in SubmitsOf(rs) : i < last}
           between == {rs[i].mode : i \in (Max(earlier) + 1)..(last - 1)}
<1>1. last \in SubmitsOf(rs) /\ last \in 1..Len(rs) /\ \A i \in SubmitsOf(rs) : i <= last
  BY LastSubmit
<1>2. Len(rs) \in Nat /\ DOMAIN rs = 1..Len(rs) /\ SubmitsOf(rs) \subseteq 1..Len(rs)
  BY DEF SubmitsOf
<1>3. earlier = before
  <2> HIDE DEF last
  <2> QED
    BY <1>1, <1>2
<1>4. ASSUME earlier # {} PROVE "run" \in between <=> last # Max(before) + 1
  <2> HIDE DEF last
  <2>1. PICK prev \in earlier : prev = Max(earlier) /\ \A i \in earlier : i <= prev
    <3>1. earlier \in SUBSET SubmitsOf(rs)
      OBVIOUS
    <3> HIDE DEF earlier
    <3> QED
      BY <1>4, <3>1, LastSubmit
  <2>2. prev \in 1..Len(rs) /\ prev < last /\ prev = Max(before)
    BY <1>2, <1>3, <2>1
  <2>3. between = {rs[i].mode : i \in (prev + 1)..(last - 1)}
    BY <2>1, Zenon
  <2>4. ASSUME NEW i \in (prev + 1)..(last - 1) PROVE rs[i].mode = "run"
    <3>1. i \in 1..Len(rs) /\ i # last /\ ~(i <= prev)
      BY <1>1, <1>2, <2>2
    <3>2. rs[i] \in Records
      BY <1>2, <3>1
    <3>3. i \notin SubmitsOf(rs)
      BY <2>1, <3>1
    <3> QED
      BY <1>2, <3>1, <3>2, <3>3 DEF SubmitsOf, Records
  <2>5. /\ last # prev + 1 => prev + 1 \in (prev + 1)..(last - 1)
        /\ last = prev + 1 => (prev + 1)..(last - 1) = {}
    <3>1. prev \in Nat /\ last \in Nat /\ prev < last
      BY <1>1, <1>2, <2>2
    <3> QED
      BY <3>1
  <2>7. last # prev + 1 => "run" \in between
    <3> SUFFICES ASSUME last # prev + 1 PROVE "run" \in between
      OBVIOUS
    <3>1. rs[prev + 1].mode = "run"
      BY <2>4, <2>5
    <3> QED
      BY <2>3, <2>5, <3>1
  <2>8. last = prev + 1 => "run" \notin between
    BY <2>3, <2>5
  <2> QED
    <3> HIDE DEF earlier, before, between
    <3> QED
      BY <2>2, <2>7, <2>8
<1>5. FailureResponse(rs) =
        IF ~Accepted(rs[last]) THEN "no_further_attempt"
        ELSE IF earlier = {} \/ Accepted(rs[Max(earlier)]) THEN "none"
        ELSE IF "run" \in between THEN "ran_before_resubmitting" ELSE "resubmitted_immediately"
  BY DEF FailureResponse
<1>6. ResponseDue(rs) =
        IF ~Accepted(rs[last]) THEN "no_further_attempt"
        ELSE IF before = {} \/ Accepted(rs[Max(before)]) THEN "none"
        ELSE IF last = Max(before) + 1 THEN "resubmitted_immediately"
        ELSE "ran_before_resubmitting"
  BY DEF ResponseDue
<1> HIDE DEF last, earlier, before, between
<1>7. CASE ~Accepted(rs[last]) \/ earlier = {} \/ Accepted(rs[Max(earlier)])
  BY <1>3, <1>5, <1>6, <1>7
<1>8. CASE Accepted(rs[last]) /\ earlier # {} /\ ~Accepted(rs[Max(earlier)])
  <2>1. "run" \in between <=> last # Max(before) + 1
    BY <1>4, <1>8, Zenon
  <2> QED
    BY <1>3, <1>5, <1>6, <1>8, <2>1
<1> QED
  BY <1>7, <1>8, Zenon

(***************************************************************************)
(* The row was computed from the list as it was: since then, records were  *)
(* added at its end and pending verdicts became final.                     *)
(***************************************************************************)
ScoreOf(rs) ==
  [runs |-> RunsBeforeAc(rs), tested |-> EdgeCasesTested(rs),
   response |-> FailureResponse(rs), seen |-> Len(rs),
   missed |-> {i \in SubmitsOf(rs) : rs[i].verdict = "pending"}]

Since(was, rs) ==
  /\ Len(was) <= Len(rs)
  /\ \A i \in 1..Len(was) : /\ rs[i].mode = was[i].mode
                            /\ was[i].verdict # "pending" => rs[i].verdict = was[i].verdict

RecordsInv ==
  /\ records \in Seq(Records)
  /\ signals # <<>> => \E was \in Seq(Records) : /\ signals = <<ScoreOf(was)>>
                                                 /\ SubmitsOf(was) # {} /\ Since(was, records)

LEMMA RecordsStart == ScoringInit => RecordsInv
<1>1. <<>> \in Seq(Records)
  OBVIOUS
<1> QED
  BY <1>1, Zenon DEF ScoringInit, RecordsInv

LEMMA RecordsStay ==
  ASSUME RecordsInv, UNCHANGED <<records, signals>> PROVE RecordsInv'
<1>1. records' = records /\ signals' = signals
  OBVIOUS
<1> QED
  BY <1>1, Zenon DEF RecordsInv

LEMMA RecordsMove ==
  ASSUME RecordsInv, records' \in Seq(Records), signals' = signals,
         \A was \in Seq(Records) : Since(was, records) => Since(was, records')
  PROVE  RecordsInv'
  BY Zenon DEF RecordsInv

LEMMA RecordsKept == RecordsInv /\ [ScoringNext]_scoringVars => RecordsInv'
<1> SUFFICES ASSUME RecordsInv, [ScoringNext]_scoringVars PROVE RecordsInv'
  OBVIOUS
<1>0. records \in Seq(Records) /\ Len(records) \in Nat /\ DOMAIN records = 1..Len(records)
  BY DEF RecordsInv
<1>1. ASSUME NEW how \in {"run", "submit"}, TakesRecord(how) PROVE RecordsInv'
  <2>1. PICK r \in Records : r = [mode |-> how, verdict |-> "pending"]
    BY DEF Records
  <2>2. records' = Append(records, r) /\ signals' = signals
    BY <1>1, <2>1 DEF TakesRecord
  <2>3. /\ records' \in Seq(Records) /\ Len(records') = Len(records) + 1
        /\ \A i \in 1..Len(records) : records'[i] = records[i]
    BY <1>0, <2>2
  <2>4. ASSUME NEW was \in Seq(Records), Since(was, records) PROVE Since(was, records')
    <3>1. Len(was) \in Nat /\ Len(was) <= Len(records)
      BY <2>4 DEF Since
    <3>2. Len(was) <= Len(records') /\ \A i \in 1..Len(was) : i \in 1..Len(records)
      BY <1>0, <2>3, <3>1
    <3> QED
      BY <2>3, <2>4, <3>2, Zenon DEF Since
  <2> QED
    BY <2>2, <2>3, <2>4, RecordsMove
<1>2. ASSUME NEW i \in DOMAIN records, NEW v \in {"AC", "WA"}, RecordGraded(i, v) PROVE RecordsInv'
  <2>1. /\ records[i].verdict = "pending" /\ signals' = signals
        /\ records' = [records EXCEPT ![i].verdict = v]
    BY <1>2 DEF RecordGraded
  <2>2. PICK r \in Records : r = records[i] /\ r.verdict = "pending"
    BY <1>0, <2>1
  <2>3. PICK s \in Records : s.mode = r.mode /\ s.verdict = v /\ s = [r EXCEPT !.verdict = v]
    BY <2>2 DEF Records
  <2>4. records' = [records EXCEPT ![i] = s]
    BY <2>1, <2>2, <2>3, Zenon
  <2>5. /\ records' \in Seq(Records) /\ Len(records') = Len(records) /\ records'[i] = s
        /\ \A j \in 1..Len(records) : j # i => records'[j] = records[j]
    BY <1>0, <2>4
  <2>6. ASSUME NEW was \in Seq(Records), Since(was, records) PROVE Since(was, records')
    <3>1. Len(was) \in Nat /\ Len(was) <= Len(records)
      BY <2>6 DEF Since
    <3>2. ASSUME NEW j \in 1..Len(was)
          PROVE  /\ records'[j].mode = was[j].mode
                 /\ was[j].verdict # "pending" => records'[j].verdict = was[j].verdict
      <4>1. j \in 1..Len(records)
        BY <1>0, <3>1
      <4>2. /\ records[j].mode = was[j].mode
            /\ was[j].verdict # "pending" => records[j].verdict = was[j].verdict
        BY <2>6 DEF Since
      <4> QED
        BY <2>2, <2>3, <2>5, <4>1, <4>2
    <3> QED
      BY <2>5, <3>1, <3>2, Zenon DEF Since
  <2> QED
    BY <2>1, <2>5, <2>6, RecordsMove
<1>3. CASE ScoreRecords
  <2>1. /\ SubmitsOf(records) # {} /\ records' = records
        /\ signals' = <<ScoreOf(records)>>
    BY <1>3, Zenon DEF ScoreRecords, ScoreOf
  <2>2. Since(records, records)
    BY <1>0 DEF Since
  <2> QED
    BY <1>0, <2>1, <2>2, Zenon DEF RecordsInv
<1>4. CASE OpensBlock
  BY <1>4, RecordsStay DEF OpensBlock, Opens, Writes
<1>5. CASE ClosesBlock
  BY <1>5, RecordsStay DEF ClosesBlock, Writes
<1>6. CASE LoopsWithoutBlock
  BY <1>6, RecordsStay DEF LoopsWithoutBlock, Writes
<1>7. CASE Mentions
  BY <1>7, RecordsStay DEF Mentions, Writes
<1>8. CASE UNCHANGED scoringVars
  BY <1>8, RecordsStay DEF scoringVars
<1> QED
  BY <1>1, <1>2, <1>3, <1>4, <1>5, <1>6, <1>7, <1>8, Zenon DEF ScoringNext

LEMMA SignalsAreTrue ==
  ASSUME RecordsInv, signals # <<>>
  PROVE  LET s    == signals[1]
             rs   == SubSeq(records, 1, s.seen)
             late == \E i \in s.missed : Accepted(rs[i])
         IN  /\ s.runs >= RunsDue(rs) /\ (~late => s.runs = RunsDue(rs))
             /\ s.tested = (\E i, j \in 1..s.seen : i < j /\ rs[i].mode = "run" /\ rs[j].mode = "submit")
             /\ ~late => s.response = ResponseDue(rs)
<1>1. PICK was \in Seq(Records) : /\ signals = <<ScoreOf(was)>>
                                  /\ SubmitsOf(was) # {} /\ Since(was, records)
  BY DEF RecordsInv
<1>2. PICK s : s = signals[1]
  OBVIOUS
<1>3. /\ s.runs = RunsBeforeAc(was) /\ s.tested = EdgeCasesTested(was)
      /\ s.response = FailureResponse(was) /\ s.seen = Len(was)
      /\ s.missed = {i \in SubmitsOf(was) : was[i].verdict = "pending"}
  <2>1. s = ScoreOf(was)
    BY <1>1, <1>2
  <2> QED
    BY <2>1, Zenon DEF ScoreOf
<1>4. PICK n \in Nat : n = Len(was) /\ n = s.seen /\ n <= Len(records)
  BY <1>1, <1>3 DEF Since
<1>5. PICK rs \in Seq(Records) :
         /\ rs = SubSeq(records, 1, s.seen) /\ Len(rs) = n
         /\ \A i \in 1..n : rs[i] = records[i]
  <2>1. records \in Seq(Records) /\ Len(records) \in Nat /\ DOMAIN records = 1..Len(records)
    BY DEF RecordsInv
  <2>2. /\ SubSeq(records, 1, n) \in Seq(Records) /\ Len(SubSeq(records, 1, n)) = n
        /\ \A i \in 1..n : SubSeq(records, 1, n)[i] = records[i]
    BY <1>4, <2>1
  <2> QED
    BY <1>4, <2>2
<1>6. /\ DOMAIN rs = 1..n /\ DOMAIN was = 1..n
      /\ \A i \in 1..n : was[i] \in Records
  <2>1. DOMAIN rs = 1..Len(rs) /\ DOMAIN was = 1..Len(was)
    OBVIOUS
  <2>2. \A i \in 1..Len(was) : was[i] \in Records
    OBVIOUS
  <2> QED
    BY <1>4, <1>5, <2>1, <2>2, Zenon
<1>7. ASSUME NEW i \in 1..n
      PROVE  /\ rs[i].mode = was[i].mode
             /\ was[i].verdict # "pending" => rs[i].verdict = was[i].verdict
  BY <1>1, <1>4, <1>5 DEF Since
<1>8. SubmitsOf(rs) = SubmitsOf(was)
  BY <1>6, <1>7, Zenon DEF SubmitsOf
<1>9. ASSUME NEW i \in 1..n, Accepted(was[i]) PROVE Accepted(rs[i])
  BY <1>7, <1>9 DEF Accepted
<1>10. ASSUME NEW i \in 1..n, Accepted(rs[i]), ~\E k \in s.missed : Accepted(rs[k])
       PROVE  Accepted(was[i])
  <2>1. was[i].mode = "submit" /\ rs[i].verdict = "AC"
    BY <1>7, <1>10 DEF Accepted
  <2>2. was[i].verdict # "pending"
    <3> SUFFICES ASSUME was[i].verdict = "pending" PROVE FALSE
      OBVIOUS
    <3>1. i \in s.missed
      BY <1>3, <1>6, <2>1 DEF SubmitsOf
    <3> QED
      BY <1>10, <3>1
  <2> QED
    BY <1>7, <2>1, <2>2 DEF Accepted
<1> DEFINE Due(l) == {i \in 1..n : l[i].mode = "run" /\ \A j \in 1..i : ~Accepted(l[j])}
<1>11. RunsDue(rs) = Cardinality(Due(rs)) /\ RunsDue(was) = Cardinality(Due(was))
  BY <1>6, Zenon DEF RunsDue
<1>12. Due(rs) \subseteq Due(was)
  <2> SUFFICES ASSUME NEW i \in Due(rs) PROVE i \in Due(was)
    OBVIOUS
  <2>1. i \in 1..n /\ rs[i].mode = "run" /\ \A j \in 1..i : ~Accepted(rs[j])
    OBVIOUS
  <2>2. was[i].mode = "run" /\ \A j \in 1..i : j \in 1..n
    BY <1>7, <2>1
  <2>3. \A j \in 1..i : ~Accepted(was[j])
    BY <1>9, <2>1, <2>2
  <2> QED
    BY <2>1, <2>2, <2>3
<1>13. ASSUME ~\E k \in s.missed : Accepted(rs[k]) PROVE Due(was) \subseteq Due(rs)
  <2> SUFFICES ASSUME NEW i \in Due(was) PROVE i \in Due(rs)
    OBVIOUS
  <2>1. i \in 1..n /\ was[i].mode = "run" /\ \A j \in 1..i : ~Accepted(was[j])
    OBVIOUS
  <2>2. rs[i].mode = "run" /\ \A j \in 1..i : j \in 1..n
    BY <1>7, <2>1
  <2>3. \A j \in 1..i : ~Accepted(rs[j])
    BY <1>10, <1>13, <2>1, <2>2
  <2> QED
    BY <2>1, <2>2, <2>3
<1>14. s.runs = RunsDue(was)
  BY <1>3, RunsAreDue
<1>15. s.runs >= RunsDue(rs)
  <2>1. Due(was) \in SUBSET (1..n)
    OBVIOUS
  <2> HIDE DEF Due
  <2>2. IsFiniteSet(Due(was)) /\ Cardinality(Due(was)) \in Nat
    BY <2>1, UptoIsFinite, Zenon
  <2>3. Cardinality(Due(rs)) \in Nat /\ Cardinality(Due(rs)) <= Cardinality(Due(was))
    BY <1>12, <2>2, FS_Subset, FS_CardinalityType
  <2> QED
    BY <1>11, <1>14, <2>2, <2>3
<1>16. ASSUME ~\E k \in s.missed : Accepted(rs[k]) PROVE s.runs = RunsDue(rs)
  <2> HIDE DEF Due
  <2>1. Due(was) = Due(rs)
    BY <1>12, <1>13, <1>16
  <2> QED
    BY <1>11, <1>14, <2>1
<1>17. s.tested = (\E i, j \in 1..s.seen : i < j /\ rs[i].mode = "run" /\ rs[j].mode = "submit")
  <2>1. s.tested = (\E i, j \in 1..n : i < j /\ was[i].mode = "run" /\ was[j].mode = "submit")
    BY <1>1, <1>3, <1>4, TestedIsDue, Zenon
  <2> QED
    BY <1>4, <1>7, <2>1, Zenon
<1>18. ASSUME ~\E k \in s.missed : Accepted(rs[k]) PROVE s.response = ResponseDue(rs)
  <2>1. \A i \in 1..n : Accepted(rs[i]) <=> Accepted(was[i])
    BY <1>9, <1>10, <1>18
  <2> DEFINE last == Max(SubmitsOf(was))
             before == {i \in SubmitsOf(was) : i < last}
  <2>2. SubmitsOf(was) \subseteq 1..n
    BY <1>6, Zenon DEF SubmitsOf
  <2>3. last \in 1..n
    <3>1. SubmitsOf(was) \in SUBSET SubmitsOf(was)
      OBVIOUS
    <3> QED
      BY <1>1, <2>2, <3>1, LastSubmit
  <2>4. before # {} => Max(before) \in 1..n
    <3>1. before \in SUBSET SubmitsOf(was)
      OBVIOUS
    <3> HIDE DEF before
    <3> QED
      BY <2>2, <3>1, LastSubmit
  <2>5. ResponseDue(was) =
          IF ~Accepted(was[last]) THEN "no_further_attempt"
          ELSE IF before = {} \/ Accepted(was[Max(before)]) THEN "none"
          ELSE IF last = Max(before) + 1 THEN "resubmitted_immediately"
          ELSE "ran_before_resubmitting"
    BY DEF ResponseDue
  <2>6. ResponseDue(rs) =
          IF ~Accepted(rs[last]) THEN "no_further_attempt"
          ELSE IF before = {} \/ Accepted(rs[Max(before)]) THEN "none"
          ELSE IF last = Max(before) + 1 THEN "resubmitted_immediately"
          ELSE "ran_before_resubmitting"
    BY <1>8 DEF ResponseDue
  <2> HIDE DEF last, before
  <2>7. ResponseDue(rs) = ResponseDue(was)
    BY <2>1, <2>3, <2>4, <2>5, <2>6
  <2> QED
    BY <1>1, <1>3, <2>7, ResponseIsDue
<1> HIDE DEF Due
<1> QED
  BY <1>2, <1>5, <1>15, <1>16, <1>17, <1>18, Zenon

(***************************************************************************)
(* The behavioural signals are what a careful reader of the submissions    *)
(* would say, up to verdicts that were still pending, and the nesting the  *)
(* brace scan finds is off by no more than what misleads it, for lists and *)
(* programs of any length.                                                 *)
(***************************************************************************)
THEOREM SignalsStaySound == SceneSpec => []SignalsAreSound
<1> DEFINE Inv == RecordsInv /\ ScanInv
<1>1. SceneInit => Inv
  BY RecordsStart, ScanStart DEF SceneInit
<1>2. Inv /\ [SceneNext]_<<part, otherVars, consoleVars>> => Inv'
  <2>1. [SceneNext]_<<part, otherVars, consoleVars>> => [ScoringNext]_scoringVars
    BY DEF SceneNext, otherVars
  <2> QED
    BY <2>1, RecordsKept, ScanKept
<1>3. Inv => SignalsAreSound
  <2> SUFFICES ASSUME Inv PROVE SignalsAreSound
    OBVIOUS
  <2>1. RecordsInv /\ ScanInv
    OBVIOUS
  <2> QED
    BY <2>1, SignalsAreTrue, ScanIsClose, Zenon DEF SignalsAreSound
<1> QED
  BY <1>1, <1>2, <1>3, PTL DEF SceneSpec

-----------------------------------------------------------------------------
(* Types and bounds.  Most of them are part of the invariants above; what  *)
(* those do not need is kept here.                                         *)

LEMMA MovedStays ==
  ASSUME NEW d \in Int, NEW delta \in Int PROVE Moved(d, delta) \in Levels
BY DEF Moved, Levels, MinDifficulty, MaxDifficulty

LEMMA DifficultyTyped ==
  ASSUME DifficultyInv, DifficultyTypeOK, [DifficultyNext]_difficultyVars
  PROVE  DifficultyTypeOK'
<1>1. Ready \in Tasks /\ Ready.pc = "idle" /\ Ready.read \in Levels
  BY DEF Ready, Tasks, DefaultDifficulty, Levels, MinDifficulty, MaxDifficulty
<1>2. signal \in [Signals -> Tasks] /\ MaxSignals \in Nat
  BY DifficultyAssumption DEF DifficultyInv
<1>3. ASSUME NEW s \in Signals, NEW t, signal' = [signal EXCEPT ![s] = t],
             t.pc \in {"idle", "read", "write", "answer"}, t.read \in Levels
      PROVE  \A x \in Signals : /\ signal'[x].pc \in {"idle", "read", "write", "answer"}
                                /\ signal'[x].read \in Levels
  BY <1>2, <1>3 DEF DifficultyTypeOK
<1>4. CASE UNCHANGED difficultyVars
  BY <1>4 DEF difficultyVars, DifficultyTypeOK
<1>5. CASE KeyExpires
  BY <1>5 DEF KeyExpires, DifficultyTypeOK
<1>6. ASSUME NEW s \in Signals, ReadDifficulty(s) PROVE DifficultyTypeOK'
  <2> DEFINE t == [signal[s] EXCEPT !.pc = "write", !.read = Current]
  <2>1. signal' = [signal EXCEPT ![s] = t] /\ UNCHANGED <<value, row, awaited, sent>>
    BY <1>2, <1>6 DEF ReadDifficulty
  <2>2. Current \in Levels
    BY DEF DifficultyTypeOK, Current, DefaultDifficulty, Levels, MinDifficulty, MaxDifficulty
  <2>3. t.pc = "write" /\ t.read = Current
    BY <1>2 DEF Tasks
  <2> HIDE DEF t
  <2> QED
    BY <1>3, <2>1, <2>2, <2>3 DEF DifficultyTypeOK
<1>7. ASSUME NEW s \in Signals, SetDifficulty(s) PROVE DifficultyTypeOK'
  <2> DEFINE next == Moved(signal[s].read, signal[s].delta)
             pc == IF awaited = s THEN "answer" ELSE "idle"
             t == [signal[s] EXCEPT !.pc = pc, !.read = next]
  <2>1. /\ signal' = [signal EXCEPT ![s] = t] /\ value' = next
        /\ UNCHANGED <<row, awaited, sent>>
    BY <1>2, <1>7 DEF SetDifficulty
  <2>2. next \in Levels
    BY <1>2, MovedStays DEF Tasks
  <2>3. t.pc = pc /\ t.read = next
    BY <1>2 DEF Tasks
  <2>4. pc \in {"answer", "idle"}
    OBVIOUS
  <2> HIDE DEF t, next, pc
  <2> QED
    BY <1>3, <2>1, <2>2, <2>3, <2>4 DEF DifficultyTypeOK
<1>8. ASSUME NEW s \in Signals, KeepAnswer(s) PROVE DifficultyTypeOK'
  <2>1. /\ signal' = [signal EXCEPT ![s] = Ready] /\ awaited' = Unset
        /\ row'.difficulty = signal[s].read /\ UNCHANGED <<value, sent>>
    BY <1>8 DEF KeepAnswer
  <2> QED
    BY <1>1, <1>3, <2>1 DEF DifficultyTypeOK
<1>9. ASSUME NEW s \in Signals, GiveUp(s) PROVE DifficultyTypeOK'
  <2>1. awaited' = Unset /\ UNCHANGED <<value, row, sent>>
    BY <1>9 DEF GiveUp
  <2>2. signal' = signal \/ signal' = [signal EXCEPT ![s] = Ready]
    BY <1>9 DEF GiveUp
  <2> QED
    BY <1>1, <1>3, <2>1, <2>2 DEF DifficultyTypeOK
<1>10. ASSUME NEW s \in Signals, NEW verdict, NEW pace, NEW hint,
              SendSignal(s, verdict, pace, hint)
       PROVE  DifficultyTypeOK'
  <2> DEFINE t == [Ready EXCEPT !.pc = "read", !.delta = Delta(verdict, pace, hint)]
  <2>1. /\ signal' = [signal EXCEPT ![s] = t] /\ awaited' = s /\ sent' = sent + 1
        /\ sent < MaxSignals /\ UNCHANGED <<value, row>>
    BY <1>10 DEF SendSignal
  <2>2. t.pc = "read" /\ t.read = Ready.read
    BY DEF Ready
  <2>3. sent' \in 0..MaxSignals
    BY <1>2, <2>1 DEF DifficultyTypeOK
  <2> HIDE DEF t
  <2> QED
    BY <1>1, <1>3, <2>1, <2>2, <2>3 DEF DifficultyTypeOK
<1> QED
  BY <1>4, <1>5, <1>6, <1>7, <1>8, <1>9, <1>10 DEF DifficultyNext

\* what the judge's invariant says nothing of
JudgingBounds ==
  /\ mode \in Modes /\ Len(kept) <= MaxCases
  /\ summary \in {"pending", "AC", "WA", "RE", "TLE", "MLE", "CE"}

LEMMA SummaryIsAVerdict ==
  ASSUME NEW verdicts \in Seq(Verdicts) PROVE Summary(verdicts) \in Verdicts
<1> DEFINE bad == {i \in DOMAIN verdicts : verdicts[i] # "AC"}
<1>1. bad \in SUBSET Nat /\ bad \subseteq DOMAIN verdicts
  OBVIOUS
<1>2. bad # {} => Min(bad) \in bad
  BY <1>1, FirstOf
<1>3. bad # {} => verdicts[Min(bad)] \in Verdicts
  BY <1>1, <1>2
<1> QED
  BY <1>3 DEF Summary, Verdicts

LEMMA VerdictsAre ==
  ASSUME JudgingInv
  PROVE  /\ \A i \in DOMAIN results : results[i].verdict \in Verdicts
         /\ [i \in DOMAIN results |-> results[i].verdict] \in Seq(Verdicts)
<1>1. results \in Seq(Results)
  BY DEF JudgingInv
<1>2. \A r \in Results : r.verdict \in Verdicts
  BY DEF Results
<1>3. DOMAIN results = 1..Len(results) /\ Len(results) \in Nat
  BY <1>1
<1>4. \A i \in DOMAIN results : results[i].verdict \in Verdicts
  BY <1>1, <1>2, <1>3
<1> QED
  BY <1>3, <1>4

LEMMA JudgingBounded ==
  ASSUME JudgingInv, JudgingBounds, [JudgingNext]_judgingVars PROVE JudgingBounds'
<1>1. MaxCases \in Nat /\ Len(kept) \in Nat
  BY JudgingAssumption DEF JudgingInv
<1>2. CASE UNCHANGED judgingVars
  BY <1>2 DEF judgingVars, JudgingBounds
<1>3. ASSUME NEW ref, NEW bf, NEW e1, NEW e2, DiffCase(ref, bf, e1, e2) PROVE JudgingBounds'
  <2>1. Len(kept) < MaxCases /\ UNCHANGED <<mode, summary>> /\ \E x : kept' = Append(kept, x)
    BY <1>3 DEF DiffCase
  <2>2. Len(kept') = Len(kept) + 1
    BY <2>1 DEF JudgingInv
  <2> QED
    BY <1>1, <2>1, <2>2 DEF JudgingBounds
<1>4. CASE DiffFails
  BY <1>1, <1>4 DEF DiffFails, JudgingBounds
<1>5. CASE BeginLive
  BY <1>5 DEF BeginLive, JudgingBounds
<1>6. ASSUME NEW run, NEW event, JudgeCase(run, event) PROVE JudgingBounds'
  BY <1>6 DEF JudgeCase, JudgingBounds
<1>7. CASE JudgeBreaks
  BY <1>7 DEF JudgeBreaks, JudgingBounds
<1>8. CASE SendVerdict
  <2> DEFINE verdicts == [i \in DOMAIN results |-> results[i].verdict]
  <2>1. verdicts \in Seq(Verdicts)
    BY VerdictsAre
  <2>2. summary' \in Verdicts /\ UNCHANGED <<mode, kept>>
    BY <1>8, <2>1, SummaryIsAVerdict DEF SendVerdict
  <2> QED
    BY <2>2 DEF JudgingBounds, Verdicts
<1>9. CASE CompileFails
  BY <1>9 DEF CompileFails, JudgingBounds
<1> QED
  BY <1>2, <1>3, <1>4, <1>5, <1>6, <1>7, <1>8, <1>9 DEF JudgingNext

LEMMA JudgingTyped == JudgingInv /\ JudgingBounds => JudgingTypeOK
<1> SUFFICES ASSUME JudgingInv, JudgingBounds PROVE JudgingTypeOK
  OBVIOUS
<1>1. \A i \in DOMAIN kept : kept[i] \in KeptCases
  BY DEF JudgingInv
<1>2. \A x \in KeptCases : x.run \in Runs
  BY DEF KeptCases
<1>3. \A i \in DOMAIN results : results[i].verdict \in Verdicts
  BY VerdictsAre
<1>4. \A i \in DOMAIN kept : kept[i].run \in Runs
  BY <1>1, <1>2
<1> QED
  BY <1>3, <1>4 DEF JudgingInv, JudgingBounds, JudgingTypeOK, Verdicts

\* an edit was begun below the bound, and makes the version after the one it read
BlueprintBounds ==
  /\ Len(version) <= MaxVersions + 1 /\ published \subseteq Questions
  /\ \A e \in Editors : edit[e] <= MaxVersions

LEMMA BlueprintsBounded ==
  ASSUME BlueprintsInv, BlueprintBounds, [BlueprintsNext]_blueprintVars PROVE BlueprintBounds'
<1>1. /\ MaxVersions \in Nat /\ Len(version) \in Nat /\ current = Len(version)
      /\ edit \in [Editors -> 0..Len(version)]
  BY BlueprintsAssumption DEF BlueprintsInv
<1>2. CASE UNCHANGED blueprintVars
  BY <1>2 DEF blueprintVars, BlueprintBounds
<1>3. ASSUME NEW mix, NEW origin, Create(mix, origin) PROVE BlueprintBounds'
  <2>1. UNCHANGED <<edit, published>> /\ Len(version') = 1
    BY <1>3 DEF Create
  <2> QED
    BY <1>1, <2>1 DEF BlueprintBounds
<1>4. ASSUME NEW mix, NEW e \in Editors, CreateVersion(e, mix) PROVE BlueprintBounds'
  <2>1. /\ edit' = [edit EXCEPT ![e] = 0] /\ UNCHANGED published
        /\ edit[e] = Len(version) /\ \E x : version' = Append(version, x)
    BY <1>4 DEF CreateVersion, Replaces
  <2>2. Len(version') = Len(version) + 1
    BY <2>1 DEF BlueprintsInv
  <2> QED
    BY <1>1, <2>1, <2>2 DEF BlueprintBounds
<1>5. ASSUME NEW e \in Editors, ReadCurrent(e) \/ VersionClashes(e) PROVE BlueprintBounds'
  <2>1. /\ UNCHANGED <<version, published>>
        /\ \/ edit' = [edit EXCEPT ![e] = current] /\ Len(version) < MaxVersions
           \/ edit' = [edit EXCEPT ![e] = 0]
    BY <1>5 DEF ReadCurrent, VersionClashes
  <2> QED
    BY <1>1, <2>1 DEF BlueprintBounds
<1>6. ASSUME NEW q \in Questions, QuestionPublished(q) PROVE BlueprintBounds'
  BY <1>6 DEF QuestionPublished, BlueprintBounds
<1>7. ASSUME PinVersion \/ \E i : DrawEntry(i) \/ DrawFails(i) PROVE BlueprintBounds'
  BY <1>7 DEF PinVersion, DrawEntry, DrawFails, BlueprintBounds
<1> QED
  BY <1>2, <1>3, <1>4, <1>5, <1>6, <1>7
     DEF BlueprintsNext, CreateBlueprint, CreateProposed, CreateMocked

LEMMA BlueprintsTyped == BlueprintsInv /\ BlueprintBounds => BlueprintsTypeOK
<1> SUFFICES ASSUME BlueprintsInv, BlueprintBounds PROVE BlueprintsTypeOK
  OBVIOUS
<1> DEFINE Row == [mix : Proposals \cup {MockMix(f) : f \in Offers}, base : 0..MaxVersions,
                   origin : {"examiner", "model", "mock"}]
<1>1. /\ MaxVersions \in Nat /\ Len(version) \in Nat /\ Len(version) <= MaxVersions + 1
      /\ version \in Seq(Rows)
  BY BlueprintsAssumption DEF BlueprintsInv, BlueprintBounds
<1>2. ASSUME NEW n \in 1..Len(version) PROVE version[n] \in Row
  <2>1. version[n] \in Rows /\ version[n].base = n - 1
    BY <1>1 DEF BlueprintsInv
  <2>2. n - 1 \in 0..MaxVersions
    BY <1>1
  <2> QED
    BY <2>1, <2>2, Zenon DEF Rows
<1>3. version \in Seq(Row)
  <2> HIDE DEF Row
  <2> QED
    BY <1>1, <1>2
<1>4. \A i \in DOMAIN drawn : drawn[i] \subseteq published
  BY DEF BlueprintsInv, Pool
<1>5. {current, acked, pinned} \subseteq 0..Len(version)
  BY <1>1 DEF BlueprintsInv
<1> QED
  BY <1>1, <1>3, <1>4, <1>5 DEF BlueprintsInv, BlueprintBounds, BlueprintsTypeOK

(***************************************************************************)
(* A counter and the requests that are about to raise it come to no more   *)
(* than were sent.                                                         *)
(***************************************************************************)
Uncounted == {c \in Calls : call[c].pc = "count"}

GatewayBounds ==
  /\ asked \in 0..MaxCalls
  /\ \A k \in Counters : /\ key[k].n + Cardinality(Uncounted) <= asked
                         /\ key[k].until <= MaxTime + Window
  /\ \A c \in Calls : call[c].n <= asked

LEMMA GatewayStarts == GatewayInit => GatewayBounds
<1> SUFFICES ASSUME GatewayInit PROVE GatewayBounds
  OBVIOUS
<1>1. Uncounted = {} /\ \A c \in Calls : call[c].n = 0
  BY DEF GatewayInit, Uncounted, NoCall
<1>2. asked = 0 /\ \A k \in Counters : key[k].n = 0 /\ key[k].until = 0
  BY DEF GatewayInit, Counters
<1> QED
  BY <1>1, <1>2, FS_EmptySet, GatewayConstants DEF GatewayBounds

LEMMA GatewayBounded ==
  ASSUME GatewayInv, GatewayBounds, [GatewayNext]_gatewayVars PROVE GatewayBounds'
<1>1. /\ MaxTime \in Nat /\ MaxCalls \in Nat /\ Window \in Nat /\ now \in 0..MaxTime
      /\ key \in [Counters -> [n : Nat, until : Nat]] /\ call \in [Calls -> Requests]
      /\ asked \in Nat /\ asked <= MaxCalls
  BY GatewayConstants DEF GatewayInv, GatewayBounds
<1>2. \A c \in Calls : call[c].n \in Nat
  BY <1>1 DEF Requests
<1>3. \A S \in SUBSET Calls : Cardinality(S) \in Nat
  BY SetsOfCalls
<1>4. Uncounted \in SUBSET Calls /\ Uncounted' \in SUBSET Calls
  BY DEF Uncounted
<1>5. CASE UNCHANGED gatewayVars
  BY <1>5 DEF gatewayVars, GatewayBounds, Uncounted
\* steps that raise no counter and start no request
<1>6. ASSUME Uncounted' \subseteq Uncounted, asked' = asked,
             \A k \in Counters : key'[k].n \in {0, key[k].n} /\ key'[k].until <= MaxTime + Window,
             \A c \in Calls : call'[c].n \in {0, call[c].n}
      PROVE  GatewayBounds'
  <2>1. Cardinality(Uncounted') <= Cardinality(Uncounted)
    BY <1>4, <1>6, SetsOfCalls
  <2>2. Cardinality(Uncounted') \in Nat /\ Cardinality(Uncounted) \in Nat
    BY <1>3, <1>4
  <2>3. \A k \in Counters : key'[k].n + Cardinality(Uncounted') <= asked'
    BY <1>1, <1>6, <2>1, <2>2 DEF GatewayBounds
  <2>4. \A c \in Calls : call'[c].n <= asked'
    BY <1>1, <1>2, <1>6 DEF GatewayBounds
  <2> QED
    BY <1>1, <1>6, <2>3, <2>4 DEF GatewayBounds
<1>7. ASSUME NEW path, NEW plane, Handshake(path, plane) PROVE GatewayBounds'
  BY <1>7 DEF Handshake, GatewayBounds, Uncounted
<1>8. CASE Tick
  <2>1. UNCHANGED <<asked, call>> /\ Uncounted' = Uncounted
    BY <1>8 DEF Tick, Uncounted
  <2>2. \A k \in Counters : key'[k] = key[k] \/ key'[k] = [n |-> 0, until |-> 0]
    BY <1>1, <1>8 DEF Tick
  <2>3. \A k \in Counters : key'[k].n \in {0, key[k].n} /\ key'[k].until <= MaxTime + Window
    BY <1>1, <2>2 DEF GatewayBounds
  <2> QED
    BY <1>6, <2>1, <2>3
<1>9. ASSUME NEW c \in Calls, DecideCall(c) \/ CallDies(c) PROVE GatewayBounds'
  <2>1. call' = [call EXCEPT ![c] = NoCall] /\ UNCHANGED <<asked, key>>
    BY <1>9 DEF DecideCall, CallDies
  <2>2. NoCall.pc = "idle" /\ NoCall.n = 0
    BY DEF NoCall
  <2>3. Uncounted' \subseteq Uncounted /\ \A x \in Calls : call'[x].n \in {0, call[x].n}
    BY <1>1, <2>1, <2>2 DEF Uncounted
  <2> QED
    BY <1>6, <2>1, <2>3 DEF GatewayBounds
<1>10. ASSUME NEW c \in Calls, Expire(c) PROVE GatewayBounds'
  <2>1. PICK t : t = [call[c] EXCEPT !.pc = "decide"]
    OBVIOUS
  <2>2. t.pc = "decide" /\ t.n = call[c].n
    BY <1>1, <2>1 DEF Requests
  <2>3. call' = [call EXCEPT ![c] = t] /\ asked' = asked
    BY <1>1, <1>10, <2>1 DEF Expire
  <2>4. Uncounted' \subseteq Uncounted /\ \A x \in Calls : call'[x].n \in {0, call[x].n}
    BY <1>1, <2>2, <2>3 DEF Uncounted
  <2>5. \A k \in Counters : key'[k].n = key[k].n /\ key'[k].until \in {key[k].until, now + Window}
    BY <1>1, <1>10 DEF Expire
  <2>6. \A k \in Counters : key'[k].until <= MaxTime + Window
    BY <1>1, <2>5 DEF GatewayBounds
  <2> QED
    BY <1>6, <2>3, <2>4, <2>5, <2>6
<1>11. ASSUME NEW c \in Calls, Incr(c) PROVE GatewayBounds'
  <2>1. PICK k0 \in Counters : k0 = KeyOf(c)
    BY <1>11, OfAnIdentity DEF Incr
  <2>2. PICK n : n = key[k0].n + 1
    OBVIOUS
  <2>3. PICK t : t = [call[c] EXCEPT !.pc = IF n = 1 THEN "expire" ELSE "decide", !.n = n,
                                     !.late = (now \div Window) # call[c].bucket]
    OBVIOUS
  <2>4. t.pc # "count" /\ t.n = n
    BY <1>1, <2>3 DEF Requests
  <2>5. call' = [call EXCEPT ![c] = t] /\ asked' = asked /\ call[c].pc = "count"
    BY <1>1, <1>11, <2>1, <2>2, <2>3 DEF Incr
  <2>6. key' = [key EXCEPT ![k0] = [key[k0] EXCEPT !.n = n]]
    BY <1>1, <1>11, <2>1, <2>2 DEF Incr
  <2>7. Uncounted = Uncounted' \cup {c} /\ c \notin Uncounted'
    BY <1>1, <2>4, <2>5 DEF Uncounted
  <2>8. Cardinality(Uncounted) = Cardinality(Uncounted') + 1
    BY <1>4, <2>7, SetsOfCalls
  <2>9. Cardinality(Uncounted') \in Nat
    BY <1>3, <1>4
  <2>10. \A k \in Counters : key'[k].n \in {key[k].n, key[k].n + 1} /\ key'[k].until = key[k].until
    BY <1>1, <2>2, <2>6
  <2>11. \A k \in Counters : key'[k].n + Cardinality(Uncounted') <= asked
    BY <1>1, <2>8, <2>9, <2>10 DEF GatewayBounds
  <2>12. n <= asked
    BY <1>1, <2>1, <2>2, <2>8, <2>9 DEF GatewayBounds
  <2>13. \A x \in Calls : call'[x].n <= asked
    BY <1>1, <2>4, <2>5, <2>12 DEF GatewayBounds
  <2> QED
    BY <2>5, <2>10, <2>11, <2>13 DEF GatewayBounds
<1>12. ASSUME NEW c \in Calls, NEW path \in Paths, NEW plane \in Planes, Request(c, path, plane)
       PROVE  GatewayBounds'
  <2>1. PICK t : t = [NoCall EXCEPT !.pc = "count", !.path = path, !.plane = plane,
                                    !.bucket = now \div Window]
    OBVIOUS
  <2>2. t.pc = "count" /\ t.n = 0
    BY <2>1 DEF NoCall
  <2>3. call' = [call EXCEPT ![c] = t] /\ asked' = asked + 1 /\ asked < MaxCalls
        /\ call[c].pc = "idle" /\ key' = key
    BY <1>12, <2>1 DEF Request
  <2>4. Uncounted' = Uncounted \cup {c} /\ c \notin Uncounted
    BY <1>1, <2>2, <2>3 DEF Uncounted
  <2>5. Cardinality(Uncounted') = Cardinality(Uncounted) + 1
    BY <1>4, <2>4, SetsOfCalls
  <2>6. Cardinality(Uncounted) \in Nat
    BY <1>3, <1>4
  <2>7. \A k \in Counters : key'[k].n + Cardinality(Uncounted') <= asked'
    BY <1>1, <2>3, <2>5, <2>6 DEF GatewayBounds
  <2>8. \A x \in Calls : call'[x].n <= asked'
    BY <1>1, <1>2, <2>2, <2>3 DEF GatewayBounds
  <2> QED
    BY <1>1, <2>3, <2>7, <2>8 DEF GatewayBounds
<1> QED
  BY <1>5, <1>7, <1>8, <1>9, <1>10, <1>11, <1>12 DEF GatewayNext

LEMMA GatewayTyped == GatewayInv /\ GatewayBounds => GatewayTypeOK
<1> SUFFICES ASSUME GatewayInv, GatewayBounds PROVE GatewayTypeOK
  OBVIOUS
<1>1. /\ MaxTime \in Nat /\ MaxCalls \in Nat /\ Window \in Nat
      /\ key \in [Counters -> [n : Nat, until : Nat]] /\ call \in [Calls -> Requests]
      /\ asked \in Nat /\ asked <= MaxCalls
  BY GatewayConstants DEF GatewayInv, GatewayBounds
<1>2. Cardinality(Uncounted) \in Nat
  BY SetsOfCalls DEF Uncounted
<1>3. \A k \in Counters : key[k].n \in 0..MaxCalls /\ key[k].until \in 0..(MaxTime + Window)
  BY <1>1, <1>2 DEF GatewayBounds
<1>4. ASSUME NEW c \in Calls
      PROVE  /\ call[c].pc \in {"idle", "count", "expire", "decide"}
             /\ call[c].bucket \in Buckets /\ call[c].n \in 0..MaxCalls
  <2>1. call[c] \in Requests
    BY <1>1
  <2>2. /\ call[c].pc \in {"idle", "count", "expire", "decide"}
        /\ call[c].bucket \in Buckets /\ call[c].n \in Nat
    BY <2>1 DEF Requests
  <2> QED
    BY <1>1, <2>2 DEF GatewayBounds
<1> QED
  BY <1>1, <1>3, <1>4 DEF GatewayInv, GatewayBounds, GatewayTypeOK, Counters

MixBounds ==
  /\ Len(rows) <= MaxMix
  /\ posted \in [mix : Seq(MixRow), duration : Durations \cup {0}, texts : TextLengths]
  /\ answer \in {"none", "pending", "refused"}

LEMMA MixBounded ==
  ASSUME PageInv, MixBounds, [PageNext]_mixVars PROVE MixBounds'
<1>1. MaxMix \in Nat /\ MaxMix >= 1 /\ rows \in Seq(MixRow) /\ Len(rows) \in Nat
  BY PageAssumption DEF PageInv
<1>2. posted.mix \in Seq(MixRow) /\ posted.duration \in Durations \cup {0} /\ posted.texts \in TextLengths
  BY DEF MixBounds
<1>3. CASE UNCHANGED mixVars
  BY <1>3 DEF mixVars, MixBounds
<1>4. CASE AddTopic
  <2>1. Len(rows') = Len(rows) + 1 /\ Len(rows) < MaxMix /\ UNCHANGED <<posted, answer>>
    BY <1>1, <1>4 DEF AddTopic
  <2> QED
    BY <1>1, <2>1 DEF MixBounds
<1>5. ASSUME NEW i, RemoveTopic(i) PROVE MixBounds'
  <2>1. UNCHANGED <<posted, answer>> /\ i \in 1..Len(rows)
    BY <1>1, <1>5 DEF RemoveTopic
  <2>2. Len(rows') = Len(rows) - 1
    BY <1>1, <1>5, <2>1 DEF RemoveTopic
  <2> QED
    BY <1>1, <2>1, <2>2 DEF MixBounds
<1>6. ASSUME NEW i, UpdateRow(i) PROVE MixBounds'
  <2>1. UNCHANGED <<posted, answer>> /\ \E r : rows' = [rows EXCEPT ![i] = r]
    BY <1>6, Zenon DEF UpdateRow
  <2>2. Len(rows') = Len(rows)
    BY <1>1, <2>1
  <2> QED
    BY <1>1, <2>1, <2>2 DEF MixBounds
<1>7. CASE SubmitMix
  <2>1. PICK d \in Durations, texts \in TextLengths :
               posted' = [mix |-> rows, duration |-> d, texts |-> texts]
    BY <1>7 DEF SubmitMix
  <2> QED
    BY <1>1, <1>7, <2>1 DEF SubmitMix, MixBounds
<1>8. CASE MixStored
  <2>1. /\ posted' = [mix |-> <<>>, duration |-> 0, texts |-> "fit"] /\ <<>> \in Seq(MixRow)
        /\ "fit" \in TextLengths
    BY <1>8 DEF MixStored, NothingSent, TextLengths
  <2>2. Len(rows') = 1 /\ answer' = "none"
    BY <1>8 DEF MixStored
  <2> QED
    BY <1>1, <2>1, <2>2 DEF MixBounds
<1>9. CASE MixRefused
  <2>1. posted' = [posted EXCEPT !.mix = <<>>] /\ <<>> \in Seq(MixRow)
    BY <1>9 DEF MixRefused
  <2>2. posted' \in [mix : Seq(MixRow), duration : Durations \cup {0}, texts : TextLengths]
    BY <2>1 DEF MixBounds
  <2> QED
    BY <1>1, <1>9, <2>2 DEF MixRefused, MixBounds
<1> QED
  BY <1>3, <1>4, <1>5, <1>6, <1>7, <1>8, <1>9 DEF PageNext

LEMMA StreamTyped == StreamInv => StreamTypeOK
<1> SUFFICES ASSUME StreamInv PROVE StreamTypeOK
  OBVIOUS
<1>1. ASSUME NEW v \in Viewers PROVE ToSet(wire[v]) \subseteq DOMAIN log
  <2>1. CASE socket[v] = "subscribed"
    BY <2>1 DEF StreamInv, ViewerInv, Follows, PublishedTo
  <2>2. CASE socket[v] # "subscribed"
    BY <2>2 DEF StreamInv, ViewerInv, ToSet
  <2> QED
    BY <2>1, <2>2
<1>2. \A v \in Viewers : ToSet(wire[v]) \cup ToSet(got[v]) \cup missed[v] \subseteq DOMAIN log
  BY <1>1 DEF StreamInv, ViewerInv
<1> QED
  BY <1>2 DEF StreamInv, StreamTypes, StreamTypeOK, Work

LEMMA RoomTyped == RoomInv => RoomTypeOK
<1> SUFFICES ASSUME RoomInv PROVE RoomTypeOK
  OBVIOUS
<1>1. Cardinality(sending) <= 1
  <2>1. CASE sending = {}
    BY <2>1, FS_EmptySet
  <2>2. ASSUME NEW s, sending = {s} PROVE Cardinality(sending) <= 1
    <3>1. Cardinality({s}) = 1
      BY FS_Singleton, Zenon
    <3> QED
      BY <2>2, <3>1
  <2> QED
    BY <2>1, <2>2 DEF RoomInv, RoomTypes
<1>2. ASSUME NEW o \in Ordinals PROVE {loaded[o], fetch[o].read} \subseteq 0..assigned[o]
  BY DEF RoomInv, RoomTypes, ContentInv
<1> QED
  BY <1>1, <1>2 DEF RoomInv, RoomTypes, RoomTypeOK

LEMMA ScoringTyped == RecordsInv /\ ScanInv => ScoringTypeOK
<1> SUFFICES ASSUME RecordsInv, ScanInv PROVE ScoringTypeOK
  OBVIOUS
<1>1. Len(signals) <= 1
  <2>1. signals = <<>> \/ \E x : signals = <<x>>
    BY Zenon DEF RecordsInv
  <2>2. CASE signals = <<>>
    BY <2>2
  <2>3. ASSUME NEW x, signals = <<x>> PROVE Len(signals) <= 1
    <3>1. Len(<<x>>) = 1
      OBVIOUS
    <3> QED
      BY <2>3, <3>1
  <2> QED
    BY <2>1, <2>2, <2>3
<1>2. \A i \in DOMAIN records : records[i] \in Records
  BY DEF RecordsInv
<1>3. \A i \in DOMAIN blocks : blocks[i] \in Kinds
  BY DEF ScanInv
<1>4. {depth, loose} \subseteq 0..MaxText
  BY ScoringAssumption DEF ScanInv
<1> QED
  BY <1>1, <1>2, <1>3, <1>4 DEF ScoringTypeOK, Records, Kinds

LEMMA OthersTyped ==
  /\ TopicsInv => TopicsTypeOK
  /\ DraftingInv => DraftingTypeOK
  /\ PageInv /\ MixBounds => PageTypeOK
<1>1. TopicsInv => TopicsTypeOK
  BY DEF TopicsInv, TopicsTypeOK, Moves
<1>2. DraftingInv => DraftingTypeOK
  <2> SUFFICES ASSUME DraftingInv PROVE DraftingTypeOK
    OBVIOUS
  <2>1. task.tries \in 0..(MaxAttempts - 1) /\ task.status \in Statuses
    BY DEF DraftingInv, TaskRows
  <2>2. \A i \in DOMAIN spec : spec[i] \in InputVar
    BY DEF DraftingInv
  <2> QED
    BY <2>1, <2>2 DEF DraftingTypeOK, Statuses
<1>3. PageInv /\ MixBounds => PageTypeOK
  BY DEF PageInv, MixBounds, PageTypeOK
<1> QED
  BY <1>1, <1>2, <1>3

ServicesInv ==
  /\ StreamInv /\ AuthInv /\ TopicsInv /\ GatewayInv /\ GatewayBounds
  /\ BlueprintsInv /\ BlueprintBounds /\ DifficultyInv /\ DifficultyTypeOK
  /\ JudgingInv /\ JudgingBounds /\ DraftingInv /\ RoomInv /\ RecordsInv /\ ScanInv
  /\ SignUpInv /\ EditorInv /\ PageInv /\ MixBounds

LEMMA ServicesStart == SceneInit => ServicesInv
<1> SUFFICES ASSUME SceneInit PROVE ServicesInv
  OBVIOUS
<1>1. /\ StreamInv /\ AuthInv /\ TopicsInv /\ GatewayInv /\ GatewayBounds
      /\ BlueprintsInv /\ DifficultyInv /\ JudgingInv /\ DraftingInv /\ RoomInv
      /\ RecordsInv /\ ScanInv /\ SignUpInv /\ EditorInv /\ PageInv
  BY StreamStart, AuthStart, TopicsStart, GatewayStart, GatewayStarts, BlueprintsStart,
     DifficultyStart, JudgingStart, DraftingStart, RoomStart, RecordsStart, ScanStart,
     SignUpStart, EditorStart, PageStart DEF SceneInit
<1>2. BlueprintBounds
  <2>1. BlueprintsInit
    BY DEF SceneInit
  <2> QED
    BY <2>1, BlueprintsAssumption DEF BlueprintsInit, BlueprintBounds
<1>3. DifficultyTypeOK
  <2>1. DifficultyInit
    BY DEF SceneInit
  <2> QED
    BY <2>1, DifficultyAssumption
       DEF DifficultyInit, DifficultyTypeOK, Ready, DefaultDifficulty, Levels, MinDifficulty,
           MaxDifficulty
<1>4. JudgingBounds
  <2>1. JudgingInit
    BY DEF SceneInit
  <2> QED
    BY <2>1, JudgingAssumption DEF JudgingInit, JudgingBounds, Modes
<1>5. MixBounds
  <2>1. PageInit
    BY DEF SceneInit
  <2>2. <<>> \in Seq(MixRow)
    OBVIOUS
  <2> QED
    BY <2>1, <2>2, PageAssumption DEF PageInit, MixBounds, NothingSent, TextLengths
<1> QED
  BY <1>1, <1>2, <1>3, <1>4, <1>5 DEF ServicesInv

LEMMA ServicesStep ==
  ServicesInv /\ [SceneNext]_<<part, otherVars, consoleVars>> => ServicesInv'
<1> SUFFICES ASSUME ServicesInv, [SceneNext]_<<part, otherVars, consoleVars>> PROVE ServicesInv'
  OBVIOUS
<1>1. /\ [StreamNext]_streamVars /\ [AuthNext]_authVars /\ [TopicsNext]_topicVars
      /\ [GatewayNext]_gatewayVars /\ [BlueprintsNext]_blueprintVars
      /\ [DifficultyNext]_difficultyVars /\ [JudgingNext]_judgingVars
      /\ [DraftingNext]_draftVars /\ [RoomNext]_roomVars /\ [ScoringNext]_scoringVars
      /\ [SignUpNext]_signUpVars /\ [EditorNext]_editorVars /\ [PageNext]_mixVars
  BY DEF SceneNext, otherVars, consoleVars
<1>2. /\ StreamInv' /\ AuthInv' /\ TopicsInv' /\ GatewayInv' /\ BlueprintsInv' /\ DifficultyInv'
      /\ JudgingInv' /\ DraftingInv' /\ RoomInv' /\ RecordsInv' /\ ScanInv'
      /\ SignUpInv' /\ EditorInv' /\ PageInv'
  BY <1>1, StreamStep, AuthStep, TopicsStep, GatewayStep, BlueprintsStep, DifficultyStep,
     JudgingStep, DraftingStep, RoomStep, RecordsKept, ScanKept, SignUpStep, EditorStep, PageStep
     DEF ServicesInv
<1>3. /\ GatewayBounds' /\ BlueprintBounds' /\ DifficultyTypeOK' /\ JudgingBounds' /\ MixBounds'
  BY <1>1, GatewayBounded, BlueprintsBounded, DifficultyTyped, JudgingBounded, MixBounded
     DEF ServicesInv
<1> QED
  BY <1>2, <1>3 DEF ServicesInv

(***************************************************************************)
(* Every part keeps to its types and bounds.  What the types say that is   *)
(* not plain from an assignment: an event nobody was sent is never on a    *)
(* wire, the difficulty stays on its scale, no counter exceeds the         *)
(* requests, a version is based on an earlier one, and the page shows no   *)
(* version that was not assigned.                                          *)
(***************************************************************************)
THEOREM TypesAreKept == SceneSpec => []TypeOK
<1>1. ServicesInv => TypeOK
  BY StreamTyped, RoomTyped, ScoringTyped, OthersTyped, GatewayTyped, BlueprintsTyped, JudgingTyped
     DEF ServicesInv, TypeOK, AuthInv, SignUpInv, EditorInv
<1> QED
  BY <1>1, ServicesStart, ServicesStep, PTL DEF SceneSpec
=============================================================================
