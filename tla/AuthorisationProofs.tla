------------------------- MODULE AuthorisationProofs ------------------------
(***************************************************************************)
(* No session of a listener is announced as open without the application's *)
(* acceptance, and no listener has more routes than permits, for any       *)
(* number of calls, connections, stops and permits.                        *)
(***************************************************************************)
EXTENDS PendingProofs

Notice == {"AuthRequest", "SessionOpened", "JoinFailed", "SessionClosed"}

NeverOpened(s) == \A i \in DOMAIN notices[s] : notices[s][i] # "SessionOpened"

\* A task gets past the decision only by an acceptance, which stays; a
\* connection that was not admitted has neither a task nor a history.
Authorised ==
  /\ notices \in [Sessions -> Seq(Notice)]
  /\ auth \in [Sessions -> {None, "waiting", "accepted", "rejected", "expired"}]
  /\ \A s \in Connections : task[s] \in {"mark", "open", "running"} => auth[s] = "accepted"
  /\ \A s \in Connections : NeverOpened(s) \/ auth[s] = "accepted"
  /\ \A s \in Connections : home[s] = None => task[s] = None /\ NeverOpened(s)

\* A permit is released when the task ends.  While the listener runs, its task
\* ends only with the route, so the tasks it counts cover its routes.
Permitted ==
  /\ \A s \in sessions \cap Connections : task[s] = "ended" => owner[home[s]] = "ended"
  /\ \A c \in Calls : accepting[c] # {} => owner[c] = "running"
  /\ \A c \in Calls : Cardinality(OfEndpoint(c) \cap Connections) <= MaxSessions

OpenInv == Authorised /\ Permitted

\* Nothing is open or admitted at first.
LEMMA OpenInit == Init => OpenInv
<1> SUFFICES ASSUME Init PROVE OpenInv
  OBVIOUS
<1>1. Authorised
  <2>1. \A s \in Sessions : notices[s] = << >> /\ task[s] = None /\ auth[s] = None
    BY DEF Init, Sessions
  <2>2. \A s \in Sessions : NeverOpened(s)
    BY <2>1 DEF NeverOpened
  <2>3. notices \in [Sessions -> Seq(Notice)]
    BY DEF Init
  <2> QED
    BY <2>1, <2>2, <2>3 DEF Init, Authorised, Sessions, None
<1>2. \A c \in Calls : OfEndpoint(c) \cap Connections = {}
  BY DEF Init, OfEndpoint
<1>3. \A c \in Calls : Cardinality(OfEndpoint(c) \cap Connections) <= MaxSessions
  BY <1>2, FS_EmptySet, RegistryAssumption
<1>4. Permitted
  BY <1>3 DEF Init, Permitted
<1> QED
  BY <1>1, <1>4 DEF OpenInv

\* Publishing events of other kinds opens nothing.
LEMMA OtherEvents ==
  ASSUME Authorised, NEW S, NEW events \in Seq(Notice), Notify(S, events),
         \A i \in DOMAIN events : events[i] # "SessionOpened"
  PROVE  /\ notices' \in [Sessions -> Seq(Notice)]
         /\ \A s \in Sessions : NeverOpened(s) => NeverOpened(s)'
<1>1. ASSUME NEW s \in Sessions
  PROVE  /\ notices[s] \o events \in Seq(Notice)
         /\ NeverOpened(s) => \A i \in DOMAIN (notices[s] \o events) :
                                (notices[s] \o events)[i] # "SessionOpened"
  BY DEF Authorised, NeverOpened
<1>2. \A s \in Sessions : notices'[s] = IF s \in S THEN notices[s] \o events ELSE notices[s]
  BY DEF Notify
<1>3. notices' \in [Sessions -> Seq(Notice)]
  BY <1>1 DEF Notify, Authorised
<1> QED
  BY <1>1, <1>2, <1>3 DEF NeverOpened

\* Closing a session is such a step, whoever it is that closes.
LEMMA CloseOpensNothing ==
  ASSUME Authorised, NEW s, NEW joining, Close(s, joining)
  PROVE  /\ notices' \in [Sessions -> Seq(Notice)]
         /\ \A t \in Sessions : NeverOpened(t) => NeverOpened(t)'
<1>1. /\ <<"SessionClosed">> \in Seq(Notice) /\ <<"JoinFailed", "SessionClosed">> \in Seq(Notice)
      /\ \A i \in DOMAIN <<"SessionClosed">> : <<"SessionClosed">>[i] # "SessionOpened"
      /\ \A i \in DOMAIN <<"JoinFailed", "SessionClosed">> :
           <<"JoinFailed", "SessionClosed">>[i] # "SessionOpened"
  BY DEF Notice
<1> QED
  BY <1>1, OtherEvents DEF Close

\* Steps that decide nothing and take no task past the decision.
LEMMA AuthorisedKept ==
  ASSUME Authorised, UNCHANGED auth, notices' \in [Sessions -> Seq(Notice)],
         \A s \in Sessions : NeverOpened(s) => NeverOpened(s)',
         \A s \in Connections : home'[s] = home[s],
         \A s \in Connections : \/ task'[s] = task[s]
                                \/ task[s] # None /\ task'[s] \notin {"mark", "open", "running"}
                                \/ task[s] # None /\ auth[s] = "accepted"
  PROVE  Authorised'
<1>1. \A s \in Connections : s \in Sessions
  BY DEF Sessions
<1>2. \A s \in Connections : task'[s] \in {"mark", "open", "running"} => auth'[s] = "accepted"
  BY DEF Authorised
<1>3. \A s \in Connections : NeverOpened(s)' \/ auth'[s] = "accepted"
  BY <1>1 DEF Authorised
<1>4. \A s \in Connections : home'[s] = None => task'[s] = None /\ NeverOpened(s)'
  BY <1>1 DEF Authorised, None
<1>5. auth' \in [Sessions -> {None, "waiting", "accepted", "rejected", "expired"}]
  BY DEF Authorised
<1> QED
  BY <1>2, <1>3, <1>4, <1>5 DEF Authorised

\* Steps that admit nothing and end a task only with its route or after its listener.
LEMMA PermittedKept ==
  ASSUME Permitted, sessions \subseteq Sessions, sessions' \cap Connections \subseteq sessions,
         \A s \in Connections : home'[s] = home[s],
         \A c \in Calls : owner[c] = "ended" => owner'[c] = "ended",
         \A c \in Calls : accepting'[c] # {} => owner'[c] = "running",
         \A s \in sessions' \cap Connections :
           task'[s] = "ended" => task[s] = "ended" \/ owner'[home[s]] = "ended",
         \A s \in sessions \cap Connections : home[s] \in Calls
  PROVE  Permitted'
<1>1. ASSUME NEW c \in Calls
  PROVE  Cardinality(OfEndpoint(c)' \cap Connections) <= MaxSessions
  <2>1. OfEndpoint(c)' \cap Connections \subseteq OfEndpoint(c) \cap Connections
    BY DEF OfEndpoint
  <2>2. OfEndpoint(c) \cap Connections \subseteq Sessions
    BY DEF OfEndpoint
  <2>3. /\ IsFiniteSet(OfEndpoint(c) \cap Connections)
        /\ Cardinality(OfEndpoint(c) \cap Connections) \in Nat
    BY <2>2, CountedFinite
  <2>4. /\ Cardinality(OfEndpoint(c)' \cap Connections) <= Cardinality(OfEndpoint(c) \cap Connections)
        /\ Cardinality(OfEndpoint(c)' \cap Connections) \in Nat
    BY <2>1, <2>3, FS_Subset, FS_CardinalityType
  <2> QED
    BY <2>3, <2>4, RegistryAssumption DEF Permitted
<1>2. \A s \in sessions' \cap Connections : task'[s] = "ended" => owner'[home'[s]] = "ended"
  BY DEF Permitted
<1> QED
  BY <1>1, <1>2 DEF Permitted

\* What the steps below use of the earlier invariants.
LEMMA OpenContext ==
  ASSUME OwnInv, CountInv, OpenInv
  PROVE  /\ Shape /\ Origins /\ Fresh /\ Authorised /\ Permitted
         /\ sessions \subseteq Sessions /\ Calls \cap Connections = {} /\ None \notin Calls
         /\ \A s \in Connections : s \in Sessions
         /\ \A s \in sessions \cap Connections : home[s] \in Calls
BY RegistryAssumption DEF OwnInv, CountInv, OpenInv, Shape, Origins, Sessions, None

\* Steps that change neither tasks nor decisions nor the history.
LEMMA OpenQuiet ==
  ASSUME OwnInv, CountInv, OpenInv, sessions' \subseteq sessions,
         UNCHANGED <<home, owner, accepting, task, auth, notices>>
  PROVE  OpenInv'
<1>1. Authorised'
  BY OpenContext DEF Authorised, NeverOpened
<1>2. Permitted'
  BY OpenContext, PermittedKept DEF Permitted
<1> QED
  BY <1>1, <1>2 DEF OpenInv

\* Closing routes and publishing their closure.
LEMMA OpenCloses ==
  ASSUME OwnInv, CountInv, OpenInv, sessions' \subseteq sessions, NEW S,
         Notify(S, <<"SessionClosed">>), UNCHANGED <<home, owner, accepting, task, auth>>
  PROVE  OpenInv'
<1>1. /\ <<"SessionClosed">> \in Seq(Notice)
      /\ \A i \in DOMAIN <<"SessionClosed">> : <<"SessionClosed">>[i] # "SessionOpened"
  BY DEF Notice
<1>2. Authorised'
  BY <1>1, OpenContext, OtherEvents, AuthorisedKept
<1>3. Permitted'
  BY OpenContext, PermittedKept DEF Permitted
<1> QED
  BY <1>2, <1>3 DEF OpenInv

\* A task that fails takes its route with it, if it is a listener's.
LEMMA OpenFails ==
  ASSUME OwnInv, CountInv, OpenInv, NEW s \in Sessions, task[s] # None, FailSession(s),
         UNCHANGED <<home, owner, accepting, auth>>
  PROVE  OpenInv'
<1>1. task'[s] = "ended" /\ \A t \in Sessions : t # s => task'[t] = task[t]
  BY OpenContext DEF FailSession, Shape
<1>2. /\ notices' \in [Sessions -> Seq(Notice)]
      /\ \A t \in Sessions : NeverOpened(t) => NeverOpened(t)'
  <2>1. CASE UNCHANGED notices
    BY <2>1, OpenContext DEF Authorised, NeverOpened
  <2>2. CASE Close(s, TRUE)
    BY <2>2, OpenContext, CloseOpensNothing
  <2> QED
    BY <2>1, <2>2 DEF FailSession
<1>3. sessions' \subseteq sessions /\ (s \in Connections => s \notin sessions')
  BY DEF FailSession, Close, Remove
<1>4. Authorised'
  BY <1>1, <1>2, OpenContext, AuthorisedKept
<1>5. \A t \in sessions' \cap Connections : task'[t] = "ended" => task[t] = "ended"
  BY <1>1, <1>3, OpenContext
<1>6. Permitted'
  BY <1>3, <1>5, OpenContext, PermittedKept DEF Permitted
<1> QED
  BY <1>4, <1>6 DEF OpenInv

\* A task past the decision was accepted; a running listener has no route whose task ended.
LEMMA OpenInvStep == OwnInv /\ CountInv /\ OpenInv /\ [Next]_vars => OpenInv'
<1> SUFFICES ASSUME OwnInv, CountInv, OpenInv, [Next]_vars PROVE OpenInv'
  OBVIOUS
<1>0. /\ Shape /\ Origins /\ Fresh /\ Authorised /\ Permitted
      /\ sessions \subseteq Sessions /\ Calls \cap Connections = {} /\ None \notin Calls
      /\ \A s \in Connections : s \in Sessions
      /\ \A s \in sessions \cap Connections : home[s] \in Calls
  BY OpenContext
<1>1. ASSUME NEW c \in Calls, NEW kind \in Kinds, Open(c, kind)
  PROVE OpenInv'
  BY <1>1, OpenQuiet DEF Open
<1>2. ASSUME NEW c \in Calls, InsertEndpoint(c)
  PROVE OpenInv'
  BY <1>2, OpenQuiet DEF InsertEndpoint
<1>3. ASSUME NEW c \in Calls, InsertRoute(c)
  PROVE OpenInv'
  <2>1. UNCHANGED <<owner, accepting, task, auth, notices>>
    BY <1>3 DEF InsertRoute
  <2>2. sessions' \cap Connections \subseteq sessions /\ \A s \in Connections : home'[s] = home[s]
    BY <1>3, <1>0 DEF InsertRoute, Shape
  <2>3. Authorised'
    BY <1>0, <2>1, <2>2, AuthorisedKept DEF Authorised, NeverOpened
  <2>4. Permitted'
    BY <1>0, <2>1, <2>2, PermittedKept DEF Permitted
  <2> QED
    BY <2>3, <2>4 DEF OpenInv
<1>4. ASSUME NEW c \in Calls, AnnounceEndpoint(c)
  PROVE OpenInv'
  BY <1>4, OpenQuiet DEF AnnounceEndpoint, Remove
<1>5. ASSUME NEW c \in Calls, Register(c)
  PROVE OpenInv'
  <2>1. UNCHANGED <<home, sessions, accepting, auth, notices>>
    BY <1>5 DEF Register
  <2>2. \A s \in Connections : task'[s] = task[s]
    BY <1>5, <1>0 DEF Register, Shape
  <2>3. owner[c] = None /\ accepting[c] = {}
    BY <1>5, <1>0 DEF Register, Origins, Opened
  <2>4. \A d \in Calls : d # c => owner'[d] = owner[d]
    BY <1>5, <1>0 DEF Register, Shape
  <2>5. Authorised'
    BY <1>0, <2>1, <2>2, AuthorisedKept DEF Authorised, NeverOpened
  <2>6. Permitted'
    BY <1>0, <2>1, <2>2, <2>3, <2>4, PermittedKept DEF Permitted, None
  <2> QED
    BY <2>5, <2>6 DEF OpenInv
<1>6. ASSUME NEW c \in Calls, NEW n \in Connections, Accept(c, n)
  PROVE OpenInv'
  <2>1. UNCHANGED <<home, sessions, owner, task, auth, notices>> /\ owner[c] = "running"
    BY <1>6 DEF Accept, Listening
  <2>2. \A d \in Calls : d # c => accepting'[d] = accepting[d]
    BY <1>6, <1>0 DEF Accept, Shape
  <2>3. Authorised'
    BY <1>0, <2>1 DEF Authorised, NeverOpened
  <2>4. Permitted'
    BY <1>0, <2>1, <2>2, PermittedKept DEF Permitted
  <2> QED
    BY <2>3, <2>4 DEF OpenInv
<1>7. ASSUME NEW c \in Calls, NEW n \in Connections, Admit(c, n)
  PROVE OpenInv'
  <2>0. /\ owner[c] = "running" /\ home[n] = None /\ n \notin sessions /\ n \in Sessions
        /\ accepting'[c] = {} /\ \A d \in Calls : d # c => accepting'[d] = accepting[d]
    BY <1>7, <1>0 DEF Admit, Permitted, Fresh, Shape
  <2>1. CASE c \in endpoints /\ HasPermit(c) /\ pending < MaxPending
    <3>1. /\ sessions' = sessions \cup {n} /\ UNCHANGED <<owner, notices>>
          /\ home'[n] = c /\ auth'[n] = "waiting" /\ task'[n] = "handshake"
          /\ \A s \in Sessions : s # n => /\ home'[s] = home[s] /\ auth'[s] = auth[s]
                                         /\ task'[s] = task[s]
      BY <1>7, <1>0, <2>0, <2>1 DEF Admit, Shape, Authorised
    <3>2. auth' \in [Sessions -> {None, "waiting", "accepted", "rejected", "expired"}]
      BY <1>7, <1>0, <2>1 DEF Admit, Authorised
    <3>3. NeverOpened(n) /\ \A s \in Sessions : NeverOpened(s) => NeverOpened(s)'
      BY <1>0, <2>0, <3>1 DEF Authorised, NeverOpened
    <3>4. Authorised'
      <4>1. notices' \in [Sessions -> Seq(Notice)]
        BY <1>0, <3>1 DEF Authorised
      <4>2. ASSUME NEW s \in Connections
        PROVE  /\ task'[s] \in {"mark", "open", "running"} => auth'[s] = "accepted"
               /\ NeverOpened(s)' \/ auth'[s] = "accepted"
               /\ home'[s] = None => task'[s] = None /\ NeverOpened(s)'
        <5>1. CASE s = n
          BY <5>1, <1>0, <3>1, <3>3
        <5>2. CASE s # n
          BY <5>2, <1>0, <3>1, <3>3 DEF Authorised
        <5> QED
          BY <5>1, <5>2
      <4> QED
        BY <3>2, <4>1, <4>2 DEF Authorised
    <3>5. ASSUME NEW d \in Calls, d # c
      PROVE  Cardinality(OfEndpoint(d)' \cap Connections) <= MaxSessions
      <4>1. OfEndpoint(d)' \cap Connections = OfEndpoint(d) \cap Connections
        BY <1>0, <2>0, <3>1, <3>5 DEF OfEndpoint
      <4> QED
        BY <1>0, <4>1 DEF Permitted
    <3>6. Cardinality(OfEndpoint(c)' \cap Connections) <= MaxSessions
      <4> DEFINE routes == OfEndpoint(c) \cap Connections
                 held == {s \in Connections : home[s] = c /\ task[s] # "ended"}
      <4>1. routes \subseteq held /\ held \subseteq Sessions /\ n \notin routes
        BY <1>0, <2>0 DEF OfEndpoint, Permitted
      <4>2. OfEndpoint(c)' \cap Connections = routes \cup {n}
        BY <1>0, <2>0, <3>1 DEF OfEndpoint
      <4>3. Cardinality(held) < MaxSessions
        BY <2>1 DEF HasPermit
      <4> HIDE DEF routes, held
      <4>4. /\ IsFiniteSet(held) /\ Cardinality(held) \in Nat /\ Cardinality(routes) \in Nat
            /\ routes \subseteq Sessions
        BY <4>1, CountedFinite
      <4>5. Cardinality(routes) <= Cardinality(held)
        BY <4>1, <4>4, FS_Subset
      <4>6. Cardinality(OfEndpoint(c)' \cap Connections) = Cardinality(routes) + 1
        BY <4>1, <4>2, <4>4, CountMore, Zenon
      <4> QED
        BY <4>3, <4>4, <4>5, <4>6, RegistryAssumption
    <3>7. \A s \in sessions' \cap Connections : task'[s] = "ended" => owner'[home'[s]] = "ended"
      BY <1>0, <3>1 DEF Permitted
    <3>8. \A d \in Calls : accepting'[d] # {} => owner'[d] = "running"
      BY <1>0, <2>0, <3>1 DEF Permitted
    <3>9. Permitted'
      BY <3>5, <3>6, <3>7, <3>8 DEF Permitted
    <3> QED
      BY <3>4, <3>9 DEF OpenInv
  <2>2. CASE ~(c \in endpoints /\ HasPermit(c) /\ pending < MaxPending)
    <3>1. UNCHANGED <<sessions, home, auth, task, notices>>
      BY <1>7, <2>2 DEF Admit
    <3>2. \A d \in Calls : d # c => owner'[d] = owner[d]
      BY <1>7, <1>0, <2>2 DEF Admit, Shape
    <3>3. Authorised'
      BY <1>0, <3>1 DEF Authorised, NeverOpened
    <3>4. Permitted'
      BY <1>0, <2>0, <3>1, <3>2, PermittedKept DEF Permitted
    <3> QED
      BY <3>3, <3>4 DEF OpenInv
  <2> QED
    BY <2>1, <2>2
<1>8. ASSUME NEW c \in Calls, AcceptFails(c)
  PROVE OpenInv'
  <2>1. /\ UNCHANGED <<accepting, home, auth, task>> /\ sessions' \subseteq sessions
        /\ accepting[c] = {} /\ owner' = [owner EXCEPT ![c] = "ended"]
    BY <1>8 DEF AcceptFails, Remove
  <2>2. /\ <<"SessionClosed">> \in Seq(Notice)
        /\ \A i \in DOMAIN <<"SessionClosed">> : <<"SessionClosed">>[i] # "SessionOpened"
    BY DEF Notice
  <2>3. /\ notices' \in [Sessions -> Seq(Notice)]
        /\ \A s \in Sessions : NeverOpened(s) => NeverOpened(s)'
    <3>1. CASE UNCHANGED notices
      BY <1>0, <3>1 DEF Authorised, NeverOpened
    <3>2. CASE Notify(OfEndpoint(c), <<"SessionClosed">>)
      BY <1>0, <2>2, <3>2, OtherEvents
    <3> QED
      BY <1>8, <3>1, <3>2 DEF AcceptFails
  <2>4. Authorised'
    BY <1>0, <2>1, <2>3, AuthorisedKept
  <2>5. owner'[c] = "ended" /\ \A d \in Calls : d # c => owner'[d] = owner[d]
    BY <1>0, <2>1 DEF Shape
  <2>6. Permitted'
    BY <1>0, <2>1, <2>5, PermittedKept DEF Permitted
  <2> QED
    BY <2>4, <2>6 DEF OpenInv
<1>9. ASSUME NEW c \in Calls, ListenerAborted(c)
  PROVE OpenInv'
  <2>1. UNCHANGED <<accepting, home, auth, task, sessions, notices>> /\ accepting[c] = {}
    BY <1>9 DEF ListenerAborted
  <2>2. owner'[c] = "ended" /\ \A d \in Calls : d # c => owner'[d] = owner[d]
    BY <1>9, <1>0 DEF ListenerAborted, Shape
  <2>3. Authorised'
    BY <1>0, <2>1 DEF Authorised, NeverOpened
  <2>4. Permitted'
    BY <1>0, <2>1, <2>2, PermittedKept DEF Permitted
  <2> QED
    BY <2>3, <2>4 DEF OpenInv
<1>10. ASSUME NEW s \in Sessions, Handshake(s)
  PROVE OpenInv'
  <2>1. /\ UNCHANGED <<home, owner, accepting, auth, sessions, notices>> /\ task[s] = "handshake"
        /\ task'[s] = (IF s \in Connections THEN "request" ELSE "mark")
        /\ \A t \in Sessions : t # s => task'[t] = task[t]
    BY <1>10, <1>0 DEF Handshake, Shape
  <2>2. Authorised'
    BY <1>0, <2>1, AuthorisedKept DEF Authorised, NeverOpened, None
  <2>3. Permitted'
    BY <1>0, <2>1, PermittedKept DEF Permitted
  <2> QED
    BY <2>2, <2>3 DEF OpenInv
<1>11. ASSUME NEW s \in Sessions, HandshakeFails(s)
  PROVE OpenInv'
  BY <1>11, OpenFails DEF HandshakeFails, None
<1>12. ASSUME NEW s \in Sessions, RequestAuth(s)
  PROVE OpenInv'
  <2>1. /\ UNCHANGED <<home, owner, accepting, auth, sessions>> /\ task[s] = "request"
        /\ task'[s] = "deciding" /\ \A t \in Sessions : t # s => task'[t] = task[t]
    BY <1>12, <1>0 DEF RequestAuth, Shape
  <2>2. /\ <<"AuthRequest">> \in Seq(Notice)
        /\ \A i \in DOMAIN <<"AuthRequest">> : <<"AuthRequest">>[i] # "SessionOpened"
    BY DEF Notice
  <2>3. /\ notices' \in [Sessions -> Seq(Notice)]
        /\ \A t \in Sessions : NeverOpened(t) => NeverOpened(t)'
    <3>1. CASE UNCHANGED notices
      BY <1>0, <3>1 DEF Authorised, NeverOpened
    <3>2. CASE Notify({s}, <<"AuthRequest">>)
      BY <1>0, <2>2, <3>2, OtherEvents
    <3> QED
      BY <1>12, <3>1, <3>2 DEF RequestAuth, PushEvent
  <2>4. Authorised'
    BY <1>0, <2>1, <2>3, AuthorisedKept DEF None
  <2>5. Permitted'
    BY <1>0, <2>1, PermittedKept DEF Permitted
  <2> QED
    BY <2>4, <2>5 DEF OpenInv
<1>13. ASSUME NEW s \in Sessions, Decided(s)
  PROVE OpenInv'
  <2>1. CASE /\ auth[s] = "accepted" /\ task' = [task EXCEPT ![s] = "mark"]
             /\ UNCHANGED <<sessions, notices>>
    <3>1. /\ UNCHANGED <<home, owner, accepting, auth, sessions, notices>> /\ task[s] = "deciding"
          /\ task'[s] = "mark" /\ \A t \in Sessions : t # s => task'[t] = task[t]
      BY <1>13, <1>0, <2>1 DEF Decided, Shape
    <3>2. Authorised'
      BY <1>0, <2>1, <3>1, AuthorisedKept DEF Authorised, NeverOpened, None
    <3>3. Permitted'
      BY <1>0, <3>1, PermittedKept DEF Permitted
    <3> QED
      BY <3>2, <3>3 DEF OpenInv
  <2>2. CASE FailSession(s)
    BY <1>13, <2>2, OpenFails DEF Decided, None
  <2> QED
    BY <1>13, <2>1, <2>2 DEF Decided
<1>14. ASSUME NEW s \in Sessions, MarkEstablished(s)
  PROVE OpenInv'
  <2>1. CASE s \in sessions
    <3>1. /\ UNCHANGED <<home, owner, accepting, auth, sessions, notices>> /\ task[s] = "mark"
          /\ task'[s] = "open" /\ \A t \in Sessions : t # s => task'[t] = task[t]
      BY <1>14, <1>0, <2>1 DEF MarkEstablished, Shape
    <3>2. s \in Connections => auth[s] = "accepted"
      BY <1>0, <3>1 DEF Authorised
    <3>3. Authorised'
      BY <1>0, <3>1, <3>2, AuthorisedKept DEF Authorised, NeverOpened, None
    <3>4. Permitted'
      BY <1>0, <3>1, PermittedKept DEF Permitted
    <3> QED
      BY <3>3, <3>4 DEF OpenInv
  <2>2. CASE s \notin sessions
    BY <1>14, <2>2, OpenFails DEF MarkEstablished, None
  <2> QED
    BY <2>1, <2>2
<1>15. ASSUME NEW s \in Sessions, SessionOpened(s)
  PROVE OpenInv'
  <2>1. /\ UNCHANGED <<home, owner, accepting, auth, sessions>> /\ task[s] = "open"
        /\ task'[s] = "running" /\ \A t \in Sessions : t # s => task'[t] = task[t]
    BY <1>15, <1>0 DEF SessionOpened, Shape
  <2>2. s \in Connections => auth[s] = "accepted" /\ home[s] # None
    BY <1>0, <2>1 DEF Authorised, None
  <2>3. /\ notices' \in [Sessions -> Seq(Notice)]
        /\ \A t \in Sessions : t # s => notices'[t] = notices[t]
    <3>1. CASE UNCHANGED notices
      BY <1>0, <3>1 DEF Authorised
    <3>2. CASE Notify({s}, <<"SessionOpened">>)
      <4>1. \A t \in Sessions : notices[t] \o <<"SessionOpened">> \in Seq(Notice)
        BY <1>0 DEF Authorised, Notice
      <4> QED
        BY <1>0, <3>2, <4>1 DEF Authorised, Notify
    <3> QED
      BY <1>15, <3>1, <3>2 DEF SessionOpened, PushEvent
  <2>4. \A t \in Sessions : t # s /\ NeverOpened(t) => NeverOpened(t)'
    BY <2>3 DEF NeverOpened
  <2>5. ASSUME NEW t \in Connections
    PROVE  /\ task'[t] \in {"mark", "open", "running"} => auth'[t] = "accepted"
           /\ NeverOpened(t)' \/ auth'[t] = "accepted"
           /\ home'[t] = None => task'[t] = None /\ NeverOpened(t)'
    <3>1. CASE t = s
      BY <2>1, <2>2, <3>1
    <3>2. CASE t # s
      BY <1>0, <2>1, <2>4, <3>2 DEF Authorised
    <3> QED
      BY <3>1, <3>2
  <2>6. Authorised'
    BY <1>0, <2>1, <2>3, <2>5 DEF Authorised
  <2>7. Permitted'
    BY <1>0, <2>1, PermittedKept DEF Permitted
  <2> QED
    BY <2>6, <2>7 DEF OpenInv
<1>16. ASSUME NEW s \in Sessions, TaskAborted(s)
  PROVE OpenInv'
  <2>1. /\ UNCHANGED <<home, owner, accepting, auth, sessions, notices>> /\ task[s] # None
        /\ task'[s] = "ended" /\ \A t \in Sessions : t # s => task'[t] = task[t]
        /\ s \in Connections => owner[home[s]] = "ended"
    BY <1>16, <1>0 DEF TaskAborted, Shape, None
  <2>2. Authorised'
    BY <1>0, <2>1, AuthorisedKept DEF Authorised, NeverOpened
  <2>3. Permitted'
    BY <1>0, <2>1, PermittedKept DEF Permitted
  <2> QED
    BY <2>2, <2>3 DEF OpenInv
<1>17. ASSUME NEW s \in Sessions, SessionEnds(s)
  PROVE OpenInv'
  <2>1. /\ UNCHANGED <<home, owner, accepting, auth>> /\ task[s] # None
        /\ task'[s] = "ended" /\ \A t \in Sessions : t # s => task'[t] = task[t]
        /\ sessions' = sessions \ {s}
    BY <1>17, <1>0 DEF SessionEnds, Shape, None, Close, Remove
  <2>2. /\ notices' \in [Sessions -> Seq(Notice)]
        /\ \A t \in Sessions : NeverOpened(t) => NeverOpened(t)'
    BY <1>17, <1>0, CloseOpensNothing DEF SessionEnds
  <2>3. Authorised'
    BY <1>0, <2>1, <2>2, AuthorisedKept
  <2>4. Permitted'
    BY <1>0, <2>1, PermittedKept DEF Permitted
  <2> QED
    BY <2>3, <2>4 DEF OpenInv
<1>18. ASSUME NEW s \in Sessions, CloseSession(s)
  PROVE OpenInv'
  BY <1>18, OpenQuiet DEF CloseSession
<1>19. ASSUME NEW s \in Sessions, SettleClose(s)
  PROVE OpenInv'
  BY <1>19, OpenCloses DEF SettleClose
<1>20. ASSUME NEW s \in Sessions, NEW decision \in {"accepted", "rejected"}, AuthDecide(s, decision)
  PROVE OpenInv'
  <2>1. /\ UNCHANGED <<home, owner, accepting, task, sessions, notices>> /\ auth[s] = "waiting"
        /\ \A t \in Sessions : t # s => auth'[t] = auth[t]
        /\ auth' \in [Sessions -> {None, "waiting", "accepted", "rejected", "expired"}]
    BY <1>20, <1>0 DEF AuthDecide, Authorised
  <2>2. s \in Connections => task[s] \notin {"mark", "open", "running"} /\ NeverOpened(s)
    BY <1>0, <2>1 DEF Authorised
  <2>3. \A t \in Sessions : NeverOpened(t) => NeverOpened(t)'
    BY <2>1 DEF NeverOpened
  <2>4. Authorised'
    BY <1>0, <2>1, <2>2, <2>3 DEF Authorised
  <2>5. Permitted'
    BY <1>0, <2>1, PermittedKept DEF Permitted
  <2> QED
    BY <2>4, <2>5 DEF OpenInv
<1>21. ASSUME NEW c \in Calls, CloseEndpoint(c)
  PROVE OpenInv'
  BY <1>21, OpenQuiet DEF CloseEndpoint
<1>22. ASSUME NEW c \in Calls, NEW who \in Stops \cup {"application"}, Sweep(who, c)
  PROVE OpenInv'
  BY <1>22, OpenCloses DEF Sweep, Remove
<1>23. ASSUME NEW t \in Stops, BeginStop(t)
  PROVE OpenInv'
  BY <1>23, OpenQuiet DEF BeginStop
<1>24. ASSUME NEW t \in Stops, StopSnapshot(t)
  PROVE OpenInv'
  BY <1>24, OpenQuiet DEF StopSnapshot
<1>25. ASSUME NEW t \in Stops, NEW c \in Calls, StopCloses(t, c)
  PROVE OpenInv'
  BY <1>25, OpenQuiet DEF StopCloses
<1>26. ASSUME NEW t \in Stops, MarkStopped(t)
  PROVE OpenInv'
  BY <1>26, OpenQuiet DEF MarkStopped
<1>27. ASSUME NEW t \in Stops, EmitStopped(t)
  PROVE OpenInv'
  BY <1>27, OpenQuiet DEF EmitStopped
<1>28. CASE UNCHANGED vars
  BY <1>28, OpenQuiet DEF vars
<1> QED
  BY <1>1, <1>2, <1>3, <1>4, <1>5, <1>6, <1>7, <1>8, <1>9, <1>10, <1>11, <1>12, <1>13,
     <1>14, <1>15, <1>16, <1>17, <1>18, <1>19, <1>20, <1>21, <1>22, <1>23, <1>24, <1>25, <1>26,
     <1>27, <1>28
  DEF Next, OpenStep, ListenerStep, TaskStep, StopStep

\* adaptive_server_flow publishes SessionOpened only for a session the application accepted:
\* "a connected TCP socket must never appear as an authorized game session".  The admission
\* semaphore bounds the listener's routes, although the task releases the permit and not
\* whoever removes the route.
THEOREM OpenOnlyAuthorised == Spec => []OnlyAuthorisedOpen
<1>1. ASSUME OpenInv PROVE OnlyAuthorisedOpen
  <2>1. ASSUME NEW s \in Connections, NeverOpened(s)
    PROVE  ~(Count(s, "SessionOpened") > 0)
    <3>1. {i \in DOMAIN notices[s] : notices[s][i] = "SessionOpened"} = {}
      BY <2>1 DEF NeverOpened
    <3>2. Count(s, "SessionOpened") = 0
      BY <3>1, FS_EmptySet, Zenon DEF Count
    <3> QED
      BY <3>2
  <2>2. \A s \in Connections : Count(s, "SessionOpened") > 0 => auth[s] = "accepted"
    BY <1>1, <2>1 DEF OpenInv, Authorised
  <2> QED
    BY <1>1, <2>2 DEF OpenInv, Permitted, OnlyAuthorisedOpen
<1>2. OpenInv => OnlyAuthorisedOpen
  BY <1>1
<1> QED
  BY OpenInit, OpenInvStep, CountInit, CountStep, OwnHolds, <1>2, PTL DEF Spec
=============================================================================
