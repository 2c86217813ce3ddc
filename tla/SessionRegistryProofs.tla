------------------------ MODULE SessionRegistryProofs -----------------------
(***************************************************************************)
(* No session of a listener is left behind by the removal of its endpoint, *)
(* for any number of calls, connections and stops.                         *)
(***************************************************************************)
EXTENDS SessionRegistry, TLAPS

\* What the argument needs of the shape of the variables.
Shape ==
  /\ call \in [Calls -> [at: {"idle", "insert", "route", "announce", "register",
                             "opened", "failed"}, kind: Kinds \cup {None}]]
  /\ owner \in [Calls -> {None, "running", "ended"}]
  /\ accepting \in [Calls -> SUBSET Connections]
  /\ home \in [Sessions -> Calls \cup {None}]
  /\ task \in [Sessions -> {None, "handshake", "request", "deciding", "mark",
                            "open", "running", "ended"}]
  /\ sessions \subseteq Sessions

\* A listener that can have routes is one whose call has returned.
Opened(c) == call[c].at = "opened" /\ call[c].kind = "listen"

\* Only an opened listener accepts and has sessions; only a client is a task
\* of its own; whatever is in the table has an endpoint.
Origins ==
  /\ \A s \in Connections : home[s] # None => Opened(home[s])
  /\ \A s \in sessions \cap Connections : home[s] # None
  /\ \A c \in Calls : owner[c] # None => call[c].at = "opened"
  /\ \A c \in Calls : accepting[c] # {} => Opened(c)
  /\ \A c \in Calls : task[c] # None =>
       call[c].kind # "listen" /\ call[c].at = "opened"

OwnInv == Shape /\ Origins /\ ListenerOwnsRoutes

\* The tables start empty.
LEMMA OwnInit == Init => OwnInv
<1> SUFFICES ASSUME Init PROVE OwnInv
  OBVIOUS
<1>1. Shape
  BY DEF Init, Shape, Sessions, None
<1>2. Origins
  BY DEF Init, Origins, Sessions, None
<1>3. ListenerOwnsRoutes
  BY DEF Init, ListenerOwnsRoutes
<1> QED
  BY <1>1, <1>2, <1>3 DEF OwnInv

\* A call that moves on stays what it is, and no other call moves.
LEMMA GotoFacts ==
  ASSUME Shape, NEW c \in Calls, NEW at, Goto(c, at)
  PROVE  /\ call'[c].at = at /\ call'[c].kind = call[c].kind
         /\ \A d \in Calls : d # c => call'[d] = call[d]
BY DEF Shape, Goto

\* A call that has not returned can move without a session noticing.
LEMMA CallMoves ==
  ASSUME Shape, Origins, NEW c \in Calls, call[c].at # "opened",
         \A d \in Calls : d # c => call'[d] = call[d]
  PROVE  /\ \A s \in Connections : home[s] # None =>
              call'[home[s]].at = "opened" /\ call'[home[s]].kind = "listen"
         /\ \A d \in Calls : owner[d] # None => call'[d].at = "opened"
         /\ \A d \in Calls : accepting[d] # {} => Opened(d)'
         /\ \A d \in Calls : task[d] # None =>
              call'[d].kind # "listen" /\ call'[d].at = "opened"
<1>1. \A s \in Connections : home[s] # None => home[s] \in Calls /\ home[s] # c
  BY DEF Shape, Origins, Opened, Sessions, None
<1>2. \A d \in Calls : owner[d] # None \/ accepting[d] # {} \/ task[d] # None => d # c
  BY DEF Origins, Opened
<1> QED
  BY <1>1, <1>2 DEF Origins, Opened

\* Steps that touch none of the variables the invariant speaks of.
LEMMA OwnQuiet ==
  ASSUME OwnInv, UNCHANGED <<call, endpoints, owner, accepting, home, sessions, task, sweeping>>
  PROVE  OwnInv'
<1>1. Shape'
  BY DEF OwnInv, Shape
<1>2. Origins'
  BY DEF OwnInv, Origins, Opened
<1>3. ListenerOwnsRoutes'
  BY Zenon DEF OwnInv, ListenerOwnsRoutes
<1> QED
  BY <1>1, <1>2, <1>3 DEF OwnInv

\* Removing the record of an endpoint that is no opened listener, or of one
\* whose routes go in the same step or are about to be swept, is harmless.
LEMMA OwnStep == OwnInv /\ [Next]_vars => OwnInv'
<1> SUFFICES ASSUME OwnInv, [Next]_vars PROVE OwnInv'
  OBVIOUS
<1>0. Shape /\ Origins /\ ListenerOwnsRoutes /\ Calls \cap Connections = {} /\ "none" \notin Calls
  BY RegistryAssumption DEF OwnInv
<1>1. ASSUME NEW c \in Calls, NEW kind \in Kinds, Open(c, kind)
  PROVE OwnInv'
  <2>1. Shape'
    BY <1>1, <1>0 DEF Open, Shape, Sessions, None
  <2>2. Origins'
    <3>1. call[c].at # "opened" /\ \A d \in Calls : d # c => call'[d] = call[d]
      BY <1>1, <1>0 DEF Open, Shape
    <3> QED
      BY <1>1, <1>0, <3>1, CallMoves DEF Open, Origins, Opened, None
  <2>3. ListenerOwnsRoutes'
    BY <1>1, <1>0 DEF Open, Shape, Origins, Opened, ListenerOwnsRoutes, Sessions, None
  <2> QED
    BY <2>1, <2>2, <2>3 DEF OwnInv
<1>2. ASSUME NEW c \in Calls, InsertEndpoint(c)
  PROVE OwnInv'
  <2>1. Shape'
    BY <1>2, <1>0, SMTT(20) DEF InsertEndpoint, Goto, Shape, Sessions, None
  <2>2. Origins'
    <3>1. call[c].at # "opened" /\ \A d \in Calls : d # c => call'[d] = call[d]
      BY <1>2, <1>0, GotoFacts DEF InsertEndpoint
    <3> QED
      BY <1>2, <1>0, <3>1, CallMoves DEF InsertEndpoint, Origins, Opened, None
  <2>3. ListenerOwnsRoutes'
    BY <1>2, <1>0 DEF InsertEndpoint, ListenerOwnsRoutes
  <2> QED
    BY <2>1, <2>2, <2>3 DEF OwnInv
<1>3. ASSUME NEW c \in Calls, InsertRoute(c)
  PROVE OwnInv'
  <2>1. Shape'
    <3>1. call' \in [Calls -> [at: {"idle", "insert", "route", "announce", "register",
                                  "opened", "failed"}, kind: Kinds \cup {None}]]
      BY <1>3, <1>0, SMTT(20) DEF InsertRoute, Goto, Shape
    <3>2. sessions' \subseteq Sessions /\ home' \in [Sessions -> Calls \cup {None}]
      BY <1>3, <1>0 DEF InsertRoute, Shape, Sessions
    <3> QED
      BY <1>3, <1>0, <3>1, <3>2 DEF InsertRoute, Shape
  <2>2. Origins'
    <3>1. call[c].at # "opened" /\ \A d \in Calls : d # c => call'[d] = call[d]
      BY <1>3, <1>0, GotoFacts DEF InsertRoute
    <3>2. /\ \A s \in Connections : home'[s] = home[s]
          /\ sessions' \cap Connections = sessions \cap Connections
      BY <1>3, <1>0 DEF InsertRoute, Shape, Sessions
    <3>3. UNCHANGED <<owner, accepting, task>>
      BY <1>3 DEF InsertRoute
    <3> QED
      BY <1>0, <3>1, <3>2, <3>3, CallMoves DEF Origins, Opened
  <2>3. ListenerOwnsRoutes'
    <3>1. /\ \A s \in Connections : home'[s] = home[s]
          /\ sessions' \cap Connections = sessions \cap Connections
      BY <1>3, <1>0 DEF InsertRoute, Shape, Sessions
    <3>2. call[c].at # "opened"
      BY <1>3 DEF InsertRoute
    <3>3. \A s \in sessions \cap Connections : home[s] # c
      BY <1>0, <3>2 DEF Origins, Opened
    <3>4. endpoints' \in {endpoints, endpoints \ {c}} /\ UNCHANGED sweeping
      BY <1>3 DEF InsertRoute
    <3> QED
      BY <1>0, <3>1, <3>3, <3>4 DEF ListenerOwnsRoutes
  <2> QED
    BY <2>1, <2>2, <2>3 DEF OwnInv
<1>4. ASSUME NEW c \in Calls, AnnounceEndpoint(c)
  PROVE OwnInv'
  <2>1. Shape'
    BY <1>4, <1>0 DEF AnnounceEndpoint, Goto, Remove, Shape, Sessions, None
  <2>2. Origins'
    <3>1. call[c].at # "opened" /\ \A d \in Calls : d # c => call'[d] = call[d]
      BY <1>4, <1>0, GotoFacts DEF AnnounceEndpoint
    <3> QED
      BY <1>4, <1>0, <3>1, CallMoves DEF AnnounceEndpoint, Remove, Origins, Opened, None
  <2>3. ListenerOwnsRoutes'
    <3>1. \A s \in sessions \cap Connections : home[s] # c
      BY <1>4, <1>0 DEF AnnounceEndpoint, Origins, Opened
    <3>2. /\ endpoints' \in {endpoints, endpoints \ {c}} /\ UNCHANGED <<home, sweeping>>
          /\ sessions' \subseteq sessions
      BY <1>4 DEF AnnounceEndpoint, Remove
    <3> QED
      BY <1>0, <3>1, <3>2 DEF ListenerOwnsRoutes
  <2> QED
    BY <2>1, <2>2, <2>3 DEF OwnInv
<1>5. ASSUME NEW c \in Calls, Register(c)
  PROVE OwnInv'
  <2>1. Shape'
    BY <1>5, <1>0 DEF Register, Goto, Shape, Sessions, None
  <2>2. Origins'
    <3>1. call[c].at # "opened" /\ \A d \in Calls : d # c => call'[d] = call[d]
      BY <1>5, <1>0, GotoFacts DEF Register
    <3>2. CASE c \in endpoints
      <4>1. call'[c].at = "opened" /\ call'[c].kind = call[c].kind
        BY <1>5, <1>0, <3>2, GotoFacts DEF Register
      <4>2. /\ \A d \in Calls : d # c => owner'[d] = owner[d] /\ task'[d] = task[d]
            /\ task'[c] # None => task[c] # None \/ call[c].kind # "listen"
        BY <1>5, <1>0, <3>2 DEF Register, Shape, Sessions
      <4>3. UNCHANGED <<home, sessions, accepting>>
        BY <1>5 DEF Register
      <4> QED
        BY <1>0, <3>1, <4>1, <4>2, <4>3, CallMoves DEF Origins, Opened
    <3>3. CASE c \notin endpoints
      BY <1>5, <1>0, <3>1, <3>3, CallMoves DEF Register, Origins, Opened
    <3> QED
      BY <3>2, <3>3
  <2>3. ListenerOwnsRoutes'
    BY <1>5, <1>0, Zenon DEF Register, ListenerOwnsRoutes
  <2> QED
    BY <2>1, <2>2, <2>3 DEF OwnInv
<1>6. ASSUME NEW c \in Calls, NEW n \in Connections, Accept(c, n)
  PROVE OwnInv'
  <2>1. Shape'
    BY <1>6, <1>0 DEF Accept, Listening, Shape, Sessions, None
  <2>2. Origins'
    BY <1>6, <1>0 DEF Accept, Listening, Shape, Origins, Opened, Sessions, None
  <2>3. ListenerOwnsRoutes'
    BY <1>6, <1>0 DEF Accept, ListenerOwnsRoutes
  <2> QED
    BY <2>1, <2>2, <2>3 DEF OwnInv
<1>7. ASSUME NEW c \in Calls, NEW n \in Connections, Admit(c, n)
  PROVE OwnInv'
  <2>1. Shape'
    BY <1>7, <1>0 DEF Admit, Shape, Sessions, None
  <2>2. Origins'
    BY <1>7, <1>0 DEF Admit, Shape, Origins, Opened, Sessions, None
  <2>3. ListenerOwnsRoutes'
    BY <1>7, <1>0 DEF Admit, Shape, Origins, Opened, ListenerOwnsRoutes, Sessions, None
  <2> QED
    BY <2>1, <2>2, <2>3 DEF OwnInv
<1>8. ASSUME NEW c \in Calls, AcceptFails(c)
  PROVE OwnInv'
  <2>1. Shape'
    BY <1>8, <1>0 DEF AcceptFails, Listening, Remove, OfEndpoint, Shape, Sessions, None
  <2>2. Origins'
    BY <1>8, <1>0 DEF AcceptFails, Listening, Remove, OfEndpoint, Shape, Origins, Opened, Sessions, None
  <2>3. ListenerOwnsRoutes'
    BY <1>8, <1>0 DEF AcceptFails, Listening, Remove, OfEndpoint, Shape, Origins, Opened, ListenerOwnsRoutes, Sessions, None
  <2> QED
    BY <2>1, <2>2, <2>3 DEF OwnInv
<1>9. ASSUME NEW c \in Calls, ListenerAborted(c)
  PROVE OwnInv'
  <2>1. Shape'
    BY <1>9, <1>0 DEF ListenerAborted, Listening, Shape, Sessions, None
  <2>2. Origins'
    BY <1>9, <1>0 DEF ListenerAborted, Listening, Shape, Origins, Opened, Sessions, None
  <2>3. ListenerOwnsRoutes'
    BY <1>9, <1>0, Zenon DEF ListenerAborted, ListenerOwnsRoutes
  <2> QED
    BY <2>1, <2>2, <2>3 DEF OwnInv
<1>10. ASSUME NEW s \in Sessions, Handshake(s)
  PROVE OwnInv'
  <2>1. Shape'
    BY <1>10, <1>0 DEF Handshake, Shape, Sessions, None
  <2>2. Origins'
    BY <1>10, <1>0 DEF Handshake, Shape, Origins, Opened, Sessions, None
  <2>3. ListenerOwnsRoutes'
    BY <1>10, <1>0, Zenon DEF Handshake, ListenerOwnsRoutes
  <2> QED
    BY <2>1, <2>2, <2>3 DEF OwnInv
<1>11. ASSUME NEW s \in Sessions, HandshakeFails(s)
  PROVE OwnInv'
  <2>1. Shape'
    BY <1>11, <1>0 DEF HandshakeFails, FailSession, Close, Remove, Shape, Sessions, None
  <2>2. Origins'
    BY <1>11, <1>0 DEF HandshakeFails, FailSession, Close, Remove, Shape, Origins, Opened, Sessions, None
  <2>3. ListenerOwnsRoutes'
    BY <1>11, <1>0 DEF HandshakeFails, FailSession, Close, Remove, Shape, Origins, Opened, ListenerOwnsRoutes, Sessions, None
  <2> QED
    BY <2>1, <2>2, <2>3 DEF OwnInv
<1>12. ASSUME NEW s \in Sessions, RequestAuth(s)
  PROVE OwnInv'
  <2>1. Shape'
    BY <1>12, <1>0 DEF RequestAuth, Shape, Sessions, None
  <2>2. Origins'
    BY <1>12, <1>0 DEF RequestAuth, Shape, Origins, Opened, Sessions, None
  <2>3. ListenerOwnsRoutes'
    BY <1>12, <1>0, Zenon DEF RequestAuth, ListenerOwnsRoutes
  <2> QED
    BY <2>1, <2>2, <2>3 DEF OwnInv
<1>13. ASSUME NEW s \in Sessions, Decided(s)
  PROVE OwnInv'
  <2>1. Shape'
    BY <1>13, <1>0 DEF Decided, FailSession, Close, Remove, Shape, Sessions, None
  <2>2. Origins'
    BY <1>13, <1>0 DEF Decided, FailSession, Close, Remove, Shape, Origins, Opened, Sessions, None
  <2>3. ListenerOwnsRoutes'
    BY <1>13, <1>0 DEF Decided, FailSession, Close, Remove, Shape, Origins, Opened, ListenerOwnsRoutes, Sessions, None
  <2> QED
    BY <2>1, <2>2, <2>3 DEF OwnInv
<1>14. ASSUME NEW s \in Sessions, MarkEstablished(s)
  PROVE OwnInv'
  <2>1. Shape'
    BY <1>14, <1>0 DEF MarkEstablished, FailSession, Close, Remove, Shape, Sessions, None
  <2>2. Origins'
    BY <1>14, <1>0 DEF MarkEstablished, FailSession, Close, Remove, Shape, Origins, Opened, Sessions, None
  <2>3. ListenerOwnsRoutes'
    <3>1. sessions' \subseteq sessions /\ UNCHANGED <<home, sweeping>>
      BY <1>14 DEF MarkEstablished, FailSession, Close, Remove
    <3>2. \A c \in endpoints \ endpoints' : c = s /\ c \notin Connections
      BY <1>14 DEF MarkEstablished, FailSession
    <3>3. \A t \in sessions \cap Connections : home[t] # s \/ s \in Connections
      BY <1>14, <1>0 DEF MarkEstablished, Origins, Opened, Sessions, Shape, None
    <3> QED
      BY <1>0, <3>1, <3>2, <3>3 DEF ListenerOwnsRoutes
  <2> QED
    BY <2>1, <2>2, <2>3 DEF OwnInv
<1>15. ASSUME NEW s \in Sessions, SessionOpened(s)
  PROVE OwnInv'
  <2>1. Shape'
    BY <1>15, <1>0 DEF SessionOpened, Shape, Sessions, None
  <2>2. Origins'
    BY <1>15, <1>0 DEF SessionOpened, Shape, Origins, Opened, Sessions, None
  <2>3. ListenerOwnsRoutes'
    BY <1>15, <1>0 DEF SessionOpened, ListenerOwnsRoutes
  <2> QED
    BY <2>1, <2>2, <2>3 DEF OwnInv
<1>16. ASSUME NEW s \in Sessions, TaskAborted(s)
  PROVE OwnInv'
  <2>1. Shape'
    BY <1>16, <1>0 DEF TaskAborted, Shape, Sessions, None
  <2>2. Origins'
    BY <1>16, <1>0 DEF TaskAborted, Shape, Origins, Opened, Sessions, None
  <2>3. ListenerOwnsRoutes'
    BY <1>16, <1>0, Zenon DEF TaskAborted, ListenerOwnsRoutes
  <2> QED
    BY <2>1, <2>2, <2>3 DEF OwnInv
<1>17. ASSUME NEW s \in Sessions, SessionEnds(s)
  PROVE OwnInv'
  <2>1. Shape'
    BY <1>17, <1>0 DEF SessionEnds, Close, Remove, Shape, Sessions, None
  <2>2. Origins'
    BY <1>17, <1>0 DEF SessionEnds, Close, Remove, Shape, Origins, Opened, Sessions, None
  <2>3. ListenerOwnsRoutes'
    <3>1. sessions' \subseteq sessions /\ UNCHANGED <<home, sweeping>>
      BY <1>17 DEF SessionEnds, Close, Remove
    <3>2. \A c \in endpoints \ endpoints' : c = s /\ c \in Calls
      BY <1>17 DEF SessionEnds
    <3>3. \A t \in sessions \cap Connections : home[t] # s \/ s \notin Calls
      BY <1>17, <1>0 DEF SessionEnds, Origins, Opened, Sessions, Shape, None
    <3> QED
      BY <1>0, <3>1, <3>2, <3>3 DEF ListenerOwnsRoutes
  <2> QED
    BY <2>1, <2>2, <2>3 DEF OwnInv
<1>18. ASSUME NEW s \in Sessions, CloseSession(s)
  PROVE OwnInv'
  <2>1. Shape'
    BY <1>18, <1>0 DEF CloseSession, Shape, Sessions, None
  <2>2. Origins'
    BY <1>18, <1>0 DEF CloseSession, Shape, Origins, Opened, Sessions, None
  <2>3. ListenerOwnsRoutes'
    BY <1>18, <1>0, Zenon DEF CloseSession, ListenerOwnsRoutes
  <2> QED
    BY <2>1, <2>2, <2>3 DEF OwnInv
<1>19. ASSUME NEW c \in Calls, CloseEndpoint(c)
  PROVE OwnInv'
  <2>1. Shape'
    BY <1>19, <1>0 DEF CloseEndpoint, RemoveEndpoint, Shape, Sessions, None
  <2>2. Origins'
    BY <1>19, <1>0 DEF CloseEndpoint, RemoveEndpoint, Shape, Origins, Opened, Sessions, None
  <2>3. ListenerOwnsRoutes'
    <3>1. \/ endpoints' = endpoints /\ sweeping' = sweeping
          \/ endpoints' = endpoints \ {c} /\ sweeping' = sweeping \cup {<<"application", c>>}
      BY <1>19 DEF CloseEndpoint, RemoveEndpoint
    <3>2. UNCHANGED <<sessions, home>>
      BY <1>19 DEF CloseEndpoint
    <3> QED
      BY <1>0, <3>1, <3>2 DEF ListenerOwnsRoutes
  <2> QED
    BY <2>1, <2>2, <2>3 DEF OwnInv
<1>20. ASSUME NEW c \in Calls, NEW who \in Stops \cup {"application"}, Sweep(who, c)
  PROVE OwnInv'
  <2>1. Shape'
    BY <1>20, <1>0 DEF Sweep, Remove, OfEndpoint, Shape, Sessions, None
  <2>2. Origins'
    BY <1>20, <1>0 DEF Sweep, Remove, OfEndpoint, Shape, Origins, Opened, Sessions, None
  <2>3. ListenerOwnsRoutes'
    BY <1>20, <1>0 DEF Sweep, Remove, OfEndpoint, Shape, Origins, Opened, ListenerOwnsRoutes, Sessions, None
  <2> QED
    BY <2>1, <2>2, <2>3 DEF OwnInv
<1>21. ASSUME NEW t \in Stops, NEW c \in Calls, StopCloses(t, c)
  PROVE OwnInv'
  <2>1. Shape'
    BY <1>21, <1>0 DEF StopCloses, RemoveEndpoint, Shape, Sessions, None
  <2>2. Origins'
    BY <1>21, <1>0 DEF StopCloses, RemoveEndpoint, Shape, Origins, Opened, Sessions, None
  <2>3. ListenerOwnsRoutes'
    <3>1. \/ endpoints' = endpoints /\ sweeping' = sweeping
          \/ endpoints' = endpoints \ {c} /\ sweeping' = sweeping \cup {<<t, c>>}
      BY <1>21 DEF StopCloses, RemoveEndpoint
    <3>2. UNCHANGED <<sessions, home>>
      BY <1>21 DEF StopCloses
    <3> QED
      BY <1>0, <3>1, <3>2 DEF ListenerOwnsRoutes
  <2> QED
    BY <2>1, <2>2, <2>3 DEF OwnInv
<1>22. ASSUME NEW s \in Sessions, SettleClose(s)
  PROVE OwnInv'
  BY <1>22, OwnQuiet DEF SettleClose
<1>23. ASSUME NEW s \in Sessions, NEW decision \in {"accepted", "rejected"}, AuthDecide(s, decision)
  PROVE OwnInv'
  BY <1>23, OwnQuiet DEF AuthDecide
<1>24. ASSUME NEW t \in Stops, BeginStop(t)
  PROVE OwnInv'
  BY <1>24, OwnQuiet DEF BeginStop
<1>25. ASSUME NEW t \in Stops, StopSnapshot(t)
  PROVE OwnInv'
  BY <1>25, OwnQuiet DEF StopSnapshot
<1>26. ASSUME NEW t \in Stops, MarkStopped(t)
  PROVE OwnInv'
  BY <1>26, OwnQuiet DEF MarkStopped
<1>27. ASSUME NEW t \in Stops, EmitStopped(t)
  PROVE OwnInv'
  BY <1>27, OwnQuiet DEF EmitStopped
<1>28. CASE UNCHANGED vars
  BY <1>28, OwnQuiet DEF vars
<1> QED
  BY <1>1, <1>2, <1>3, <1>4, <1>5, <1>6, <1>7, <1>8, <1>9, <1>10, <1>11, <1>12, <1>13,
     <1>14, <1>15, <1>16, <1>17, <1>18, <1>19, <1>20, <1>21, <1>22, <1>23, <1>24, <1>25,
     <1>26, <1>27, <1>28
  DEF Next, OpenStep, ListenerStep, TaskStep, StopStep

\* The strengthened invariant, for later use.
LEMMA OwnHolds == Spec => []OwnInv
BY OwnInit, OwnStep, PTL DEF Spec

\* close_endpoint, stop and a failing accept never miss a route that an
\* accept inserts: it is under a live endpoint, or the sweep is still to come.
THEOREM NoRouteEscapes == Spec => []ListenerOwnsRoutes
<1>1. OwnInv => ListenerOwnsRoutes
  BY DEF OwnInv
<1> QED
  BY OwnHolds, <1>1, PTL
=============================================================================
