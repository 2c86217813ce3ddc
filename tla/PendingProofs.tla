---------------------------- MODULE PendingProofs ---------------------------
(***************************************************************************)
(* The pending-handshake count is exact: every reservation is released     *)
(* once, by whichever path establishes, removes or gives up the route.     *)
(***************************************************************************)
EXTENDS SessionRegistryProofs, FiniteSetTheorems

\* What the count stands for.
Counted == Pending(sessions \cup closing)

\* A session is created once: what has no endpoint yet is in no set, and a
\* call or an accept that is still to insert its route has none.
Fresh ==
  /\ closing \subseteq Sessions
  /\ sessions \cap closing = {}
  /\ \A s \in Sessions : home[s] = None => s \notin sessions \cup closing \cup established
  /\ \A c \in Calls : call[c].at \in {"idle", "insert", "route"} => home[c] = None
  /\ \A c \in Calls : \A s \in accepting[c] : home[s] = None
  /\ \A c, d \in Calls : c # d => accepting[c] \cap accepting[d] = {}

CountInv == Fresh /\ PendingIsExact

\* Sets of sessions are finite.
LEMMA CountedFinite ==
  ASSUME NEW S, S \subseteq Sessions
  PROVE  IsFiniteSet(S) /\ Cardinality(S) \in Nat
<1>1. IsFiniteSet(Sessions)
  BY RegistryAssumption, FS_Union, Zenon DEF Sessions
<1> QED
  BY <1>1, FS_Subset, FS_CardinalityType

\* Taking a part of a set of sessions away takes its number away.
LEMMA CountLess ==
  ASSUME NEW S, S \subseteq Sessions, NEW T, T \subseteq S
  PROVE  Cardinality(S \ T) = Cardinality(S) - Cardinality(T)
<1>1. S \cap T = T
  OBVIOUS
<1> QED
  BY <1>1, CountedFinite, FS_Difference, Zenon

\* A new session counts one more.
LEMMA CountMore ==
  ASSUME NEW S, S \subseteq Sessions, NEW s, s \notin S
  PROVE  Cardinality(S \cup {s}) = Cardinality(S) + 1
BY CountedFinite, FS_AddElement

\* Routes that leave the table take their reservations with them.
LEMMA RemoveCounts ==
  ASSUME CountInv, Shape, NEW S, Remove(S), UNCHANGED <<closing, established>>
  PROVE  PendingIsExact'
<1>1. Pending(S \cap sessions) \subseteq Counted /\ Counted \subseteq Sessions
  BY DEF CountInv, Fresh, Shape, Counted, Pending
<1>2. Counted' = Counted \ Pending(S \cap sessions)
  BY DEF CountInv, Fresh, Counted, Pending, Remove
<1>3. pending' = Cardinality(Counted) - Cardinality(Pending(S \cap sessions))
  BY DEF CountInv, PendingIsExact, Counted, Remove
<1>4. Cardinality(Counted') = Cardinality(Counted) - Cardinality(Pending(S \cap sessions))
  BY <1>1, <1>2, CountLess, Zenon
<1> QED
  BY <1>3, <1>4 DEF PendingIsExact, Counted

\* The tables start empty.
LEMMA CountInit == Init => CountInv
<1> SUFFICES ASSUME Init PROVE CountInv
  OBVIOUS
<1>1. Fresh
  BY DEF Init, Fresh, Sessions, None
<1>2. Counted = {}
  BY DEF Init, Counted, Pending
<1> QED
  BY <1>1, <1>2, FS_EmptySet, Zenon DEF CountInv, PendingIsExact, Counted, Init

\* A step that leaves the counted sets alone leaves the count exact.
LEMMA CountQuiet ==
  ASSUME CountInv, UNCHANGED <<sessions, closing, established, pending>>
  PROVE  PendingIsExact'
BY DEF CountInv, PendingIsExact, Pending

\* Routes that leave, and calls that move past the insertion, disturb nothing.
LEMMA FreshShrinks ==
  ASSUME Fresh, sessions' \subseteq sessions, UNCHANGED <<closing, established, home, accepting>>,
         \A c \in Calls : call'[c].at \in {"idle", "insert", "route"} =>
           call[c].at \in {"idle", "insert", "route"}
  PROVE  Fresh'
BY DEF Fresh

\* Each step inserts a fresh session and counts it, releases what it takes
\* out of the counted set, or leaves the set and the count alone.
LEMMA CountStep == OwnInv /\ CountInv /\ [Next]_vars => CountInv'
<1> SUFFICES ASSUME OwnInv, CountInv, [Next]_vars PROVE CountInv'
  OBVIOUS
<1>0. Shape /\ Fresh /\ CountInv /\ "none" \notin Calls /\ Calls \cap Connections = {}
  BY RegistryAssumption DEF CountInv, OwnInv
<1>1. ASSUME NEW c \in Calls, NEW kind \in Kinds, Open(c, kind)
  PROVE CountInv'
  <2>1. \A d \in Calls : call'[d].at \in {"idle", "insert", "route"} => call[d].at \in {"idle", "insert", "route"}
    BY <1>1, <1>0 DEF Open, Shape
  <2>2. Fresh'
    BY <1>1, <1>0, <2>1, FreshShrinks DEF Open
  <2> QED
    BY <1>1, <1>0, <2>2, CountQuiet DEF Open, CountInv
<1>2. ASSUME NEW c \in Calls, InsertEndpoint(c)
  PROVE CountInv'
  <2>1. \A d \in Calls : call'[d].at \in {"idle", "insert", "route"} => call[d].at \in {"idle", "insert", "route"}
    BY <1>2, <1>0, GotoFacts DEF InsertEndpoint
  <2>2. Fresh'
    BY <1>2, <1>0, <2>1, FreshShrinks DEF InsertEndpoint
  <2> QED
    BY <1>2, <1>0, <2>2, CountQuiet DEF InsertEndpoint, CountInv
<1>3. ASSUME NEW c \in Calls, InsertRoute(c)
  PROVE CountInv'
  <2>1. CASE pending < MaxPending
    <3>1. c \notin sessions \cup closing \cup established /\ c \in Sessions
      BY <1>3, <1>0 DEF InsertRoute, Fresh, Sessions
    <3>2. Counted' = Counted \cup {c} /\ c \notin Counted /\ Counted \subseteq Sessions
      BY <1>3, <1>0, <2>1, <3>1 DEF InsertRoute, Counted, Pending, Fresh, Shape
    <3>3. PendingIsExact'
      BY <1>3, <1>0, <2>1, <3>2, CountMore, Zenon DEF InsertRoute, CountInv, PendingIsExact, Counted
    <3>4. call'[c].at = "announce" /\ \A d \in Calls : d # c => call'[d] = call[d]
      BY <1>3, <1>0, <2>1, GotoFacts DEF InsertRoute
    <3>5. home'[c] = c /\ \A s \in Sessions : s # c => home'[s] = home[s]
      BY <1>3, <1>0, <2>1, <3>1 DEF InsertRoute, Shape
    <3>6. \A d \in Calls : c \notin accepting[d] /\ accepting[d] \subseteq Sessions
      BY <1>0 DEF Shape, Sessions
    <3>7. sessions' = sessions \cup {c} /\ UNCHANGED <<closing, established, accepting>>
      BY <1>3, <2>1 DEF InsertRoute
    <3>8. c # None
      BY <1>0 DEF None
    <3>9. Fresh'
      BY <1>0, <3>1, <3>4, <3>5, <3>6, <3>7, <3>8 DEF Fresh, Sessions
    <3> QED
      BY <3>3, <3>9 DEF CountInv
  <2>2. CASE ~(pending < MaxPending)
    <3>1. call'[c].at = "failed" /\ \A d \in Calls : d # c => call'[d] = call[d]
      BY <1>3, <1>0, <2>2, GotoFacts DEF InsertRoute
    <3>2. Fresh'
      BY <1>3, <1>0, <2>2, <3>1, FreshShrinks DEF InsertRoute
    <3> QED
      BY <1>3, <1>0, <2>2, <3>2, CountQuiet DEF InsertRoute, CountInv
  <2> QED
    BY <2>1, <2>2
<1>4. ASSUME NEW c \in Calls, AnnounceEndpoint(c)
  PROVE CountInv'
  <2>1. \A d \in Calls : call'[d].at \in {"idle", "insert", "route"} =>
          call[d].at \in {"idle", "insert", "route"}
    BY <1>4, <1>0, GotoFacts DEF AnnounceEndpoint
  <2>2. Fresh'
    BY <1>4, <1>0, <2>1, FreshShrinks DEF AnnounceEndpoint, Remove
  <2>3. PendingIsExact'
    BY <1>4, <1>0, CountQuiet, RemoveCounts DEF AnnounceEndpoint
  <2> QED
    BY <2>2, <2>3 DEF CountInv
<1>5. ASSUME NEW c \in Calls, Register(c)
  PROVE CountInv'
  <2>1. \A d \in Calls : call'[d].at \in {"idle", "insert", "route"} => call[d].at \in {"idle", "insert", "route"}
    BY <1>5, <1>0, GotoFacts DEF Register
  <2>2. Fresh'
    BY <1>5, <1>0, <2>1, FreshShrinks DEF Register
  <2> QED
    BY <1>5, <1>0, <2>2, CountQuiet DEF Register, CountInv
<1>6. ASSUME NEW c \in Calls, NEW n \in Connections, Accept(c, n)
  PROVE CountInv'
  <2>1. Fresh'
    BY <1>6, <1>0 DEF Accept, Fresh, Shape
  <2> QED
    BY <1>6, <1>0, <2>1, CountQuiet DEF Accept, CountInv
<1>7. ASSUME NEW c \in Calls, NEW n \in Connections, Admit(c, n)
  PROVE CountInv'
  <2>1. CASE c \in endpoints /\ HasPermit(c) /\ pending < MaxPending
    <3>1. n \notin sessions \cup closing \cup established /\ n \in Sessions
      BY <1>7, <1>0 DEF Admit, Fresh, Sessions
    <3>2. Counted' = Counted \cup {n} /\ n \notin Counted /\ Counted \subseteq Sessions
      BY <1>7, <1>0, <2>1, <3>1 DEF Admit, Counted, Pending, Fresh, Shape
    <3>3. PendingIsExact'
      BY <1>7, <1>0, <2>1, <3>2, CountMore, Zenon DEF Admit, CountInv, PendingIsExact, Counted
    <3>4. home'[n] = c /\ \A s \in Sessions : s # n => home'[s] = home[s]
      BY <1>7, <1>0, <2>1, <3>1 DEF Admit, Shape
    <3>5. \A d \in Calls : accepting'[d] \subseteq accepting[d] /\ n \notin accepting'[d]
                              /\ accepting[d] \subseteq Sessions
      BY <1>7, <1>0 DEF Admit, Fresh, Shape, Sessions
    <3>6. sessions' = sessions \cup {n} /\ UNCHANGED <<closing, established, call>>
      BY <1>7, <2>1 DEF Admit
    <3>7. n \notin Calls /\ c # None
      BY <1>0 DEF None
    <3>8. Fresh'
      BY <1>0, <3>1, <3>4, <3>5, <3>6, <3>7 DEF Fresh, Sessions
    <3> QED
      BY <3>3, <3>8 DEF CountInv
  <2>2. CASE ~(c \in endpoints /\ HasPermit(c) /\ pending < MaxPending)
    <3>1. UNCHANGED <<sessions, closing, established, home, call, pending>>
      BY <1>7, <2>2 DEF Admit
    <3>2. \A d \in Calls : accepting'[d] \subseteq accepting[d]
      BY <1>7, <1>0 DEF Admit, Shape
    <3>3. Fresh'
      BY <1>0, <3>1, <3>2 DEF Fresh
    <3> QED
      BY <1>0, <3>1, <3>3, CountQuiet DEF CountInv
  <2> QED
    BY <2>1, <2>2
<1>8. ASSUME NEW c \in Calls, AcceptFails(c)
  PROVE CountInv'
  <2>1. UNCHANGED <<sessions, pending>> \/ Remove(OfEndpoint(c))
    BY <1>8 DEF AcceptFails
  <2>2. UNCHANGED <<closing, established, home, accepting, call>>
    BY <1>8 DEF AcceptFails
  <2>3. Fresh'
    BY <1>0, <2>1, <2>2, FreshShrinks DEF Remove
  <2> QED
    BY <1>0, <2>1, <2>2, <2>3, CountQuiet, RemoveCounts DEF CountInv
<1>9. ASSUME NEW c \in Calls, ListenerAborted(c)
  PROVE CountInv'
  <2>1. Fresh'
    BY <1>9, <1>0, FreshShrinks DEF ListenerAborted
  <2> QED
    BY <1>9, <1>0, <2>1, CountQuiet DEF ListenerAborted, CountInv
<1>10. ASSUME NEW s \in Sessions, Handshake(s)
  PROVE CountInv'
  <2>1. Fresh'
    BY <1>10, <1>0, FreshShrinks DEF Handshake
  <2> QED
    BY <1>10, <1>0, <2>1, CountQuiet DEF Handshake, CountInv
<1>11. ASSUME NEW s \in Sessions, HandshakeFails(s)
  PROVE CountInv'
  <2>1. UNCHANGED <<sessions, pending>> \/ Remove({s})
    BY <1>11 DEF HandshakeFails, FailSession, Close
  <2>2. UNCHANGED <<closing, established, home, accepting, call>>
    BY <1>11 DEF HandshakeFails
  <2>3. Fresh'
    BY <1>0, <2>1, <2>2, FreshShrinks DEF Remove
  <2> QED
    BY <1>0, <2>1, <2>2, <2>3, CountQuiet, RemoveCounts DEF CountInv
<1>12. ASSUME NEW s \in Sessions, RequestAuth(s)
  PROVE CountInv'
  <2>1. Fresh'
    BY <1>12, <1>0, FreshShrinks DEF RequestAuth
  <2> QED
    BY <1>12, <1>0, <2>1, CountQuiet DEF RequestAuth, CountInv
<1>13. ASSUME NEW s \in Sessions, Decided(s)
  PROVE CountInv'
  <2>1. UNCHANGED <<sessions, pending>> \/ Remove({s})
    BY <1>13 DEF Decided, FailSession, Close
  <2>2. UNCHANGED <<closing, established, home, accepting, call>>
    BY <1>13 DEF Decided
  <2>3. Fresh'
    BY <1>0, <2>1, <2>2, FreshShrinks DEF Remove
  <2> QED
    BY <1>0, <2>1, <2>2, <2>3, CountQuiet, RemoveCounts DEF CountInv
<1>14. ASSUME NEW s \in Sessions, MarkEstablished(s)
  PROVE CountInv'
  <2>1. CASE s \in sessions
    <3>1. Counted' = Counted \ Pending({s}) /\ Pending({s}) \subseteq Counted /\ Counted \subseteq Sessions
      BY <1>14, <1>0, <2>1 DEF MarkEstablished, Counted, Pending, Fresh, Shape
    <3>2. PendingIsExact'
      BY <1>14, <1>0, <2>1, <3>1, CountLess, Zenon DEF MarkEstablished, CountInv, PendingIsExact, Counted
    <3>3. Fresh'
      BY <1>14, <1>0, <2>1 DEF MarkEstablished, Fresh
    <3> QED
      BY <3>2, <3>3 DEF CountInv
  <2>2. CASE s \notin sessions
    <3>1. UNCHANGED <<sessions, pending>> \/ Remove({s})
      BY <1>14, <2>2 DEF MarkEstablished, FailSession, Close
    <3>2. UNCHANGED <<closing, established, home, accepting, call>>
      BY <1>14, <2>2 DEF MarkEstablished
    <3>3. Fresh'
      BY <1>0, <3>1, <3>2, FreshShrinks DEF Remove
    <3> QED
      BY <1>0, <3>1, <3>2, <3>3, CountQuiet, RemoveCounts DEF CountInv
  <2> QED
    BY <2>1, <2>2
<1>15. ASSUME NEW s \in Sessions, SessionOpened(s)
  PROVE CountInv'
  <2>1. Fresh'
    BY <1>15, <1>0, FreshShrinks DEF SessionOpened
  <2> QED
    BY <1>15, <1>0, <2>1, CountQuiet DEF SessionOpened, CountInv
<1>16. ASSUME NEW s \in Sessions, TaskAborted(s)
  PROVE CountInv'
  <2>1. Fresh'
    BY <1>16, <1>0, FreshShrinks DEF TaskAborted
  <2> QED
    BY <1>16, <1>0, <2>1, CountQuiet DEF TaskAborted, CountInv
<1>17. ASSUME NEW s \in Sessions, SessionEnds(s)
  PROVE CountInv'
  <2>1. UNCHANGED <<sessions, pending>> \/ Remove({s})
    BY <1>17 DEF SessionEnds, Close
  <2>2. UNCHANGED <<closing, established, home, accepting, call>>
    BY <1>17 DEF SessionEnds
  <2>3. Fresh'
    BY <1>0, <2>1, <2>2, FreshShrinks DEF Remove
  <2> QED
    BY <1>0, <2>1, <2>2, <2>3, CountQuiet, RemoveCounts DEF CountInv
<1>18. ASSUME NEW s \in Sessions, CloseSession(s)
  PROVE CountInv'
  <2>1. sessions' \cup closing' = sessions \cup closing /\ UNCHANGED <<established, pending>>
    BY <1>18 DEF CloseSession
  <2>2. PendingIsExact'
    BY <1>0, <2>1 DEF CountInv, PendingIsExact, Pending
  <2>3. Fresh'
    BY <1>18, <1>0 DEF CloseSession, Fresh
  <2> QED
    BY <2>2, <2>3 DEF CountInv
<1>19. ASSUME NEW s \in Sessions, SettleClose(s)
  PROVE CountInv'
  <2>1. Counted' = Counted \ Pending({s}) /\ Pending({s}) \subseteq Counted /\ Counted \subseteq Sessions
    BY <1>19, <1>0 DEF SettleClose, Counted, Pending, Fresh, Shape
  <2>2. PendingIsExact'
    BY <1>19, <1>0, <2>1, CountLess, Zenon DEF SettleClose, CountInv, PendingIsExact, Counted
  <2>3. Fresh'
    BY <1>19, <1>0 DEF SettleClose, Fresh
  <2> QED
    BY <2>2, <2>3 DEF CountInv
<1>20. ASSUME NEW s \in Sessions, NEW decision \in {"accepted", "rejected"}, AuthDecide(s, decision)
  PROVE CountInv'
  <2>1. Fresh'
    BY <1>20, <1>0, FreshShrinks DEF AuthDecide
  <2> QED
    BY <1>20, <1>0, <2>1, CountQuiet DEF AuthDecide, CountInv
<1>21. ASSUME NEW c \in Calls, CloseEndpoint(c)
  PROVE CountInv'
  <2>1. Fresh'
    BY <1>21, <1>0, FreshShrinks DEF CloseEndpoint
  <2> QED
    BY <1>21, <1>0, <2>1, CountQuiet DEF CloseEndpoint, CountInv
<1>22. ASSUME NEW c \in Calls, NEW who \in Stops \cup {"application"}, Sweep(who, c)
  PROVE CountInv'
  <2>1. UNCHANGED <<sessions, pending>> \/ Remove(OfEndpoint(c))
    BY <1>22 DEF Sweep
  <2>2. UNCHANGED <<closing, established, home, accepting, call>>
    BY <1>22 DEF Sweep
  <2>3. Fresh'
    BY <1>0, <2>1, <2>2, FreshShrinks DEF Remove
  <2> QED
    BY <1>0, <2>1, <2>2, <2>3, CountQuiet, RemoveCounts DEF CountInv
<1>23. ASSUME NEW t \in Stops, BeginStop(t)
  PROVE CountInv'
  <2>1. Fresh'
    BY <1>23, <1>0, FreshShrinks DEF BeginStop
  <2> QED
    BY <1>23, <1>0, <2>1, CountQuiet DEF BeginStop, CountInv
<1>24. ASSUME NEW t \in Stops, StopSnapshot(t)
  PROVE CountInv'
  <2>1. Fresh'
    BY <1>24, <1>0, FreshShrinks DEF StopSnapshot
  <2> QED
    BY <1>24, <1>0, <2>1, CountQuiet DEF StopSnapshot, CountInv
<1>25. ASSUME NEW t \in Stops, NEW c \in Calls, StopCloses(t, c)
  PROVE CountInv'
  <2>1. Fresh'
    BY <1>25, <1>0, FreshShrinks DEF StopCloses
  <2> QED
    BY <1>25, <1>0, <2>1, CountQuiet DEF StopCloses, CountInv
<1>26. ASSUME NEW t \in Stops, MarkStopped(t)
  PROVE CountInv'
  <2>1. Fresh'
    BY <1>26, <1>0, FreshShrinks DEF MarkStopped
  <2> QED
    BY <1>26, <1>0, <2>1, CountQuiet DEF MarkStopped, CountInv
<1>27. ASSUME NEW t \in Stops, EmitStopped(t)
  PROVE CountInv'
  <2>1. Fresh'
    BY <1>27, <1>0, FreshShrinks DEF EmitStopped
  <2> QED
    BY <1>27, <1>0, <2>1, CountQuiet DEF EmitStopped, CountInv
<1>28. CASE UNCHANGED vars
  <2>1. Fresh'
    BY <1>28, <1>0, FreshShrinks DEF vars
  <2> QED
    BY <1>28, <1>0, <2>1, CountQuiet DEF vars, CountInv
<1> QED
  BY <1>1, <1>2, <1>3, <1>4, <1>5, <1>6, <1>7, <1>8, <1>9, <1>10, <1>11, <1>12, <1>13,
     <1>14, <1>15, <1>16, <1>17, <1>18, <1>19, <1>20, <1>21, <1>22, <1>23, <1>24, <1>25, <1>26,
     <1>27, <1>28
  DEF Next, OpenStep, ListenerStep, TaskStep, StopStep

\* try_reserve_pending_handshake and release_pending_handshake balance: "[p]ending-handshake
\* accounting is released exactly once when the route becomes established or is removed".
THEOREM PendingExact == Spec => []PendingIsExact
<1>1. CountInv => PendingIsExact
  BY DEF CountInv
<1> QED
  BY CountInit, CountStep, OwnHolds, <1>1, PTL DEF Spec
=============================================================================
