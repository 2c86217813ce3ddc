-------------------------- MODULE SessionRegistry ---------------------------
(***************************************************************************)
(* The endpoint and session tables of a runtime, and everything that adds  *)
(* to them or removes from them: opening an endpoint, a TCP listener's     *)
(* accepts, the handshake task of a session, closing a session or an       *)
(* endpoint, a fatal endpoint failure, and stop.                           *)
(*                                                                         *)
(* A call that opens an endpoint takes the two table locks one after the   *)
(* other, so it is several steps; stop and close_endpoint too.  A handle   *)
(* is named after what created it: the call for an endpoint and for its    *)
(* client session, the accepted connection for a session of a listener.    *)
(* Handles are not reused here.                                            *)
(*                                                                         *)
(* A reservation and the insertion that follows it are one step, and so    *)
(* are the two lock periods of close_endpoint_sessions: what happens       *)
(* between them could as well happen before or after.  Publishing an event *)
(* means handing it to the event queue.                                    *)
(***************************************************************************)
EXTENDS Integers, FiniteSets, Sequences

CONSTANTS
  Calls,          \* calls that open an endpoint
  Stops,          \* calls of stop
  Connections,    \* connections a listener may accept
  Kinds,          \* which entry points the calls use
  MaxEndpoints,   \* config.max_endpoints
  MaxPending,     \* config.max_pending_handshakes
  MaxSessions     \* config.max_sessions_per_endpoint

ASSUME RegistryAssumption ==
  /\ IsFiniteSet(Calls) /\ IsFiniteSet(Connections) /\ Calls \cap Connections = {}
  /\ "none" \notin Calls /\ "application" \notin Stops
  /\ Kinds \subseteq {"listen", "connect", "connect_resolved"}
  /\ MaxEndpoints \in Nat /\ MaxPending \in Nat /\ MaxSessions \in Nat

VARIABLES
  state,        \* RuntimeState
  call,         \* where each opening call is, and its entry point
  endpoints,    \* the endpoint table
  owner,        \* the task that owns an endpoint
  aborted,      \* endpoints whose registered task was told to stop
  accepting,    \* connections accepted and not yet admitted
  home,         \* the endpoint of a session
  sessions,     \* the session table
  established,  \* sessions that were marked established
  auth,         \* the authorization one-shot of a session
  task,         \* where the session's task is
  pending,      \* metrics.pending_handshakes
  closing,      \* removed by close_session, not yet accounted for
  sweeping,     \* endpoints removed by close_endpoint, sessions still to close
  stop,         \* where each stop is and the endpoints it still has to close
  stopped,      \* RuntimeStopped events published
  notices       \* session events published, in order

vars == <<state, call, endpoints, owner, aborted, accepting, home, sessions,
          established, auth, task, pending, closing, sweeping, stop,
          stopped, notices>>

Sessions == Calls \cup Connections
None == "none"

Init ==
  /\ state = "Running"
  /\ call = [c \in Calls |-> [at |-> "idle", kind |-> None]]
  /\ endpoints = {}
  /\ owner = [c \in Calls |-> None]
  /\ aborted = {}
  /\ accepting = [c \in Calls |-> {}]
  /\ home = [s \in Sessions |-> None]
  /\ sessions = {} /\ established = {}
  /\ auth = [s \in Sessions |-> None]
  /\ task = [s \in Sessions |-> None]
  /\ pending = 0
  /\ closing = {}
  /\ sweeping = {}
  /\ stop = [t \in Stops |-> [at |-> "idle", todo |-> {}]]
  /\ stopped = 0
  /\ notices = [s \in Sessions |-> << >>]

-----------------------------------------------------------------------------
(* Helpers *)

Goto(c, at) == call' = [call EXCEPT ![c].at = at]

Pending(S) == {s \in S : s \notin established}

\* Routes leave the table together with their pending-handshake reservation.
Remove(S) ==
  /\ sessions' = sessions \ S
  /\ pending' = pending - Cardinality(Pending(S \cap sessions))

Notify(S, events) ==
  notices' = [s \in Sessions |-> IF s \in S THEN notices[s] \o events ELSE notices[s]]

\* A slip: every caller publishes, the route or not.
CloseByEveryone(s, joining) ==
  /\ Remove({s})
  /\ Notify({s}, <<"SessionClosed">>)

\* session_close::close: whoever removes the route publishes, nobody else.
Close(s, joining) ==
  /\ Remove({s})
  /\ IF joining /\ s \notin established
     THEN Notify({s} \cap sessions, <<"JoinFailed", "SessionClosed">>)
     ELSE Notify({s} \cap sessions, <<"SessionClosed">>)

OfEndpoint(c) == {s \in sessions : home[s] = c}

-----------------------------------------------------------------------------
(* Opening an endpoint: open_endpoint, connect_host, connect_resolved and  *)
(* the open_adaptive_* functions behind them.                              *)

\* Only open_endpoint looks at the state; the multi-address calls do not.
Open(c, kind) ==
  /\ call[c].at = "idle"
  /\ call' = [call EXCEPT ![c] =
       [at |-> IF state = "Running" \/ kind = "connect_resolved" THEN "insert" ELSE "failed",
        kind |-> kind]]
  /\ UNCHANGED <<state, endpoints, owner, aborted, accepting, home, sessions,
                 established, auth, task, pending, closing, sweeping, stop,
                 stopped, notices>>

\* The socket is bound or connected, then insert_endpoint takes its lock.
InsertEndpoint(c) ==
  /\ call[c].at = "insert"
  /\ \/ /\ Cardinality(endpoints) < MaxEndpoints
        /\ endpoints' = endpoints \cup {c}
        /\ Goto(c, IF call[c].kind = "listen" THEN "announce" ELSE "route")
     \/ /\ Goto(c, "failed")          \* no socket, or no room
        /\ UNCHANGED endpoints
  /\ UNCHANGED <<state, owner, aborted, accepting, home, sessions, established,
                 auth, task, pending, closing, sweeping, stop, stopped, notices>>

\* insert_pending_session, without the endpoint lock.
InsertRoute(c) ==
  /\ call[c].at = "route"
  /\ IF pending < MaxPending
     THEN /\ pending' = pending + 1
          /\ sessions' = sessions \cup {c}
          /\ home' = [home EXCEPT ![c] = c]
          /\ Goto(c, "announce")
          /\ UNCHANGED endpoints
     ELSE /\ endpoints' = endpoints \ {c}
          /\ Goto(c, "failed")
          /\ UNCHANGED <<pending, sessions, home>>
  /\ UNCHANGED <<state, owner, aborted, accepting, established, auth, task,
                 closing, sweeping, stop, stopped, notices>>

\* push_endpoint_opened.  A full event queue undoes the two insertions.
AnnounceEndpoint(c) ==
  /\ call[c].at = "announce"
  /\ \/ /\ Goto(c, "register")
        /\ UNCHANGED <<endpoints, sessions, pending>>
     \/ /\ Remove({c})
        /\ endpoints' = endpoints \ {c}
        /\ Goto(c, "failed")
  /\ UNCHANGED <<state, owner, aborted, accepting, home, established, auth, task,
                 closing, sweeping, stop, stopped, notices>>

\* set_endpoint_abort, then the start signal to the waiting task.
Register(c) ==
  /\ call[c].at = "register"
  /\ IF c \in endpoints
     THEN /\ owner' = [owner EXCEPT ![c] = "running"]
          /\ task' = IF call[c].kind = "listen" THEN task
                     ELSE [task EXCEPT ![c] = "handshake"]
          /\ Goto(c, "opened")
     ELSE /\ Goto(c, "failed")
          /\ UNCHANGED <<owner, task>>
  /\ UNCHANGED <<state, endpoints, aborted, accepting, home, sessions, established,
                 auth, pending, closing, sweeping, stop, stopped, notices>>

-----------------------------------------------------------------------------
(* The listener: run_adaptive_tcp_listener *)

Listening(c) == call[c].kind = "listen" /\ owner[c] = "running"

\* An accept in the poll an abort interrupts is no different from one before.
Accept(c, s) ==
  /\ Listening(c) /\ c \notin aborted /\ state = "Running"
  /\ accepting[c] = {} /\ home[s] = None /\ \A d \in Calls : s \notin accepting[d]
  /\ accepting' = [accepting EXCEPT ![c] = {s}]
  /\ UNCHANGED <<state, call, endpoints, owner, aborted, home, sessions, established,
                 auth, task, pending, closing, sweeping, stop, stopped, notices>>

HasPermit(c) ==
  Cardinality({s \in Connections : home[s] = c /\ task[s] # "ended"}) < MaxSessions

\* A slip: no look at the endpoint table.
AdmitUnchecked(c, s) ==
  /\ s \in accepting[c]
  /\ accepting' = [accepting EXCEPT ![c] = {}]
  /\ IF HasPermit(c) /\ pending < MaxPending
     THEN /\ pending' = pending + 1
          /\ sessions' = sessions \cup {s}
          /\ home' = [home EXCEPT ![s] = c]
          /\ auth' = [auth EXCEPT ![s] = "waiting"]
          /\ task' = [task EXCEPT ![s] = "handshake"]
          /\ UNCHANGED owner
     ELSE /\ owner' = IF c \in endpoints \/ ~HasPermit(c) THEN owner
                      ELSE [owner EXCEPT ![c] = "ended"]
          /\ UNCHANGED <<pending, sessions, home, auth, task>>
  /\ UNCHANGED <<state, call, endpoints, aborted, established, closing, sweeping,
                 stop, stopped, notices>>

\* The route is inserted under the endpoint lock, after a look at the table.
Admit(c, s) ==
  /\ s \in accepting[c]
  /\ accepting' = [accepting EXCEPT ![c] = {}]
  /\ IF c \in endpoints /\ HasPermit(c) /\ pending < MaxPending
     THEN /\ pending' = pending + 1
          /\ sessions' = sessions \cup {s}
          /\ home' = [home EXCEPT ![s] = c]
          /\ auth' = [auth EXCEPT ![s] = "waiting"]
          /\ task' = [task EXCEPT ![s] = "handshake"]
          /\ UNCHANGED owner
     ELSE /\ owner' = IF c \in endpoints \/ ~HasPermit(c) THEN owner
                      ELSE [owner EXCEPT ![c] = "ended"]
          /\ UNCHANGED <<pending, sessions, home, auth, task>>
  /\ UNCHANGED <<state, call, endpoints, aborted, established, closing, sweeping,
                 stop, stopped, notices>>

\* A slip: the listener goes, its routes stay.
AcceptFailsKeepingRoutes(c) ==
  /\ Listening(c) /\ c \notin aborted /\ accepting[c] = {}
  /\ owner' = [owner EXCEPT ![c] = "ended"]
  /\ IF c \in endpoints
     THEN /\ endpoints' = endpoints \ {c}
     ELSE UNCHANGED endpoints
  /\ UNCHANGED <<state, call, aborted, accepting, home, established, auth, task,
                 closing, sweeping, stop, stopped, sessions, pending, notices>>

\* A fatal accept error: fail_endpoint without an initial client.
AcceptFails(c) ==
  /\ Listening(c) /\ c \notin aborted /\ accepting[c] = {}
  /\ owner' = [owner EXCEPT ![c] = "ended"]
  /\ IF c \in endpoints
     THEN /\ endpoints' = endpoints \ {c}
          /\ Remove(OfEndpoint(c))
          /\ Notify(OfEndpoint(c), <<"SessionClosed">>)
     ELSE UNCHANGED <<endpoints, sessions, pending, notices>>
  /\ UNCHANGED <<state, call, aborted, accepting, home, established, auth, task,
                 closing, sweeping, stop, stopped>>

\* The abort reaches the listener where it waits; its tasks go with it.
ListenerAborted(c) ==
  /\ Listening(c) /\ c \in aborted /\ accepting[c] = {}
  /\ owner' = [owner EXCEPT ![c] = "ended"]
  /\ UNCHANGED <<state, call, endpoints, aborted, accepting, home, sessions, established,
                 auth, task, pending, closing, sweeping, stop, stopped, notices>>

-----------------------------------------------------------------------------
(* The session's task: adaptive_server_flow and run_adaptive_tcp_client *)

\* An accepted session closes alone; a client takes its endpoint with it.
FailSession(s) ==
  /\ task' = [task EXCEPT ![s] = "ended"]
  /\ IF s \in Connections
     THEN Close(s, TRUE) /\ UNCHANGED endpoints
     ELSE IF s \in endpoints
     THEN Close(s, TRUE) /\ endpoints' = endpoints \ {s}
     ELSE UNCHANGED <<endpoints, sessions, pending, notices>>

\* Noise messages are exchanged; a client also waits for the decision.
Handshake(s) ==
  /\ task[s] = "handshake"
  /\ task' = [task EXCEPT ![s] = IF s \in Connections THEN "request" ELSE "mark"]
  /\ UNCHANGED <<state, call, endpoints, owner, aborted, accepting, home, sessions,
                 established, auth, pending, closing, sweeping, stop, stopped, notices>>

\* A timeout, a rejection by the peer or a broken connection.
HandshakeFails(s) ==
  /\ task[s] \in {"handshake", "deciding"}
  /\ FailSession(s)
  /\ UNCHANGED <<state, call, owner, aborted, accepting, home, established, auth,
                 closing, sweeping, stop, stopped>>

\* push_tcp_event: a runtime that is not running may drop the event.
PushEvent(s, event) ==
  \/ Notify({s}, <<event>>)
  \/ state # "Running" /\ UNCHANGED notices

RequestAuth(s) ==
  /\ task[s] = "request"
  /\ task' = [task EXCEPT ![s] = "deciding"]
  /\ PushEvent(s, "AuthRequest")
  /\ UNCHANGED <<state, call, endpoints, owner, aborted, accepting, home, sessions,
                 established, auth, pending, closing, sweeping, stop, stopped>>

\* A slip: a rejection is sent and not acted upon.
DecidedEitherWay(s) ==
  /\ task[s] = "deciding"
  /\ \/ /\ auth[s] \in {"accepted", "rejected"}
        /\ task' = [task EXCEPT ![s] = "mark"]
        /\ UNCHANGED <<endpoints, sessions, pending, notices>>
     \/ /\ auth[s] = "rejected" \/ (auth[s] = "waiting" /\ s \notin sessions)
        /\ FailSession(s)
  /\ UNCHANGED <<state, call, owner, aborted, accepting, home, established, auth,
                 closing, sweeping, stop, stopped>>

\* The decision arrives and is sent to the client; a rejection fails the
\* session, and so does a route that took the unused one-shot with it.
Decided(s) ==
  /\ task[s] = "deciding"
  /\ \/ /\ auth[s] = "accepted"
        /\ task' = [task EXCEPT ![s] = "mark"]
        /\ UNCHANGED <<endpoints, sessions, pending, notices>>
     \/ /\ auth[s] = "rejected" \/ (auth[s] = "waiting" /\ s \notin sessions)
        /\ FailSession(s)
  /\ UNCHANGED <<state, call, owner, aborted, accepting, home, established, auth,
                 closing, sweeping, stop, stopped>>

\* mark_session_established
MarkEstablished(s) ==
  /\ task[s] = "mark"
  /\ IF s \in sessions
     THEN /\ established' = established \cup {s}
          /\ pending' = pending - Cardinality(Pending({s}))
          /\ task' = [task EXCEPT ![s] = "open"]
          /\ UNCHANGED <<endpoints, sessions, notices>>
     ELSE /\ FailSession(s)
          /\ UNCHANGED established
  /\ UNCHANGED <<state, call, owner, aborted, accepting, home, auth, closing,
                 sweeping, stop, stopped>>

SessionOpened(s) ==
  /\ task[s] = "open"
  /\ task' = [task EXCEPT ![s] = "running"]
  /\ PushEvent(s, "SessionOpened")
  /\ UNCHANGED <<state, call, endpoints, owner, aborted, accepting, home, sessions,
                 established, auth, pending, closing, sweeping, stop, stopped>>

\* run_adaptive_session returns (see TcpSession for when it does).  A client
\* takes its endpoint with it, under the endpoint lock.
SessionEnds(s) ==
  /\ task[s] = "running"
  /\ task' = [task EXCEPT ![s] = "ended"]
  /\ endpoints' = endpoints \ ({s} \cap Calls)
  /\ Close(s, FALSE)
  /\ UNCHANGED <<state, call, owner, aborted, accepting, home, established, auth,
                 closing, sweeping, stop, stopped>>

\* A slip: the listener's tasks are detached.
TaskAbortedIfClient(s) ==
  /\ task[s] \in {"handshake", "request", "deciding", "open", "running"}
  /\ s \in aborted
  /\ task' = [task EXCEPT ![s] = "ended"]
  /\ UNCHANGED <<state, call, endpoints, owner, aborted, accepting, home, sessions,
                 established, auth, pending, closing, sweeping, stop, stopped, notices>>

\* An abort takes effect only where the task waits.
TaskAborted(s) ==
  /\ task[s] \in {"handshake", "request", "deciding", "open", "running"}
  /\ IF s \in Calls THEN s \in aborted ELSE owner[home[s]] = "ended"
  /\ task' = [task EXCEPT ![s] = "ended"]
  /\ UNCHANGED <<state, call, endpoints, owner, aborted, accepting, home, sessions,
                 established, auth, pending, closing, sweeping, stop, stopped, notices>>

-----------------------------------------------------------------------------
(* The application's calls *)

\* auth_decide consumes the one-shot; the decision is lost if nobody waits.
AuthDecide(s, decision) ==
  /\ s \in sessions /\ auth[s] = "waiting" /\ notices[s] # << >>
  /\ auth' = [auth EXCEPT ![s] = IF task[s] = "ended" THEN "expired" ELSE decision]
  /\ UNCHANGED <<state, call, endpoints, owner, aborted, accepting, home, sessions,
                 established, task, pending, closing, sweeping, stop, stopped, notices>>

\* close_session drops the lock before it settles the accounts.
CloseSession(s) ==
  /\ s \in sessions /\ notices[s] # << >>
  /\ sessions' = sessions \ {s}
  /\ closing' = closing \cup {s}
  /\ UNCHANGED <<state, call, endpoints, owner, aborted, accepting, home, established,
                 auth, task, pending, sweeping, stop, stopped, notices>>

\* A slip: the reservation is forgotten.
SettleCloseUnreleased(s) ==
  /\ s \in closing
  /\ closing' = closing \ {s}
  /\ UNCHANGED pending
  /\ Notify({s}, <<"SessionClosed">>)
  /\ UNCHANGED <<state, call, endpoints, owner, aborted, accepting, home, sessions,
                 established, auth, task, sweeping, stop, stopped>>

SettleClose(s) ==
  /\ s \in closing
  /\ closing' = closing \ {s}
  /\ pending' = pending - Cardinality(Pending({s}))
  /\ Notify({s}, <<"SessionClosed">>)
  /\ UNCHANGED <<state, call, endpoints, owner, aborted, accepting, home, sessions,
                 established, auth, task, sweeping, stop, stopped>>

\* A slip: the routes are not closed.
RemoveEndpointAlone(who, c) ==
  IF c \in endpoints
  THEN /\ endpoints' = endpoints \ {c}
       /\ aborted' = IF owner[c] = None THEN aborted ELSE aborted \cup {c}
       /\ UNCHANGED sweeping
  ELSE UNCHANGED <<endpoints, aborted, sweeping>>

\* close_endpoint: the record first, its sessions in a second step.
RemoveEndpoint(who, c) ==
  IF c \in endpoints
  THEN /\ endpoints' = endpoints \ {c}
       /\ aborted' = IF owner[c] = None THEN aborted ELSE aborted \cup {c}
       /\ sweeping' = sweeping \cup {<<who, c>>}
  ELSE UNCHANGED <<endpoints, aborted, sweeping>>

CloseEndpoint(c) ==
  /\ c \in endpoints /\ call[c].at \in {"register", "opened"}
  /\ RemoveEndpoint("application", c)
  /\ UNCHANGED <<state, call, owner, accepting, home, sessions, established, auth,
                 task, pending, closing, stop, stopped, notices>>

\* close_endpoint_sessions, under the session lock.
Sweep(who, c) ==
  /\ <<who, c>> \in sweeping
  /\ sweeping' = sweeping \ {<<who, c>>}
  /\ Remove(OfEndpoint(c))
  /\ Notify(OfEndpoint(c), <<"SessionClosed">>)
  /\ UNCHANGED <<state, call, endpoints, owner, aborted, accepting, home, established,
                 auth, task, closing, stop, stopped>>

-----------------------------------------------------------------------------
(* stop *)

\* A second stop joins the first; one that lost the race for the state fails.
BeginStop(t) ==
  /\ stop[t].at = "idle"
  /\ state' = IF state = "Running" THEN "Draining" ELSE state
  /\ \E at \in CASE state = "Running"  -> {"drain"}
               [] state = "Draining" -> {"drain", "failed"}
               [] OTHER              -> {"emit", "failed"} :
       stop' = [stop EXCEPT ![t].at = at]
  /\ UNCHANGED <<call, endpoints, owner, aborted, accepting, home, sessions, established,
                 auth, task, pending, closing, sweeping, stopped, notices>>

\* The session table is empty or the drain deadline has passed.
StopSnapshot(t) ==
  /\ stop[t].at = "drain"
  /\ stop' = [stop EXCEPT ![t] = [at |-> "close", todo |-> endpoints]]
  /\ UNCHANGED <<state, call, endpoints, owner, aborted, accepting, home, sessions,
                 established, auth, task, pending, closing, sweeping, stopped, notices>>

StopCloses(t, c) ==
  /\ stop[t].at = "close" /\ c \in stop[t].todo
  /\ \A d \in Calls : <<t, d>> \notin sweeping
  /\ stop' = [stop EXCEPT ![t].todo = @ \ {c}]
  /\ RemoveEndpoint(t, c)
  /\ UNCHANGED <<state, call, owner, accepting, home, sessions, established, auth,
                 task, pending, closing, stopped, notices>>

MarkStopped(t) ==
  /\ stop[t].at = "close" /\ stop[t].todo = {}
  /\ \A d \in Calls : <<t, d>> \notin sweeping
  /\ state' = "Stopped"
  /\ \E at \in IF state = "Draining" THEN {"emit"} ELSE {"emit", "failed"} :
       stop' = [stop EXCEPT ![t].at = at]
  /\ UNCHANGED <<call, endpoints, owner, aborted, accepting, home, sessions, established,
                 auth, task, pending, closing, sweeping, stopped, notices>>

\* emit_runtime_stopped, under its own lock.
EmitStopped(t) ==
  /\ stop[t].at = "emit"
  /\ stopped' = IF stopped = 0 THEN 1 ELSE stopped
  /\ stop' = [stop EXCEPT ![t].at = "returned"]
  /\ UNCHANGED <<state, call, endpoints, owner, aborted, accepting, home, sessions,
                 established, auth, task, pending, closing, sweeping, notices>>

-----------------------------------------------------------------------------
OpenStep(c) == InsertEndpoint(c) \/ InsertRoute(c) \/ AnnounceEndpoint(c) \/ Register(c)

ListenerStep(c) == ListenerAborted(c) \/ \E s \in Connections : Admit(c, s)

TaskStep(s) ==
  \/ Handshake(s) \/ HandshakeFails(s) \/ RequestAuth(s) \/ Decided(s)
  \/ MarkEstablished(s) \/ SessionOpened(s) \/ TaskAborted(s)

StopStep(t) ==
  \/ StopSnapshot(t) \/ MarkStopped(t) \/ EmitStopped(t)
  \/ \E c \in Calls : StopCloses(t, c)

Next ==
  \/ \E c \in Calls :
       \/ \E kind \in Kinds : Open(c, kind)
       \/ OpenStep(c) \/ ListenerStep(c) \/ AcceptFails(c) \/ CloseEndpoint(c)
       \/ \E s \in Connections : Accept(c, s)
       \/ \E who \in Stops \cup {"application"} : Sweep(who, c)
  \/ \E s \in Sessions :
       \/ TaskStep(s) \/ SessionEnds(s) \/ CloseSession(s) \/ SettleClose(s)
       \/ \E decision \in {"accepted", "rejected"} : AuthDecide(s, decision)
  \/ \E t \in Stops : BeginStop(t) \/ StopStep(t)

Spec == Init /\ [][Next]_vars

\* Threads and tasks that can go on do; a handshake that gets no answer runs
\* into its timeout; a full event queue is polled in the end.  Nothing is
\* assumed of the application's other calls, or of the peers.
Fairness ==
  /\ \A c \in Calls : WF_vars(OpenStep(c)) /\ WF_vars(ListenerStep(c))
  /\ \A c \in Calls, who \in Stops \cup {"application"} : WF_vars(Sweep(who, c))
  /\ \A s \in Sessions : WF_vars(TaskStep(s)) /\ WF_vars(SettleClose(s))
  /\ \A t \in Stops : WF_vars(StopStep(t))

FairSpec == Spec /\ Fairness

-----------------------------------------------------------------------------
(* Properties *)

\* The pending-handshake count is the number of routes that are neither
\* established nor given up, whichever of the racing paths released them.
PendingIsExact == pending = Cardinality(Pending(sessions \cup closing))

Count(s, event) == Cardinality({i \in DOMAIN notices[s] : notices[s][i] = event})

\* A route that is in the table has not been announced as closed; one that
\* left it has been, exactly once, unless its call failed to open.  A join
\* failure comes right before the closure and never for an open session.
ClosedExactlyOnce ==
  \A s \in Sessions :
    /\ s \in sessions \cup closing => Count(s, "SessionClosed") = 0
    /\ home[s] # None /\ s \notin sessions \cup closing
         => \/ Count(s, "SessionClosed") = 1
            \/ s \in Calls /\ call[s].at = "failed" /\ notices[s] = << >>
    /\ \A i \in DOMAIN notices[s] : notices[s][i] = "JoinFailed" =>
         /\ s \notin established
         /\ i < Len(notices[s]) /\ notices[s][i + 1] = "SessionClosed"

\* A route of a listener outlives its endpoint only until the thread that
\* removed the endpoint has closed it: no accept slips past the removal.
ListenerOwnsRoutes ==
  \A s \in sessions \cap Connections :
    \/ home[s] \in endpoints
    \/ \E who \in Stops \cup {"application"} : <<who, home[s]>> \in sweeping

\* No session of a listener is announced as open before the application has
\* accepted it, and a listener never has more routes than permits.
OnlyAuthorisedOpen ==
  /\ \A s \in Connections : Count(s, "SessionOpened") > 0 => auth[s] = "accepted"
  /\ \A c \in Calls : Cardinality(OfEndpoint(c) \cap Connections) <= MaxSessions

\* stop "[s]tops accepting new sends/endpoints" and "closes remaining
\* endpoints" (transport lifecycle.rs, stop): once it has returned there is
\* no endpoint and no session route.
StopIsFinal ==
  (\E t \in Stops : stop[t].at = "returned") => endpoints = {} /\ sessions = {}

\* A handshake of a listener's session never stays pending.
HandshakeSettles ==
  \A s \in Connections :
    s \in sessions /\ s \notin established ~> s \notin sessions \/ s \in established

\* stop comes to an end whatever is opened, accepted and closed meanwhile,
\* and an endpoint it finds goes, with every route a listener put under it.
StopCompletes ==
  \A t \in Stops :
    /\ stop[t].at = "drain" ~> stop[t].at \in {"returned", "failed"}
    /\ \A c \in Calls :
         stop[t].at = "drain" /\ c \in endpoints
           ~> c \notin endpoints /\ OfEndpoint(c) \cap Connections = {}

\* The tasks of a closed or failed listener end, silent handshakes included.
ClosedListenerEnds ==
  \A c \in Calls : \A s \in Connections :
    home[s] = c /\ c \notin endpoints ~> task[s] = "ended"
=============================================================================
