---------------------------- MODULE GameSession -----------------------------
(***************************************************************************)
(* Two rnet-game runtimes, a server with one listener and a client, from   *)
(* connect to the end of the session: version negotiation, publication of  *)
(* readiness, early data, resume tickets, kicks and closing the listener.  *)
(*                                                                         *)
(* The two runtimes run the same code, so rt["server"] and rt["client"]    *)
(* are records of one shape and a handler is a function from such a record *)
(* to what it becomes.  A connection attempt is a number and stands for    *)
(* the session handle on either side, its endpoint on the client and its   *)
(* negotiation nonce.  Everything done under poll_guard is one step but    *)
(* close_session, whose parts issue_resume_ticket can run between, since   *)
(* it does not take that lock.                                             *)
(*                                                                         *)
(* The transport is kept to what its session drivers do here: it opens     *)
(* what the application authorised, it may close a session at any time,    *)
(* and queues the controls and messages it receives, which are lost,       *)
(* reordered and, when the sender repeats them, received again.  Deadlines *)
(* may pass whenever they are armed.  A message has no length: the byte    *)
(* budgets are kept exactly like the message budgets that are modelled.    *)
(***************************************************************************)
EXTENDS Naturals, Sequences, FiniteSets, SequencesExt

CONSTANTS
  Scenarios,        \* what the applications and the network do, one per behaviour
  ServerVersions,   \* the listener's version range, <<min, max>>
  MaxSessionEarly,  \* MAX_BUFFERED_MESSAGES
  MaxEarly,         \* max_buffered_messages, the early-data budget
  MaxPublic         \* the same limit, for deferred public events

Runtimes == {"server", "client"}

\* The version range of each attempt, which attempts present a ticket, and bounds:
\* messages the server sends a session, tickets, kicks, spontaneous disconnects
\* and expired tickets together (drops), repeated controls, output slots a poll of
\* the client has at most, and closing the listener.
Scenario == [offers: Seq(Nat \X Nat), resumes: SUBSET Nat, sends: Nat, tickets: Nat,
             kicks: Nat, drops: Nat, retries: Nat, room: Nat, closes: BOOLEAN]

ASSUME GameAssumption ==
  /\ \A scenario \in Scenarios : scenario \in Scenario
  /\ ServerVersions \in Nat \X Nat
  /\ MaxSessionEarly \in Nat /\ MaxEarly \in Nat /\ MaxPublic \in Nat \ {0}

VARIABLES
  scenario,   \* the scenario of this behaviour
  rt,         \* rt[r]: the state of runtime r
  air,        \* controls and messages on their way
  listening,  \* the server's listener is registered
  join,       \* the ticket each attempt presented
  asked,      \* attempts whose authorisation request the application has seen
  granted,    \* attempts the application authorised
  origin,     \* origin[t]: the session ticket t was issued for
  held,       \* tickets the client's application has received
  issuing,    \* tickets registered by issue_resume_ticket and not yet sent
  kicking,    \* the session a close_session is between its parts for
  kicked,     \* history: sessions closed by close_session
  void,       \* history: tickets some kick should have made worthless
  confirmed,  \* history: the version a server session became ready with
  readyWith,  \* history: the version a client session became ready with
  arrived,    \* history: messages the client has taken in, in order
  seen,       \* history: readiness and messages its application was given
  sent,       \* messages sent to each session
  dropped,    \* spontaneous disconnects and expired tickets so far
  repeated    \* repeated controls so far

appVars == <<join, asked, granted, origin, held, issuing, sent>>
historyVars == <<confirmed, readyWith, arrived, seen>>
gameVars == <<scenario, rt, air, listening, appVars, kicking, kicked, void,
              historyVars, dropped, repeated>>

None == 0
Attempts == DOMAIN scenario.offers
Tickets == 1..scenario.tickets

-----------------------------------------------------------------------------
(* The state of a runtime *)

\* RangeSession; phase "none" where the table has no entry.
NoRange == [phase |-> "none", selected |-> None, old |-> None, resume |-> FALSE, early |-> << >>]

\* net is the transport's route, queue its event queue, owned session_endpoints,
\* ready SendAdmission's set; meta, claim, inflight, revoked and heir are
\* ResumeRuntimeState's server_sessions, pending_server, inflight_server,
\* revoked_inflight and client_endpoints; joins is range.client_endpoints.
NewRuntime(attempts, tickets) ==
  [net |-> [c \in attempts |-> "none"], queue |-> << >>, owned |-> {},
   range |-> [c \in attempts |-> NoRange], ready |-> {},
   tickets |-> [t \in tickets |-> NoRange],
   meta |-> [c \in attempts |-> None], claim |-> [c \in attempts |-> None],
   inflight |-> [c \in attempts |-> None], revoked |-> {},
   heir |-> [c \in attempts |-> None], joins |-> {},
   completed |-> << >>, public |-> 0, buffered |-> 0]

GameInit ==
  /\ scenario \in Scenarios
  /\ rt = [r \in Runtimes |-> NewRuntime(Attempts, Tickets)]
  /\ air = {} /\ listening = TRUE
  /\ join = [c \in Attempts |-> None]
  /\ asked = {} /\ granted = {} /\ origin = << >> /\ held = {} /\ issuing = {}
  /\ kicking = None /\ kicked = {} /\ void = {}
  /\ confirmed = [c \in Attempts |-> None] /\ readyWith = [c \in Attempts |-> None]
  /\ arrived = [c \in Attempts |-> << >>] /\ seen = << >>
  /\ sent = [c \in Attempts |-> 0] /\ dropped = 0 /\ repeated = 0

Native(kind, c) == [kind |-> kind, session |-> c]

Live(s, c) == s.net[c] \notin {"none", "closed"}

\* validate_payload_len finds an established route.
Valid(s, c) == s.net[c] = "open"

\* network.close_session and session_close::close: the first to close publishes.
NetClose(s, c) ==
  IF Live(s, c)
  THEN [s EXCEPT !.net[c] = "closed",
                 !.queue = IF s.net[c] = "joining"
                           THEN @ \o <<Native("JoinFailed", c), Native("SessionClosed", c)>>
                           ELSE Append(@, Native("SessionClosed", c))]
  ELSE s

-----------------------------------------------------------------------------
(* Cleanup *)

\* forget_resume_session
ForgetResume(s, c) ==
  LET abandoned == {o \in DOMAIN s.inflight : s.inflight[o] = c}
  IN  [s EXCEPT !.meta[c] = None, !.claim[c] = None,
                !.inflight = [o \in DOMAIN @ |-> IF o \in abandoned THEN None ELSE @[o]],
                !.revoked = @ \ abandoned]

\* event_belongs_to_session
BelongsTo(event, c) == event.session = c /\ event.kind \in {"Message", "Ready", "ResumeTicket"}

Reserved(completed) == SelectSeq(completed, LAMBDA p : p.reserved)

\* A slip: what moved behind the ready event keeps its reservation.
ForgetRangeKeeping(s, c) ==
  [s EXCEPT !.range[c] = NoRange,
            !.completed = SelectSeq(@, LAMBDA p : ~BelongsTo(p.event, c)),
            !.buffered = @ - Len(s.range[c].early),
            !.public = @ - Len(SelectSeq(s.completed, LAMBDA p : BelongsTo(p.event, c) /\ ~p.reserved))]

\* RangeRuntimeState::forget_session
ForgetRange(s, c) ==
  LET gone == SelectSeq(s.completed, LAMBDA p : BelongsTo(p.event, c))
  IN  [s EXCEPT !.range[c] = NoRange,
                !.completed = SelectSeq(@, LAMBDA p : ~BelongsTo(p.event, c)),
                !.buffered = @ - Len(s.range[c].early) - Len(Reserved(gone)),
                !.public = @ - (Len(gone) - Len(Reserved(gone)))]

\* forget_ready_session
Forget(s, c) ==
  [ForgetRange(ForgetResume(s, c), c) EXCEPT !.owned = @ \ {c}, !.ready = @ \ {c}]

CloseAndForget(s, c) == Forget(NetClose(s, c), c)

\* ResumeRegistry::revoke_session and revoke_endpoint
Revoke(s, olds) ==
  [s EXCEPT !.tickets = [t \in DOMAIN @ |-> IF @[t].old \in olds THEN NoRange ELSE @[t]]]

\* The candidates that claim to continue session c.
Candidates(s, c) ==
  {n \in DOMAIN s.claim : s.claim[n] = c} \cup ({s.inflight[c]} \ {None})

\* A slip: a claim already in flight is overlooked.
RevokeSessionPending(s, c) ==
  LET revoked == Revoke(s, {c})
  IN  FoldSet(LAMBDA n, x : CloseAndForget(x, n), revoked,
              {n \in DOMAIN s.claim : s.claim[n] = c})

\* revoke_resume_session.  Closing a candidate in flight takes its mark away again.
RevokeSession(s, c) ==
  LET revoked == Revoke(s, {c})
      marked == IF s.inflight[c] = None THEN revoked ELSE [revoked EXCEPT !.revoked = @ \cup {c}]
  IN  FoldSet(LAMBDA n, x : CloseAndForget(x, n), marked, Candidates(s, c))

-----------------------------------------------------------------------------
(* Public events: queue_public, drain_completed, buffer_message *)

\* What the conversion of a native event does: the new state, the public events
\* it yields, what it sends and whether it found the peer in violation.
Converted(s, public, sends) == [state |-> s, public |-> public, sends |-> sends, fault |-> FALSE]

Quietly(s) == Converted(s, << >>, {})

Public(kind, c) == [kind |-> kind, session |-> c, n |-> 0]

\* The error arm of convert_events_into.
Violation(s, c) ==
  [Converted(NetClose(s, c), <<Public("ProtocolViolation", c)>>, {}) EXCEPT !.fault = TRUE]

\* A slip: readiness goes to the back like any other event.
PlaceLast(completed, event) == Len(completed) + 1

\* Readiness precedes the session's buffered messages.
Place(completed, event) ==
  LET data == {i \in DOMAIN completed : /\ completed[i].event.kind = "Message"
                                        /\ completed[i].event.session = event.session}
  IN  IF event.kind = "Ready" /\ data # {}
      THEN CHOOSE i \in data : \A j \in data : i <= j
      ELSE Len(completed) + 1

\* drain_completed: the state without what it handed over, and that.
Drained(s, room) ==
  LET k == IF room < Len(s.completed) THEN room ELSE Len(s.completed)
      gone == SubSeq(s.completed, 1, k)
  IN  [state |-> [s EXCEPT !.completed = SubSeq(@, k + 1, Len(@)),
                           !.buffered = @ - Len(Reserved(gone)),
                           !.public = @ - (k - Len(Reserved(gone)))],
       output |-> [i \in 1..k |-> gone[i].event]]

\* queue_public of the at most one event, and the drain that follows.
Publish(s, public, room) ==
  IF public = << >> THEN Drained(s, room)
  ELSE IF room > 0 /\ s.completed = << >> THEN [state |-> s, output |-> public]
  ELSE LET event == Head(public)
           place == Place(s.completed, event)
       IN  Drained([s EXCEPT !.completed = InsertAt(@, place, [event |-> event, reserved |-> FALSE]),
                             !.public = @ + 1], room)

IsReady(phase) == phase \in {"ServerReady", "ClientReady"}

\* buffer_message
BufferMessage(s, c, event) ==
  LET phase == s.range[c].phase
  IN  IF phase = "none" \/ IsReady(phase) THEN Converted(s, <<event>>, {})
      ELSE IF Len(s.range[c].early) >= MaxSessionEarly \/ s.buffered + 1 > MaxEarly
      THEN Violation(s, c)
      ELSE Quietly([s EXCEPT !.range[c].early = Append(@, event), !.buffered = @ + 1])

\* complete_buffered
CompleteBuffered(s, c) ==
  LET moved == [i \in DOMAIN s.range[c].early |-> [event |-> s.range[c].early[i], reserved |-> TRUE]]
  IN  [s EXCEPT !.range[c].early = << >>, !.completed = @ \o moved]

-----------------------------------------------------------------------------
(* Authorisation requests *)

\* join::select_version, None where the ranges do not meet.
SelectVersion(client, server) ==
  LET lower == IF client[1] > server[1] THEN client[1] ELSE server[1]
      upper == IF client[2] < server[2] THEN client[2] ELSE server[2]
  IN  IF lower <= upper THEN upper ELSE None

Within(version, bounds) == bounds[1] <= version /\ version <= bounds[2]

\* pinned_version and the range check before consume.
Claims(s, c) ==
  LET ticket == s.tickets[join[c]]
  IN  /\ ticket.old # None
      /\ Within(ticket.selected, scenario.offers[c])
      /\ Within(ticket.selected, ServerVersions)

\* A slip: a resumed session negotiates anew.
JoinVersionAnew(s, c) == SelectVersion(scenario.offers[c], ServerVersions)

\* The version a join gets: a resumed session keeps the one its ticket is bound to.
JoinVersion(s, c) ==
  IF join[c] # None THEN s.tickets[join[c]].selected
  ELSE SelectVersion(scenario.offers[c], ServerVersions)

\* ResumeRegistry::consume
Consume(s, t) == [s EXCEPT !.tickets[t] = NoRange]

RejectJoin(s, c) == Converted(NetClose(s, c), <<Public("ProtocolRejected", c)>>, {})

\* range_auth_request and the ownership convert_event records after it.
OnAuthRequest(s, c) ==
  LET t == join[c]
      resuming == t # None
      version == JoinVersion(s, c)
      taken == IF resuming THEN Consume(s, t) ELSE s
  IN  IF ~listening \/ (IF resuming THEN ~Claims(s, c) ELSE version = None)
      THEN RejectJoin(s, c)
      ELSE Converted([taken EXCEPT
               !.range[c] = [NoRange EXCEPT !.phase = "ServerAwaitOpen", !.selected = version],
               !.meta[c] = version,
               !.claim[c] = IF resuming THEN s.tickets[t].old ELSE None,
               !.owned = @ \cup {c}],
             <<Public("AuthRequest", c)>>, {})

-----------------------------------------------------------------------------
(* Negotiation *)

Control(r, op, c, version) == [to |-> r, op |-> op, session |-> c, n |-> version]

\* convert_event's SessionOpened and start_range_session.
OnSessionOpened(s, r, c) ==
  LET resume == s.claim[c] # None
      old == IF resume THEN s.claim[c] ELSE s.heir[c]
      opened == IF resume THEN [s EXCEPT !.claim[c] = None, !.inflight[old] = c, !.owned = @ \cup {c}]
                ELSE [s EXCEPT !.heir[c] = None, !.owned = @ \cup {c}]
  IN  IF r = "server" /\ ~listening THEN Quietly(NetClose(s, c))
      ELSE IF ~Valid(s, c) THEN Quietly(s)
      ELSE IF s.range[c].phase = "ServerAwaitOpen"
      THEN Converted([opened EXCEPT !.range[c].phase = "ServerAwaitAck",
                                    !.range[c].old = old, !.range[c].resume = resume],
                     << >>, {Control("client", "SELECT", c, s.range[c].selected)})
      ELSE IF c \in s.joins
      THEN Quietly([opened EXCEPT !.joins = @ \ {c},
                      !.range[c] = [NoRange EXCEPT !.phase = "ClientAwaitSelect", !.old = old]])
      ELSE Violation(opened, c)

\* publish_range_ready
PublishReady(s, c) ==
  LET old == s.range[c].old
      resume == s.range[c].resume
      claimed == [s EXCEPT !.inflight = IF resume THEN [@ EXCEPT ![old] = None] ELSE @]
      published == [claimed EXCEPT !.ready = @ \cup {c}]
  IN  IF ~Valid(s, c) THEN Quietly(Forget(s, c))
      ELSE IF resume /\ (old \in s.revoked \/ s.inflight[old] # c)
      THEN Quietly(CloseAndForget([claimed EXCEPT !.revoked = @ \ {old}], c))
      ELSE Converted(IF old = None THEN published ELSE CloseAndForget(published, old),
                     <<Public("Ready", c)>>, {})

\* SELECT, on the client.
OnSelect(s, c, version) ==
  LET range == s.range[c]
      accepts == Within(version, scenario.offers[c]) /\ range.selected \in {None, version}
  IN  IF range.phase = "ClientReady" /\ range.selected = version THEN Quietly(s)
      ELSE IF range.phase \in {"ClientAwaitSelect", "ClientAwaitReady"} /\ accepts
      THEN LET chosen == [s EXCEPT !.range[c].selected = version, !.range[c].phase = "ClientAwaitReady"]
           IN  IF Valid(s, c) THEN Converted(chosen, << >>, {Control("server", "ACK", c, version)})
                              ELSE Violation(chosen, c)
      ELSE Violation(s, c)

\* ACK, on the server: nothing is published unless READY is on its way.
OnAck(s, c, version, blocked) ==
  LET range == s.range[c]
      ready == {Control("client", "READY", c, version)}
  IN  IF range.phase \notin {"ServerAwaitAck", "ServerReady"} \/ range.selected # version
         \/ ~Valid(s, c)
      THEN Violation(s, c)
      ELSE IF blocked THEN Quietly(s)
      ELSE IF range.phase = "ServerReady" THEN Converted(s, << >>, ready)
      ELSE [PublishReady(CompleteBuffered([s EXCEPT !.range[c].phase = "ServerReady"], c), c)
              EXCEPT !.sends = ready]

\* READY, on the client.
OnReady(s, c, version) ==
  LET range == s.range[c]
  IN  IF range.phase \notin {"ClientAwaitReady", "ClientReady"} \/ range.selected # version
      THEN Violation(s, c)
      ELSE IF range.phase = "ClientReady" THEN Quietly(s)
      ELSE PublishReady(CompleteBuffered([s EXCEPT !.range[c].phase = "ClientReady"], c), c)

\* handle_range_control; a deadline may have passed unnoticed.
OnControl(s, c, event, blocked, late) ==
  IF s.range[c].phase = "none" \/ (late /\ ~IsReady(s.range[c].phase)) THEN Violation(s, c)
  ELSE CASE event.op = "SELECT" -> OnSelect(s, c, event.n)
         [] event.op = "ACK" -> OnAck(s, c, event.n, blocked)
         [] event.op = "READY" -> OnReady(s, c, event.n)

-----------------------------------------------------------------------------
(* Poll *)

\* handle_game_control_event's resume tickets.
OnTicket(s, r, c, t) ==
  IF r = "server" THEN Violation(s, c)
  ELSE IF c \notin s.ready THEN Quietly(s)
  ELSE Converted(s, <<[Public("ResumeTicket", c) EXCEPT !.n = t]>>, {})

\* convert_event
Convert(s, r, event, blocked, late) ==
  LET c == event.session
  IN  CASE event.kind = "AuthRequest" -> OnAuthRequest(s, c)
        [] event.kind = "SessionOpened" -> OnSessionOpened(s, r, c)
        [] event.kind = "JoinFailed" -> Converted([s EXCEPT !.heir[c] = None, !.joins = @ \ {c}],
                                                  <<Public("JoinFailed", c)>>, {})
        [] event.kind = "SessionClosed" -> Converted(Forget(s, c), <<Public("SessionClosed", c)>>, {})
        [] event.kind = "Control" -> OnControl(s, c, event, blocked, late)
        [] event.kind = "Ticket" -> OnTicket(s, r, c, event.n)
        [] event.kind = "Data" -> BufferMessage(s, c, [Public("Message", c) EXCEPT !.n = event.n])

\* What the application is given is remembered where it matters.
Hands(output) ==
  /\ asked' = asked \cup {output[i].session : i \in {j \in DOMAIN output : output[j].kind = "AuthRequest"}}
  /\ held' = held \cup {output[i].n : i \in {j \in DOMAIN output : output[j].kind = "ResumeTicket"}}
  /\ seen' = seen \o SelectSeq(output, LAMBDA e : e.kind \in {"Ready", "Message"})

Rooms(r) == IF r = "server" THEN {MaxPublic + 1} ELSE 0..scenario.room

\* One event of a poll.  No event is taken unless its result can be retained.
ConvertNext(r) ==
  /\ kicking = None
  /\ rt[r].queue # << >> /\ rt[r].public < MaxPublic
  /\ \E blocked, late \in BOOLEAN, room \in Rooms(r) :
       LET s == [rt[r] EXCEPT !.queue = Tail(@)]
           event == Head(rt[r].queue)
           c == event.session
           out == Convert(s, r, event, blocked, late)
           given == Publish(out.state, out.public, room)
           after == given.state.range[c]
       IN  /\ (blocked => event.kind = "Control" /\ event.op = "ACK")
           /\ (late => event.kind = "Control")
           /\ rt' = [rt EXCEPT ![r] = given.state]
           /\ air' = air \cup out.sends
           /\ IF r = "server"
              THEN Hands(SelectSeq(given.output, LAMBDA e : e.kind = "AuthRequest"))
              ELSE Hands(given.output)
           /\ confirmed' = [confirmed EXCEPT ![c] = IF r = "server" /\ \E m \in out.sends : m.op = "READY"
                                                    THEN s.range[c].selected ELSE @]
           /\ readyWith' = [readyWith EXCEPT ![c] = IF r = "client" /\ after.phase = "ClientReady"
                                                    THEN after.selected ELSE @]
           /\ arrived' = [arrived EXCEPT ![c] = IF event.kind = "Data" /\ ~out.fault
                                                THEN Append(@, event.n) ELSE @]
  /\ UNCHANGED <<scenario, listening, join, granted, origin, issuing, sent, kicking,
                 kicked, void, dropped, repeated>>

\* drain_completed at the start of a poll.
DrainCompleted ==
  /\ kicking = None /\ rt["client"].completed # << >>
  /\ \E room \in 1..scenario.room :
       LET given == Drained(rt["client"], room)
       IN  rt' = [rt EXCEPT !["client"] = given.state] /\ Hands(given.output)
  /\ UNCHANGED <<scenario, air, listening, join, granted, origin, issuing, sent, kicking,
                 kicked, void, confirmed, readyWith, arrived, dropped, repeated>>

\* due_controls: what a waiting session repeats, and whom it gives up on.
Repeats(r, c) ==
  CASE rt[r].range[c].phase = "ServerAwaitAck" -> {Control("client", "SELECT", c, rt[r].range[c].selected)}
    [] rt[r].range[c].phase = "ClientAwaitReady" -> {Control("server", "ACK", c, rt[r].range[c].selected)}
    [] OTHER -> {}

RetryControl(r, c) ==
  /\ kicking = None /\ rt[r].net[c] = "open"
  /\ ~(Repeats(r, c) \subseteq air) /\ repeated < scenario.retries
  /\ air' = air \cup Repeats(r, c)
  /\ repeated' = repeated + 1
  /\ UNCHANGED <<scenario, rt, listening, appVars, kicking, kicked, void, historyVars, dropped>>

\* A slip: the whole resumption is given up, the old session with it.
ExpireBoth(r, c) ==
  LET s == CloseAndForget(rt[r], c)
      old == rt[r].range[c].old
  IN  IF old = None THEN s ELSE Forget(s, old)

\* Only the candidate expires.
Expired(r, c) == CloseAndForget(rt[r], c)

ExpireNegotiation(r, c) ==
  /\ kicking = None
  /\ rt[r].range[c].phase \in {"ServerAwaitAck", "ClientAwaitSelect", "ClientAwaitReady"}
  /\ rt' = [rt EXCEPT ![r] = Expired(r, c)]
  /\ UNCHANGED <<scenario, air, listening, appVars, kicking, kicked, void, historyVars, dropped, repeated>>

-----------------------------------------------------------------------------
(* The applications *)

\* connect_prepared, and the nonce and offer remembered for the new endpoint.
ConnectPrepared(s, c, old) ==
  [s EXCEPT !.net[c] = "joining", !.joins = @ \cup {c}, !.heir[c] = old]

\* connect and connect_resume; the join reaches the server's transport, which
\* asks for authorisation.  A held ticket may be presented again.
Connect(c, t) ==
  /\ rt["client"].net[c] = "none" /\ \A d \in Attempts : d < c => rt["client"].net[d] # "none"
  /\ IF c \in scenario.resumes THEN t \in held ELSE t = None
  /\ join' = [join EXCEPT ![c] = t]
  /\ rt' = [rt EXCEPT
       !["client"] = ConnectPrepared(@, c, IF t = None THEN None ELSE origin[t]),
       !["server"].net[c] = IF listening THEN "pending" ELSE "closed",
       !["server"].queue = IF listening THEN Append(@, Native("AuthRequest", c)) ELSE @]
  /\ UNCHANGED <<scenario, air, listening, asked, granted, origin, held, issuing, sent, kicking,
                 kicked, void, historyVars, dropped, repeated>>

\* auth_decide: a refusal closes, an acceptance is the transport's to act on.
Decide(c, accept) ==
  /\ c \in asked \ granted /\ rt["server"].net[c] = "pending"
  /\ granted' = IF accept THEN granted \cup {c} ELSE granted
  /\ rt' = [rt EXCEPT !["server"] = IF accept THEN @ ELSE CloseAndForget(@, c)]
  /\ UNCHANGED <<scenario, air, listening, join, asked, origin, held, issuing, sent, kicking,
                 kicked, void, historyVars, dropped, repeated>>

\* issue_resume_ticket up to the registration: reissuing revokes the last one.
IssueTicket(c) ==
  /\ Len(origin) < scenario.tickets
  /\ c \in rt["server"].ready /\ c \in rt["server"].owned /\ rt["server"].meta[c] # None
  /\ LET t == Len(origin) + 1
     IN  /\ origin' = Append(origin, c)
         /\ issuing' = issuing \cup {t}
         /\ rt' = [rt EXCEPT !["server"] = [Revoke(@, {c}) EXCEPT !.tickets[t] =
                     [NoRange EXCEPT !.old = c, !.selected = rt["server"].meta[c]]]]
  /\ UNCHANGED <<scenario, air, listening, join, asked, granted, held, sent, kicking,
                 kicked, void, historyVars, dropped, repeated>>

\* The rest of it: a ticket that cannot be sent is revoked.
SendTicket(t) ==
  /\ t \in issuing
  /\ issuing' = issuing \ {t}
  /\ \/ /\ rt["server"].net[origin[t]] = "open"
        /\ air' = air \cup {[to |-> "client", op |-> "TICKET", session |-> origin[t], n |-> t]}
        /\ UNCHANGED rt
     \/ /\ rt' = [rt EXCEPT !["server"].tickets[t] = NoRange]   \* closed, or no room
        /\ UNCHANGED air
  /\ UNCHANGED <<scenario, listening, join, asked, granted, origin, held, sent, kicking,
                 kicked, void, historyVars, dropped, repeated>>

\* ResumeRegistry::prune
TicketExpires(t) ==
  /\ rt["server"].tickets[t].old # None /\ dropped < scenario.drops
  /\ dropped' = dropped + 1
  /\ rt' = [rt EXCEPT !["server"].tickets[t] = NoRange]
  /\ UNCHANGED <<scenario, air, listening, appVars, kicking, kicked, void, historyVars, repeated>>

\* A ready server session sends a numbered message.
SendData(c) ==
  /\ c \in rt["server"].ready /\ rt["server"].net[c] = "open" /\ sent[c] < scenario.sends
  /\ sent' = [sent EXCEPT ![c] = @ + 1]
  /\ air' = air \cup {[to |-> "client", op |-> "DATA", session |-> c, n |-> sent[c] + 1]}
  /\ UNCHANGED <<scenario, rt, listening, join, asked, granted, origin, held, issuing, kicking,
                 kicked, void, historyVars, dropped, repeated>>

\* close_session on the server takes poll_guard and revokes.
KickRevoke(c) ==
  /\ kicking = None /\ Cardinality(kicked) < scenario.kicks /\ c \notin kicked
  /\ rt["server"].net[c] # "none"
  /\ kicking' = c
  /\ rt' = [rt EXCEPT !["server"] = RevokeSession(@, c)]
  /\ void' = void \cup {t \in DOMAIN origin : /\ origin[t] = c
                                              /\ \A n \in rt["server"].ready : join[n] # t}
  /\ UNCHANGED <<scenario, air, listening, appVars, kicked, historyVars, dropped, repeated>>

\* Then it closes the route and forgets the session, if there was one to close.
KickClose ==
  /\ kicking # None
  /\ kicking' = None
  /\ kicked' = kicked \cup {kicking}
  /\ rt' = [rt EXCEPT !["server"] = IF Live(@, kicking) THEN CloseAndForget(@, kicking) ELSE @]
  /\ UNCHANGED <<scenario, air, listening, appVars, void, historyVars, dropped, repeated>>

\* close_endpoint: the transport closes the listener's sessions, then
\* forget_endpoint_state revokes its tickets and forgets what it owns.
CloseListener ==
  /\ kicking = None /\ listening /\ scenario.closes
  /\ listening' = FALSE
  /\ LET s == FoldSet(LAMBDA c, x : NetClose(x, c), rt["server"], Attempts)
         revoked == Revoke(s, Attempts)
     IN  rt' = [rt EXCEPT !["server"] =
           FoldSet(LAMBDA c, x : Forget(RevokeSession(x, c), c), revoked, revoked.owned)]
  /\ UNCHANGED <<scenario, air, appVars, kicking, kicked, void, historyVars, dropped, repeated>>

-----------------------------------------------------------------------------
(* The transport *)

\* The transport acts on the authorisation; the client's learns of it.
Opens(r, c) ==
  /\ c \in granted /\ rt[r].net[c] \in {"pending", "joining"}
  /\ rt' = [rt EXCEPT ![r].net[c] = "open", ![r].queue = Append(@, Native("SessionOpened", c))]
  /\ UNCHANGED <<scenario, air, listening, appVars, kicking, kicked, void, historyVars, dropped, repeated>>

\* A control or message is received, where the session is still open, or lost.
Arrive(m) ==
  /\ air' = air \ {m}
  /\ \/ /\ rt[m.to].net[m.session] = "open"
        /\ rt' = [rt EXCEPT ![m.to].queue = Append(@,
             [kind |-> CASE m.op = "TICKET" -> "Ticket" [] m.op = "DATA" -> "Data" [] OTHER -> "Control",
              session |-> m.session, op |-> m.op, n |-> m.n])]
     \/ UNCHANGED rt
  /\ UNCHANGED <<scenario, listening, appVars, kicking, kicked, void, historyVars, dropped, repeated>>

\* The transport closes a session: the peer is gone, a limit, a timeout.
Disconnect(r, c) ==
  /\ Live(rt[r], c) /\ dropped < scenario.drops
  /\ dropped' = dropped + 1
  /\ rt' = [rt EXCEPT ![r] = NetClose(@, c)]
  /\ UNCHANGED <<scenario, air, listening, appVars, kicking, kicked, void, historyVars, repeated>>

\* The client's dedicated endpoint goes with its session, and reap_closed_endpoints
\* forgets it whether or not the events of the session have been polled.
ReapEndpoint(c) ==
  LET s == rt["client"]
      reaped == [Forget(s, c) EXCEPT !.heir[c] = None, !.joins = @ \ {c}]
  IN  /\ kicking = None /\ s.net[c] = "closed" /\ reaped # s
      /\ rt' = [rt EXCEPT !["client"] = reaped]
      /\ UNCHANGED <<scenario, air, listening, appVars, kicking, kicked, void, historyVars, dropped, repeated>>

GameNext ==
  \/ \E r \in Runtimes : ConvertNext(r) \/ \E c \in Attempts :
       RetryControl(r, c) \/ ExpireNegotiation(r, c) \/ Disconnect(r, c) \/ Opens(r, c)
  \/ DrainCompleted
  \/ \E c \in Attempts : \/ \E t \in Tickets \cup {None} : Connect(c, t)
                         \/ \E accept \in BOOLEAN : Decide(c, accept)
                         \/ IssueTicket(c) \/ SendData(c) \/ KickRevoke(c) \/ ReapEndpoint(c)
  \/ \E t \in Tickets : SendTicket(t) \/ TicketExpires(t)
  \/ KickClose \/ CloseListener
  \/ \E m \in air : Arrive(m)

GameSpec == GameInit /\ [][GameNext]_gameVars

-----------------------------------------------------------------------------
(* Properties *)

\* The client becomes ready only with the version the server confirmed: the
\* highest both support, or for a resumed session the one its predecessor had,
\* however the controls of the negotiation were lost, repeated or reordered.
VersionsAgree ==
  \A c \in Attempts : readyWith[c] # None =>
    /\ confirmed[c] = readyWith[c]
    /\ readyWith[c] = IF join[c] = None THEN SelectVersion(scenario.offers[c], ServerVersions)
                      ELSE confirmed[origin[join[c]]]

\* Whatever order controls and data arrive in, as long as the session is known
\* the application is told of it before its first message and gets the messages
\* in arrival order: what it was given, what waits behind the ready event and
\* what is buffered make up what arrived.
DataFollowsReady ==
  \A c \in Attempts : rt["client"].range[c].phase # "none" =>
    LET completed == rt["client"].completed
        pending == [i \in DOMAIN completed |-> completed[i].event]
        out == SelectSeq(seen \o pending, LAMBDA e : e.session = c /\ e.kind \in {"Ready", "Message"})
        all == out \o rt["client"].range[c].early
    IN  IF rt["client"].range[c].phase = "ClientReady"
        THEN /\ Head(out) = Public("Ready", c)
             /\ [i \in DOMAIN Tail(all) |-> Tail(all)[i].n] = arrived[c]
        ELSE out = << >> /\ [i \in DOMAIN all |-> all[i].n] = arrived[c]

\* Both budgets of the range state are exact in every queue a message or public
\* event can be in, whichever way it leaves: polled, forgotten or closed.
RetainedIsCharged ==
  \A r \in Runtimes :
    LET s == rt[r]
        early == FoldSet(LAMBDA c, n : n + Len(s.range[c].early), 0, Attempts)
    IN  /\ s.buffered = early + Len(Reserved(s.completed))
        /\ s.public = Len(s.completed) - Len(Reserved(s.completed))
        /\ s.buffered <= MaxEarly /\ s.public <= MaxPublic

\* A ticket is good for one session, and for none if the revocation of a kick found
\* it, wherever its claim was then: in the registry, waiting for authorisation or
\* between SELECT and READY.  It is not said of a ticket that issue_resume_ticket
\* registers after the revocation of close_session and before its end: that one
\* survives the kick.
TicketGoodOnce ==
  /\ \A c \in rt["server"].ready : join[c] = None \/ join[c] \notin void
  /\ \A c, d \in rt["server"].owned : join[c] # None /\ join[c] = join[d] => c = d

\* Takeover is atomic: a session whose route is still there stops being ready only
\* because it is kicked, its listener is closed or its successor becomes ready in
\* the same step.  A resumption that expires, is refused, revoked or superseded
\* leaves the session it wanted to replace alone.  And the server publishes a session
\* only with READY on its way: a READY the transport refuses publishes nothing.
TakeoverIsAtomic ==
  [][/\ \A r \in Runtimes : \A c \in rt[r].ready \ rt'[r].ready :
          \/ rt[r].net[c] = "closed"
          \/ r = "server" /\ (kicking = c \/ ~listening')
          \/ \E n \in rt'[r].ready \ rt[r].ready : rt[r].range[n].old = c
     /\ \A c \in rt'["server"].ready \ rt["server"].ready :
          \E m \in air' : m.to = "client" /\ m.op = "READY" /\ m.session = c]_gameVars
=============================================================================
