-------------------------- MODULE DatagramEndpoint --------------------------
(***************************************************************************)
(* A server and a client endpoint of rnet-transport over UDP or KCP, from  *)
(* the client's hello to the end of the session: run_adaptive_datagram and *)
(* the modules it drives (process, handle_established, drive_server,       *)
(* flush_deferred, DatagramWire, handle_preflight).  Each endpoint is one  *)
(* task; a branch of its select loop is one step, and so is each part of   *)
(* its timer tick, whose parts never act on one peer in the same tick.     *)
(*                                                                         *)
(* UDP loses, repeats and reorders: a record that was sent may be received *)
(* any number of times, at any later time, or never.  KCP delivers records *)
(* once and in order (module KcpArq); its cookie preflight is plain UDP.   *)
(*                                                                         *)
(* Time is abstracted: a timeout may fire whenever the code has armed it.  *)
(* A retransmission sends the same bytes again, which this network can     *)
(* deliver again anyway, so only the end of the retries is a step.  A      *)
(* ciphertext is modelled by its handshake, key generation and nonce, and  *)
(* cookies do not expire during a join.                                    *)
(***************************************************************************)
EXTENDS SecurityController, ReplayWindow, Sequences, FiniteSets

CONSTANTS
  Setups,         \* the configurations checked, one of them in a behaviour
  DeferCap,       \* write_queue_capacity, which also bounds deferred sends
  KcpCap,         \* records the data share of KCP's unacknowledged budget holds
  MaxNonce        \* bound: nonces that refused KCP sends burn

\* The transport, how many addresses the client's remote name resolves to, the
\* security commands used, whether the policy asks for automatic rekeys, which of
\* the numbered sends are game controls, and two bounds: the sends accepted on
\* each end and the handshakes the server begins.
Setup == [kind: {"Udp", "Kcp"}, candidates: Nat \ {0}, commands: SUBSET (Modes \cup {"Rekey"}),
          rekeys: BOOLEAN, games: SUBSET Nat, sends: [Roles -> Nat], responders: Nat \ {0}]

ASSUME DatagramAssumption ==
  /\ \A setup \in Setups : setup \in Setup
  /\ MaxNonce \in Nat /\ DeferCap \in Nat \ {0} /\ KcpCap \in Nat \ {0}

VARIABLES
  setup,     \* the configuration of the two endpoints
  live,      \* which of the client's candidates reaches the server
  cand,      \* the candidate the client is trying or using
  end,       \* end[s]: the peer entry, the session's route and what they own
  wire,      \* wire[s]: DatagramWire's state for the other end
  datagrams, \* datagrams[s]: what s has sent by UDP, KCP's preflight included
  stream,    \* stream[s]: records s has sent by KCP and that are undelivered
  decision,  \* the application's authorisation: none, accepted or rejected
  permit,    \* whether the server holds an admission permit for the client
  cmds,      \* the server's security command queue, of capacity one
  outq,      \* sends accepted and not yet picked up
  deferred,  \* sends picked up and put aside
  accepted   \* history: the accepted sends, each TRUE if a transition was pending

joinVars == <<setup, live, cand, decision, permit>>
sendVars == <<outq, deferred, accepted>>
vars == <<joinVars, end, wire, datagrams, stream, cmds, sendVars>>

Kind == setup.kind

Peer(s) == IF s = "server" THEN "client" ELSE "server"

InitialEpoch == 1

-----------------------------------------------------------------------------
(* Records.  The three handshake messages of Noise XX carry the number of  *)
(* the responder they belong to, and the second one what it answers: a     *)
(* responder takes any message for a first one, which nothing protects.    *)

NoControl == Barrier("Switch", "Ack", 0)

Rec(k) == [kind |-> k, hs |-> 0, on |-> "None", epoch |-> 0, key |-> 0,
           nonce |-> 0, type |-> "None", id |-> 0, control |-> NoControl]

ClientHello(cookie) == [Rec("ClientHello") EXCEPT !.on = IF cookie THEN "Cookie" ELSE "None"]
CookieChallenge == Rec("CookieChallenge")
ServerHello == Rec("ServerHello")
Handshake(type, r, on) == [Rec("Handshake") EXCEPT !.type = type, !.hs = r, !.on = on]

PlainData(epoch, id) == [Rec("PlainData") EXCEPT !.epoch = epoch, !.type = "Data", !.id = id]

\* protected_record: sealed with the nonce that encrypt reserves.
Protected(t, epoch, type, id, control) ==
  [Rec("Protected") EXCEPT !.hs = t.hs, !.epoch = epoch, !.key = t.tx,
     !.nonce = t.nonce, !.type = type, !.id = id, !.control = control]

-----------------------------------------------------------------------------
(* DatagramTransport. *)

NewTransport(r) == [hs |-> r, tx |-> 0, rx |-> 0, nonce |-> 0, replay |-> EmptyWindow]

Decrypts(t, rec) ==
  /\ rec.kind = "Protected" /\ rec.hs = t.hs /\ rec.key = t.rx
  /\ ~Contains(t.replay, rec.nonce)

Opened(t, rec) == [t EXCEPT !.replay = Insert(@, rec.nonce)]

Sealed(t) == [t EXCEPT !.nonce = @ + 1]

\* apply: both keys turn, nonces and the replay window start afresh.
Rekeyed(t) == [t EXCEPT !.tx = @ + 1, !.rx = @ + 1, !.nonce = 0, !.replay = EmptyWindow]

Apply(t, effect) == IF effect = "Rekey" THEN Rekeyed(t) ELSE t

-----------------------------------------------------------------------------
(* The states of a peer entry and of a session's route. *)

NoPeer == [phase |-> "None", r |-> 0, on |-> "None"]
PeerIn(phase, r, on) == [phase |-> phase, r |-> r, on |-> on]

Joining == {"ClientHello", "ClientResponse", "ClientAuth"}

\* Peer::session: the states that own a session.
OwnsSession(e) == e.peer.phase \in Joining \cup {"ServerAuth", "Established"}

\* session_active
Active(e) == e.route \in {"pending", "established"}

\* close: the first to remove the route closes it, and asks for the cleanup.
Closed(e) == IF Active(e) THEN [e EXCEPT !.route = "closed", !.cleanup = TRUE] ELSE e

\* fail_endpoint: the task ends with its endpoint and its sessions.
Failed(e) == [Closed(e) EXCEPT !.up = FALSE, !.cleanup = FALSE, !.peer = NoPeer]

NewEnd(s) ==
  [up |-> TRUE, cleanup |-> FALSE, armed |-> FALSE, begun |-> 0, got |-> << >>,
   peer |-> IF s = "client" THEN PeerIn("ClientHello", 0, "None") ELSE NoPeer,
   route |-> IF s = "client" THEN "pending" ELSE "none",
   ctl |-> NewController(s, "Encrypted", InitialEpoch), tr |-> NewTransport(0)]

NewWire == [pending |-> << >>, seen |-> << >>, engine |-> "none", lost |-> FALSE]

\* remove_peer.  A KCP stream cannot go on in an engine created later.
RemovePeer(w) == [NewWire EXCEPT !.lost = w.lost \/ w.engine = "live"]

\* send_client_hello: on KCP the hello is a preflight packet, sent once.
FirstHello == IF Kind = "Udp" THEN ClientHello(FALSE) ELSE Rec("Hello")

HelloWire ==
  IF Kind = "Udp" THEN [NewWire EXCEPT !.pending = <<FirstHello>>] ELSE NewWire

HelloTo(c) == IF c = live THEN {FirstHello} ELSE {}

Init ==
  /\ setup \in Setups /\ live \in 1 .. setup.candidates /\ cand = 1
  /\ end = [s \in Roles |-> NewEnd(s)]
  /\ wire = [s \in Roles |-> IF s = "client" THEN HelloWire ELSE NewWire]
  /\ datagrams = [s \in Roles |-> IF s = "client" THEN HelloTo(1) ELSE {}]
  /\ stream = [s \in Roles |-> << >>]
  /\ decision = "none" /\ permit = FALSE /\ cmds = << >>
  /\ outq = [s \in Roles |-> << >>]
  /\ deferred = [s \in Roles |-> << >>]
  /\ accepted = [s \in Roles |-> << >>]

-----------------------------------------------------------------------------
(* process: what one end makes of one record.  An outcome is the end it    *)
(* leaves, the answer, whether that is retransmitted, and success; there   *)
(* are two outcomes where an event may find the queue full.                *)

Outcome(e, reply, reliable, ok) ==
  [end |-> e, reply |-> reply, reliable |-> reliable, ok |-> ok]

Keeps(e) == Outcome(e, << >>, FALSE, TRUE)
Refuses(e) == Outcome(e, << >>, FALSE, FALSE)
Removes(e) == Refuses([e EXCEPT !.peer = NoPeer])

\* try_push_session_event: a full queue closes the session and is an error.
Pushes(o, refused) == {o, [o EXCEPT !.end = refused, !.ok = FALSE]}

Answers(e, phase, r, on, reply) ==
  Outcome([e EXCEPT !.peer = PeerIn(phase, r, on)], <<reply>>, TRUE, TRUE)

\* A datagram may be delivered again and again; the history keeps two.
Delivered(e, id, integrity) ==
  LET entry == [id |-> id, integrity |-> integrity]
  IN  IF Cardinality({i \in DOMAIN e.got : e.got[i] = entry}) >= 2 THEN e
      ELSE [e EXCEPT !.got = Append(@, entry)]

Delivers(e, id, integrity) == Pushes(Keeps(Delivered(e, id, integrity)), Closed(e))

\* The deadline of a transition falls with the transition.
Disarmed(e) == IF IsTransitioning(e.ctl) THEN e ELSE [e EXCEPT !.armed = FALSE]

\* The key effects of a barrier stand on either side of its answer.
HandleControl(e, rec) ==
  LET m == rec.control
      before == Apply(e.tr, BeforeResponse(m))
      reply == IF HasResponse(m)
               THEN <<Protected(before, rec.epoch, "Control", 0, Response(m))>> ELSE << >>
      sealed == IF HasResponse(m) THEN Sealed(before) ELSE before
      moved == [e EXCEPT !.ctl = Handled(@, m), !.tr = Apply(sealed, AfterResponse(m))]
      o == Outcome(Disarmed(moved), reply, m.step \in {"Propose", "Ready"}, TRUE)
  IN  IF ~Accepts(e.ctl, m) THEN {Refuses(e)}
      ELSE IF IsTransitioning(moved.ctl) THEN {o}
      ELSE Pushes(o, Closed(moved))

HandleEstablished(e, rec) ==
  LET opened == [e EXCEPT !.tr = Opened(@, rec)]
  IN  CASE ~Active(e) \/ rec.epoch # e.ctl.epoch -> {Refuses(e)}
        [] rec.kind = "PlainData" /\ e.ctl.mode = "Plaintext" -> Delivers(e, rec.id, FALSE)
        [] rec.kind # "Protected" \/ ~Decrypts(e.tr, rec) -> {Refuses(e)}
        [] rec.type = "Data" /\ e.ctl.mode # "Encrypted" -> {Refuses(opened)}
        [] rec.type \in {"Data", "GameControl"} -> Delivers(opened, rec.id, TRUE)
        [] rec.type = "Control" -> HandleControl(opened, rec)
        [] rec.type = "AuthAck" -> {Keeps(opened)}
        [] OTHER -> {Refuses(opened)}

\* finish_datagram authenticates the whole exchange with this responder.
Finishes(e, rec) == rec.type = "Third" /\ rec.hs = e.peer.r /\ e.peer.on = "First"

ServerProcess(e, rec) ==
  LET p == e.peer
      joined == [e EXCEPT !.route = "pending", !.tr = NewTransport(p.r),
                          !.peer = PeerIn("ServerAuth", p.r, p.on)]
  IN  CASE p.phase = "ServerReject" -> {Keeps(e)}
        [] rec.kind = "ClientHello" /\ rec.on = "None" ->
             {Outcome(e, <<CookieChallenge>>, FALSE, TRUE)}
        [] rec.kind = "ClientHello" /\ OwnsSession(e) -> {Keeps(e)}
        [] rec.kind = "ClientHello" ->
             {Answers([e EXCEPT !.begun = @ + 1], "ServerFirst", e.begun + 1, "None", ServerHello)}
        [] p.phase = "ServerFirst" /\ rec.kind = "Handshake" ->
             {Answers(e, "ServerFinish", p.r, rec.type, Handshake("Second", p.r, rec.type))}
        [] p.phase = "ServerFinish" /\ rec.kind = "Handshake" ->
             IF Finishes(e, rec) THEN Pushes(Keeps(joined), [Closed(joined) EXCEPT !.peer = NoPeer])
             ELSE {Removes(e)}
        [] p.phase = "Established" -> HandleEstablished(e, rec)
        [] OTHER -> {Keeps(e)}

\* Mutant: the client opens its session whatever the server decided.
AuthorisedAlways(e, rec) == Decrypts(e.tr, rec) /\ rec.type = "AuthDecision"

\* Anything but an acceptance ends the join.
Authorised(e, rec) == Decrypts(e.tr, rec) /\ rec.type = "AuthDecision" /\ rec.id = 1

ClientProcess(e, rec) ==
  LET p == e.peer
      opened == [e EXCEPT !.tr = Opened(@, rec)]
      ack == <<Protected(opened.tr, InitialEpoch, "AuthAck", 0, NoControl)>>
      established == [opened EXCEPT !.route = "established", !.tr = Sealed(@),
                        !.peer = PeerIn("Established", p.r, p.on),
                        !.ctl = NewController("client", "Encrypted", InitialEpoch)]
  IN  CASE p.phase = "ClientHello" /\ rec.kind = "CookieChallenge" ->
             {Answers(e, "ClientHello", 0, "None", ClientHello(TRUE))}
        [] p.phase = "ClientHello" /\ rec.kind = "ServerHello" ->
             {Answers(e, "ClientResponse", 0, "None", Handshake("First", 0, "None"))}
        [] p.phase = "ClientResponse" /\ rec.kind = "Handshake" ->
             IF rec.type = "Second" /\ rec.on = "First"
             THEN {Answers([e EXCEPT !.tr = NewTransport(rec.hs)], "ClientAuth", rec.hs, "First",
                           Handshake("Third", rec.hs, "None"))}
             ELSE {Removes(e)}
        [] p.phase = "ClientAuth" /\ rec.kind = "Protected" ->
             IF ~Authorised(e, rec) THEN {Removes(e)}
             ELSE IF ~Active(e) THEN {[Removes(e) EXCEPT !.reply = ack]}
             ELSE Pushes(Outcome(established, ack, FALSE, TRUE),
                         [Closed(opened) EXCEPT !.peer = NoPeer])
        [] p.phase = "Established" -> HandleEstablished(e, rec)
        [] OTHER -> {Keeps(e)}

Process(s, rec) ==
  IF s = "server" THEN ServerProcess(end[s], rec) ELSE ClientProcess(end[s], rec)

-----------------------------------------------------------------------------
(* The inbound branch: wire.receive, begin_input, process and end_input.   *)

\* send, send_reliable and send_response, for records that find room.
Emits(s, recs) ==
  IF Kind = "Kcp"
  THEN /\ stream' = [stream EXCEPT ![s] = @ \o recs]
       /\ UNCHANGED datagrams
  ELSE /\ datagrams' = [datagrams EXCEPT ![s] = @ \cup {recs[i] : i \in DOMAIN recs}]
       /\ UNCHANGED stream

\* A reliable answer replaces the pending record; a success takes it away.
EndInput(w, o) ==
  IF o.reliable /\ o.reply # w.pending THEN o.reply
  ELSE IF o.ok THEN << >> ELSE w.pending

\* An end that answers an error by giving the peer up keeps nothing of it.
After(s, o) ==
  IF o.ok THEN (IF o.end.peer.phase = "Established" THEN Disarmed(o.end) ELSE o.end)
  ELSE IF s = "client" /\ end[s].peer.phase \in Joining THEN Failed(o.end)
  ELSE o.end

GivesUp(s, o) == ~o.ok /\ o.end.peer = NoPeer

\* The admission permit a hello with a valid cookie takes on the server.
TakesPermit(s, rec) ==
  s = "server" /\ rec.kind = "ClientHello" /\ rec.on = "Cookie" /\ end[s].peer = NoPeer

Takes(s, rec, o) ==
  /\ end' = [end EXCEPT ![s] = After(s, o)]
  /\ deferred' = IF GivesUp(s, o) THEN [deferred EXCEPT ![s] = << >>] ELSE deferred
  /\ permit' = IF s = "server" /\ GivesUp(s, o) THEN FALSE
               ELSE permit \/ TakesPermit(s, rec)
  /\ UNCHANGED <<setup, live, cand, decision, cmds, outq, accepted>>

WithinBounds(s, rec) ==
  s = "server" /\ rec.kind = "ClientHello" => end[s].begun < setup.responders

\* begin_input.  An exact repetition of the last record is answered from the
\* cache, with bytes that were sent before: no step.
BeginInput(w, rec) == rec.kind = "PlainData" \/ w.seen # <<rec>>

ReceiveDatagram(s, rec) ==
  /\ Kind = "Udp" /\ end[s].up /\ WithinBounds(s, rec)
  /\ s = "client" => cand = live
  /\ BeginInput(wire[s], rec)
  /\ \E o \in Process(s, rec) :
       /\ Takes(s, rec, o)
       /\ Emits(s, o.reply)
       /\ wire' = [wire EXCEPT ![s] =
            IF GivesUp(s, o) THEN RemovePeer(@)
            ELSE IF rec.kind = "PlainData" THEN @
            ELSE [@ EXCEPT !.seen = <<rec>>, !.pending = EndInput(wire[s], o)]]

\* KCP hands over the next record; the first one creates the engine that the
\* preflight has authorised.
ReceiveStream(s) ==
  /\ Kind = "Kcp" /\ end[s].up /\ stream[Peer(s)] # << >>
  /\ WithinBounds(s, Head(stream[Peer(s)]))
  /\ wire[s].engine # "none" /\ ~wire[s].lost
  /\ s = "client" => cand = live
  /\ LET rec == Head(stream[Peer(s)])
     IN  \E o \in Process(s, rec) :
           /\ Takes(s, rec, o)
           /\ stream' = [stream EXCEPT ![Peer(s)] = Tail(@), ![s] = @ \o o.reply]
           /\ wire' = [wire EXCEPT ![s] = IF GivesUp(s, o)
                                          THEN RemovePeer([@ EXCEPT !.engine = "live"])
                                          ELSE [@ EXCEPT !.engine = "live"]]
  /\ UNCHANGED datagrams

-----------------------------------------------------------------------------
(* handle_preflight: a cookie for the hello, and a permit and one KCP      *)
(* engine for the cookie.                                                  *)

\* authorize_peer
AuthorizePeer(w) == IF w.engine = "live" THEN w ELSE [w EXCEPT !.engine = "authorized"]

ServerPreflight(rec) ==
  /\ Kind = "Kcp" /\ end["server"].up /\ wire["server"].engine # "live"
  /\ rec.kind = "Hello"
  /\ IF rec.on = "Cookie"
     THEN /\ permit' = TRUE
          /\ wire' = [wire EXCEPT !["server"] = AuthorizePeer(@)]
          /\ UNCHANGED datagrams
     ELSE /\ datagrams' = [datagrams EXCEPT !["server"] = @ \cup {Rec("Challenge")}]
          /\ UNCHANGED <<permit, wire>>
  /\ UNCHANGED <<setup, live, cand, decision, end, stream, cmds, sendVars>>

\* A client that lost its engine restarts the stream, of which the server
\* takes nothing new.
ClientPreflight(rec) ==
  /\ Kind = "Kcp" /\ end["client"].up /\ wire["client"].engine = "none"
  /\ cand = live /\ rec.kind = "Challenge"
  /\ datagrams' = [datagrams EXCEPT !["client"] = @ \cup {[Rec("Hello") EXCEPT !.on = "Cookie"]}]
  /\ wire' = [wire EXCEPT !["client"].engine = "live"]
  /\ stream' = IF wire["client"].lost THEN stream
               ELSE [stream EXCEPT !["client"] = Append(@, ClientHello(TRUE))]
  /\ UNCHANGED <<joinVars, end, cmds, sendVars>>

\* A packet of a stream whose beginning went to an earlier engine: the new
\* one never completes a record, and no peer entry will release it.
StaleInput ==
  /\ Kind = "Kcp" /\ end["server"].up
  /\ wire["server"].engine = "authorized" /\ wire["server"].lost
  /\ wire["client"].engine = "live"
  /\ wire' = [wire EXCEPT !["server"].engine = "live"]
  /\ UNCHANGED <<joinVars, end, datagrams, stream, cmds, sendVars>>

PreflightExpires ==
  /\ Kind = "Kcp" /\ end["server"].up /\ wire["server"].engine = "authorized"
  /\ wire' = [wire EXCEPT !["server"].engine = "none"]
  /\ permit' = FALSE
  /\ UNCHANGED <<setup, live, cand, decision, end, datagrams, stream, cmds, sendVars>>

-----------------------------------------------------------------------------
(* Sending: the outbound branch and flush_deferred. *)

IsProtected(e, id) == id \in setup.games \/ e.ctl.mode = "Encrypted"

\* data_record and protected_record
DataRecord(e, id) ==
  IF ~IsProtected(e, id) THEN PlainData(e.ctl.epoch, id)
  ELSE Protected(e.tr, e.ctl.epoch, IF id \in setup.games THEN "GameControl" ELSE "Data", id, NoControl)

Burns(s, id) ==
  end' = [end EXCEPT ![s].tr = IF IsProtected(end[s], id) THEN Sealed(@) ELSE @]

Transmits(s, id) ==
  /\ Kind = "Kcp" => Len(stream[s]) < KcpCap
  /\ Emits(s, <<DataRecord(end[s], id)>>)
  /\ Burns(s, id)

\* WouldBlock: this peer, or all peers together, fill KCP's data budget.  The
\* nonce is spent.
Blocks(s, id) ==
  /\ Kind = "Kcp" /\ end[s].tr.nonce < MaxNonce
  /\ Burns(s, id)
  /\ UNCHANGED <<datagrams, stream>>

CanSend(s) == end[s].peer.phase = "Established" /\ Active(end[s])

PickUp(s) ==
  /\ end[s].up /\ outq[s] # << >> /\ Len(deferred[s]) < DeferCap
  /\ outq' = [outq EXCEPT ![s] = Tail(@)]
  /\ LET id == Head(outq[s])
         putAside == deferred' = [deferred EXCEPT ![s] = Append(@, id)]
     IN  \/ CanSend(s) /\ ~IsTransitioning(end[s].ctl) /\ Transmits(s, id) /\ UNCHANGED deferred
         \/ CanSend(s) /\ ~IsTransitioning(end[s].ctl) /\ Blocks(s, id) /\ putAside
         \/ CanSend(s) /\ IsTransitioning(end[s].ctl) /\ putAside
            /\ UNCHANGED <<end, datagrams, stream>>
         \/ ~CanSend(s) /\ UNCHANGED <<end, deferred, datagrams, stream>>
  /\ UNCHANGED <<joinVars, wire, cmds, accepted>>

\* One deferred send of a peer per tick.
FlushDeferred(s) ==
  /\ end[s].up /\ CanSend(s) /\ ~IsTransitioning(end[s].ctl) /\ deferred[s] # << >>
  /\ \/ /\ Transmits(s, Head(deferred[s]))
        /\ deferred' = [deferred EXCEPT ![s] = Tail(@)]
     \/ Blocks(s, Head(deferred[s])) /\ UNCHANGED deferred
  /\ UNCHANGED <<joinVars, wire, cmds, outq, accepted>>

-----------------------------------------------------------------------------
(* The cleanup branch and the timer tick.  What a tick does to the server's *)
(* peer is followed by the retain that drops the permit of no peer.        *)

\* cleanup_peer: a rejection still being sent, or a later handshake, stays.  The handle of a
\* session in the entry is the one to clean up: the client finishes one handshake at most.
CleanupPeer(s) == end[s].peer = NoPeer \/ OwnsSession(end[s])

Cleanup(s) ==
  /\ end[s].up /\ end[s].cleanup
  /\ end' = [end EXCEPT ![s].cleanup = FALSE,
                        ![s].peer = IF CleanupPeer(s) THEN NoPeer ELSE @]
  /\ wire' = IF CleanupPeer(s) THEN [wire EXCEPT ![s] = RemovePeer(@)] ELSE wire
  /\ deferred' = IF CleanupPeer(s) THEN [deferred EXCEPT ![s] = << >>] ELSE deferred
  /\ permit' = (s = "client" /\ permit)
  /\ UNCHANGED <<setup, live, cand, decision, datagrams, stream, cmds, outq, accepted>>

\* The connect deadline, or the handshake timeout of the last candidate.
ClientTimeout ==
  /\ end["client"].up /\ end["client"].peer.phase \in Joining
  /\ end' = [end EXCEPT !["client"] = Failed(@)]
  /\ UNCHANGED <<joinVars, wire, datagrams, stream, cmds, sendVars>>

\* take_retry_candidate: everything of the old address goes, the session
\* moves to the next one; it fails if it was closed meanwhile.
NextCandidate ==
  /\ end["client"].up /\ end["client"].peer.phase \in Joining /\ cand < setup.candidates
  /\ cand' = cand + 1
  /\ IF Active(end["client"])
     THEN /\ end' = [end EXCEPT !["client"].peer = PeerIn("ClientHello", 0, "None")]
          /\ wire' = [wire EXCEPT !["client"] = HelloWire]
          /\ datagrams' = [datagrams EXCEPT !["client"] = @ \cup HelloTo(cand + 1)]
     ELSE /\ end' = [end EXCEPT !["client"] = Failed(@)]
          /\ UNCHANGED <<wire, datagrams>>
  /\ UNCHANGED <<setup, live, decision, permit, stream, cmds, sendVars>>

\* A peer entry that a timeout of drive_server removes, with its session.
TimesOut(s) ==
  /\ end[s].up
  /\ end' = [end EXCEPT ![s] = [(IF OwnsSession(@) THEN Closed(@) ELSE @) EXCEPT !.peer = NoPeer]]
  /\ wire' = [wire EXCEPT ![s] = RemovePeer(@)]
  /\ permit' = (s = "client" /\ permit)
  /\ UNCHANGED <<setup, live, cand, decision, datagrams, stream, cmds, sendVars>>

HandshakeTimeout ==
  /\ end["server"].peer.phase \in {"ServerFirst", "ServerFinish", "ServerReject", "ServerAuth"}
  /\ TimesOut("server")

IdleTimeout(s) == end[s].peer.phase = "Established" /\ TimesOut(s)

TransitionTimeout ==
  end["server"].peer.phase = "Established" /\ end["server"].armed /\ TimesOut("server")

\* The part of send_reliable that remembers the record for retransmission.
Retains(w, rec) == IF Kind = "Udp" THEN [w EXCEPT !.pending = <<rec>>] ELSE w

SendDecision ==
  /\ end["server"].up /\ end["server"].peer.phase = "ServerAuth" /\ decision # "none"
  /\ LET e == end["server"]
         rec == Protected(e.tr, InitialEpoch, "AuthDecision",
                          IF decision = "accepted" THEN 1 ELSE 0, NoControl)
         sent == [e EXCEPT !.tr = Sealed(@)]
         opened == [sent EXCEPT !.route = "established", !.peer.phase = "Established"]
     IN  /\ Emits("server", <<rec>>)
         /\ wire' = [wire EXCEPT !["server"] = Retains(@, rec)]
         /\ IF decision = "accepted" /\ Active(e)
            THEN \/ end' = [end EXCEPT !["server"] = opened] /\ UNCHANGED permit
                 \/ /\ end' = [end EXCEPT !["server"] = [Closed(opened) EXCEPT !.peer = NoPeer]]
                    /\ permit' = FALSE
            ELSE /\ end' = [end EXCEPT !["server"] = [Closed(sent) EXCEPT !.peer.phase = "ServerReject"]]
                 /\ UNCHANGED permit
  /\ UNCHANGED <<setup, live, cand, decision, cmds, sendVars>>

CanBegin(c, command) ==
  IF command = "Rekey" THEN CanBeginRekey(c) ELSE CanBeginSwitch(c, command)

Begin(c, command) == IF command = "Rekey" THEN BeginRekey(c) ELSE BeginSwitch(c, command)

Proposal(c, command) ==
  IF command = "Rekey" THEN Barrier("Rekey", "Propose", c.epoch + 1)
  ELSE Switch("Propose", c.epoch + 1, command)

Proposes(command) ==
  LET e == end["server"]
      rec == Protected(e.tr, e.ctl.epoch, "Control", 0, Proposal(e.ctl, command))
  IN  /\ CanBegin(e.ctl, command)
      /\ end' = [end EXCEPT !["server"] =
                   [e EXCEPT !.ctl = Begin(@, command), !.tr = Sealed(@), !.armed = TRUE]]
      /\ wire' = [wire EXCEPT !["server"] = Retains(@, rec)]
      /\ Emits("server", <<rec>>)

\* A command that cannot begin is dropped, and an automatic rekey that is due
\* begins in its place.
DriveTransition ==
  /\ end["server"].up /\ end["server"].peer.phase = "Established"
  /\ ~IsTransitioning(end["server"].ctl)
  /\ \/ cmds # << >> /\ cmds' = << >> /\ Proposes(Head(cmds))
     \/ /\ cmds # << >> => ~CanBegin(end["server"].ctl, Head(cmds))
        /\ setup.rekeys /\ end["server"].ctl.mode = "Encrypted"
        /\ cmds' = << >> /\ Proposes("Rekey")
     \/ /\ cmds # << >> /\ ~CanBegin(end["server"].ctl, Head(cmds))
        /\ cmds' = << >> /\ UNCHANGED <<end, wire, datagrams, stream>>
  /\ UNCHANGED <<joinVars, sendVars>>

\* wire.retry sends again what is in the network already, until its last attempt.
GivesPendingUp(s) ==
  /\ Kind = "Udp" /\ wire[s].pending # << >>
  /\ wire' = [wire EXCEPT ![s].pending = << >>]

\* The peer goes with the record that was given up.
RetryLimit(s) ==
  /\ end[s].up /\ GivesPendingUp(s)
  /\ end' = [end EXCEPT ![s] =
       IF end[s].peer.phase \in Joining THEN Failed(@)
       ELSE [(IF OwnsSession(@) THEN Closed(@) ELSE @) EXCEPT !.peer = NoPeer]]
  /\ deferred' = [deferred EXCEPT ![s] = IF end[s].peer = NoPeer THEN @ ELSE << >>]
  /\ UNCHANGED <<joinVars, datagrams, stream, cmds, outq, accepted>>

RetainPermits ==
  /\ end["server"].up /\ permit
  /\ end["server"].peer = NoPeer /\ wire["server"].engine # "authorized"
  /\ permit' = FALSE
  /\ UNCHANGED <<setup, live, cand, decision, end, wire, datagrams, stream, cmds, sendVars>>

-----------------------------------------------------------------------------
(* The application's calls. *)

Decide(accept) ==
  /\ end["server"].route = "pending" /\ decision = "none"
  /\ end["server"].peer.phase = "ServerAuth"
  /\ decision' = accept
  /\ UNCHANGED <<setup, live, cand, permit, end, wire, datagrams, stream, cmds, sendVars>>

Send(s) ==
  /\ end[s].route = "established" /\ Len(accepted[s]) < setup.sends[s]
  /\ accepted' = [accepted EXCEPT ![s] = Append(@, IsTransitioning(end[s].ctl))]
  /\ outq' = [outq EXCEPT ![s] = Append(@, Len(accepted[s]) + 1)]
  /\ UNCHANGED <<joinVars, end, wire, datagrams, stream, cmds, deferred>>

SecurityCommand(command) ==
  /\ end["server"].route = "established" /\ cmds = << >>
  /\ cmds' = <<command>>
  /\ UNCHANGED <<joinVars, end, wire, datagrams, stream, sendVars>>

CloseSession(s) ==
  /\ Active(end[s])
  /\ end' = [end EXCEPT ![s] = Closed(@)]
  /\ UNCHANGED <<joinVars, wire, datagrams, stream, cmds, sendVars>>

Next ==
  \/ \E s \in Roles :
       \/ \E rec \in datagrams[Peer(s)] : ReceiveDatagram(s, rec)
       \/ ReceiveStream(s)
       \/ PickUp(s) \/ FlushDeferred(s) \/ Cleanup(s) \/ IdleTimeout(s) \/ RetryLimit(s)
       \/ Send(s) \/ CloseSession(s)
  \/ \E rec \in datagrams["client"] : ServerPreflight(rec)
  \/ \E rec \in datagrams["server"] : ClientPreflight(rec)
  \/ StaleInput \/ PreflightExpires \/ ClientTimeout \/ NextCandidate
  \/ HandshakeTimeout \/ TransitionTimeout \/ SendDecision \/ DriveTransition \/ RetainPermits
  \/ \E accept \in {"accepted", "rejected"} : Decide(accept)
  \/ \E command \in setup.commands : SecurityCommand(command)

Spec == Init /\ [][Next]_vars

-----------------------------------------------------------------------------
(* Properties. *)

\* Whatever the network repeats, reorders or delays, and whatever keys the
\* ends have turned meanwhile, an application sees a protected message once:
\* DatagramTransport::decrypt refuses every nonce it has accepted.
ProtectedDeliveredOnce ==
  \A s \in Roles : \A i, j \in DOMAIN end[s].got :
    end[s].got[i].integrity /\ end[s].got[i] = end[s].got[j] => i = j

\* A client's session opens only for a server whose application accepted the
\* join, and the two sessions have the keys of one and the same handshake,
\* however hellos and handshake messages were repeated.
OnlyAcceptedOpens ==
  end["client"].peer.phase = "Established" =>
    decision = "accepted" /\ end["server"].tr.hs = end["client"].tr.hs

\* On KCP an end with an open session refuses nothing the other end sent: the
\* barriers of a transition never leave a record under the wrong epoch, mode
\* or key in front of it, whatever was deferred or refused by KCP's budget.
KcpNeverRefused ==
  \A s \in Roles :
    /\ Kind = "Kcp" /\ stream[Peer(s)] # << >> /\ ~wire[s].lost
    /\ end[s].route = "established" /\ end[s].peer.phase = "Established"
    => \E o \in Process(s, Head(stream[Peer(s)])) : o.ok

\* The view of SecurityView: the mode and epoch each end's data travels under.
ViewOf(c) == [mode |-> c.mode, epoch |-> c.epoch]

Agreement == INSTANCE SecurityView WITH
  server <- ViewOf(end["server"].ctl),
  client <- ViewOf(end["client"].ctl),
  target <- ViewOf(IF IsTransitioning(end["server"].ctl) THEN Adopt(end["server"].ctl)
                                                         ELSE end["server"].ctl)

\* Over lossy, repeating, reordering datagrams too, the client adopts what the
\* server decided and nothing else, and the server follows only then.
ImplementsAgreement == Agreement!Spec

\* docs/getting-started.md:142: "Sends accepted during a transition remain
\* ordered and are emitted after its barrier completes."  On KCP, which keeps
\* the order of what it is given, two sends that an end accepts while it has a
\* transition pending arrive in the order of acceptance.
SendsStayOrdered ==
  Kind = "Kcp" => \A s \in Roles : \A i, j \in DOMAIN end[s].got :
    LET first == end[s].got[i].id
        second == end[s].got[j].id
    IN  i < j /\ accepted[Peer(s)][first] /\ accepted[Peer(s)][second] => first < second

\* The comment on end_input: "A pending request is acknowledged only after its
\* response was parsed successfully."  While the server waits for the answer
\* to its proposal, the proposal stays due for retransmission.
ProposalStaysPending ==
  LET e == end["server"]
  IN  /\ Kind = "Udp" /\ e.up /\ e.peer.phase = "Established"
      /\ e.ctl.pending.stage = "Ready"
      => /\ wire["server"].pending # << >>
         /\ wire["server"].pending[1].control.step = "Propose"
=============================================================================
