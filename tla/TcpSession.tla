----------------------------- MODULE TcpSession -----------------------------
(***************************************************************************)
(* An established adaptive TCP session, both ends of it:                   *)
(* run_adaptive_session of rnet-transport/src/adaptive_tcp_session.rs, with *)
(* the security barrier of SecurityController.  Each end is one task that  *)
(* reads, writes and publishes events in turn.  A write that does not fit  *)
(* the socket buffers keeps its task from doing anything else, and so does *)
(* an event that does not fit the event queue.                             *)
(*                                                                         *)
(* A ciphertext is modelled by the generation of the key it was made with. *)
(* Time is abstracted: the automatic rekey and the barrier's deadline may  *)
(* fire whenever the code has armed them.                                  *)
(***************************************************************************)
EXTENDS SecurityController

CONSTANTS
  AllowPlaintext,  \* security_policy.allow_plaintext_business_data
  MaxSends,        \* bound: sends accepted on each end, a function of the end
  SendCap,         \* write queue capacity of a session
  WireCap,         \* records the socket buffers of one direction hold
  EventCap         \* event queue capacity of a runtime

ASSUME TcpAssumption ==
  /\ AllowPlaintext \in BOOLEAN
  /\ MaxSends \in [Roles -> Nat] /\ WireCap \in Nat
  /\ SendCap \in Nat \ {0} /\ EventCap \in Nat \ {0}

VARIABLES
  ctl,       \* the SecurityController of each end
  keys,      \* generation of the sending and of the receiving Noise key
  route,     \* "open", or why the session left the session table
  task,      \* whether the session's task still runs
  outq,      \* accepted sends not yet picked up by the task
  cmds,      \* the server's security command queue
  wire,      \* wire[s]: records written by s and not yet read by its peer
  held,      \* the event push_tcp_event is waiting to publish, if any
  events,    \* the event queue
  polled,    \* history: sends and game controls taken, last announced mode
  accepted   \* history: how many sends were accepted

vars == <<ctl, keys, route, task, outq, cmds, wire, held, events, polled, accepted>>

Peer(s) == IF s = "server" THEN "client" ELSE "server"

InitialEpoch == 1

NoControl == Barrier("Switch", "Ack", 0)

Item == [id: Nat \ {0}, kind: {"Data", "GameControl"}]
Command == [op: {"Switch"}, mode: Modes] \cup [op: {"Rekey"}, mode: {NoMode}]
Record == [kind: {"PlainData", "Protected"}, epoch: Epochs, key: Nat,
           type: {"Data", "GameControl", "Control"}, id: Nat,
           control: Control]
Event == [type: {"Message", "GameControl", "SecurityChanged", "SessionClosed"},
          id: Nat, integrity: BOOLEAN, mode: Modes]

Init ==
  /\ \E mode \in IF AllowPlaintext THEN Modes ELSE {"Encrypted"} :
       ctl = [s \in Roles |-> NewController(s, mode, InitialEpoch)]
  /\ keys = [s \in Roles |-> [tx |-> 0, rx |-> 0]]
  /\ route = [s \in Roles |-> "open"]
  /\ task = [s \in Roles |-> "running"]
  /\ outq = [s \in Roles |-> << >>]
  /\ cmds = << >>
  /\ wire = [s \in Roles |-> << >>]
  /\ held = [s \in Roles |-> << >>]
  /\ events = [s \in Roles |-> << >>]
  /\ polled = [s \in Roles |-> [count |-> 0, mode |-> NoMode]]
  /\ accepted = [s \in Roles |-> 0]

-----------------------------------------------------------------------------
(* Helpers *)

\* write_all has not returned: the record does not fit the socket buffers yet.
Writing(s) == Len(wire[s]) > WireCap

\* Mutant: the barrier suspends reads as well as outbound pickup.
FreeOutsideBarrier(s) ==
  /\ task[s] = "running" /\ ~Writing(s) /\ held[s] = << >>
  /\ ~IsTransitioning(ctl[s])

\* The task is back in its loop, free to read or to pick up work.
Free(s) == task[s] = "running" /\ ~Writing(s) /\ held[s] = << >>

Protected(epoch, key, type, id, control) ==
  [kind |-> "Protected", epoch |-> epoch, key |-> key, type |-> type,
   id |-> id, control |-> control]

\* Encoding at pickup: the active mode protects data, controls always are.
Encoded(s, item) ==
  IF item.kind = "GameControl" \/ ctl[s].mode = "Encrypted"
  THEN Protected(ctl[s].epoch, keys[s].tx, item.kind, item.id, NoControl)
  ELSE [kind |-> "PlainData", epoch |-> ctl[s].epoch, key |-> 0,
        type |-> "Data", id |-> item.id, control |-> NoControl]

ApplyEffect(k, effect) ==
  IF effect = "Rekey" THEN [tx |-> k.tx + 1, rx |-> k.rx + 1] ELSE k

SecurityChanged(c) ==
  [type |-> "SecurityChanged", id |-> 0, integrity |-> TRUE, mode |-> c.mode]

SessionClosed(c) ==
  [type |-> "SessionClosed", id |-> 0, integrity |-> TRUE, mode |-> c.mode]

Evictable(e) == e.type \in {"Message", "GameControl"}

Without(q, i) == SubSeq(q, 1, i - 1) \o SubSeq(q, i + 1, Len(q))

\* publish_lifecycle: a full queue gives up its oldest evictable event; a
\* queue of lifecycle events only rejects the new one.
PublishLifecycle(q, e) ==
  LET oldest == {i \in DOMAIN q : /\ Evictable(q[i])
                                  /\ \A j \in 1 .. i - 1 : ~Evictable(q[j])}
  IN  CASE Len(q) < EventCap -> Append(q, e)
        [] Len(q) >= EventCap /\ oldest # {} ->
             Append(Without(q, CHOOSE i \in oldest : TRUE), e)
        [] OTHER -> q

\* remove_session: only the first to close the route publishes the event.
CloseRoute(s, why) ==
  IF route[s] = "open"
  THEN /\ route' = [route EXCEPT ![s] = why]
       /\ events' = [events EXCEPT ![s] = PublishLifecycle(@, SessionClosed(ctl[s]))]
  ELSE UNCHANGED <<route, events>>

\* The loop breaks with a phase: the stream is dropped and the route removed.
Exit(s, phase) ==
  /\ task' = [task EXCEPT ![s] = "ended"]
  /\ CloseRoute(s, phase)

-----------------------------------------------------------------------------
(* The application's calls *)

\* enqueue_encoded: rejected when the route is gone or the write queue is full.
Send(s, kind) ==
  /\ route[s] = "open" /\ accepted[s] < MaxSends[s]
  /\ task[s] = "running" /\ Len(outq[s]) < SendCap
  /\ accepted' = [accepted EXCEPT ![s] = @ + 1]
  /\ outq' = [outq EXCEPT ![s] = Append(@, [id |-> accepted[s] + 1, kind |-> kind])]
  /\ UNCHANGED <<ctl, keys, route, task, cmds, wire, held, events, polled>>

\* set_security_mode and rekey_session: a queue of one command, server only.
SecurityCommand(command) ==
  /\ route["server"] = "open" /\ cmds = << >>
  /\ command.mode = "Plaintext" => AllowPlaintext
  /\ cmds' = <<command>>
  /\ UNCHANGED <<ctl, keys, route, task, outq, wire, held, events, polled, accepted>>

Poll(s) ==
  /\ events[s] # << >>
  /\ LET e == Head(events[s])
     IN  polled' = [polled EXCEPT ![s] =
           [count |-> IF Evictable(e) THEN @.count + 1 ELSE @.count,
            mode |-> IF e.type = "SecurityChanged" THEN e.mode ELSE @.mode]]
  /\ events' = [events EXCEPT ![s] = Tail(@)]
  /\ UNCHANGED <<ctl, keys, route, task, outq, cmds, wire, held, accepted>>

\* close_session: the route goes at once, the task only when it notices.
CloseSession(s) ==
  /\ route[s] = "open"
  /\ CloseRoute(s, "application")
  /\ UNCHANGED <<ctl, keys, task, outq, cmds, wire, held, polled, accepted>>

-----------------------------------------------------------------------------
(* The task's loop.  Outbound sends and commands wait while a barrier is in *)
(* flight; inbound records never do.                                       *)

\* Mutant: outbound pickup is not suspended by the barrier.
PickUpInBarrier(s) ==
  /\ Free(s) /\ outq[s] # << >> /\ route[s] = "open"
  /\ wire' = [wire EXCEPT ![s] = Append(@, Encoded(s, Head(outq[s])))]
  /\ outq' = [outq EXCEPT ![s] = Tail(@)]
  /\ UNCHANGED <<ctl, keys, route, task, cmds, held, events, polled, accepted>>

PickUp(s) ==
  /\ Free(s) /\ ~IsTransitioning(ctl[s]) /\ outq[s] # << >> /\ route[s] = "open"
  /\ wire' = [wire EXCEPT ![s] = Append(@, Encoded(s, Head(outq[s])))]
  /\ outq' = [outq EXCEPT ![s] = Tail(@)]
  /\ UNCHANGED <<ctl, keys, route, task, cmds, held, events, polled, accepted>>

\* Mutant: only a queued send makes the task notice that its route is gone.
OutboundClosedIfQueued(s) ==
  /\ Free(s) /\ ~IsTransitioning(ctl[s]) /\ route[s] # "open" /\ outq[s] # << >>
  /\ Exit(s, "tcp_write")
  /\ UNCHANGED <<ctl, keys, outq, cmds, wire, held, polled, accepted>>

\* The route is gone: the queue is closed, or its next send is cancelled.
OutboundClosed(s) ==
  /\ Free(s) /\ ~IsTransitioning(ctl[s]) /\ route[s] # "open"
  /\ Exit(s, "tcp_write")
  /\ UNCHANGED <<ctl, keys, outq, cmds, wire, held, polled, accepted>>

\* The proposal travels under the epoch and the key it will replace.
Propose(c, proposal) ==
  /\ ctl' = [ctl EXCEPT !["server"] = c]
  /\ wire' = [wire EXCEPT !["server"] = Append(@,
       Protected(ctl["server"].epoch, keys["server"].tx, "Control", 0, proposal))]

TakeCommand ==
  /\ Free("server") /\ ~IsTransitioning(ctl["server"]) /\ cmds # << >>
  /\ cmds' = Tail(cmds)
  /\ LET c == ctl["server"]  next == c.epoch + 1  mode == Head(cmds).mode
     IN  CASE Head(cmds).op = "Switch" /\ CanBeginSwitch(c, mode) ->
                Propose(BeginSwitch(c, mode), Switch("Propose", next, mode))
           [] Head(cmds).op = "Rekey" /\ CanBeginRekey(c) ->
                Propose(BeginRekey(c), Barrier("Rekey", "Propose", next))
           [] OTHER -> UNCHANGED <<ctl, wire>>
  /\ UNCHANGED <<keys, route, task, outq, held, events, polled, accepted>>

\* The age or the encrypted bytes of the current keys reached their limit.
AutomaticRekey ==
  /\ Free("server") /\ ctl["server"].mode = "Encrypted" /\ CanBeginRekey(ctl["server"])
  /\ Propose(BeginRekey(ctl["server"]),
             Barrier("Rekey", "Propose", ctl["server"].epoch + 1))
  /\ UNCHANGED <<keys, route, task, outq, cmds, held, events, polled, accepted>>

\* Only the server arms a deadline, after it has written its proposal.
TransitionTimeout ==
  /\ Free("server") /\ IsTransitioning(ctl["server"])
  /\ Exit("server", "tcp_security_transition")
  /\ UNCHANGED <<ctl, keys, outq, cmds, wire, held, polled, accepted>>

\* End of file, or a reset that overtakes what was still unread.
PeerGone(s) ==
  /\ Free(s) /\ task[Peer(s)] = "ended"
  /\ Exit(s, "tcp_read")
  /\ UNCHANGED <<ctl, keys, outq, cmds, wire, held, polled, accepted>>

\* A blocked write of data or of a barrier.  The phase the code reports says
\* which it was; nothing else depends on it.
WriteFails(s) ==
  /\ task[s] = "running" /\ Writing(s) /\ task[Peer(s)] = "ended"
  /\ Exit(s, "tcp_write")
  /\ held' = [held EXCEPT ![s] = << >>]
  /\ UNCHANGED <<ctl, keys, outq, cmds, wire, polled, accepted>>

-----------------------------------------------------------------------------
(* process_inbound, and the wait of push_tcp_event that may end it.        *)

Acceptable(s, r) ==
  /\ route[s] = "open" /\ r.epoch = ctl[s].epoch
  /\ r.kind = "PlainData" => ctl[s].mode = "Plaintext"
  /\ r.kind = "Protected" => r.key = keys[s].rx
  /\ r.kind = "Protected" /\ r.type = "Data" => ctl[s].mode = "Encrypted"
  /\ r.type = "Control" => Accepts(ctl[s], r.control)

Read(s) == wire' = [wire EXCEPT ![Peer(s)] = Tail(@)]

ReceiveInvalid(s) ==
  /\ Free(s) /\ wire[Peer(s)] # << >> /\ ~Acceptable(s, Head(wire[Peer(s)]))
  /\ Read(s)
  /\ Exit(s, "tcp_inbound")
  /\ UNCHANGED <<ctl, keys, outq, cmds, held, polled, accepted>>

ReceiveData(s) ==
  /\ Free(s) /\ wire[Peer(s)] # << >>
  /\ LET r == Head(wire[Peer(s)])
     IN  /\ Acceptable(s, r) /\ r.type # "Control"
         /\ held' = [held EXCEPT ![s] =
              <<[type |-> IF r.type = "Data" THEN "Message" ELSE "GameControl",
                 id |-> r.id, integrity |-> r.kind = "Protected",
                 mode |-> ctl[s].mode]>>]
  /\ Read(s)
  /\ UNCHANGED <<ctl, keys, route, task, outq, cmds, events, polled, accepted>>

\* Mutant: the event carries the mode that was active before the record.
AnnounceStale(s) ==
  IF IsTransitioning(ctl'[s]) THEN << >> ELSE <<SecurityChanged(ctl[s])>>

\* push_security_changed: once the transition is over on this end.
Announce(s) ==
  IF IsTransitioning(ctl'[s]) THEN << >> ELSE <<SecurityChanged(ctl'[s])>>

\* The answer carries the epoch of the record it answers; a rekey turns the
\* keys before an acknowledgement and after a commit.
ReceiveControl(s) ==
  /\ Free(s) /\ wire[Peer(s)] # << >>
  /\ LET r == Head(wire[Peer(s)])
         m == r.control
         before == ApplyEffect(keys[s], BeforeResponse(m))
         answer == Protected(r.epoch, before.tx, "Control", 0, Response(m))
     IN  /\ Acceptable(s, r) /\ r.type = "Control"
         /\ ctl' = [ctl EXCEPT ![s] = Handled(@, m)]
         /\ keys' = [keys EXCEPT ![s] = ApplyEffect(before, AfterResponse(m))]
         /\ wire' = [wire EXCEPT ![Peer(s)] = Tail(@),
                                 ![s] = IF HasResponse(m) THEN Append(@, answer) ELSE @]
         /\ held' = [held EXCEPT ![s] = Announce(s)]
  /\ UNCHANGED <<route, task, outq, cmds, events, polled, accepted>>

\* Mutant: a full queue drops the event instead of holding the task back.
PushEventDropping(s) ==
  /\ task[s] = "running" /\ ~Writing(s) /\ held[s] # << >>
  /\ events' = IF Len(events[s]) < EventCap
               THEN [events EXCEPT ![s] = Append(@, held[s][1])] ELSE events
  /\ held' = [held EXCEPT ![s] = << >>]
  /\ UNCHANGED <<ctl, keys, route, task, outq, cmds, wire, polled, accepted>>

\* The event enters the queue once it fits; a message of a closed session is
\* dropped instead.
PushEvent(s) ==
  /\ task[s] = "running" /\ ~Writing(s) /\ held[s] # << >>
  /\ \/ /\ route[s] # "open" /\ Evictable(held[s][1])
        /\ UNCHANGED events
     \/ /\ route[s] = "open" \/ ~Evictable(held[s][1])
        /\ Len(events[s]) < EventCap
        /\ events' = [events EXCEPT ![s] = Append(@, held[s][1])]
  /\ held' = [held EXCEPT ![s] = << >>]
  /\ UNCHANGED <<ctl, keys, route, task, outq, cmds, wire, polled, accepted>>

-----------------------------------------------------------------------------
Application(s) ==
  \/ \E kind \in {"Data", "GameControl"} : Send(s, kind)
  \/ Poll(s)
  \/ CloseSession(s)

TaskStep(s) ==
  \/ PickUp(s) \/ OutboundClosed(s) \/ PeerGone(s) \/ WriteFails(s)
  \/ ReceiveInvalid(s) \/ ReceiveData(s) \/ ReceiveControl(s) \/ PushEvent(s)

Next ==
  \/ \E s \in Roles : Application(s) \/ TaskStep(s)
  \/ \E command \in Command : SecurityCommand(command)
  \/ TakeCommand \/ AutomaticRekey \/ TransitionTimeout

Spec == Init /\ [][Next]_vars

\* The runtime keeps polling a task that can go on, the application keeps
\* polling its events, and an armed deadline expires.
Fairness ==
  /\ \A s \in Roles : WF_vars(TaskStep(s)) /\ WF_vars(Poll(s))
  /\ WF_vars(TakeCommand) /\ WF_vars(TransitionTimeout)

FairSpec == Spec /\ Fairness

-----------------------------------------------------------------------------
(* Properties *)

\* Every variable keeps its shape, whatever the two tasks do.
TypeOK ==
  /\ ctl \in [Roles -> Controller]
  /\ keys \in [Roles -> [tx: Nat, rx: Nat]]
  /\ route \in [Roles -> {"open", "application", "tcp_read", "tcp_write",
                          "tcp_inbound", "tcp_security_transition"}]
  /\ task \in [Roles -> {"running", "ended"}]
  /\ outq \in [Roles -> Seq(Item)]
  /\ cmds \in Seq(Command)
  /\ wire \in [Roles -> Seq(Record)]
  /\ held \in [Roles -> Seq(Event)]
  /\ events \in [Roles -> Seq(Event)]
  /\ polled \in [Roles -> [count: Nat, mode: Modes \cup {NoMode}]]
  /\ accepted \in [Roles -> Nat]

\* No record ever reaches an end that cannot read it: the epoch, the key, the
\* mode and the expected barrier match whatever transitions and sends were
\* in flight, so process_inbound never closes a session of two honest ends.
NoBarrierViolation == \A s \in Roles : route[s] # "tcp_inbound"

ViewOf(c) == [mode |-> c.mode, epoch |-> c.epoch]

Agreement == INSTANCE SecurityView WITH
  server <- ViewOf(ctl["server"]),
  client <- ViewOf(ctl["client"]),
  target <- ViewOf(IF IsTransitioning(ctl["server"]) THEN Adopt(ctl["server"])
                                                     ELSE ctl["server"])

\* The session implements the abstract transition: only the server decides,
\* the client adopts that decision, and the server follows the client.
ImplementsAgreement == Agreement!Spec

\* Once both ends are idle and nothing is in flight, each one's sending key
\* is the other's receiving key.
SettledKeysAgree ==
  (\A s \in Roles : ~IsTransitioning(ctl[s]) /\ wire[s] = << >>)
    => \A s \in Roles : keys[s].tx = keys[Peer(s)].rx

Ids(q) ==
  LET business == SelectSeq(q, LAMBDA x : x.id # 0)
  IN  [i \in DOMAIN business |-> business[i].id]

\* While the session is open on both ends, every accepted send is in exactly
\* one place between the sender's queue and the receiver's application, in
\* the order of acceptance: a barrier loses, repeats and reorders nothing.
NothingLostOrReordered ==
  \A s \in Roles : (\A t \in Roles : route[t] = "open") =>
    LET p == Peer(s)
    IN  Ids(events[p]) \o Ids(held[p]) \o Ids(wire[s]) \o Ids(outq[s])
          = [i \in 1 .. accepted[s] - polled[p].count |-> polled[p].count + i]

\* A message that the application sees after SecurityChanged, and before the
\* next one, has the integrity the announced mode promises.
AnnouncedModeHolds ==
  \A s \in Roles :
    LET p == events[s] \o held[s]
        Announced(j) ==   \* the mode announced last before p[j]
          LET before == {i \in 1 .. j - 1 : p[i].type = "SecurityChanged"}
          IN  IF before = {} THEN polled[s].mode
              ELSE p[CHOOSE i \in before : \A k \in before : k <= i].mode
    IN  \A j \in DOMAIN p :
          p[j].type = "Message" /\ Announced(j) # NoMode
            => (p[j].integrity <=> Announced(j) = "Encrypted")

\* An end adopts transitions one epoch at a time, and a mode only with one.  The counter
\* neither wraps nor passes its largest value: at the last epoch no transition is begun
\* or accepted, so that next_epoch never hands out an epoch that does not exist.
EpochsAdvanceByOne ==
  [][\A s \in Roles :
       /\ ctl'[s].epoch <= EpochMax /\ ctl'[s].pending.epoch <= EpochMax
       /\ \/ ctl'[s].epoch = ctl[s].epoch /\ ctl'[s].mode = ctl[s].mode
          \/ ctl'[s].epoch = ctl[s].epoch + 1 /\ IsTransitioning(ctl[s])]_vars

\* A transition that has begun ends: it is committed or the session closes.
TransitionEnds ==
  IsTransitioning(ctl["server"])
    ~> (~IsTransitioning(ctl["server"]) \/ task["server"] = "ended")

\* A session that left the table does not keep its task for ever, whatever
\* barrier it was waiting for.
ClosedTaskEnds ==
  \A s \in Roles : route[s] # "open" ~> task[s] = "ended"

\* A session that stays open delivers every send it accepted.
AcceptedIsDelivered ==
  \A s \in Roles : \A n \in 1 .. MaxSends[s] :
    accepted[s] = n ~> \/ \E t \in Roles : route[t] # "open"
                       \/ polled[Peer(s)].count >= n

-----------------------------------------------------------------------------
(* The inductive invariant behind NoBarrierViolation and the refinement.  A *)
(* transition has five phases, told apart by the two controllers; each one *)
(* fixes the keys and what may still be in flight to an end that reads.    *)

Phase ==
  LET s == ctl["server"].pending  c == ctl["client"].pending
  IN  CASE s.stage = "Idle"                       -> "Settled"
        [] s.stage = "Ready" /\ c.stage = "Idle"  -> "Proposed"
        [] s.stage = "Ready" /\ c.stage # "Idle"  -> "Prepared"
        [] s.stage = "Ack" /\ c.stage # "Idle"    -> "Committed"
        [] OTHER                                  -> "Adopted"

ControllersInv ==
  LET s == ctl["server"]  c == ctl["client"]
  IN  /\ s.role = "server" /\ c.role = "client" /\ s.epoch # 0
      /\ s.pending.stage = "Idle" => s.pending = NoPending
      /\ c.pending.stage = "Idle" => c.pending = NoPending
      /\ s.pending.stage # "Commit" /\ c.pending.stage \in {"Idle", "Commit"}
      /\ s.pending.stage # "Idle" =>
           /\ s.pending.epoch = s.epoch + 1
           /\ s.pending.op = "Switch" => s.pending.mode \in Modes
      /\ c.pending.stage # "Idle" =>
           /\ s.pending.stage # "Idle"
           /\ \A f \in {"op", "epoch", "mode"} : c.pending[f] = s.pending[f]
      /\ IF Phase = "Adopted" THEN ViewOf(c) = ViewOf(Adopt(s))
                              ELSE ViewOf(c) = ViewOf(s)

\* The server turns its keys at the commit, the client when it adopts.
KeysInv ==
  /\ \A s \in Roles : keys[s].tx = keys[s].rx
  /\ keys["server"].tx =
       IF Phase = "Committed" /\ ctl["server"].pending.op = "Rekey"
       THEN keys["client"].tx + 1 ELSE keys["client"].tx

IsData(s, r) ==   \* r is business data as s encodes it now
  /\ r.type # "Control" /\ r.epoch = ctl[s].epoch
  /\ r.kind = "PlainData" => ctl[s].mode = "Plaintext" /\ r.type = "Data"
  /\ r.kind = "Protected" => r.key = keys[s].tx
  /\ r.kind = "Protected" /\ r.type = "Data" => ctl[s].mode = "Encrypted"

IsBarrier(r, step, key) ==
  /\ r.kind = "Protected" /\ r.type = "Control" /\ r.key = key
  /\ r.epoch = ctl["server"].epoch
  /\ r.control.step = step
  /\ r.control.op = ctl["server"].pending.op
  /\ r.control.epoch = ctl["server"].pending.epoch

AllData(s, w) == \A i \in DOMAIN w : IsData(s, w[i])

DataThenBarrier(s, w, step) ==
  /\ w # << >> /\ IsBarrier(w[Len(w)], step, keys[s].tx)
  /\ \A i \in 1 .. Len(w) - 1 : IsData(s, w[i])

ToClient ==
  LET w == wire["server"]
  IN  CASE Phase = "Settled"   -> AllData("server", w)
        [] Phase = "Proposed"  ->
             /\ DataThenBarrier("server", w, "Propose")
             /\ w[Len(w)].control.mode = ctl["server"].pending.mode
        [] Phase = "Committed" ->
             Len(w) = 1 /\ IsBarrier(w[1], "Commit", keys["client"].rx)
        [] OTHER               -> w = << >>

ToServer ==
  LET w == wire["client"]
  IN  CASE Phase \in {"Settled", "Proposed"} -> AllData("client", w)
        [] Phase = "Prepared"  -> DataThenBarrier("client", w, "Ready")
        [] Phase = "Committed" -> w = << >>
        [] OTHER               ->
             /\ w # << >> /\ IsBarrier(w[1], "Ack", keys["client"].tx)
             /\ \A i \in 2 .. Len(w) : IsData("client", w[i])

\* What is in flight to an end that still reads is what that end expects.
BarrierInv ==
  /\ ControllersInv /\ KeysInv
  /\ task["client"] = "running" => ToClient
  /\ task["server"] = "running" => ToServer
  /\ \A s \in Roles : route[s] = "open" => task[s] = "running"
  /\ NoBarrierViolation
=============================================================================
