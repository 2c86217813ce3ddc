-------------------------- MODULE TcpSessionProofs --------------------------
(***************************************************************************)
(* TLAPS proofs about TcpSession, for every epoch width, every capacity    *)
(* and every number of sends.                                              *)
(***************************************************************************)
EXTENDS TcpSession, SequenceTheorems, TLAPS

(* What the controller's operators return. *)

\* What the two constructors of a control make is a control.
LEMMA ControlType ==
  ASSUME NEW op \in Ops, NEW e \in Epochs, NEW mode \in Modes,
         NEW step \in {"Propose", "Ready", "Commit", "Ack"}
  PROVE  Barrier(op, step, e) \in Control /\ Switch(step, e, mode) \in Control
  BY DEF Barrier, Switch, Control, Ops, Modes, NoMode

\* An epoch below the largest has a successor.
LEMMA NextEpochType ==
  ASSUME NEW c \in Controller, HasNextEpoch(c)
  PROVE  c.epoch + 1 \in Epochs
  BY EpochMaxAssumption DEF HasNextEpoch, Controller, Epochs

\* A controller that begins a transition is a controller.
LEMMA BeginType ==
  ASSUME NEW c \in Controller, HasNextEpoch(c), NEW mode \in Modes
  PROVE  BeginRekey(c) \in Controller /\ BeginSwitch(c, mode) \in Controller
  BY NextEpochType DEF BeginRekey, BeginSwitch, Controller, Pending, Ops, NoMode, Modes

\* Idle is a pending value.
LEMMA NoPendingType == NoPending \in Pending
  BY EpochMaxAssumption DEF NoPending, Pending, Ops, NoMode, Epochs

\* A controller that adopts its pending transition is a controller.
LEMMA AdoptType ==
  ASSUME NEW c \in Controller, c.pending.stage # "Idle"
  PROVE  Adopt(c) \in Controller
<1>1. c.pending.op = "Switch" => c.pending.mode \in Modes
  BY DEF Controller, Pending, NoMode
<1>2. c.pending.epoch \in Epochs
  BY DEF Controller, Pending
<1> QED  BY Zenon, <1>1, <1>2, NoPendingType DEF Adopt, Controller

\* The proposal of a rekey is a control of the next epoch.
LEMMA RekeyProposal ==
  ASSUME NEW c \in Controller, CanBeginRekey(c)
  PROVE  BeginRekey(c) \in Controller /\ Barrier("Rekey", "Propose", c.epoch + 1) \in Control
  BY NextEpochType DEF CanBeginRekey, BeginRekey, Barrier, Controller, Pending, Control,
                       Ops, NoMode, Modes

\* handle keeps the controller a controller and answers with a control.
LEMMA HandledType ==
  ASSUME NEW c \in Controller, NEW m \in Control, Accepts(c, m)
  PROVE  Handled(c, m) \in Controller /\ Response(m) \in Control
<1>1. CASE AcceptsPropose(c, m)
  BY <1>1 DEF AcceptsPropose, Handled, Response, Barrier, Controller, Pending, Control,
              Ops, NoMode, Modes
<1>2. CASE AcceptsReady(c, m)
  BY <1>2 DEF AcceptsReady, AcceptsAt, Handled, Response, Barrier, Controller, Pending,
              Control, Ops, NoMode, Modes
<1>3. CASE AcceptsCommit(c, m) \/ AcceptsAck(c, m)
  <2>1. c.pending.stage # "Idle" /\ m.step \in {"Commit", "Ack"}
    BY <1>3 DEF AcceptsCommit, AcceptsAck, AcceptsAt
  <2>2. Handled(c, m) = Adopt(c)
    BY <2>1 DEF Handled
  <2>3. Response(m) \in Control
    BY DEF Response, Barrier, Control, Ops, NoMode, Modes
  <2> QED  BY <2>1, <2>2, <2>3, AdoptType
<1> QED  BY <1>1, <1>2, <1>3 DEF Accepts

\* An effect leaves the key generations numbers.
LEMMA EffectType ==
  ASSUME NEW k \in [tx: Nat, rx: Nat], NEW effect
  PROVE  ApplyEffect(k, effect) \in [tx: Nat, rx: Nat]
  BY DEF ApplyEffect

\* A session that has just been established is well typed.
LEMMA InitType == Init => TypeOK
  BY TcpAssumption, EpochMaxAssumption
  DEF Init, TypeOK, Controller, NewController, NoPending, Pending, Modes, Roles, Ops,
      Epochs, InitialEpoch, NoMode

\* publish_lifecycle leaves a sequence of events, evicting or not.
LEMMA PublishType ==
  ASSUME NEW q \in Seq(Event), NEW e \in Event
  PROVE  PublishLifecycle(q, e) \in Seq(Event)
<1>1. ASSUME NEW i \in DOMAIN q
      PROVE  Append(Without(q, i), e) \in Seq(Event)
  <2>1. i \in 1 .. Len(q)
    OBVIOUS
  <2>2. SubSeq(q, 1, i - 1) \in Seq(Event) /\ SubSeq(q, i + 1, Len(q)) \in Seq(Event)
    BY <2>1, SubSeqProperties
  <2> QED  BY <2>2, ConcatProperties, AppendProperties DEF Without
<1> QED  BY <1>1, AppendProperties DEF PublishLifecycle

\* Closing a route keeps the route table and the event queue well typed.
LEMMA CloseRouteType ==
  ASSUME TypeOK, NEW s \in Roles,
         NEW why \in {"application", "tcp_read", "tcp_write", "tcp_inbound",
                      "tcp_security_transition"},
         CloseRoute(s, why)
  PROVE  /\ route' \in [Roles -> {"open", "application", "tcp_read", "tcp_write",
                                  "tcp_inbound", "tcp_security_transition"}]
         /\ events' \in [Roles -> Seq(Event)]
<1>1. SessionClosed(ctl[s]) \in Event
  BY DEF TypeOK, SessionClosed, Event, Controller
<1>2. PublishLifecycle(events[s], SessionClosed(ctl[s])) \in Seq(Event)
  BY <1>1, PublishType DEF TypeOK
<1>3. /\ events \in [Roles -> Seq(Event)]
      /\ route \in [Roles -> {"open", "application", "tcp_read", "tcp_write",
                              "tcp_inbound", "tcp_security_transition"}]
  BY Zenon DEF TypeOK
<1>4. CASE route[s] = "open"
  BY Zenon, <1>2, <1>3, <1>4 DEF CloseRoute
<1>5. CASE route[s] # "open"
  BY <1>3, <1>5 DEF CloseRoute
<1> QED  BY <1>4, <1>5

\* A protected record is a record.
LEMMA ProtectedType ==
  ASSUME NEW e \in Epochs, NEW k \in Nat, NEW type \in {"Data", "GameControl", "Control"},
         NEW id \in Nat, NEW m \in Control
  PROVE  Protected(e, k, type, id, m) \in Record
  BY DEF Protected, Record

\* The control that fills the records of data is a control.
LEMMA NoControlType == NoControl \in Control
  BY EpochMaxAssumption DEF NoControl, Barrier, Control, Ops, NoMode, Epochs

\* What a pickup writes is a record.
LEMMA EncodedType ==
  ASSUME TypeOK, NEW s \in Roles, NEW item \in Item
  PROVE  Encoded(s, item) \in Record
<1>1. ctl[s].epoch \in Epochs /\ keys[s].tx \in Nat
  BY DEF TypeOK, Controller
<1>2. item.id \in Nat /\ item.kind \in {"Data", "GameControl", "Control"}
  BY DEF Item
<1> QED  BY <1>1, <1>2, NoControlType, ProtectedType DEF Encoded, Record

\* Writing a proposal keeps the controllers and the wire well typed.
LEMMA ProposeType ==
  ASSUME TypeOK, NEW c \in Controller, NEW m \in Control, Propose(c, m)
  PROVE  ctl' \in [Roles -> Controller] /\ wire' \in [Roles -> Seq(Record)]
<1>1. ctl["server"].epoch \in Epochs /\ keys["server"].tx \in Nat
  BY Zenon DEF TypeOK, Controller, Roles
<1>2. Protected(ctl["server"].epoch, keys["server"].tx, "Control", 0, m) \in Record
  BY <1>1, ProtectedType
<1> QED  BY Zenon, <1>2, AppendProperties DEF TypeOK, Propose

\* Every step keeps every variable in its type.
LEMMA TypeStep == TypeOK /\ [Next]_vars => TypeOK'
<1> SUFFICES ASSUME TypeOK, [Next]_vars PROVE TypeOK'
  OBVIOUS
<1>1. ASSUME NEW s \in Roles, NEW kind \in {"Data", "GameControl"}, Send(s, kind)
      PROVE  TypeOK'
  <2>1. [id |-> accepted[s] + 1, kind |-> kind] \in Item /\ accepted[s] + 1 \in Nat
    BY DEF TypeOK, Item
  <2> QED  BY <1>1, <2>1, AppendProperties DEF TypeOK, Send
<1>2. ASSUME NEW s \in Roles, Poll(s)
      PROVE  TypeOK'
  <2>1. Head(events[s]) \in Event /\ Tail(events[s]) \in Seq(Event)
    BY <1>2, HeadTailProperties DEF TypeOK, Poll
  <2>2. /\ polled[s].count + 1 \in Nat
        /\ Head(events[s]).type = "SecurityChanged" => Head(events[s]).mode \in Modes
    BY <2>1 DEF TypeOK, Event
  <2>3. events' \in [Roles -> Seq(Event)]
    BY <1>2, <2>1 DEF TypeOK, Poll
  <2>4. polled' \in [Roles -> [count: Nat, mode: Modes \cup {NoMode}]]
    BY Zenon, <1>2, <2>2 DEF TypeOK, Poll
  <2> QED  BY Zenon, <1>2, <2>3, <2>4 DEF TypeOK, Poll
<1>3. ASSUME NEW s \in Roles, CloseSession(s)
      PROVE  TypeOK'
  BY Zenon, <1>3, CloseRouteType DEF TypeOK, CloseSession
<1>4. ASSUME NEW s \in Roles, PickUp(s)
      PROVE  TypeOK'
  <2>1. Head(outq[s]) \in Item /\ Tail(outq[s]) \in Seq(Item)
    BY <1>4, HeadTailProperties DEF TypeOK, PickUp
  <2>2. Append(wire[s], Encoded(s, Head(outq[s]))) \in Seq(Record)
    BY Zenon, <2>1, EncodedType, AppendProperties DEF TypeOK
  <2> QED  BY Zenon, <1>4, <2>1, <2>2 DEF TypeOK, PickUp
<1>5. ASSUME NEW s \in Roles, OutboundClosed(s) \/ PeerGone(s)
      PROVE  TypeOK'
  BY Zenon, <1>5, CloseRouteType DEF TypeOK, OutboundClosed, PeerGone, Exit
<1>6. ASSUME NEW s \in Roles, WriteFails(s)
      PROVE  TypeOK'
  <2>1. << >> \in Seq(Event)
    OBVIOUS
  <2>2. held' \in [Roles -> Seq(Event)]
    BY <1>6, <2>1 DEF TypeOK, WriteFails
  <2> QED  BY Zenon, <1>6, <2>2, CloseRouteType DEF TypeOK, WriteFails, Exit
<1>7. CASE TransitionTimeout
  BY Zenon, <1>7, CloseRouteType DEF TypeOK, TransitionTimeout, Exit, Roles
<1>8. ASSUME NEW s \in Roles, ReceiveInvalid(s)
      PROVE  TypeOK'
  <2>1. Peer(s) \in Roles
    BY DEF Peer, Roles
  <2>2. wire' \in [Roles -> Seq(Record)]
    BY <1>8, <2>1, HeadTailProperties DEF TypeOK, ReceiveInvalid, Read
  <2> QED  BY Zenon, <1>8, <2>2, CloseRouteType DEF TypeOK, ReceiveInvalid, Exit
<1>9. ASSUME NEW s \in Roles, ReceiveData(s)
      PROVE  TypeOK'
  <2>1. Peer(s) \in Roles
    BY DEF Peer, Roles
  <2>2. wire' \in [Roles -> Seq(Record)]
    BY Zenon, <1>9, <2>1, HeadTailProperties DEF TypeOK, ReceiveData, Read
  <2>3. Head(wire[Peer(s)]) \in Record
    BY Zenon, <1>9, <2>1, HeadTailProperties DEF TypeOK, ReceiveData
  <2> DEFINE r == Head(wire[Peer(s)])
             e == [type |-> IF r.type = "Data" THEN "Message" ELSE "GameControl",
                   id |-> r.id, integrity |-> r.kind = "Protected", mode |-> ctl[s].mode]
  <2>5. e \in Event
    BY Zenon, <2>3 DEF TypeOK, Record, Event, Controller
  <2>6. <<e>> \in Seq(Event)
    BY <2>5
  <2>4. held' \in [Roles -> Seq(Event)]
    BY <1>9, <2>6 DEF TypeOK, ReceiveData
  <2> QED  BY Zenon, <1>9, <2>2, <2>4 DEF TypeOK, ReceiveData
<1>10. ASSUME NEW s \in Roles, ReceiveControl(s)
       PROVE  TypeOK'
  <2> DEFINE r == Head(wire[Peer(s)])
             before == ApplyEffect(keys[s], BeforeResponse(r.control))
             answer == Protected(r.epoch, before.tx, "Control", 0, Response(r.control))
  <2>1. Peer(s) \in Roles
    BY DEF Peer, Roles
  <2>2. r \in Record /\ Tail(wire[Peer(s)]) \in Seq(Record)
    BY Zenon, <1>10, <2>1, HeadTailProperties DEF TypeOK, ReceiveControl
  <2>3. r.epoch \in Epochs /\ r.control \in Control
    BY <2>2 DEF Record
  <2>4. Accepts(ctl[s], r.control)
    BY Zenon, <1>10 DEF ReceiveControl, Acceptable
  <2>5. Handled(ctl[s], r.control) \in Controller /\ Response(r.control) \in Control
    BY Zenon, <2>3, <2>4, HandledType DEF TypeOK
  <2>6. before \in [tx: Nat, rx: Nat]
    BY Zenon, EffectType DEF TypeOK
  <2>7. answer \in Record
    <3>1. before.tx \in Nat
      BY <2>6
    <3> QED  BY <2>3, <2>5, <3>1, ProtectedType
  <2>8. Append(wire[s], answer) \in Seq(Record)
    BY Zenon, <2>7, AppendProperties DEF TypeOK
  <2>9. wire' \in [Roles -> Seq(Record)]
    BY Zenon, <1>10, <2>1, <2>2, <2>8 DEF TypeOK, ReceiveControl, Peer
  <2>10. ctl' \in [Roles -> Controller] /\ ctl'[s] \in Controller
    BY Zenon, <1>10, <2>5 DEF TypeOK, ReceiveControl
  <2>11. keys' \in [Roles -> [tx: Nat, rx: Nat]]
    BY Zenon, <1>10, <2>6, EffectType DEF TypeOK, ReceiveControl
  <2>12. SecurityChanged(ctl'[s]) \in Event
    BY <2>10 DEF SecurityChanged, Event, Controller
  <2>13. << >> \in Seq(Event) /\ <<SecurityChanged(ctl'[s])>> \in Seq(Event)
    BY <2>12
  <2>14. held' \in [Roles -> Seq(Event)]
    BY Zenon, <1>10, <2>13 DEF TypeOK, ReceiveControl, Announce
  <2> QED  BY Zenon, <1>10, <2>9, <2>10, <2>11, <2>14 DEF TypeOK, ReceiveControl
<1>11. ASSUME NEW s \in Roles, PushEvent(s)
       PROVE  TypeOK'
  <2>1. held[s][1] \in Event
    BY <1>11 DEF TypeOK, PushEvent
  <2>2. Append(events[s], held[s][1]) \in Seq(Event)
    BY Zenon, <2>1, AppendProperties DEF TypeOK
  <2>3. << >> \in Seq(Event)
    OBVIOUS
  <2>4. held' \in [Roles -> Seq(Event)]
    BY <1>11, <2>3 DEF TypeOK, PushEvent
  <2>5. events' \in [Roles -> Seq(Event)]
    BY Zenon, <1>11, <2>2 DEF TypeOK, PushEvent
  <2> QED  BY Zenon, <1>11, <2>4, <2>5 DEF TypeOK, PushEvent
<1>12. ASSUME NEW command \in Command, SecurityCommand(command)
       PROVE  TypeOK'
  BY <1>12 DEF TypeOK, SecurityCommand
<1>13. CASE TakeCommand
  <2> DEFINE c == ctl["server"]  mode == Head(cmds).mode
  <2>1. c \in Controller
    BY DEF TypeOK, Roles
  <2>2. Head(cmds) \in Command /\ Tail(cmds) \in Seq(Command)
    BY <1>13, HeadTailProperties DEF TypeOK, TakeCommand
  <2>3. ctl' \in [Roles -> Controller] /\ wire' \in [Roles -> Seq(Record)]
    <3>1. CASE Head(cmds).op = "Switch" /\ CanBeginSwitch(c, mode)
      <4>1. mode \in Modes /\ "Propose" \in {"Propose", "Ready", "Commit", "Ack"}
        BY <2>2, <3>1 DEF Command, NoMode
      <4>2. c.epoch + 1 \in Epochs
        BY <2>1, <3>1, NextEpochType DEF CanBeginSwitch
      <4>3. "Switch" \in Ops
        BY DEF Ops
      <4>4. Switch("Propose", c.epoch + 1, mode) \in Control
        BY <4>1, <4>2, <4>3, ControlType
      <4>5. BeginSwitch(c, mode) \in Controller
        BY <2>1, <3>1, <4>1, BeginType DEF CanBeginSwitch
      <4>6. Propose(BeginSwitch(c, mode), Switch("Propose", c.epoch + 1, mode))
        BY <1>13, <3>1 DEF TakeCommand
      <4> QED  BY <4>4, <4>5, <4>6, ProposeType
    <3>2. CASE Head(cmds).op = "Rekey" /\ CanBeginRekey(c)
      <4>6. Propose(BeginRekey(c), Barrier("Rekey", "Propose", c.epoch + 1))
        BY <1>13, <3>2 DEF TakeCommand
      <4> QED  BY <2>1, <3>2, <4>6, RekeyProposal, ProposeType
    <3>3. CASE /\ ~(Head(cmds).op = "Switch" /\ CanBeginSwitch(c, mode))
               /\ ~(Head(cmds).op = "Rekey" /\ CanBeginRekey(c))
      BY Zenon, <1>13, <3>3 DEF TakeCommand, TypeOK
    <3> QED  BY <3>1, <3>2, <3>3
  <2> QED  BY Zenon, <1>13, <2>2, <2>3 DEF TypeOK, TakeCommand
<1>14. CASE AutomaticRekey
  <2>1. ctl["server"] \in Controller
    BY DEF TypeOK, Roles
  <2>2. ctl' \in [Roles -> Controller] /\ wire' \in [Roles -> Seq(Record)]
    BY Zenon, <1>14, <2>1, RekeyProposal, ProposeType DEF AutomaticRekey
  <2> QED  BY Zenon, <1>14, <2>2 DEF TypeOK, AutomaticRekey
<1>15. CASE UNCHANGED vars
  BY Zenon, <1>15 DEF vars, TypeOK
<1> QED
  BY <1>1, <1>2, <1>3, <1>4, <1>5, <1>6, <1>7, <1>8, <1>9, <1>10, <1>11, <1>12, <1>13,
     <1>14, <1>15 DEF Next, Application, TaskStep

\* Type correctness: every variable of the session keeps its shape, so no
\* operator of the model is ever applied outside its domain.
THEOREM TypeCorrect == Spec => []TypeOK
  BY InitType, TypeStep, PTL DEF Spec

-----------------------------------------------------------------------------
(* The barrier's invariant.  First the steps that touch neither a         *)
(* controller, a key nor the wire.                                        *)

\* A session starts settled with both keys equal.
LEMMA InitBarrier == Init => BarrierInv
<1> SUFFICES ASSUME Init PROVE BarrierInv
  OBVIOUS
<1>1. PICK mode \in Modes : ctl = [s \in Roles |-> NewController(s, mode, InitialEpoch)]
  BY DEF Init, Modes
<1>2. Phase = "Settled"
  BY <1>1 DEF Phase, NewController, NoPending, Roles
<1>3. ControllersInv
  BY <1>1, <1>2 DEF ControllersInv, NewController, NoPending, Roles, InitialEpoch, ViewOf
<1>4. KeysInv
  BY Zenon, <1>2 DEF Init, KeysInv, Roles
<1>5. ToClient /\ ToServer
  BY <1>2 DEF Init, ToClient, ToServer, AllData, Roles
<1> QED  BY <1>3, <1>4, <1>5 DEF Init, BarrierInv, NoBarrierViolation

\* A step that leaves controllers, keys and wires alone keeps their facts.
LEMMA FrameBarrier ==
  ASSUME BarrierInv, UNCHANGED <<ctl, keys, wire>>
  PROVE  /\ ControllersInv' /\ KeysInv'
         /\ ToClient' <=> ToClient
         /\ ToServer' <=> ToServer
<1>1. Phase' = Phase
  BY DEF Phase
<1>2. ControllersInv'
  BY <1>1 DEF BarrierInv, ControllersInv, ViewOf, Adopt
<1>3. KeysInv'
  BY <1>1 DEF BarrierInv, KeysInv
<1>4. ASSUME NEW s, NEW r, NEW step, NEW key
      PROVE  /\ IsData(s, r)' <=> IsData(s, r)
             /\ IsBarrier(r, step, key)' <=> IsBarrier(r, step, key)
  BY DEF IsData, IsBarrier
<1>5. ToClient' <=> ToClient
  BY <1>1 DEF ToClient, AllData, DataThenBarrier, IsData, IsBarrier
<1>6. ToServer' <=> ToServer
  BY <1>1 DEF ToServer, AllData, DataThenBarrier, IsData, IsBarrier
<1> QED  BY <1>2, <1>3, <1>5, <1>6

\* A step that touches nothing the invariant speaks of keeps it.
LEMMA StutterBarrier ==
  ASSUME BarrierInv, UNCHANGED <<ctl, keys, wire, task, route>>
  PROVE  BarrierInv'
  BY FrameBarrier DEF BarrierInv, NoBarrierViolation

\* A task that ends takes its own obligations with it.
LEMMA ExitBarrier ==
  ASSUME TypeOK, BarrierInv, UNCHANGED <<ctl, keys, wire>>, NEW s \in Roles,
         NEW why \in {"tcp_read", "tcp_write", "tcp_security_transition"}, Exit(s, why)
  PROVE  BarrierInv'
<1>1. task' = [task EXCEPT ![s] = "ended"]
  BY DEF Exit
<1>2. \/ route' = route /\ route[s] # "open"
      \/ route' = [route EXCEPT ![s] = why]
  BY DEF Exit, CloseRoute
<1>3. /\ \A t \in Roles : route'[t] = "open" => task'[t] = "running"
      /\ NoBarrierViolation'
  <2>1. /\ route \in [Roles -> {"open", "application", "tcp_read", "tcp_write",
                                "tcp_inbound", "tcp_security_transition"}]
        /\ task \in [Roles -> {"running", "ended"}]
    BY Zenon DEF TypeOK
  <2>2. /\ \A t \in Roles : route[t] = "open" => task[t] = "running"
        /\ \A t \in Roles : route[t] # "tcp_inbound"
    BY DEF BarrierInv, NoBarrierViolation
  <2> QED  BY <1>1, <1>2, <2>1, <2>2 DEF NoBarrierViolation
<1>4. \A t \in Roles : task'[t] = "running" => task[t] = "running"
  BY <1>1 DEF TypeOK
<1> QED  BY <1>3, <1>4, FrameBarrier DEF BarrierInv, Roles

\* close_session takes the route and leaves everything in flight as it was.
LEMMA CloseBarrier ==
  ASSUME TypeOK, BarrierInv, NEW s \in Roles, CloseSession(s)
  PROVE  BarrierInv'
<1>1. /\ UNCHANGED <<ctl, keys, wire, task>>
      /\ route' = [route EXCEPT ![s] = "application"]
  BY DEF CloseSession, CloseRoute
<1>2. route \in [Roles -> {"open", "application", "tcp_read", "tcp_write",
                           "tcp_inbound", "tcp_security_transition"}]
  BY DEF TypeOK
<1>3. /\ \A t \in Roles : route[t] = "open" => task[t] = "running"
      /\ \A t \in Roles : route[t] # "tcp_inbound"
  BY DEF BarrierInv, NoBarrierViolation
<1>4. /\ \A t \in Roles : route'[t] = "open" => task'[t] = "running"
      /\ NoBarrierViolation'
  BY <1>1, <1>2, <1>3 DEF NoBarrierViolation
<1> QED  BY <1>1, <1>4, FrameBarrier DEF BarrierInv

-----------------------------------------------------------------------------
(* The head of the wire, as the reading end finds it.                      *)

\* A nonempty wire has a head, which is a record, and a tail.
LEMMA WireFacts ==
  ASSUME TypeOK, NEW s \in Roles, wire[s] # << >>
  PROVE  /\ Len(wire[s]) \in Nat /\ Len(wire[s]) >= 1
         /\ Head(wire[s]) = wire[s][1] /\ wire[s][1] \in Record
         /\ Tail(wire[s]) \in Seq(Record)
         /\ Len(Tail(wire[s])) = Len(wire[s]) - 1
         /\ \A i \in 1 .. Len(wire[s]) - 1 : Tail(wire[s])[i] = wire[s][i + 1]
<1>1. wire[s] \in Seq(Record)
  BY DEF TypeOK
<1> QED  BY <1>1, HeadTailProperties, LenProperties

\* A nonempty sequence has at least one element.
LEMMA OneOrMore ==
  ASSUME NEW n \in Nat, n >= 1
  PROVE  n = 1 \/ 1 \in 1 .. n - 1
  OBVIOUS

\* The record a client reads is data of the server or the barrier of the phase.
LEMMA AtClient ==
  ASSUME TypeOK, BarrierInv, task["client"] = "running", wire["server"] # << >>
  PROVE  LET w == wire["server"]
         IN  \/ Phase \in {"Settled", "Proposed"} /\ IsData("server", w[1])
             \/ /\ Phase = "Proposed" /\ Len(w) = 1
                /\ IsBarrier(w[1], "Propose", keys["server"].tx)
                /\ w[1].control.mode = ctl["server"].pending.mode
             \/ /\ Phase = "Committed" /\ Len(w) = 1
                /\ IsBarrier(w[1], "Commit", keys["client"].rx)
<1>1. ToClient
  BY DEF BarrierInv
<1>2. Len(wire["server"]) \in Nat /\ Len(wire["server"]) >= 1
  BY WireFacts DEF Roles
<1>3. DOMAIN wire["server"] = 1 .. Len(wire["server"])
  BY DEF TypeOK, Roles
<1>4. CASE Phase = "Settled"
  BY <1>1, <1>2, <1>3, <1>4 DEF ToClient, AllData
<1>5. CASE Phase = "Proposed"
  <2>1. CASE Len(wire["server"]) = 1
    BY <1>1, <1>5, <2>1 DEF ToClient, DataThenBarrier
  <2>2. CASE 1 \in 1 .. Len(wire["server"]) - 1
    BY <1>1, <1>5, <2>2 DEF ToClient, DataThenBarrier
  <2>3. Len(wire["server"]) = 1 \/ 1 \in 1 .. Len(wire["server"]) - 1
    BY Zenon, <1>2, OneOrMore
  <2> QED  BY Zenon, <2>1, <2>2, <2>3
<1>6. CASE Phase = "Committed"
  BY <1>1, <1>6 DEF ToClient
<1> QED  BY <1>1, <1>4, <1>5, <1>6 DEF ToClient

\* The record a server reads is data of the client or the barrier of the phase.
LEMMA AtServer ==
  ASSUME TypeOK, BarrierInv, task["server"] = "running", wire["client"] # << >>
  PROVE  LET w == wire["client"]
         IN  \/ Phase \in {"Settled", "Proposed", "Prepared"} /\ IsData("client", w[1])
             \/ /\ Phase = "Prepared" /\ Len(w) = 1
                /\ IsBarrier(w[1], "Ready", keys["client"].tx)
             \/ Phase = "Adopted" /\ IsBarrier(w[1], "Ack", keys["client"].tx)
<1>1. ToServer
  BY DEF BarrierInv
<1>2. Len(wire["client"]) \in Nat /\ Len(wire["client"]) >= 1
  BY WireFacts DEF Roles
<1>3. DOMAIN wire["client"] = 1 .. Len(wire["client"])
  BY DEF TypeOK, Roles
<1>4. Phase \in {"Settled", "Proposed", "Prepared", "Committed", "Adopted"}
  BY DEF Phase
<1>5. CASE Phase \in {"Settled", "Proposed"}
  BY <1>1, <1>2, <1>3, <1>5 DEF ToServer, AllData
<1>6. CASE Phase = "Prepared"
  <2>1. CASE Len(wire["client"]) = 1
    BY <1>1, <1>6, <2>1 DEF ToServer, DataThenBarrier
  <2>2. CASE 1 \in 1 .. Len(wire["client"]) - 1
    BY <1>1, <1>6, <2>2 DEF ToServer, DataThenBarrier
  <2>3. Len(wire["client"]) = 1 \/ 1 \in 1 .. Len(wire["client"]) - 1
    BY Zenon, <1>2, OneOrMore
  <2> QED  BY Zenon, <2>1, <2>2, <2>3
<1>7. CASE Phase = "Adopted"
  BY <1>1, <1>7 DEF ToServer
<1>8. Phase # "Committed"
  BY <1>1 DEF ToServer
<1> QED  BY Zenon, <1>4, <1>5, <1>6, <1>7, <1>8

\* A running end with an open route accepts the record it reads.
LEMMA HeadAcceptable ==
  ASSUME TypeOK, BarrierInv, NEW s \in Roles, Free(s), wire[Peer(s)] # << >>,
         route[s] = "open"
  PROVE  Acceptable(s, Head(wire[Peer(s)]))
<1>1. CASE s = "client"
  <2>1. Peer(s) = "server" /\ task["client"] = "running"
    BY <1>1 DEF Peer, Free
  <2> DEFINE r == wire["server"][1]
  <2>2. r \in Record /\ Head(wire["server"]) = r
    BY <2>1, WireFacts DEF Roles
  <2>3. CASE Phase \in {"Settled", "Proposed"} /\ IsData("server", r)
    <3>1. ctl["client"].epoch = ctl["server"].epoch /\ ctl["client"].mode = ctl["server"].mode
      BY Zenon, <2>3 DEF BarrierInv, ControllersInv, ViewOf
    <3>2. keys["client"].rx = keys["server"].tx
      BY <2>3 DEF BarrierInv, KeysInv, Roles
    <3> QED  BY Zenon, <1>1, <2>1, <2>2, <2>3, <3>1, <3>2 DEF IsData, Acceptable
  <2>4. CASE /\ Phase = "Proposed" /\ IsBarrier(r, "Propose", keys["server"].tx)
             /\ r.control.mode = ctl["server"].pending.mode
    <3>1. ctl["client"].epoch = ctl["server"].epoch /\ ctl["client"].mode = ctl["server"].mode
      BY Zenon, <2>4 DEF BarrierInv, ControllersInv, ViewOf
    <3>2. keys["client"].rx = keys["server"].tx
      BY Zenon, <2>4 DEF BarrierInv, KeysInv, Roles
    <3>3. /\ ctl["client"].role = "client" /\ ~IsTransitioning(ctl["client"])
          /\ ctl["server"].pending.stage = "Ready"
          /\ ctl["server"].pending.epoch = ctl["server"].epoch + 1
          /\ ctl["server"].pending.op = "Switch" => ctl["server"].pending.mode \in Modes
      BY Zenon, <2>4 DEF BarrierInv, ControllersInv, Phase, IsTransitioning
    <3>4. ctl["server"].epoch \in Epochs /\ ctl["server"].pending.epoch \in Epochs
      BY Zenon DEF TypeOK, Controller, Pending, Roles
    <3>5. ValidNextEpoch(ctl["client"], r.control.epoch)
      BY <2>4, <3>1, <3>3, <3>4, EpochMaxAssumption
      DEF ValidNextEpoch, HasNextEpoch, Epochs, IsBarrier
    <3>6. AcceptsPropose(ctl["client"], r.control)
      BY Zenon, <2>4, <3>3, <3>5 DEF AcceptsPropose, IsBarrier, Modes, NoMode
    <3> QED  BY Zenon, <1>1, <2>1, <2>2, <2>4, <3>1, <3>2, <3>6 DEF IsBarrier, Acceptable, Accepts
  <2>5. CASE Phase = "Committed" /\ IsBarrier(r, "Commit", keys["client"].rx)
    BY <1>1, <2>1, <2>2, <2>5
    DEF BarrierInv, ControllersInv, IsBarrier, Acceptable, ViewOf, Record, Roles, Phase,
        Accepts, AcceptsCommit, AcceptsAt
  <2> QED  BY Zenon, <2>1, <2>3, <2>4, <2>5, AtClient, <1>1
<1>2. CASE s = "server"
  <2>1. Peer(s) = "client" /\ task["server"] = "running"
    BY <1>2 DEF Peer, Free
  <2> DEFINE r == wire["client"][1]
  <2>2. r \in Record /\ Head(wire["client"]) = r
    BY <2>1, WireFacts DEF Roles
  <2>3. CASE Phase \in {"Settled", "Proposed", "Prepared"} /\ IsData("client", r)
    <3>1. ctl["client"].epoch = ctl["server"].epoch /\ ctl["client"].mode = ctl["server"].mode
      BY Zenon, <2>3 DEF BarrierInv, ControllersInv, ViewOf
    <3>2. keys["server"].rx = keys["client"].tx
      BY Zenon, <2>3 DEF BarrierInv, KeysInv, Roles
    <3> QED  BY Zenon, <1>2, <2>1, <2>2, <2>3, <3>1, <3>2 DEF IsData, Acceptable
  <2>4. CASE Phase = "Prepared" /\ IsBarrier(r, "Ready", keys["client"].tx)
    BY <1>2, <2>1, <2>2, <2>4
    DEF BarrierInv, ControllersInv, KeysInv, IsBarrier, Acceptable, ViewOf, Record, Roles,
        Phase, Accepts, AcceptsReady, AcceptsAt
  <2>5. CASE Phase = "Adopted" /\ IsBarrier(r, "Ack", keys["client"].tx)
    <3>1. ctl["server"].role = "server" /\ ctl["server"].pending.stage = "Ack"
      <4>1. ctl["server"].pending.stage \in {"Idle", "Ready", "Ack", "Commit"}
        BY Zenon DEF TypeOK, Controller, Pending, Roles
      <4> QED  BY Zenon, <2>5, <4>1 DEF BarrierInv, ControllersInv, Phase
    <3>2. keys["server"].rx = keys["client"].tx
      BY <2>5 DEF BarrierInv, KeysInv, Roles
    <3> QED  BY Zenon, <1>2, <2>1, <2>2, <2>5, <3>1, <3>2
             DEF IsBarrier, Acceptable, Accepts, AcceptsAck, AcceptsAt
  <2> QED  BY Zenon, <2>1, <2>3, <2>4, <2>5, AtServer, <1>2
<1> QED  BY <1>1, <1>2 DEF Roles

-----------------------------------------------------------------------------
(* Sequences of data with a barrier at the end, under Tail and Append.     *)

\* Reading one record of a wire of data leaves a wire of data.
LEMMA TailData ==
  ASSUME NEW s \in Roles, NEW w \in Seq(Record), w # << >>, AllData(s, w)
  PROVE  AllData(s, Tail(w))
<1>1. \A i \in DOMAIN Tail(w) : i + 1 \in DOMAIN w /\ Tail(w)[i] = w[i + 1]
  BY HeadTailProperties, LenProperties
<1> QED  BY <1>1 DEF AllData

\* Positions in a sequence of two or more elements.
LEMMA TwoOrMore ==
  ASSUME NEW n \in Nat, n # 0, n # 1
  PROVE  /\ n >= 2 /\ n - 1 # 0 /\ n - 1 \in 1 .. n - 1 /\ (n - 1) + 1 = n
         /\ (n - 1) - 1 = n - 2
         /\ \A i \in 1 .. n - 2 : i \in 1 .. n - 1 /\ i + 1 \in 1 .. n - 1
  OBVIOUS

\* Reading the data in front of a barrier leaves the barrier last.
LEMMA TailBarrier ==
  ASSUME NEW s \in Roles, NEW step, NEW w \in Seq(Record),
         DataThenBarrier(s, w, step), IsData(s, w[1])
  PROVE  /\ DataThenBarrier(s, Tail(w), step)
         /\ Tail(w)[Len(Tail(w))] = w[Len(w)]
<1> DEFINE n == Len(w)
<1>1. w # << >> /\ IsBarrier(w[n], step, keys[s].tx)
  BY DEF DataThenBarrier
<1>2. n # 1
  <2> SUFFICES ASSUME n = 1 PROVE FALSE
    OBVIOUS
  <2>1. w[n] = w[1]
    OBVIOUS
  <2>2. w[1].type = "Control" /\ w[1].type # "Control"
    BY Zenon, <1>1, <2>1 DEF IsData, IsBarrier
  <2> QED  BY <2>2
<1>3. n \in Nat /\ n # 0
  BY <1>1, HeadTailProperties, LenProperties, EmptySeq
<1>4. /\ Len(Tail(w)) = n - 1
      /\ \A i \in 1 .. n - 1 : Tail(w)[i] = w[i + 1]
  BY <1>1, HeadTailProperties
<1>5. Tail(w) # << >> /\ Tail(w)[n - 1] = w[n]
  BY Zenon, <1>2, <1>3, <1>4, TwoOrMore
<1>6. \A i \in 1 .. n - 2 : IsData(s, Tail(w)[i])
  BY <1>2, <1>3, <1>4, TwoOrMore DEF DataThenBarrier
<1>7. (n - 1) - 1 = n - 2
  BY <1>2, <1>3, TwoOrMore
<1> QED  BY Zenon, <1>1, <1>4, <1>5, <1>6, <1>7 DEF DataThenBarrier

\* Writing data behind data leaves a wire of data.
LEMMA AppendData ==
  ASSUME NEW s \in Roles, NEW w \in Seq(Record), NEW r \in Record,
         AllData(s, w), IsData(s, r)
  PROVE  AllData(s, Append(w, r))
<1>1. \A i \in DOMAIN Append(w, r) :
        Append(w, r)[i] = r \/ (i \in DOMAIN w /\ Append(w, r)[i] = w[i])
  BY AppendProperties, LenProperties
<1> QED  BY <1>1 DEF AllData

-----------------------------------------------------------------------------
(* The steps that read or write data.                                      *)

\* Controllers and keys that stay keep what the invariant says of them.
LEMMA SameControllers ==
  ASSUME BarrierInv, UNCHANGED <<ctl, keys>>
  PROVE  Phase' = Phase /\ ControllersInv' /\ KeysInv'
<1>1. Phase' = Phase
  BY DEF Phase
<1> QED  BY <1>1 DEF BarrierInv, ControllersInv, KeysInv, ViewOf, Adopt

\* So does the wire to the client.
LEMMA SameToClient ==
  ASSUME BarrierInv, UNCHANGED <<ctl, keys>>, wire'["server"] = wire["server"], ToClient
  PROVE  ToClient'
<1>1. Phase' = Phase
  BY SameControllers
<1> QED  BY <1>1 DEF ToClient, AllData, DataThenBarrier, IsData, IsBarrier

\* So does the wire to the server.
LEMMA SameToServer ==
  ASSUME BarrierInv, UNCHANGED <<ctl, keys>>, wire'["client"] = wire["client"], ToServer
  PROVE  ToServer'
<1>1. Phase' = Phase
  BY SameControllers
<1> QED  BY <1>1 DEF ToServer, AllData, DataThenBarrier, IsData, IsBarrier

\* A record is refused only by an end whose route is gone.
LEMMA InvalidBarrier ==
  ASSUME TypeOK, BarrierInv, NEW s \in Roles, ReceiveInvalid(s)
  PROVE  BarrierInv'
<1>1. route[s] # "open"
  BY Zenon, HeadAcceptable DEF ReceiveInvalid
<1>2. route' = route /\ task' = [task EXCEPT ![s] = "ended"] /\ UNCHANGED <<ctl, keys>>
  BY Zenon, <1>1 DEF ReceiveInvalid, Exit, CloseRoute
<1>3. wire'[s] = wire[s]
  BY DEF ReceiveInvalid, Read, Peer, TypeOK, Roles
<1>4. \A t \in Roles : /\ route'[t] = "open" => task'[t] = "running"
                       /\ task'[t] = "running" => t # s /\ task[t] = "running"
  BY Zenon, <1>1, <1>2 DEF BarrierInv, TypeOK
<1>5. task'["client"] = "running" => ToClient'
  <2> SUFFICES ASSUME task'["client"] = "running" PROVE ToClient'
    OBVIOUS
  <2>1. s = "server" /\ ToClient
    BY <1>4 DEF BarrierInv, Roles
  <2> QED  BY Zenon, <1>2, <1>3, <2>1, SameToClient
<1>6. task'["server"] = "running" => ToServer'
  <2> SUFFICES ASSUME task'["server"] = "running" PROVE ToServer'
    OBVIOUS
  <2>1. s = "client" /\ ToServer
    BY <1>4 DEF BarrierInv, Roles
  <2> QED  BY <1>2, <1>3, <2>1, SameToServer
<1>7. NoBarrierViolation'
  BY <1>2 DEF BarrierInv, NoBarrierViolation
<1> QED  BY <1>2, <1>4, <1>5, <1>6, <1>7, SameControllers DEF BarrierInv

\* Reading data preserves the invariant.
LEMMA DataBarrier ==
  ASSUME TypeOK, BarrierInv, NEW s \in Roles, ReceiveData(s)
  PROVE  BarrierInv'
<1>1. UNCHANGED <<ctl, keys, route, task>> /\ task[s] = "running"
  BY Zenon DEF ReceiveData, Free
<1>2. CASE s = "client"
  <2> DEFINE w == wire["server"]
  <2>1. /\ w # << >> /\ wire'["server"] = Tail(w) /\ wire'["client"] = wire["client"]
        /\ w[1].type # "Control"
    <3>1. w # << >> /\ Head(w).type # "Control"
      BY Zenon, <1>2 DEF ReceiveData, Peer
    <3> QED  BY Zenon, <1>2, <3>1, WireFacts DEF ReceiveData, Read, Peer, TypeOK, Roles
  <2>2. /\ Phase \in {"Settled", "Proposed"} /\ IsData("server", w[1])
        /\ ToClient
    BY Zenon, <1>1, <1>2, <2>1, AtClient DEF IsBarrier, BarrierInv
  <2>3. ToClient'
    <3>1. w \in Seq(Record)
      BY DEF TypeOK, Roles
    <3>2. CASE Phase = "Settled"
      <4>1. AllData("server", Tail(w))
        BY <2>1, <2>2, <3>1, <3>2, TailData DEF ToClient, Roles
      <4> QED  BY <1>1, <2>1, <3>2, <4>1, SameControllers DEF ToClient, AllData, IsData
    <3>3. CASE Phase = "Proposed"
      <4>1. /\ DataThenBarrier("server", Tail(w), "Propose")
            /\ Tail(w)[Len(Tail(w))] = w[Len(w)]
        BY Zenon, <2>2, <3>1, <3>3, TailBarrier DEF ToClient, Roles
      <4>2. Tail(w)[Len(Tail(w))].control.mode = ctl["server"].pending.mode
        BY Zenon, <2>2, <3>3, <4>1 DEF ToClient
      <4>3. DataThenBarrier("server", wire["server"], "Propose")'
        <5>1. ctl' = ctl /\ keys' = keys /\ wire'["server"] = Tail(w)
          BY Zenon, <1>1, <2>1
        <5>2. /\ Tail(w) # << >> /\ IsBarrier(Tail(w)[Len(Tail(w))], "Propose", keys["server"].tx)
              /\ \A i \in 1 .. Len(Tail(w)) - 1 : IsData("server", Tail(w)[i])
          BY Zenon, <4>1 DEF DataThenBarrier
        <5>3. IsBarrier(wire["server"][Len(wire["server"])], "Propose", keys["server"].tx)'
          BY Zenon, <5>1, <5>2 DEF IsBarrier
        <5>4. (\A i \in 1 .. Len(wire["server"]) - 1 : IsData("server", wire["server"][i]))'
          BY <5>1, <5>2 DEF IsData
        <5> QED  BY Zenon, <5>1, <5>2, <5>3, <5>4 DEF DataThenBarrier
      <4>4. Phase' = "Proposed"
        BY <1>1, <3>3, SameControllers
      <4> QED  BY Zenon, <1>1, <2>1, <4>2, <4>3, <4>4 DEF ToClient
    <3> QED  BY <2>2, <3>2, <3>3
  <2>4. ToServer => ToServer'
    BY <1>1, <2>1, SameToServer
  <2> QED  BY Zenon, <1>1, <2>3, <2>4, SameControllers DEF BarrierInv, NoBarrierViolation
<1>3. CASE s = "server"
  <2> DEFINE w == wire["client"]
  <2>1. /\ w # << >> /\ wire'["client"] = Tail(w) /\ wire'["server"] = wire["server"]
        /\ w[1].type # "Control"
    <3>1. w # << >> /\ Head(w).type # "Control"
      BY Zenon, <1>3 DEF ReceiveData, Peer
    <3> QED  BY Zenon, <1>3, <3>1, WireFacts DEF ReceiveData, Read, Peer, TypeOK, Roles
  <2>2. /\ Phase \in {"Settled", "Proposed", "Prepared"} /\ IsData("client", w[1])
        /\ ToServer
    BY Zenon, <1>1, <1>3, <2>1, AtServer DEF IsBarrier, BarrierInv
  <2>3. ToServer'
    <3>1. w \in Seq(Record)
      BY DEF TypeOK, Roles
    <3>2. CASE Phase \in {"Settled", "Proposed"}
      <4>1. AllData("client", Tail(w))
        BY <2>1, <2>2, <3>1, <3>2, TailData DEF ToServer, Roles
      <4> QED  BY <1>1, <2>1, <3>2, <4>1, SameControllers DEF ToServer, AllData, IsData
    <3>3. CASE Phase = "Prepared"
      <4>1. DataThenBarrier("client", Tail(w), "Ready")
        BY <2>2, <3>1, <3>3, TailBarrier DEF ToServer, Roles
      <4>2. DataThenBarrier("client", wire["client"], "Ready")'
        <5>1. ctl' = ctl /\ keys' = keys /\ wire'["client"] = Tail(w)
          BY Zenon, <1>1, <2>1
        <5>2. /\ Tail(w) # << >> /\ IsBarrier(Tail(w)[Len(Tail(w))], "Ready", keys["client"].tx)
              /\ \A i \in 1 .. Len(Tail(w)) - 1 : IsData("client", Tail(w)[i])
          BY Zenon, <4>1 DEF DataThenBarrier
        <5>3. IsBarrier(wire["client"][Len(wire["client"])], "Ready", keys["client"].tx)'
          BY Zenon, <5>1, <5>2 DEF IsBarrier
        <5>4. (\A i \in 1 .. Len(wire["client"]) - 1 : IsData("client", wire["client"][i]))'
          BY <5>1, <5>2 DEF IsData
        <5> QED  BY Zenon, <5>1, <5>2, <5>3, <5>4 DEF DataThenBarrier
      <4>3. Phase' = "Prepared"
        BY <1>1, <3>3, SameControllers
      <4> QED  BY <4>2, <4>3 DEF ToServer
    <3> QED  BY <2>2, <3>2, <3>3
  <2>4. ToClient => ToClient'
    BY Zenon, <1>1, <2>1, SameToClient
  <2> QED  BY <1>1, <2>3, <2>4, SameControllers DEF BarrierInv, NoBarrierViolation
<1> QED  BY <1>2, <1>3 DEF Roles

\* Writing data outside a barrier preserves the invariant.
LEMMA PickUpBarrier ==
  ASSUME TypeOK, BarrierInv, NEW s \in Roles, PickUp(s)
  PROVE  BarrierInv'
<1> DEFINE r == Encoded(s, Head(outq[s]))
<1>1. /\ UNCHANGED <<ctl, keys, route, task>> /\ ~IsTransitioning(ctl[s])
      /\ wire' = [wire EXCEPT ![s] = Append(@, r)]
  BY Zenon DEF PickUp
<1>2. wire[s] \in Seq(Record) /\ r \in Record
  <2>1. wire[s] \in Seq(Record) /\ outq[s] \in Seq(Item) /\ outq[s] # << >>
    BY Zenon DEF TypeOK, PickUp
  <2>2. Head(outq[s]) \in Item
    BY <2>1
  <2> QED  BY Zenon, <2>1, <2>2, EncodedType
<1>3. IsData(s, r)
  <2>1. ctl[s].mode \in Modes /\ Head(outq[s]).kind \in {"Data", "GameControl"}
    <3>1. outq[s] \in Seq(Item) /\ outq[s] # << >>
      BY Zenon DEF TypeOK, PickUp
    <3>2. Head(outq[s]) \in Item
      BY <3>1
    <3> QED  BY Zenon, <3>2 DEF TypeOK, Controller, Item
  <2>2. CASE Head(outq[s]).kind = "GameControl" \/ ctl[s].mode = "Encrypted"
    BY Zenon, <2>1, <2>2 DEF Encoded, Protected, IsData
  <2>3. CASE ~(Head(outq[s]).kind = "GameControl" \/ ctl[s].mode = "Encrypted")
    BY Zenon, <2>1, <2>3 DEF Encoded, IsData, Modes
  <2> QED  BY Zenon, <2>2, <2>3
<1>4. CASE s = "server"
  <2>1. Phase = "Settled"
    BY <1>1, <1>4 DEF Phase, IsTransitioning, BarrierInv, ControllersInv, NoPending
  <2>2. task["client"] = "running" => AllData("server", Append(wire["server"], r))
    BY <1>2, <1>3, <1>4, <2>1, AppendData DEF BarrierInv, ToClient, Roles
  <2>3. wire'["server"] = Append(wire["server"], r) /\ wire'["client"] = wire["client"]
    BY Zenon, <1>1, <1>4 DEF TypeOK, Roles
  <2>4. task["client"] = "running" => ToClient'
    BY <1>1, <2>1, <2>2, <2>3, SameControllers DEF ToClient, AllData, IsData
  <2>5. ToServer => ToServer'
    BY <1>1, <2>3, SameToServer
  <2> QED  BY Zenon, <1>1, <2>4, <2>5, SameControllers DEF BarrierInv, NoBarrierViolation
<1>5. CASE s = "client"
  <2>1. wire'["client"] = Append(wire["client"], r) /\ wire'["server"] = wire["server"]
    BY Zenon, <1>1, <1>5 DEF TypeOK, Roles
  <2>2. Phase \in {"Settled", "Proposed", "Adopted"}
    BY <1>1, <1>5 DEF Phase, IsTransitioning, BarrierInv, ControllersInv, NoPending
  <2>3. ASSUME task["server"] = "running"
        PROVE  ToServer'
    <3>1. ToServer
      BY <2>3 DEF BarrierInv
    <3>2. CASE Phase \in {"Settled", "Proposed"}
      <4>1. AllData("client", Append(wire["client"], r))
        BY <1>2, <1>3, <1>5, <3>1, <3>2, AppendData DEF ToServer, Roles
      <4> QED  BY <1>1, <2>1, <3>2, <4>1, SameControllers DEF ToServer, AllData, IsData
    <3>3. CASE Phase = "Adopted"
      <4> DEFINE w == wire["client"]
      <4>1. /\ w # << >> /\ IsBarrier(w[1], "Ack", keys["client"].tx)
            /\ \A i \in 2 .. Len(w) : IsData("client", w[i])
        BY <3>1, <3>3 DEF ToServer
      <4>2. /\ Append(w, r) # << >> /\ Append(w, r)[1] = w[1]
            /\ \A i \in 2 .. Len(Append(w, r)) :
                 Append(w, r)[i] = r \/ (i \in 2 .. Len(w) /\ Append(w, r)[i] = w[i])
        BY <1>2, <1>5, <4>1, AppendProperties, LenProperties
      <4>3. \A i \in 2 .. Len(Append(w, r)) : IsData("client", Append(w, r)[i])
        BY Zenon, <1>3, <1>5, <4>1, <4>2
      <4>4. IsBarrier(wire["client"][1], "Ack", keys["client"].tx)'
        BY Zenon, <1>1, <2>1, <4>1, <4>2 DEF IsBarrier
      <4>5. (\A i \in 2 .. Len(wire["client"]) : IsData("client", wire["client"][i]))'
        BY <1>1, <2>1, <4>3 DEF IsData
      <4>6. Phase' = "Adopted"
        BY <1>1, <3>3, SameControllers
      <4> QED  BY <2>1, <4>2, <4>4, <4>5, <4>6 DEF ToServer
    <3> QED  BY <2>2, <3>2, <3>3
  <2>4. ToClient => ToClient'
    BY <1>1, <2>1, SameToClient
  <2> QED  BY Zenon, <1>1, <2>3, <2>4, SameControllers DEF BarrierInv, NoBarrierViolation
<1> QED  BY <1>4, <1>5 DEF Roles
-----------------------------------------------------------------------------
(* The steps of a transition, one per phase it leaves.                     *)

\* What is appended is last, and the rest keeps its place.
LEMMA AppendLast ==
  ASSUME NEW w \in Seq(Record), NEW r \in Record
  PROVE  LET a == Append(w, r)
         IN  /\ a # << >> /\ a[Len(a)] = r
             /\ \A i \in 1 .. Len(a) - 1 : i \in DOMAIN w /\ a[i] = w[i]
<1> DEFINE n == Len(w)
<1>1. n \in Nat /\ DOMAIN w = 1 .. n
  BY LenProperties
<1>2. /\ Append(w, r) # << >> /\ Len(Append(w, r)) = n + 1
      /\ Append(w, r)[n + 1] = r
      /\ \A i \in 1 .. n : Append(w, r)[i] = w[i]
  BY <1>1, AppendProperties
<1>3. (n + 1) - 1 = n
  BY <1>1
<1> QED  BY Zenon, <1>1, <1>2, <1>3

\* Settled to Proposed: the proposal goes behind the data.
LEMMA ProposeBarrier ==
  ASSUME TypeOK, BarrierInv, NEW m \in Control, m.step = "Propose",
         EnsureServerIdle(ctl["server"]), HasNextEpoch(ctl["server"]),
         m.epoch = ctl["server"].epoch + 1, m.op = "Switch" => m.mode \in Modes,
         Propose([ctl["server"] EXCEPT !.pending =
                    [stage |-> "Ready", op |-> m.op, epoch |-> m.epoch, mode |-> m.mode]], m),
         UNCHANGED <<keys, route, task>>
  PROVE  BarrierInv'
<1> DEFINE s == ctl["server"]
           q == [stage |-> "Ready", op |-> m.op, epoch |-> m.epoch, mode |-> m.mode]
           w == wire["server"]
           r == Protected(s.epoch, keys["server"].tx, "Control", 0, m)
<1>1. /\ ctl'["server"] = [s EXCEPT !.pending = q] /\ ctl'["client"] = ctl["client"]
      /\ wire'["server"] = Append(w, r) /\ wire'["client"] = wire["client"]
  BY DEF Propose, TypeOK, Roles
<1>2. s \in Controller /\ s.epoch \in Epochs /\ keys["server"].tx \in Nat /\ w \in Seq(Record)
  BY Zenon DEF TypeOK, Controller, Roles
<1>3. r \in Record
  BY Zenon, <1>2, ProtectedType
<1>4. Phase = "Settled" /\ ctl["client"].pending = NoPending /\ s.role = "server" /\ s.epoch # 0
  BY DEF EnsureServerIdle, IsTransitioning, Phase, BarrierInv, ControllersInv, NoPending
<1>5. /\ ctl'["server"].role = "server" /\ ctl'["server"].mode = s.mode
      /\ ctl'["server"].epoch = s.epoch /\ ctl'["server"].pending = q
  BY <1>1, <1>2, <1>4 DEF Controller
<1>6. Phase' = "Proposed"
  BY <1>1, <1>4, <1>5 DEF Phase, NoPending
<1>7. ControllersInv'
  BY <1>1, <1>4, <1>5, <1>6 DEF ControllersInv, BarrierInv, ViewOf, NoPending
<1>8. KeysInv'
  BY <1>4, <1>6 DEF KeysInv, BarrierInv
<1>9. ASSUME task["client"] = "running"
      PROVE  ToClient'
  <2>1. \A i \in DOMAIN w : IsData("server", w[i])
    BY <1>4, <1>9 DEF BarrierInv, ToClient, AllData
  <2>2. /\ wire'["server"] # << >> /\ wire'["server"][Len(wire'["server"])] = r
        /\ \A i \in 1 .. Len(wire'["server"]) - 1 :
             i \in DOMAIN w /\ wire'["server"][i] = w[i]
    BY <1>1, <1>2, <1>3, AppendLast
  <2>3. \A i \in 1 .. Len(wire'["server"]) - 1 : IsData("server", wire["server"][i])'
    BY <1>5, <2>1, <2>2 DEF IsData
  <2>4. IsBarrier(wire["server"][Len(wire["server"])], "Propose", keys["server"].tx)'
    BY <1>1, <1>5, <2>2 DEF IsBarrier, Protected
  <2>5. r.control.mode = q.mode
    BY DEF Protected
  <2>6. DataThenBarrier("server", wire["server"], "Propose")'
    BY <2>2, <2>3, <2>4 DEF DataThenBarrier
  <2> QED  BY <1>5, <1>6, <2>2, <2>5, <2>6 DEF ToClient
<1>10. ASSUME task["server"] = "running"
       PROVE  ToServer'
  BY <1>1, <1>4, <1>6, <1>10 DEF BarrierInv, ToServer, AllData, IsData
<1> QED  BY <1>7, <1>8, <1>9, <1>10 DEF BarrierInv, NoBarrierViolation

\* Reading the only record of a wire empties it.
LEMMA SingleRecord ==
  ASSUME NEW w \in Seq(Record), Len(w) = 1
  PROVE  Tail(w) = << >>
<1>1. w # << >>
  OBVIOUS
<1>2. Tail(w) \in Seq(Record) /\ Len(Tail(w)) = 0
  BY <1>1, HeadTailProperties
<1> QED  BY Zenon, <1>2, EmptySeq

\* Proposed to Prepared: the client answers a proposal with Ready.
LEMMA ReadyBarrier ==
  ASSUME TypeOK, BarrierInv, ReceiveControl("client"), Phase = "Proposed"
  PROVE  BarrierInv'
<1> DEFINE c == ctl["client"]
           s == ctl["server"]
           w == wire["client"]
           r == wire["server"][1]
           m == r.control
           a == Protected(r.epoch, keys["client"].tx, "Control", 0, Response(m))
           q == [stage |-> "Commit", op |-> m.op, epoch |-> m.epoch, mode |-> m.mode]
<1>1. task["client"] = "running" /\ wire["server"] # << >>
  BY Zenon DEF ReceiveControl, Free, Peer
<1>2. Head(wire["server"]) = r /\ r \in Record
  BY Zenon, <1>1, WireFacts DEF Roles
<1>3. r.type = "Control"
  BY Zenon, <1>2 DEF ReceiveControl, Peer
<1>4. /\ Len(wire["server"]) = 1 /\ IsBarrier(r, "Propose", keys["server"].tx)
      /\ m.mode = s.pending.mode
  BY Zenon, <1>1, <1>3, AtClient DEF IsData
<1>5. m.step = "Propose" /\ m \in Control
  BY Zenon, <1>2, <1>4 DEF IsBarrier, Record
<1>6. BeforeResponse(m) = "None" /\ AfterResponse(m) = "None" /\ HasResponse(m)
  BY <1>5 DEF BeforeResponse, AfterResponse, HasResponse
<1>7. ApplyEffect(keys["client"], "None") = keys["client"]
  BY Zenon DEF ApplyEffect
<1>8. /\ ctl' = [ctl EXCEPT !["client"] = Handled(c, m)] /\ keys' = [keys EXCEPT !["client"] = keys["client"]]
      /\ wire' = [wire EXCEPT !["server"] = Tail(@), !["client"] = Append(@, a)]
      /\ UNCHANGED <<route, task>>
  BY Zenon, <1>2, <1>6, <1>7 DEF ReceiveControl, Peer
<1>9. /\ ctl'["server"] = s /\ ctl'["client"] = [c EXCEPT !.pending = q] /\ keys' = keys
      /\ wire'["server"] = Tail(wire["server"]) /\ wire'["client"] = Append(w, a)
  BY Zenon, <1>5, <1>8 DEF TypeOK, Roles, Handled
<1>10. c \in Controller /\ keys["client"].tx \in Nat /\ w \in Seq(Record) /\ wire["server"] \in Seq(Record)
  BY Zenon DEF TypeOK, Roles
<1>11. wire'["server"] = << >>
  BY <1>4, <1>9, <1>10, SingleRecord
<1>12. /\ ctl'["client"].role = c.role /\ ctl'["client"].mode = c.mode
       /\ ctl'["client"].epoch = c.epoch /\ ctl'["client"].pending = q
  BY <1>9, <1>10 DEF Controller
<1>13. /\ s.pending.stage = "Ready" /\ m.op = s.pending.op /\ m.epoch = s.pending.epoch
  BY <1>4 DEF Phase, IsBarrier
<1>14. Phase' = "Prepared"
  BY <1>9, <1>12, <1>13 DEF Phase
<1>15. ControllersInv'
  <2>1. ViewOf(c) = ViewOf(s)
    BY Zenon DEF BarrierInv, ControllersInv
  <2> QED  BY <1>4, <1>9, <1>12, <1>13, <1>14, <2>1 DEF ControllersInv, BarrierInv, ViewOf, NoPending
<1>16. KeysInv'
  BY <1>9, <1>14 DEF KeysInv, BarrierInv
<1>17. ToClient'
  BY <1>11, <1>14 DEF ToClient
<1>18. ASSUME task["server"] = "running"
       PROVE  ToServer'
  <2>1. \A i \in DOMAIN w : IsData("client", w[i])
    BY <1>18 DEF BarrierInv, ToServer, AllData
  <2>2. Response(m) \in Control /\ r.epoch \in Epochs
    BY Zenon, <1>2, <1>5 DEF Response, Barrier, Control, Record
  <2>3. a \in Record
    BY Zenon, <1>10, <2>2, ProtectedType
  <2>4. /\ wire'["client"] # << >> /\ wire'["client"][Len(wire'["client"])] = a
        /\ \A i \in 1 .. Len(wire'["client"]) - 1 :
             i \in DOMAIN w /\ wire'["client"][i] = w[i]
    BY <1>9, <1>10, <2>3, AppendLast
  <2>5. \A i \in 1 .. Len(wire'["client"]) - 1 : IsData("client", wire["client"][i])'
    BY <1>9, <1>12, <2>1, <2>4 DEF IsData
  <2>6. IsBarrier(wire["client"][Len(wire["client"])], "Ready", keys["client"].tx)'
    <3>1. a.kind = "Protected" /\ a.type = "Control" /\ a.key = keys["client"].tx /\ a.epoch = r.epoch
      BY Zenon DEF Protected
    <3>2. a.control.step = "Ready" /\ a.control.op = m.op /\ a.control.epoch = m.epoch
      BY <1>5 DEF Protected, Response, Barrier
    <3>3. r.epoch = s.epoch
      BY <1>4 DEF IsBarrier
    <3>4. ctl'["server"] = s /\ keys'["client"].tx = keys["client"].tx
      BY <1>9
    <3>5. wire'["client"][Len(wire'["client"])] = a
      BY <2>4
    <3> QED  BY <1>13, <3>1, <3>2, <3>3, <3>4, <3>5 DEF IsBarrier
  <2>7. DataThenBarrier("client", wire["client"], "Ready")'
    BY Zenon, <2>4, <2>5, <2>6 DEF DataThenBarrier
  <2> QED  BY <1>14, <2>7 DEF ToServer
<1> QED  BY Zenon, <1>8, <1>15, <1>16, <1>17, <1>18 DEF BarrierInv, NoBarrierViolation

\* Prepared to Committed: the server answers Ready with the commit, and turns
\* its keys behind it when the transition is a rekey.
LEMMA CommitBarrier ==
  ASSUME TypeOK, BarrierInv, ReceiveControl("server"), Phase = "Prepared"
  PROVE  BarrierInv'
<1> DEFINE c == ctl["client"]
           s == ctl["server"]
           w == wire["server"]
           r == wire["client"][1]
           m == r.control
           k == keys["server"]
           a == Protected(r.epoch, k.tx, "Control", 0, Response(m))
<1>1. task["server"] = "running" /\ wire["client"] # << >>
  BY Zenon DEF ReceiveControl, Free, Peer
<1>2. Head(wire["client"]) = r /\ r \in Record
  BY Zenon, <1>1, WireFacts DEF Roles
<1>3. r.type = "Control"
  BY Zenon, <1>2 DEF ReceiveControl, Peer
<1>4. /\ Len(wire["client"]) = 1 /\ IsBarrier(r, "Ready", keys["client"].tx)
  BY Zenon, <1>1, <1>3, AtServer DEF IsData
<1>5. m.step = "Ready" /\ m \in Control
  BY Zenon, <1>2, <1>4 DEF IsBarrier, Record
<1>6. /\ BeforeResponse(m) = "None" /\ HasResponse(m)
      /\ AfterResponse(m) = IF m.op = "Rekey" THEN "Rekey" ELSE "None"
  BY <1>5 DEF BeforeResponse, AfterResponse, HasResponse
<1>7. ApplyEffect(k, "None") = k
  BY Zenon DEF ApplyEffect
<1>8. /\ ctl' = [ctl EXCEPT !["server"] = Handled(s, m)]
      /\ keys' = [keys EXCEPT !["server"] = ApplyEffect(k, AfterResponse(m))]
      /\ wire' = [wire EXCEPT !["client"] = Tail(@), !["server"] = Append(@, a)]
      /\ UNCHANGED <<route, task>>
  BY Zenon, <1>2, <1>6, <1>7 DEF ReceiveControl, Peer
<1>9. /\ ctl'["server"] = [s EXCEPT !.pending.stage = "Ack"] /\ ctl'["client"] = c
      /\ keys'["client"] = keys["client"]
      /\ keys'["server"] = IF m.op = "Rekey" THEN [tx |-> k.tx + 1, rx |-> k.rx + 1] ELSE k
      /\ wire'["client"] = Tail(wire["client"]) /\ wire'["server"] = Append(w, a)
  BY Zenon, <1>5, <1>6, <1>8 DEF TypeOK, Roles, Handled, ApplyEffect
<1>10. /\ s \in Controller /\ s.pending \in Pending /\ w \in Seq(Record)
       /\ k \in [tx: Nat, rx: Nat] /\ keys["client"] \in [tx: Nat, rx: Nat]
       /\ wire["client"] \in Seq(Record)
  BY Zenon DEF TypeOK, Roles, Controller
<1>11. wire'["client"] = << >>
  BY Zenon, <1>4, <1>9, <1>10, SingleRecord
<1>12. /\ ctl'["server"].role = s.role /\ ctl'["server"].mode = s.mode
       /\ ctl'["server"].epoch = s.epoch /\ ctl'["server"].pending.stage = "Ack"
       /\ \A f \in {"op", "epoch", "mode"} : ctl'["server"].pending[f] = s.pending[f]
  BY <1>9, <1>10 DEF Controller, Pending
<1>13. /\ s.pending.stage = "Ready" /\ m.op = s.pending.op /\ m.epoch = s.pending.epoch
       /\ c.pending.stage = "Commit"
  BY Zenon, <1>4 DEF Phase, IsBarrier, BarrierInv, ControllersInv
<1>14. Phase' = "Committed"
  BY Zenon, <1>9, <1>12, <1>13 DEF Phase
<1>15. ControllersInv'
  <2>1. ViewOf(c) = ViewOf(s)
    BY Zenon DEF BarrierInv, ControllersInv
  <2>2. /\ s.role = "server" /\ c.role = "client" /\ s.epoch # 0
        /\ s.pending.epoch = s.epoch + 1
        /\ s.pending.op = "Switch" => s.pending.mode \in Modes
        /\ \A f \in {"op", "epoch", "mode"} : c.pending[f] = s.pending[f]
    BY Zenon, <1>13 DEF BarrierInv, ControllersInv
  <2>3. \A f \in {"op", "epoch", "mode"} : ctl'["client"].pending[f] = ctl'["server"].pending[f]
    BY <1>9, <1>12, <2>2
  <2>4. /\ ctl'["server"].pending.op = s.pending.op
        /\ ctl'["server"].pending.epoch = s.pending.epoch
        /\ ctl'["server"].pending.mode = s.pending.mode
    BY Zenon, <1>12
  <2>5. ViewOf(ctl'["client"]) = ViewOf(ctl'["server"])
    BY <1>9, <1>12, <2>1 DEF ViewOf
  <2>6. ctl'["client"] = c
    BY <1>9
  <2>7. /\ ctl'["server"].role = s.role /\ ctl'["server"].epoch = s.epoch
        /\ ctl'["server"].pending.stage = "Ack"
    BY Zenon, <1>12
  <2> QED  BY Zenon, <1>13, <1>14, <2>2, <2>3, <2>4, <2>5, <2>6, <2>7 DEF ControllersInv
<1>16. KeysInv'
  <2>1. k.tx = k.rx /\ keys["client"].tx = keys["client"].rx /\ k.tx = keys["client"].tx
    BY Zenon DEF KeysInv, BarrierInv, Roles
  <2>2. ctl'["server"].pending.op = m.op
    BY Zenon, <1>12, <1>13
  <2>3. CASE m.op = "Rekey"
    <3>1. keys'["server"].tx = k.tx + 1 /\ keys'["server"].rx = k.rx + 1
      BY <1>9, <2>3
    <3> QED  BY <1>9, <1>14, <2>1, <2>2, <2>3, <3>1 DEF KeysInv, Roles
  <2>4. CASE m.op # "Rekey"
    BY Zenon, <1>9, <1>14, <2>1, <2>2, <2>4 DEF KeysInv, Roles
  <2> QED  BY Zenon, <2>3, <2>4
<1>17. ToServer'
  BY <1>11, <1>14 DEF ToServer
<1>18. ASSUME task["client"] = "running"
       PROVE  ToClient'
  <2>1. w = << >>
    BY <1>18 DEF BarrierInv, ToClient
  <2>2. wire'["server"] = <<a>>
    BY <1>9, <2>1
  <2>3. Len(wire'["server"]) = 1 /\ wire'["server"][1] = a
    BY <2>2
  <2>4. IsBarrier(wire["server"][1], "Commit", keys["client"].rx)'
    <3>1. a.kind = "Protected" /\ a.type = "Control" /\ a.key = k.tx /\ a.epoch = r.epoch
      BY Zenon DEF Protected
    <3>2. a.control.step = "Commit" /\ a.control.op = m.op /\ a.control.epoch = m.epoch
      BY <1>5 DEF Protected, Response, Barrier
    <3>3. k.tx = keys["client"].rx
      BY Zenon DEF KeysInv, BarrierInv, Roles
    <3>4. r.epoch = s.epoch
      BY Zenon, <1>4 DEF IsBarrier
    <3>5. /\ ctl'["server"].epoch = s.epoch
          /\ ctl'["server"].pending.op = m.op /\ ctl'["server"].pending.epoch = m.epoch
      BY Zenon, <1>12, <1>13
    <3>6. keys'["client"].rx = keys["client"].rx
      BY <1>9
    <3> QED  BY Zenon, <2>3, <3>1, <3>2, <3>3, <3>4, <3>5, <3>6 DEF IsBarrier
  <2> QED  BY <1>14, <2>3, <2>4 DEF ToClient
<1> QED  BY Zenon, <1>8, <1>15, <1>16, <1>17, <1>18 DEF BarrierInv, NoBarrierViolation

\* Committed to Adopted: the client turns its keys, then acknowledges.
LEMMA AdoptBarrier ==
  ASSUME TypeOK, BarrierInv, ReceiveControl("client"), Phase = "Committed"
  PROVE  BarrierInv'
<1> DEFINE c == ctl["client"]
           s == ctl["server"]
           w == wire["client"]
           r == wire["server"][1]
           m == r.control
           k == ApplyEffect(keys["client"], BeforeResponse(m))
           a == Protected(r.epoch, k.tx, "Control", 0, Response(m))
<1>1. task["client"] = "running" /\ wire["server"] # << >>
  BY Zenon DEF ReceiveControl, Free, Peer
<1>2. Head(wire["server"]) = r /\ r \in Record
  BY Zenon, <1>1, WireFacts DEF Roles
<1>3. Len(wire["server"]) = 1 /\ IsBarrier(r, "Commit", keys["client"].rx)
  BY Zenon, <1>1, AtClient
<1>4. m.step = "Commit" /\ m \in Control
  BY Zenon, <1>2, <1>3 DEF IsBarrier, Record
<1>5. /\ BeforeResponse(m) = IF m.op = "Switch" THEN "SetMode" ELSE "Rekey"
      /\ AfterResponse(m) = "None" /\ HasResponse(m)
  BY <1>4 DEF BeforeResponse, AfterResponse, HasResponse
<1>6. ApplyEffect(k, "None") = k
  BY Zenon DEF ApplyEffect
<1>7. /\ ctl' = [ctl EXCEPT !["client"] = Handled(c, m)]
      /\ keys' = [keys EXCEPT !["client"] = k]
      /\ wire' = [wire EXCEPT !["server"] = Tail(@), !["client"] = Append(@, a)]
      /\ UNCHANGED <<route, task>>
  BY Zenon, <1>2, <1>5, <1>6 DEF ReceiveControl, Peer
<1>8. /\ ctl'["server"] = s /\ ctl'["client"] = Adopt(c)
      /\ keys'["client"] = k /\ keys'["server"] = keys["server"]
      /\ wire'["server"] = Tail(wire["server"]) /\ wire'["client"] = Append(w, a)
  BY Zenon, <1>4, <1>7 DEF TypeOK, Roles, Handled
<1>9. /\ c \in Controller /\ s \in Controller /\ wire["server"] \in Seq(Record)
      /\ keys["client"] \in [tx: Nat, rx: Nat] /\ keys["server"] \in [tx: Nat, rx: Nat]
  BY Zenon DEF TypeOK, Roles
<1>10. wire'["server"] = << >>
  BY Zenon, <1>3, <1>8, <1>9, SingleRecord
<1>11. /\ s.pending.stage = "Ack" /\ m.op = s.pending.op /\ m.epoch = s.pending.epoch
       /\ c.pending.op = s.pending.op /\ c.pending.epoch = s.pending.epoch
       /\ c.pending.mode = s.pending.mode
  BY Zenon, <1>3 DEF Phase, IsBarrier, BarrierInv, ControllersInv
<1>12. ctl'["client"].role = c.role /\ ctl'["client"].pending = NoPending
  BY <1>8, <1>9 DEF Adopt, Controller
<1>13. Phase' = "Adopted"
  BY <1>8, <1>11, <1>12 DEF Phase, NoPending
<1>14. ControllersInv'
  <2>1. c.mode = s.mode
    BY Zenon DEF BarrierInv, ControllersInv, ViewOf
  <2>2. ViewOf(Adopt(c)) = ViewOf(Adopt(s))
    BY <1>9, <1>11, <2>1 DEF Adopt, ViewOf, Controller
  <2>3. ViewOf(ctl'["client"]) = ViewOf(Adopt(ctl'["server"]))
    BY Zenon, <1>8, <2>2
  <2>4. /\ s.role = "server" /\ c.role = "client" /\ s.epoch # 0
        /\ s.pending.epoch = s.epoch + 1
        /\ s.pending.op = "Switch" => s.pending.mode \in Modes
    BY <1>11 DEF BarrierInv, ControllersInv
  <2>5. ctl'["server"] = s
    BY <1>8
  <2>6. NoPending.stage = "Idle"
    BY DEF NoPending
  <2> QED  BY <1>11, <1>12, <1>13, <2>3, <2>4, <2>5, <2>6 DEF ControllersInv
<1>15. KeysInv' /\ k.tx = keys["server"].tx
  <2>1. /\ keys["server"].tx = keys["server"].rx /\ keys["client"].tx = keys["client"].rx
        /\ keys["server"].tx = IF m.op = "Rekey" THEN keys["client"].tx + 1 ELSE keys["client"].tx
    BY Zenon, <1>11 DEF KeysInv, BarrierInv, Roles
  <2>2. m.op \in {"Switch", "Rekey"}
    BY Zenon, <1>4 DEF Control, Ops
  <2>3. k.tx = keys["server"].tx /\ k.rx = keys["server"].tx
    BY Zenon, <1>5, <1>9, <2>1, <2>2 DEF ApplyEffect
  <2> QED  BY Zenon, <1>8, <1>13, <2>1, <2>3 DEF KeysInv, Roles
<1>16. ToClient'
  BY <1>10, <1>13 DEF ToClient
<1>17. ASSUME task["server"] = "running"
       PROVE  ToServer'
  <2>1. w = << >>
    BY <1>17 DEF BarrierInv, ToServer
  <2>2. wire'["client"] = <<a>>
    BY <1>8, <2>1
  <2>3. Len(wire'["client"]) = 1 /\ wire'["client"][1] = a /\ wire'["client"] # << >>
    BY <2>2
  <2>4. IsBarrier(wire["client"][1], "Ack", keys["client"].tx)'
    <3>1. a.kind = "Protected" /\ a.type = "Control" /\ a.key = k.tx /\ a.epoch = r.epoch
      BY Zenon DEF Protected
    <3>2. a.control.step = "Ack" /\ a.control.op = m.op /\ a.control.epoch = m.epoch
      BY <1>4 DEF Protected, Response, Barrier
    <3>3. r.epoch = s.epoch
      BY <1>3 DEF IsBarrier
    <3>4. ctl'["server"] = s /\ keys'["client"].tx = k.tx
      BY <1>8
    <3>5. wire'["client"][1] = a
      BY <2>3
    <3> QED  BY <1>11, <3>1, <3>2, <3>3, <3>4, <3>5 DEF IsBarrier
  <2> QED  BY <1>13, <2>3, <2>4 DEF ToServer
<1> QED  BY Zenon, <1>7, <1>14, <1>15, <1>16, <1>17 DEF BarrierInv, NoBarrierViolation

\* Adopted to Settled: the acknowledgement completes the transition.
LEMMA AckBarrier ==
  ASSUME TypeOK, BarrierInv, ReceiveControl("server"), Phase = "Adopted"
  PROVE  BarrierInv'
<1> DEFINE c == ctl["client"]
           s == ctl["server"]
           w == wire["client"]
           r == w[1]
           m == r.control
           k == ApplyEffect(keys["server"], BeforeResponse(m))
<1>1. task["server"] = "running" /\ w # << >>
  BY Zenon DEF ReceiveControl, Free, Peer
<1>2. Head(w) = r /\ r \in Record /\ w \in Seq(Record)
  BY Zenon, <1>1, WireFacts DEF Roles, TypeOK
<1>3. /\ IsBarrier(r, "Ack", keys["client"].tx)
      /\ \A i \in 2 .. Len(w) : IsData("client", w[i])
  BY <1>1 DEF BarrierInv, ToServer
<1>4. m.step = "Ack" /\ m \in Control
  BY Zenon, <1>2, <1>3 DEF IsBarrier, Record
<1>5. /\ BeforeResponse(m) \in {"SetMode", "AdvanceEpoch"}
      /\ AfterResponse(m) = "None" /\ ~HasResponse(m)
  BY <1>4 DEF BeforeResponse, AfterResponse, HasResponse
<1>6. k = keys["server"] /\ ApplyEffect(k, "None") = k
  BY Zenon, <1>5 DEF ApplyEffect
<1>7. /\ ctl' = [ctl EXCEPT !["server"] = Handled(s, m)]
      /\ keys' = [keys EXCEPT !["server"] = keys["server"]]
      /\ wire' = [wire EXCEPT !["client"] = Tail(@), !["server"] = @]
      /\ UNCHANGED <<route, task>>
  BY Zenon, <1>2, <1>5, <1>6 DEF ReceiveControl, Peer
<1>8. /\ ctl'["server"] = Adopt(s) /\ ctl'["client"] = c /\ keys' = keys
      /\ wire'["client"] = Tail(w) /\ wire'["server"] = wire["server"]
  BY Zenon, <1>4, <1>7 DEF TypeOK, Roles, Handled
<1>9. /\ s \in Controller /\ s.pending.stage = "Ack" /\ s.pending.epoch = s.epoch + 1
      /\ s.epoch \in Nat /\ c.pending = NoPending
  <2>1. s \in Controller /\ s.epoch \in Nat
    BY EpochMaxAssumption DEF TypeOK, Roles, Controller, Epochs
  <2>2. s.pending.stage \in {"Idle", "Ready", "Ack", "Commit"}
    BY Zenon DEF TypeOK, Controller, Pending, Roles
  <2> QED  BY Zenon, <2>1, <2>2 DEF BarrierInv, ControllersInv, Phase
<1>10. /\ ctl'["server"].role = s.role /\ ctl'["server"].pending = NoPending
       /\ ctl'["server"].epoch = s.epoch + 1
  BY <1>8, <1>9 DEF Adopt, Controller
<1>11. Phase' = "Settled"
  BY <1>10 DEF Phase, NoPending
<1>12. ControllersInv'
  <2>1. ViewOf(ctl'["client"]) = ViewOf(ctl'["server"])
    BY Zenon, <1>8 DEF BarrierInv, ControllersInv
  <2>2. s.epoch + 1 # 0
    BY <1>9
  <2>3. s.role = "server" /\ c.role = "client"
    BY DEF BarrierInv, ControllersInv
  <2>4. NoPending.stage = "Idle" /\ ctl'["client"] = c /\ c.pending = NoPending
    BY <1>8, <1>9 DEF NoPending
  <2> QED  BY <1>10, <1>11, <2>1, <2>2, <2>3, <2>4 DEF ControllersInv
<1>13. KeysInv'
  BY Zenon, <1>8, <1>11 DEF KeysInv, BarrierInv
<1>14. ToServer'
  <2>1. \A i \in DOMAIN Tail(w) : i + 1 \in 2 .. Len(w) /\ Tail(w)[i] = w[i + 1]
    BY <1>1, <1>2, HeadTailProperties, LenProperties
  <2>2. \A i \in DOMAIN Tail(w) : IsData("client", Tail(w)[i])
    BY Zenon, <1>3, <2>1
  <2> QED  BY <1>8, <1>11, <2>2 DEF ToServer, AllData, IsData
<1>15. ASSUME task["client"] = "running"
       PROVE  ToClient'
  <2>1. wire'["server"] = << >>
    BY <1>8, <1>15 DEF BarrierInv, ToClient
  <2> QED  BY <1>11, <2>1 DEF ToClient, AllData
<1> QED  BY Zenon, <1>7, <1>12, <1>13, <1>14, <1>15 DEF BarrierInv, NoBarrierViolation

\* Reading a barrier preserves the invariant, whichever step it is.
LEMMA ControlBarrier ==
  ASSUME TypeOK, BarrierInv, NEW s \in Roles, ReceiveControl(s)
  PROVE  BarrierInv'
<1>1. task[s] = "running" /\ wire[Peer(s)] # << >>
  BY Zenon DEF ReceiveControl, Free
<1>2. Peer(s) \in Roles
  BY DEF Peer, Roles
<1>3. wire[Peer(s)][1].type = "Control"
  <2>1. Head(wire[Peer(s)]) = wire[Peer(s)][1]
    BY Zenon, <1>1, <1>2, WireFacts
  <2> QED  BY Zenon, <2>1 DEF ReceiveControl
<1>4. CASE s = "client"
  <2>1. Phase \in {"Proposed", "Committed"}
    BY Zenon, <1>1, <1>3, <1>4, AtClient DEF Peer, IsData
  <2> QED  BY <1>4, <2>1, ReadyBarrier, AdoptBarrier
<1>5. CASE s = "server"
  <2>1. Phase \in {"Prepared", "Adopted"}
    BY Zenon, <1>1, <1>3, <1>5, AtServer DEF Peer, IsData
  <2> QED  BY <1>5, <2>1, CommitBarrier, AckBarrier
<1> QED  BY <1>4, <1>5 DEF Roles

\* An automatic rekey preserves the invariant.
LEMMA RekeyBarrier ==
  ASSUME TypeOK, BarrierInv, CanBeginRekey(ctl["server"]),
         Propose(BeginRekey(ctl["server"]),
                 Barrier("Rekey", "Propose", ctl["server"].epoch + 1)),
         UNCHANGED <<keys, route, task>>
  PROVE  BarrierInv'
<1> DEFINE c == ctl["server"]
           m == Barrier("Rekey", "Propose", c.epoch + 1)
<1>1. c \in Controller /\ c.epoch \in Epochs
  BY Zenon DEF TypeOK, Roles, Controller
<1>2. EnsureServerIdle(c) /\ HasNextEpoch(c)
  BY Zenon DEF CanBeginRekey
<1>3. m \in Control
  BY Zenon, <1>1, <1>2, RekeyProposal
<1>4. m.step = "Propose" /\ m.op = "Rekey" /\ m.epoch = c.epoch + 1 /\ m.mode = NoMode
  BY Zenon DEF Barrier
<1> QED  BY <1>2, <1>3, <1>4, ProposeBarrier DEF BeginRekey

\* A command preserves the invariant, whether it starts a transition or not.
LEMMA CommandBarrier ==
  ASSUME TypeOK, BarrierInv, TakeCommand
  PROVE  BarrierInv'
<1> DEFINE c == ctl["server"]
           x == Head(cmds)
<1>1. x \in Command /\ c \in Controller /\ c.epoch \in Epochs
  <2>1. cmds \in Seq(Command) /\ cmds # << >>
    BY DEF TypeOK, TakeCommand
  <2>2. x \in Command
    BY <2>1
  <2> QED  BY Zenon, <2>2 DEF TypeOK, Roles, Controller
<1>2. UNCHANGED <<keys, route, task>>
  BY DEF TakeCommand
<1>3. CASE x.op = "Switch" /\ CanBeginSwitch(c, x.mode)
  <2> DEFINE m == Switch("Propose", c.epoch + 1, x.mode)
  <2>1. x.mode \in Modes
    BY Zenon, <1>1, <1>3 DEF Command
  <2>2. EnsureServerIdle(c) /\ HasNextEpoch(c)
    BY Zenon, <1>3 DEF CanBeginSwitch
  <2>3. m \in Control
    <3>1. c.epoch + 1 \in Epochs
      BY Zenon, <1>1, <2>2, NextEpochType
    <3> QED  BY Zenon, <2>1, <3>1, ControlType DEF Ops
  <2>4. m.step = "Propose" /\ m.op = "Switch" /\ m.epoch = c.epoch + 1 /\ m.mode = x.mode
    BY Zenon DEF Switch
  <2>5. Propose(BeginSwitch(c, x.mode), m)
    BY <1>3 DEF TakeCommand
  <2> QED  BY <1>2, <2>1, <2>2, <2>3, <2>4, <2>5, ProposeBarrier DEF BeginSwitch
<1>4. CASE x.op = "Rekey" /\ CanBeginRekey(c)
  <2>1. Propose(BeginRekey(c), Barrier("Rekey", "Propose", c.epoch + 1))
    BY <1>4 DEF TakeCommand
  <2> QED  BY Zenon, <1>2, <1>4, <2>1, RekeyBarrier
<1>5. CASE ~(x.op = "Switch" /\ CanBeginSwitch(c, x.mode)) /\ ~(x.op = "Rekey" /\ CanBeginRekey(c))
  <2>1. UNCHANGED <<ctl, wire>>
    BY <1>5 DEF TakeCommand
  <2> QED  BY Zenon, <1>2, <2>1, FrameBarrier DEF BarrierInv, NoBarrierViolation
<1> QED  BY Zenon, <1>3, <1>4, <1>5

\* Every step preserves the invariant.
LEMMA BarrierStep == TypeOK /\ BarrierInv /\ [Next]_vars => BarrierInv'
<1> SUFFICES ASSUME TypeOK, BarrierInv, [Next]_vars PROVE BarrierInv'
  OBVIOUS
<1>1. ASSUME NEW s \in Roles, NEW kind \in {"Data", "GameControl"}, Send(s, kind)
      PROVE  BarrierInv'
  BY Zenon, <1>1, StutterBarrier DEF Send
<1>2. ASSUME NEW s \in Roles, Poll(s)
      PROVE  BarrierInv'
  BY Zenon, <1>2, StutterBarrier DEF Poll
<1>3. ASSUME NEW s \in Roles, CloseSession(s)
      PROVE  BarrierInv'
  BY <1>3, CloseBarrier
<1>4. ASSUME NEW s \in Roles, PickUp(s)
      PROVE  BarrierInv'
  BY <1>4, PickUpBarrier
<1>5. ASSUME NEW s \in Roles, OutboundClosed(s) \/ PeerGone(s) \/ WriteFails(s)
      PROVE  BarrierInv'
  BY Zenon, <1>5, ExitBarrier DEF OutboundClosed, PeerGone, WriteFails
<1>6. ASSUME NEW s \in Roles, ReceiveInvalid(s)
      PROVE  BarrierInv'
  BY <1>6, InvalidBarrier
<1>7. ASSUME NEW s \in Roles, ReceiveData(s)
      PROVE  BarrierInv'
  BY <1>7, DataBarrier
<1>8. ASSUME NEW s \in Roles, ReceiveControl(s)
      PROVE  BarrierInv'
  BY <1>8, ControlBarrier
<1>9. ASSUME NEW s \in Roles, PushEvent(s)
      PROVE  BarrierInv'
  BY Zenon, <1>9, StutterBarrier DEF PushEvent
<1>10. ASSUME NEW command \in Command, SecurityCommand(command)
       PROVE  BarrierInv'
  BY <1>10, StutterBarrier DEF SecurityCommand
<1>11. CASE TakeCommand
  BY <1>11, CommandBarrier
<1>12. CASE AutomaticRekey
  BY Zenon, <1>12, RekeyBarrier DEF AutomaticRekey
<1>13. CASE TransitionTimeout
  BY <1>13, ExitBarrier DEF TransitionTimeout, Roles
<1>14. CASE UNCHANGED vars
  BY <1>14, StutterBarrier DEF vars
<1> QED  BY Zenon, <1>1, <1>2, <1>3, <1>4, <1>5, <1>6, <1>7, <1>8, <1>9, <1>10, <1>11, <1>12,
            <1>13, <1>14 DEF Next, Application, TaskStep

-----------------------------------------------------------------------------
(* The barrier's theorems.                                                 *)

\* The five-phase invariant holds always: what is in flight to a reading end
\* is what its controller and keys expect.
THEOREM BarrierHolds == Spec => [](TypeOK /\ BarrierInv)
<1>1. Init => TypeOK /\ BarrierInv
  BY InitType, InitBarrier
<1>2. TypeOK /\ BarrierInv /\ [Next]_vars => TypeOK' /\ BarrierInv'
  BY TypeStep, BarrierStep
<1> QED  BY <1>1, <1>2, PTL DEF Spec

\* process_inbound never closes a session of two ends that follow the code,
\* whatever the order of sends, switches, rekeys, timeouts and closes.
THEOREM BarrierSafe == Spec => []NoBarrierViolation
<1>1. BarrierInv => NoBarrierViolation
  BY DEF BarrierInv
<1> QED  BY <1>1, BarrierHolds, PTL

\* Two idle ends with nothing in flight use the same keys.
THEOREM KeysAgree == Spec => []SettledKeysAgree
<1>1. BarrierInv => SettledKeysAgree
  <2> SUFFICES ASSUME BarrierInv, \A s \in Roles : ~IsTransitioning(ctl[s])
               PROVE  \A s \in Roles : keys[s].tx = keys[Peer(s)].rx
    BY Zenon DEF SettledKeysAgree
  <2>1. Phase = "Settled"
    BY DEF Phase, IsTransitioning, NoPending, Roles
  <2>2. /\ keys["server"].tx = keys["client"].tx
        /\ \A s \in Roles : keys[s].tx = keys[s].rx
    BY Zenon, <2>1 DEF BarrierInv, KeysInv
  <2> QED  BY Zenon, <2>2 DEF Peer, Roles
<1> QED  BY <1>1, BarrierHolds, PTL

-----------------------------------------------------------------------------
(* What each step does to the two controllers, and the refinement.         *)

\* What a barrier that is read does to the controller of its reader.
LEMMA ControlMove ==
  ASSUME TypeOK, BarrierInv, NEW s \in Roles, ReceiveControl(s)
  PROVE  LET m == wire[Peer(s)][1].control
         IN  /\ ctl'[s] = Handled(ctl[s], m) /\ ctl'[Peer(s)] = ctl[Peer(s)]
             /\ \/ s = "client" /\ Phase = "Proposed"  /\ m.step = "Propose"
                \/ s = "client" /\ Phase = "Committed" /\ m.step = "Commit"
                \/ s = "server" /\ Phase = "Prepared"  /\ m.step = "Ready"
                \/ s = "server" /\ Phase = "Adopted"   /\ m.step = "Ack"
<1>1. task[s] = "running" /\ wire[Peer(s)] # << >> /\ Peer(s) \in Roles /\ Peer(s) # s
  BY Zenon DEF ReceiveControl, Free, Peer, Roles
<1>2. Head(wire[Peer(s)]) = wire[Peer(s)][1]
  BY Zenon, <1>1, WireFacts
<1>3. wire[Peer(s)][1].type = "Control"
  BY Zenon, <1>2 DEF ReceiveControl
<1>4. ctl' = [ctl EXCEPT ![s] = Handled(ctl[s], wire[Peer(s)][1].control)]
  BY Zenon, <1>2 DEF ReceiveControl
<1>5. CASE s = "client"
  BY Zenon, <1>1, <1>3, <1>4, <1>5, AtClient DEF Peer, IsData, IsBarrier, TypeOK
<1>6. CASE s = "server"
  BY Zenon, <1>1, <1>3, <1>4, <1>6, AtServer DEF Peer, IsData, IsBarrier, TypeOK
<1> QED  BY Zenon, <1>5, <1>6 DEF Roles

\* A transition that starts is the decision of SecurityView, and no end moves yet.
LEMMA ProposeMove ==
  ASSUME TypeOK, BarrierInv, EnsureServerIdle(ctl["server"]),
         NEW op \in Ops, NEW mode \in Modes \cup {NoMode},
         op = "Switch" => mode \in Modes, HasNextEpoch(ctl["server"]), NEW m,
         Propose([ctl["server"] EXCEPT !.pending =
                    [stage |-> "Ready", op |-> op, epoch |-> ctl["server"].epoch + 1,
                     mode |-> mode]], m)
  PROVE  /\ Agreement!Decide
         /\ \A s \in Roles : ctl'[s].epoch = ctl[s].epoch /\ ctl'[s].mode = ctl[s].mode
<1> DEFINE s == ctl["server"]
           q == [stage |-> "Ready", op |-> op, epoch |-> s.epoch + 1, mode |-> mode]
<1>1. ctl'["server"] = [s EXCEPT !.pending = q] /\ ctl'["client"] = ctl["client"]
  BY DEF Propose, TypeOK, Roles
<1>2. s \in Controller /\ s.epoch \in Nat /\ s.mode \in Modes
  <2>1. s \in Controller
    BY DEF TypeOK, Roles
  <2>2. s.epoch \in Epochs /\ s.mode \in Modes
    BY <2>1 DEF Controller
  <2> QED  BY <2>1, <2>2, EpochMaxAssumption DEF Epochs
<1>3. /\ ctl'["server"].mode = s.mode /\ ctl'["server"].epoch = s.epoch
      /\ ctl'["server"].pending = q
  BY <1>1, <1>2 DEF Controller
<1>4. ~IsTransitioning(s) /\ ViewOf(ctl["client"]) = ViewOf(s)
  BY DEF EnsureServerIdle, IsTransitioning, BarrierInv, ControllersInv, Phase, NoPending
<1>5. IsTransitioning(ctl'["server"])
  <2>1. ctl'["server"].pending.stage = "Ready" /\ NoPending.stage = "Idle"
    BY <1>3 DEF NoPending
  <2> QED  BY <2>1 DEF IsTransitioning
<1>6. /\ ViewOf(Adopt(ctl'["server"])).epoch = s.epoch + 1
      /\ ViewOf(Adopt(ctl'["server"])) \in [mode: Modes, epoch: Nat]
  <2> DEFINE x == ctl'["server"]
             y == [x EXCEPT !.mode = IF op = "Switch" THEN mode ELSE x.mode,
                            !.epoch = s.epoch + 1, !.pending = NoPending]
  <2>1. Adopt(x) = y
    BY <1>3 DEF Adopt
  <2>2. y.epoch = s.epoch + 1 /\ y.mode = IF op = "Switch" THEN mode ELSE s.mode
    BY <1>1, <1>2 DEF Controller
  <2>3. y.mode \in Modes /\ y.epoch \in Nat
    BY <1>2, <2>2
  <2> HIDE DEF y
  <2> QED  BY <2>1, <2>2, <2>3 DEF ViewOf
<1>7. ViewOf(ctl'["server"]) = ViewOf(s) /\ ViewOf(s).epoch = s.epoch
  BY <1>3 DEF ViewOf
<1>8. Agreement!Decide
  BY <1>1, <1>4, <1>5, <1>6, <1>7 DEF Agreement!Decide, Agreement!View
<1> QED  BY Zenon, <1>1, <1>3, <1>8 DEF Roles

\* Every step is a step of SecurityView or leaves the view alone.
LEMMA AgreementStep ==
  ASSUME TypeOK, BarrierInv, [Next]_vars
  PROVE  /\ [Agreement!Next]_(Agreement!viewVars)
         /\ \A s \in Roles :
              \/ ctl'[s].epoch = ctl[s].epoch /\ ctl'[s].mode = ctl[s].mode
              \/ ctl'[s].epoch = ctl[s].epoch + 1 /\ IsTransitioning(ctl[s])
<1> DEFINE Goal == /\ [Agreement!Next]_(Agreement!viewVars)
                   /\ \A s \in Roles :
                        \/ ctl'[s].epoch = ctl[s].epoch /\ ctl'[s].mode = ctl[s].mode
                        \/ ctl'[s].epoch = ctl[s].epoch + 1 /\ IsTransitioning(ctl[s])
           srv == ctl["server"]
           cli == ctl["client"]
<1>1. ASSUME UNCHANGED ctl PROVE Goal
  <2>1. UNCHANGED Agreement!viewVars
    BY Zenon, <1>1 DEF Agreement!viewVars
  <2> QED  BY Zenon, <1>1, <2>1
<1>2. ASSUME TakeCommand PROVE Goal
  <2> DEFINE x == Head(cmds)
  <2>1. x \in Command
    <3>1. cmds \in Seq(Command) /\ cmds # << >>
      BY <1>2 DEF TypeOK, TakeCommand
    <3> QED  BY <3>1
  <2>2. CASE x.op = "Switch" /\ CanBeginSwitch(srv, x.mode)
    <3>1. x.mode \in Modes
      BY Zenon, <2>1, <2>2 DEF Command
    <3>2. Propose(BeginSwitch(srv, x.mode), Switch("Propose", srv.epoch + 1, x.mode))
      BY <1>2, <2>2 DEF TakeCommand
    <3> QED  BY <2>2, <3>1, <3>2, ProposeMove
             DEF CanBeginSwitch, BeginSwitch, Agreement!Next, Ops
  <2>3. CASE x.op = "Rekey" /\ CanBeginRekey(srv)
    <3>1. Propose(BeginRekey(srv), Barrier("Rekey", "Propose", srv.epoch + 1))
      BY <1>2, <2>3 DEF TakeCommand
    <3> QED  BY <2>3, <3>1, ProposeMove DEF CanBeginRekey, BeginRekey, Agreement!Next, Ops
  <2>4. CASE ~(x.op = "Switch" /\ CanBeginSwitch(srv, x.mode)) /\ ~(x.op = "Rekey" /\ CanBeginRekey(srv))
    <3>1. UNCHANGED ctl
      BY <1>2, <2>4 DEF TakeCommand
    <3> QED  BY Zenon, <1>1, <3>1
  <2> QED  BY Zenon, <2>2, <2>3, <2>4
<1>3. ASSUME AutomaticRekey PROVE Goal
  <2>1. CanBeginRekey(srv) /\ Propose(BeginRekey(srv), Barrier("Rekey", "Propose", srv.epoch + 1))
    BY Zenon, <1>3 DEF AutomaticRekey
  <2> QED  BY <2>1, ProposeMove DEF CanBeginRekey, BeginRekey, Agreement!Next, Ops
<1>4. /\ srv \in Controller /\ cli \in Controller /\ srv.pending \in Pending
      /\ srv.epoch \in Nat
  <2>1. srv \in Controller /\ cli \in Controller
    BY Zenon DEF TypeOK, Roles
  <2>2. srv.pending \in Pending /\ srv.epoch \in Epochs
    BY <2>1 DEF Controller
  <2> QED  BY <2>1, <2>2, EpochMaxAssumption DEF Epochs
<1>5. ASSUME NEW s \in Roles, ReceiveControl(s) PROVE Goal
  <2> DEFINE m == wire[Peer(s)][1].control
  <2>1. CASE s = "client" /\ Phase = "Proposed" /\ m.step = "Propose"
    <3>1. ctl'["server"] = srv /\ ctl'["client"] = Handled(cli, m)
      BY Zenon, <1>5, <2>1, ControlMove DEF Peer
    <3>2. ctl'["client"].mode = cli.mode /\ ctl'["client"].epoch = cli.epoch
      BY <1>4, <2>1, <3>1 DEF Handled, Controller
    <3>3. UNCHANGED Agreement!viewVars
      BY Zenon, <3>1, <3>2 DEF Agreement!viewVars, ViewOf
    <3> QED  BY Zenon, <3>1, <3>2, <3>3 DEF Roles
  <2>2. CASE s = "server" /\ Phase = "Prepared" /\ m.step = "Ready"
    <3>1. ctl'["client"] = cli /\ ctl'["server"] = [srv EXCEPT !.pending.stage = "Ack"]
      BY Zenon, <1>5, <2>2, ControlMove DEF Peer, Handled
    <3>2. /\ ctl'["server"].mode = srv.mode /\ ctl'["server"].epoch = srv.epoch
          /\ ctl'["server"].pending.stage = "Ack" /\ ctl'["server"].pending.op = srv.pending.op
          /\ ctl'["server"].pending.epoch = srv.pending.epoch
          /\ ctl'["server"].pending.mode = srv.pending.mode
      BY <1>4, <3>1 DEF Controller, Pending
    <3>3. IsTransitioning(srv) /\ IsTransitioning(ctl'["server"])
      BY <2>2, <3>2 DEF IsTransitioning, NoPending, Phase
    <3>4. ctl'["server"] \in [role: Roles, mode: Modes, epoch: Epochs, pending: Pending]
      BY Zenon, <1>4, TypeStep DEF TypeOK, Roles, Controller
    <3>5. ViewOf(Adopt(ctl'["server"])) = ViewOf(Adopt(srv))
      BY <1>4, <3>2, <3>4 DEF ViewOf, Adopt, Controller
    <3>6. UNCHANGED Agreement!viewVars
      BY <3>1, <3>2, <3>3, <3>5 DEF Agreement!viewVars, ViewOf
    <3> QED  BY Zenon, <3>1, <3>2, <3>6 DEF Roles
  <2>3. CASE s = "client" /\ Phase = "Committed" /\ m.step = "Commit"
    <3>1. ctl'["server"] = srv /\ ctl'["client"] = Adopt(cli)
      BY Zenon, <1>5, <2>3, ControlMove DEF Peer, Handled
    <3>2. /\ IsTransitioning(srv) /\ IsTransitioning(cli) /\ srv.pending.epoch = srv.epoch + 1
          /\ cli.mode = srv.mode /\ cli.epoch = srv.epoch
          /\ cli.pending.op = srv.pending.op /\ cli.pending.epoch = srv.pending.epoch
          /\ cli.pending.mode = srv.pending.mode
      BY <2>3 DEF Phase, BarrierInv, ControllersInv, ViewOf, IsTransitioning, NoPending
    <3>3. ViewOf(Adopt(cli)) = ViewOf(Adopt(srv)) /\ ViewOf(cli) = ViewOf(srv)
      BY <1>4, <3>2 DEF Adopt, ViewOf, Controller
    <3>4. Adopt(cli).epoch = srv.epoch + 1 /\ Adopt(srv).epoch = srv.epoch + 1
      BY <1>4, <3>2 DEF Adopt, Controller
    <3>5. ViewOf(Adopt(srv)) # ViewOf(srv)
      BY <1>4, <3>4 DEF ViewOf
    <3>6. Agreement!ClientAdopts
      BY Zenon, <3>1, <3>2, <3>3, <3>5 DEF Agreement!ClientAdopts
    <3> QED  BY Zenon, <3>1, <3>2, <3>4, <3>6 DEF Agreement!Next, Roles
  <2>4. CASE s = "server" /\ Phase = "Adopted" /\ m.step = "Ack"
    <3>1. ctl'["client"] = cli /\ ctl'["server"] = Adopt(srv)
      BY Zenon, <1>5, <2>4, ControlMove DEF Peer, Handled
    <3>2. srv.pending.stage # "Idle"
      BY <2>4 DEF Phase
    <3>3. /\ IsTransitioning(srv) /\ srv.pending.epoch = srv.epoch + 1
          /\ ViewOf(cli) = ViewOf(Adopt(srv))
      BY <2>4, <3>2 DEF BarrierInv, ControllersInv, IsTransitioning, NoPending
    <3>4. Adopt(srv).epoch = srv.epoch + 1 /\ ~IsTransitioning(Adopt(srv))
      BY <1>4, <3>3 DEF Adopt, Controller, IsTransitioning
    <3>5. Agreement!ServerAdopts
      BY Zenon, <3>1, <3>3, <3>4 DEF Agreement!ServerAdopts
    <3> QED  BY Zenon, <3>1, <3>3, <3>4, <3>5 DEF Agreement!Next, Roles
  <2> QED  BY Zenon, <1>5, <2>1, <2>2, <2>3, <2>4, ControlMove
<1>6. ctl' = ctl \/ TakeCommand \/ AutomaticRekey \/ (\E s \in Roles : ReceiveControl(s))
  BY Zenon DEF Next, Application, TaskStep, vars, Send, Poll, CloseSession, PickUp, OutboundClosed,
         PeerGone, WriteFails, ReceiveInvalid, ReceiveData, PushEvent, SecurityCommand,
         TransitionTimeout
<1>7. CASE ctl' = ctl
  BY Zenon, <1>1, <1>7
<1>8. CASE TakeCommand
  BY Zenon, <1>2, <1>8
<1>9. CASE AutomaticRekey
  BY Zenon, <1>3, <1>9
<1>10. CASE \E s \in Roles : ReceiveControl(s)
  <2>1. PICK s \in Roles : ReceiveControl(s)
    BY <1>10
  <2> QED  BY Zenon, <1>5, <2>1
<1> QED  BY Zenon, <1>6, <1>7, <1>8, <1>9, <1>10

\* An end adopts transitions one epoch at a time, and a mode only with one, and
\* never begins one towards an epoch that does not exist, whatever the largest is.
THEOREM EpochsAdvance == Spec => EpochsAdvanceByOne
<1>1. TypeOK /\ BarrierInv /\ [Next]_vars =>
        [\A s \in Roles :
           \/ ctl'[s].epoch = ctl[s].epoch /\ ctl'[s].mode = ctl[s].mode
           \/ ctl'[s].epoch = ctl[s].epoch + 1 /\ IsTransitioning(ctl[s])]_vars
  BY Zenon, AgreementStep
<1>2. TypeOK' => \A s \in Roles : ctl'[s].epoch <= EpochMax /\ ctl'[s].pending.epoch <= EpochMax
  BY EpochMaxAssumption DEF TypeOK, Controller, Pending, Epochs
<1>3. TypeOK /\ BarrierInv /\ TypeOK' /\ [Next]_vars =>
        [\A s \in Roles :
           /\ ctl'[s].epoch <= EpochMax /\ ctl'[s].pending.epoch <= EpochMax
           /\ \/ ctl'[s].epoch = ctl[s].epoch /\ ctl'[s].mode = ctl[s].mode
              \/ ctl'[s].epoch = ctl[s].epoch + 1 /\ IsTransitioning(ctl[s])]_vars
  BY <1>1, <1>2, Zenon
<1> QED  BY <1>3, BarrierHolds, PTL DEF EpochsAdvanceByOne, Spec

\* The session implements SecurityView: the server alone decides, the client
\* adopts exactly that decision, and the server only follows.
THEOREM SessionImplementsView == Spec => ImplementsAgreement
<1>1. Init => Agreement!Init
  BY EpochMaxAssumption
  DEF Init, Agreement!Init, Agreement!View, ViewOf, NewController, IsTransitioning, Modes,
      InitialEpoch, Roles
<1>2. TypeOK /\ BarrierInv /\ [Next]_vars => [Agreement!Next]_(Agreement!viewVars)
  BY Zenon, AgreementStep
<1> QED  BY <1>1, <1>2, BarrierHolds, PTL DEF Spec, ImplementsAgreement, Agreement!Spec
=============================================================================
