# rnetlib: TLA+ specifications and proofs

rnetlib is a game networking library in Rust: a transport runtime (TCP, UDP and
KCP sessions with Noise security), a game layer on top of it, and bindings.
This directory holds TLA+ modules that model its concurrent core, TLC
configurations that check them on small instances, and TLAPS proofs of the
properties that matter most for every value of the constants. `PROJECT.json`
maps every definition to the lines it models, and lists the hazards of the code
with the properties that would catch them.

## The system and its parts

| part | source (`src/crates/`) | module |
| --- | --- | --- |
| security barrier | `rnet-security/src/transition.rs`, `rnet-protocol/src/control.rs` | `SecurityController`, abstract: `SecurityView` |
| TCP session driver | `rnet-transport/src/adaptive_tcp_session.rs` | `TcpSession` |
| datagram sessions (UDP, KCP), their control channel, cookies and permits | `adaptive_datagram*.rs`, `adaptive_wire.rs`, `adaptive_peer.rs`, `adaptive_kcp_preflight.rs` | `DatagramEndpoint` (not the end of an endpoint) |
| replay window | `rnet-security/src/lib.rs` | `ReplayWindow` |
| KCP engine and its adapter | `vendor/rnet-kcp` (in `src/`), `kcp.rs` | `KcpArq` (one direction of data) |
| endpoint and session tables, open, close, stop | `runtime*.rs`, `session_close.rs`, `endpoint_failure.rs`, `lifecycle.rs` | `SessionRegistry` (TCP endpoints) |
| TCP listener, handshake, authorization | `adaptive_tcp.rs` | `SessionRegistry` (partly) |
| session calls (send, security, close) | `session.rs`, `state.rs`, `lifecycle.rs` | `TcpSession`, `DatagramEndpoint`, `SessionRegistry`, `LatestSlots` |
| latest slots, byte budgets | `latest.rs`, `state.rs` | `LatestSlots` |
| event queue | `rnet-core/src/event_queue.rs` | `EventQueue` |
| handle table, lifetimes behind the C ABI | `rnet-core/src/handle.rs`, `rnet-ffi/src/registry.rs`, `runtime.rs` | `AbiLifetime` |
| range negotiation, early data, resume tickets, polling, kicks | `rnet-game/src/range_*.rs`, `resume*.rs`, `runtime.rs`, `poll_runtime.rs`, `lifecycle.rs` | `GameSession` |
| scheduler, realtime queue, send admission | `rnet-game/src/scheduler*.rs`, `realtime*.rs`, `admission.rs` | `GameStaging` |
| heartbeat, clock sync, UDP loss | `rnet-game/src/heartbeat*.rs`, `clock_sync*.rs`, `quality.rs` | `Heartbeat`, `ClockSync`, `UdpLoss` |
| Noise, frame codec, configuration, exporters, bindings | `rnet-security`, `rnet-protocol`, `config.rs`, `rnet-observe`, `include`, `go`, `cpp`, `csharp` | not modelled, see below |

How they interact: an application thread opens an endpoint, which puts a record
in the endpoint table and starts a task. A TCP listener's task accepts
connections, puts a route in the session table for each and starts a handshake
task. That task exchanges Noise messages, asks the application through the
event queue, marks the route established and becomes the session driver. The
driver moves sends from the session's queue to the socket, and records from the
socket to the event queue. On the server it also runs security transitions,
which the controller of each end keeps in step. Any of close, failure and stop
removes routes from the tables at any time; tasks find out when they next look.

A datagram endpoint has one task for all its peers, which joins them, drives
their transitions and repeats its last control until an answer comes. KCP gives
it an ordered stream per peer. The game layer polls the event queue, negotiates
a protocol version with each new session before it shows it to the application,
and keeps tickets with which a client takes its session over on a new
connection. It stages sends in queues of its own, and probes sessions for
liveness, clock offset and loss. The C ABI puts runtimes behind handles.

## Modules

**SecurityController** (pure operators). `handle`, `begin_switch` and
`begin_rekey` on a controller value. A transition is Propose, Ready, Commit,
Ack; a field `op` tells a switch from a rekey, whose arms in the code differ
only in the effect they return. `Accepts` is the set of arms, `Handled` the new
state, `Response` the barrier answered, `BeforeResponse` and `AfterResponse`
the effects around that answer.

**TcpSession** (composes two controllers). Both ends of an established session.

| variable | code |
| --- | --- |
| `ctl`, `keys` | `controller`, and the generation of the two keys in `transport` |
| `route`, `task` | the session's entry in the table, the driver's future |
| `outq`, `cmds` | the `mpsc` receivers for sends and security commands |
| `wire` | records between `write_all` on one end and `read_buf` on the other |
| `held`, `events` | the event `push_tcp_event` retries, and the event queue |
| `polled`, `accepted` | history, for the properties |

There is one action per branch of the `select!` loop (`PickUp`,
`OutboundClosed`, `TakeCommand`, `AutomaticRekey`, `TransitionTimeout`,
`PeerGone`), one per outcome of `process_inbound` (`ReceiveInvalid`,
`ReceiveData`, `ReceiveControl`), `WriteFails` for a blocked write whose peer
goes away, `PushEvent` for the wait at a full event queue, and one per call of
the application. A record beyond `WireCap` stands for a `write_all` that has
not returned: its task does nothing else (`Free` is false), as in the code,
where writes are awaited inside the branch.

**SecurityView** is what a session promises: the server chooses a target, the
client adopts it, the server follows. `TcpSession!ImplementsAgreement`
instantiates it with the two controllers' mode and epoch.

**SessionRegistry**. The two tables, with one step for each period a lock is
held. A call that opens an endpoint is `Open`, `InsertEndpoint`, `InsertRoute`
(clients), `AnnounceEndpoint`, `Register`. A listener is `Accept`, `Admit`,
`AcceptFails`, `ListenerAborted`. A session's task is `Handshake`,
`HandshakeFails`, `RequestAuth`, `Decided`, `MarkEstablished`,
`SessionOpened`, `SessionEnds`, `TaskAborted`. Closing is `CloseSession` with
`SettleClose`, and `CloseEndpoint` with `Sweep`. `stop` is `BeginStop`,
`StopSnapshot`, `StopCloses`, `MarkStopped`, `EmitStopped`.

**EventQueue**. Every operation of the queue under its lock, and the waits of
`poll` and `push_timeout` on their condition variables, spurious wakeups and
timeouts included. An event is its class and its payload length.

**DatagramEndpoint** (composes two controllers and two replay windows). A
server and a client endpoint over UDP or KCP from the first hello on.

| variable | code |
| --- | --- |
| `end[s]` | the peer's entry in `peers` (`Peer::*`), its transport keys and controller, and the session's route |
| `wire[s]` | `DatagramWire`: the one `pending` control, the one `seen` request, the KCP engine |
| `datagrams`, `stream` | what was sent by UDP (never taken away: loss, repetition and reordering are free) and what KCP still has to deliver |
| `cand`, `live` | the client's address candidates, and the one that reaches the server |
| `permit`, `decision`, `cmds` | admission permit, the application's decision, the command slot |
| `outq`, `deferred`, `accepted` | the outbound channel, `deferred`, history |

`ReceiveDatagram` and `ReceiveStream` are the inbound branch with `begin_input`,
`process` and `end_input`; `ServerProcess`, `ClientProcess` and
`HandleEstablished` are the arms of `process`. `PickUp` and `FlushDeferred` send,
`Cleanup` is its own branch, and each part of the timer tick is an action
(`ClientTimeout`, `NextCandidate`, `HandshakeTimeout`, `IdleTimeout`,
`TransitionTimeout`, `SendDecision`, `DriveTransition`, `RetryLimit`,
`RetainPermits`). It implements `SecurityView` as `TcpSession` does.

**ReplayWindow** (pure operators): `Contains` and `Insert` of the bitmap, as the
set of nonces whose bit is set.

**KcpArq**. One engine that sends and one that receives. `KcpSend` fragments and
queues, `SenderFlush` and `ReceiverFlush` move segments into the window and emit
any of them again, `KcpReceive` is `input` followed by `recv`. Serial numbers
wrap at `SerialSpace` and are compared by the sign of their difference.

**LatestSlots**. A send is a sequence of steps between locks: `LookUpRoute`,
`EnterRegistry`, `ReplaceSlot` or `GrowSlot`, `ReserveRuntime`, `ReserveRoute`,
`QueueFrame`. The worker is `WorkerReceive`, `WorkerTake`, `WorkerDone`,
`WorkerEnds`; `CloseRoute` removes the route and forgets its slots.

**AbiLifetime**. `CreateRuntime`, `BeginCall`, `EndCall`, `ExportBuffer`,
`ReleaseBuffer`, `StopRuntime`, and a destruction in three steps (`BeginDestroy`,
`CheckBuffers`, `RemoveRuntime`) during which the table's lock is held.

**GameSession**. Two game runtimes of one shape, `rt["server"]` and
`rt["client"]`. `ConvertNext` is a poll's conversion of one transport event by
the handler its kind selects (`OnAuthRequest`, `OnSessionOpened`, `OnSelect`,
`OnAck`, `OnReady`, `OnTicket`); `DrainCompleted` hands out the backlog;
`RetryControl` and `ExpireNegotiation` are the range driver. The applications
connect, decide, issue tickets, send and kick. A kick is two steps, because
`issue_resume_ticket` does not take `poll_guard`. `Opens`, `Arrive` and
`Disconnect` are what the transport's session drivers do to the event queue that
a game runtime polls; the drivers themselves are the subject of the modules above.

**GameStaging**. `StageBegin`, then `StageScheduled` or `StageLatest` under the
read lock of `SendAdmission`. `Flush*` takes a message and `Settle*` applies the
transport's answer. `ForgetReady` and `ForgetQueues` close a session;
`BeginStop`, `DrainForStop`, `ClearReady` and `ClearQueues` stop the runtime;
`StopFails` is the early return of a stop whose transport did not stop, which
leaves readiness and queues as they are.

**Heartbeat**, **ClockSync**, **UdpLoss**. The trackers of a session and the
drivers around them: probes, acknowledgements and timeouts; clock exchanges;
counted positions of numbered datagrams. A control gets its time of arrival where
the event queue sets `queued_at`. In `ClockSync` each runtime's clock shows its
own age, and either runtime may be the older one.

`MC*.tla` give TLC its instances; `*Proofs.tla` hold the theorems. Operators
marked "Mutant" or "A slip" are wrong variants of the definition below them.
Each property is known to fail when one of them takes the definition's place.

## Runs

| run | checks | states |
| --- | --- | --- |
| `tcp_barrier` | `NoBarrierViolation`, `SettledKeysAgree`, `ImplementsAgreement`, `EpochsAdvanceByOne` | 1.2 million |
| `tcp_pipeline` | `NothingLostOrReordered`, `AnnouncedModeHolds` | 1.1 million |
| `tcp_liveness` | `TransitionEnds`, `ClosedTaskEnds`, `AcceptedIsDelivered` | 49 thousand |
| `tcp_write_block` | `TransitionEnds` is violated | |
| `registry` | `PendingIsExact`, `ClosedExactlyOnce`, `ListenerOwnsRoutes`, `OnlyAuthorisedOpen` | 2.0 million |
| `registry_liveness` | `HandshakeSettles`, `StopCompletes`, `ClosedListenerEnds` | 17 thousand |
| `registry_stop` | `StopIsFinal` is violated | |
| `datagram` | `ProtectedDeliveredOnce`, `OnlyAcceptedOpens`, `KcpNeverRefused`, `ImplementsAgreement` | 0.7 million |
| `kcp_order` | `SendsStayOrdered` is violated | |
| `udp_pending` | `ProposalStaysPending` is violated | |
| `transport_parts` | event queue: `BudgetIsExact`, `HistoryKept`, `NoLostWakeup`, `EvictsOnlyForRoom`; send path: `SendBudgetIsExact`, `LatestValueWins`; KCP: `KcpInOrder`, `KcpKeepsUnreceived`; ABI: `LeasesAreSound` | 0.7 million |
| `game_layer` | sessions: `VersionsAgree`, `DataFollowsReady`, `RetainedIsCharged`, `TicketGoodOnce`, `TakeoverIsAtomic`; staging: `StagingIsExact`, `NewestSnapshotKept`, `ServedWithinRound`; `HeartbeatIsHonest`, `ClockErrorBounded`, `LossIsExact` | 0.7 million |

`transport_parts` and `game_layer` put components side by side that share no
state in these models: a behaviour moves the one in `focus` and leaves the
others at their start, so the state spaces add up and do not multiply.

Bounds, and why they are enough:

- `EpochMax` 3 gives two transitions in a row and the refusal of a third; 2 is
  one transition and its refusal. The initial epoch is 1, as in the code.
- `MaxSends` 1 or 2 on an end puts data before, inside and behind a barrier.
  `SendCap`, `WireCap` and `EventCap` of 1 or 2 make queues fill and writes
  block. `tcp_liveness` has `WireCap` 3, which holds all that the ends write
  before one of them must read, so that the block of `tcp_write_block` is out
  of the picture.
- Two opening calls, two connections and one stop give a listener and a client,
  or two listeners, racing a stop, and more handshakes than there are permits or
  reservations. `registry_liveness` has two stops and one of everything else.
- `datagram` has one setup per concern: joins with two candidates and two
  handshakes, on either transport; and, on either, a transition with data around
  it, or data and game controls. A replay window of 2 with more nonces than that
  makes records fall out of it. `MaxNonce` bounds the sends KCP refuses.
  `kcp_order` sets it to 0, so that only a transition can defer a send.
- Capacity 2 and three byte units, payloads of 0, 2 and 3, two pollers with
  different limits and one waiting producer: one priority event can evict zero,
  one or two data events, for entries or for bytes, or be rejected. Two senders
  and two routes, with a runtime budget smaller than the two route budgets
  together, make
  reservations fail at either level. KCP messages of up to three segments fill
  the window of three, from serial numbers on both sides of the wrap at 16. Two
  callers and three runtimes in two slots reuse a slot while a stale handle is
  about.
- `game_layer` has a scenario per concern: early data at its limits with a lost
  connection, three messages against a budget of two; a resumption whose old
  session may be kicked; one whose listener may close; one ticket presented twice.
  Two players with two classes and four sends reach the message and byte limits
  of the queues. The heartbeat horizon of 9 ticks lies beyond the 8 that
  `HeartbeatIsHonest` allows the probing end without an acknowledgement, and
  the bound is tight: with one tick less TLC finds a violation. The clock
  horizon of 7 holds two exchanges, of which one may expire, with a server one
  tick older and with one two ticks younger than the client.
  Eight datagrams exceed the reorder window and the forward gap, across the wrap.
- Threads, pollers, routes, players, calls, connections and stops are symmetric
  in the runs without liveness properties.

Deadlock is not checked: a session ends, opening calls are used up, and a queue
reaches its bound, which are all proper ends.

## Fairness

`TcpSession!Fairness`: a task that can go on does (tokio polls a woken future),
the application keeps polling its events, a queued command is taken, and an
armed deadline expires. Nothing is assumed of sends, commands, closes or
automatic rekeys. A task whose write blocks cannot go on, so fairness does not
help it. `AcceptedIsDelivered` and `TransitionEnds` rest on the application
polling: `push_tcp_event` waits as long as the queue is full and the runtime
runs.

`SessionRegistry!Fairness`: threads inside a call, tasks and sweeps go on. A
task in its handshake goes on by succeeding or by its timeout. Accepting,
deciding, closing and the end of an established session are not assumed.

## What disagrees with the documentation

- `tcp_write_block`: `specs/transparent-security-api/spec.md:100` says that a
  transition that times out closes the session. Writes are awaited inside the
  `select!` branches without a timeout (`adaptive_tcp_session.rs:147`,
  `adaptive_tcp.rs:488`). With both directions full the two tasks wait for each
  other's reads and neither polls its deadline.
- `registry_stop`: the comment of `stop` (`lifecycle.rs:65`) says it stops
  accepting new endpoints and closes the remaining ones. `open_endpoint` looks
  at the state once, long before it inserts, and `connect_resolved` and
  `connect_host` never do. An endpoint inserted behind stop's snapshot outlives
  stop. The same window leaves a client's route in the table when
  `set_endpoint_abort` fails.
- `kcp_order`: `docs/getting-started.md:142` says that sends accepted during a
  transition remain ordered. The outbound branch (`adaptive_datagram.rs:222`)
  transmits a message without asking whether the peer still has deferred ones,
  which wait for the next tick. Of two sends accepted during a transition the
  first is deferred, and the second, picked up after the barrier, goes first.
- `udp_pending`: the comment of `end_input` (`adaptive_wire.rs:370`) says that a
  pending request is acknowledged only after its response was parsed. Any
  protected record that is processed clears it. The acknowledgement of the
  authorization decision, arriving after a proposal was sent, takes the proposal
  off its retransmission; if it was lost, the transition is left to its timeout.

Two further disagreements are known from reading and are outside the
properties (see the hazards at the lines named). A ticket that is being issued
while its session is kicked survives the kick (`rnet-game/src/lifecycle.rs:17`,
against `docs/game-networking.md:316`): `TicketGoodOnce` speaks of the tickets
the kick's revocation finds, and of no others. `rnet_runtime_destroy` looks for
exported buffers before it looks for active calls, so that a poll which exports
one and returns in between leaves a buffer of a destroyed runtime
(`rnet-ffi/src/runtime.rs:218`, against its comment at line 203).

## Proofs

Assumptions: `EpochMaxAssumption` and `TcpAssumption` (`EpochMax`, `SendCap`
and `EventCap` positive naturals, `WireCap` a natural, `MaxSends` a natural on
each end) and `RegistryAssumption` (finite disjoint sets of calls and
connections, natural limits). TLC evaluates each in its runs.

**TcpSessionProofs**

- `TypeCorrect`: `Spec => []TypeOK`, one step per action.
- `BarrierHolds`: `Spec => [](TypeOK /\ BarrierInv)`. `NoBarrierViolation` alone
  is not inductive: that a record is acceptable depends on what was in flight
  when its sender and its receiver changed. `BarrierInv` tells five phases of a
  transition apart by the two pending stages. `Settled`: data only, both ways.
  `Proposed`: data, then the proposal, to the client; data to the server.
  `Prepared`: nothing to the client; data, then Ready, to the server.
  `Committed`: Commit alone to the client, under the key it still has.
  `Adopted`: Ack, then data of the new epoch, to the server. Each phase also
  fixes which keys and views agree. An end whose task has ended
  reads nothing, so the channel towards it is left free.
- `BarrierSafe`, `KeysAgree`, `EpochsAdvance`: consequences of `BarrierHolds`.
  `EpochsAdvance` includes that no epoch, committed or pending, passes `EpochMax`.
- `SessionImplementsView`: the refinement of `SecurityView`. Init maps to Init;
  a proposal maps to the server's choice, the client's handling of Commit to
  its adoption, the server's handling of Ack to its following, and every other
  step to a stutter. It uses `BarrierInv` for the agreement of the pending
  transition on both ends.

**SessionRegistryProofs**: `NoRouteEscapes`, `Spec => []ListenerOwnsRoutes`. The
inductive invariant `OwnInv` adds `Origins`: only a listener whose opening call
has returned accepts and has sessions, and only a client is a session task of
its own. An opening call that fails and undoes its insertion therefore removes
no endpoint that has routes; the other removals of an endpoint close its routes
or schedule their sweep in the same step, and `Admit` looks at the table under
the lock.

**PendingProofs**: `PendingExact`, `Spec => []PendingIsExact`. The strengthening
`Fresh` says that a session is created once: what has no endpoint yet is in no
table, and a call or an accept still to insert its route has none. `sessions`
and `closing` are disjoint, so each release takes away exactly the routes that
leave the count.

**AuthorisationProofs**: `OpenOnlyAuthorised`, `Spec => []OnlyAuthorisedOpen`, on top
of the two invariants above. `Authorised` says that a task past the decision was
accepted, and that an unadmitted connection has neither a task nor a history; a
decision is taken once, so an acceptance stays. `Permitted` says that a route whose
task ended is left only under a listener that ended. A listener that still admits
runs, so the tasks its semaphore counts cover its routes.

**ClockSyncProofs**: `ClockErrorIsBounded`, `ClockSpec => []ClockErrorBounded`,
from `ClockAssumption`, which leaves the two ages free: the true offset may be
positive, zero or negative. The inductive invariant `ClockInv` says of every message,
on its way or queued, that its times were read in causal order: a probe's time is
not after its arrival, and a reply's server times lie between the probe and now.
`SampleHonest` derives the bound from that order, with `HalvedClose` for the
rounding of the division; nonces and freshness only decide which samples count.

**AbiLifetimeProofs**: `CallsHoldTheirRuntime`, `AbiSpec => []LeasesAreSound`, from
`AbiAssumption` (finitely many callers, fewer runtimes than generations).
`AbiInv` adds that a handle's generation equals its slot's only while its runtime
is in the slot (`HandlesFit`, `SlotsFit`), that one caller at most destroys
(`OneDestroyer`), and that the counter of a runtime is the number of callers
working on it (`CallsCounted`). A removal therefore sees every call.

Only model-checked: all liveness properties (fairness and `ENABLED` are out of
the prover's reach), `NothingLostOrReordered`, `AnnouncedModeHolds`,
`ClosedExactlyOnce`, and the properties of `DatagramEndpoint`, `EventQueue`,
`LatestSlots`, `KcpArq`, `GameSession`, `GameStaging`, `Heartbeat` and `UdpLoss`.
Those that sum over sequences or sets of any size would need induction over data,
which the prover cannot do.

## Abstractions

- Time: an armed timer may fire at any moment, except in `Heartbeat` and
  `ClockSync`, which have clocks. A ciphertext is its handshake, the generation
  of its key and, for datagrams, its nonce. A record is read whole;
  `record_reader.rs` only splits the stream.
- `TcpSession` starts where `run_adaptive_session` does and takes the runtime to
  be running. The reason an end reports is kept only as far as properties use
  it. Byte budgets and latest-value slots are `LatestSlots`' subject, so here
  only the queue's length refuses a send.
- `SessionRegistry` has TCP endpoints only. `connect_host` and
  `connect_resolved` have one candidate address. Rejections before admission
  (per-address limits, socket options) are connections that were never
  accepted. A reservation and its insertion are one step, and so are the two
  lock periods of `close_endpoint_sessions`. Handles are not reused. Dropping
  the runtime is closing every endpoint. Publishing means handing an event to
  the queue; what happens there is `EventQueue`'s subject.
- The state race in `stop` (`begin_draining` and `mark_stopped` losing a
  compare-and-swap) is a nondeterministic failure of that call.
- `DatagramEndpoint`: cookies do not expire during a join. A full peer table or
  rate limit is a lost datagram. The server's key is the one the client expects.
  KCP's reserve for controls always has room, and its data budget may refuse at
  any time. A retransmission repeats bytes the network can deliver again anyway,
  so only the end of the retries is a step. The endpoints are not closed and
  their sockets do not fail.
- `KcpArq`: one segment per packet, data in one direction, retransmission timers
  free. RTT and RTO, fast-acknowledgement counters, telemetry, packet
  validation, stream mode and dead-link detection are left out.
- `LatestSlots`: removing a route and forgetting its slots is one step.
- `AbiLifetime`: which free slot is taken is left open.
- `GameSession`: messages have no length, and the transport's event queue loses
  nothing. Closing a session on the client is a disconnect and a reaping. The
  signature of a ticket is assumed to hold.
- `GameStaging`: all sessions are ready at first; whether a deadline has passed
  is free.
- `Heartbeat`, `ClockSync`: random challenges do not repeat, and the transport
  does not duplicate protected controls. `UdpLoss`: counters used only for
  statistics are left out.

## Not modelled

- Noise itself, the frame and envelope codecs, cookies as keyed hashes, ticket
  signatures: cryptography and byte-level code, covered by fuzz targets and unit
  tests.
- Token refill of the admission limiter and quality grades: arithmetic on
  floating point and thresholds without a state machine worth exploring.
- Configuration, metrics, diagnostics and exporters: validation and formatting.
- Argument checks and conversions of the C ABI, and the Go, C++ and C# bindings.
- Closing or stopping a datagram endpoint while it joins a peer, and stopping a
  game runtime while it negotiates.

## Plan

1. Datagram endpoints in `SessionRegistry`: the insertion of a route without the
   endpoint's lock (`adaptive_datagram_process.rs:221`).
2. Proofs: `ClosedExactlyOnce` of the registry, single use of tickets, and the
   barrier invariant on datagrams.
