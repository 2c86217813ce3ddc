----------------------------- MODULE ClockSync ------------------------------
(***************************************************************************)
(* Clock synchronisation of a game session: the client probes, the server  *)
(* answers with its times of arrival and of answering, and the client      *)
(* estimates the server's clock from the four times.                       *)
(*                                                                         *)
(* The times of arrival are the transport's, taken when a control is       *)
(* queued; what happens at a poll happens later.  Controls may be lost,    *)
(* delayed without limit and overtake each other.  Each runtime counts     *)
(* from its own origin, and either may be the older one: real time starts  *)
(* when both are made, at which each has reached an age of its own.        *)
(***************************************************************************)
EXTENDS Integers, Sequences, FiniteSets

CONSTANTS
  RuntimeAges,    \* what the two clocks may show when real time starts
  ClockInterval,  \* heartbeat_interval
  ClockTimeout,   \* heartbeat_timeout
  ScanSpacing,    \* drive_clock_sync looks no more often than this
  ClockHorizon,   \* time stops here
  MaxProbes       \* probes of a behaviour

ASSUME ClockAssumption ==
  /\ \A n \in {ClockInterval, ClockTimeout, ScanSpacing, ClockHorizon, MaxProbes} : n \in Nat \ {0}
  /\ RuntimeAges \subseteq [{"client", "server"} -> Nat]

VARIABLES
  time,         \* real time
  age,          \* per side, its clock at the start: how long ago its clock_origin was
  client,       \* the client's ClockSyncTracker
  lastInbound,  \* the server's: last_inbound_probe
  nextScan,     \* the client's clock_next_scan
  controls,     \* controls on their way
  arrivals,     \* per side, controls in its event queue
  nonces        \* probes sent: a nonce is not used twice

clockVars == <<time, age, client, lastInbound, nextScan, controls, arrivals, nonces>>

Never == -1
NoProbe == [nonce |-> 0, t1 |-> 0, sent_at |-> 0]
NoSample == [offset |-> 0, rtt |-> 0, samples |-> 0]

\* clock_at, of each side: the time since its clock_origin.
ClockAt(side, t) == age[side] + t

ClockInit ==
  /\ time = 0 /\ age \in RuntimeAges /\ lastInbound = Never /\ nextScan = 0
  /\ client = [last_sent |-> Never, pending |-> NoProbe, sample |-> NoSample]
  /\ controls = {} /\ arrivals = [side \in {"client", "server"} |-> << >>] /\ nonces = 0

\* ClockPacket: encoding and decoding keep the nonce and every time.
ProbePacket(nonce, t1) == [kind |-> "Probe", nonce |-> nonce, t1 |-> t1, t2 |-> 0, t3 |-> 0, at |-> 0]
ReplyPacket(probe, t2, t3) == [probe EXCEPT !.kind = "Reply", !.t2 = t2, !.t3 = t3, !.at = 0]

-----------------------------------------------------------------------------
(* ClockSyncTracker *)

\* Integer division of Rust, towards zero.
Halved(n) == IF n >= 0 THEN n \div 2 ELSE -((-n) \div 2)

\* calculate_sample, the number of samples left to its caller.
CalculateSample(t1, t2, t3, t4) ==
  IF t3 < t2 \/ t4 < t1 \/ t4 - t1 < t3 - t2 THEN NoSample
  ELSE [offset |-> Halved((t2 - t1) + (t3 - t4)), rtt |-> (t4 - t1) - (t3 - t2), samples |-> 1]

\* should_probe, and whether it gives up the outstanding probe.
Expires == client.pending # NoProbe /\ time - client.pending.sent_at >= ClockTimeout
ShouldSync ==
  /\ client.pending = NoProbe \/ Expires
  /\ client.last_sent = Never \/ time - client.last_sent >= ClockInterval

\* A slip: a reply is taken for the answer to whatever probe is outstanding.
AcceptAnyReply(m) ==
  LET p == client.pending
      sample == CalculateSample(p.t1, m.t2, m.t3, ClockAt("client", m.at))
  IN  IF p = NoProbe \/ m.at - p.sent_at > ClockTimeout \/ sample = NoSample THEN client
      ELSE [last_sent |-> m.at, pending |-> NoProbe,
            sample |-> [sample EXCEPT !.samples = client.sample.samples + 1]]

\* accept_reply
AcceptReply(m) ==
  LET p == client.pending
      sample == CalculateSample(m.t1, m.t2, m.t3, ClockAt("client", m.at))
  IN  IF \/ p = NoProbe \/ m.nonce # p.nonce \/ m.t1 # p.t1
         \/ m.at < p.sent_at \/ m.at - p.sent_at > ClockTimeout \/ sample = NoSample
      THEN client
      ELSE [last_sent |-> m.at, pending |-> NoProbe,
            sample |-> [sample EXCEPT !.samples = client.sample.samples + 1]]

SyncSpacing == IF ClockInterval \div 4 > 1 THEN ClockInterval \div 4 ELSE 1

\* admit_probe
AdmitSync(at) == lastInbound = Never \/ (at >= lastInbound /\ at - lastInbound >= SyncSpacing)

-----------------------------------------------------------------------------
(* Steps *)

ClockTick ==
  /\ time < ClockHorizon /\ time' = time + 1
  /\ UNCHANGED <<age, client, lastInbound, nextScan, controls, arrivals, nonces>>

\* The receiving transport queues a control with its time of arrival.
ClockArrive(m) ==
  LET side == IF m.kind = "Probe" THEN "server" ELSE "client" IN
  /\ controls' = controls \ {m}
  /\ arrivals' = [arrivals EXCEPT ![side] = Append(@, [m EXCEPT !.at = time])]
  /\ UNCHANGED <<time, age, client, lastInbound, nextScan, nonces>>

\* drive_clock_sync on the client: an expired probe is given up even if no other can be sent.
DriveClock(fits) ==
  LET due == ShouldSync
      rest == IF Expires THEN NoProbe ELSE client.pending
  IN  /\ time >= nextScan /\ nonces < MaxProbes /\ (fits => due)
      /\ nextScan' = time + ScanSpacing
      /\ IF fits
         THEN /\ nonces' = nonces + 1
              /\ client' = [client EXCEPT !.last_sent = time,
                   !.pending = [nonce |-> nonces + 1, t1 |-> ClockAt("client", time), sent_at |-> time]]
              /\ controls' = controls \cup {ProbePacket(nonces + 1, ClockAt("client", time))}
         ELSE /\ client' = [client EXCEPT !.pending = rest]
              /\ UNCHANGED <<nonces, controls>>
      /\ UNCHANGED <<time, age, lastInbound, arrivals>>

\* handle_clock_sync_event on the server; the answer may meet a full send queue.
ServerHandles(fits) ==
  LET m == Head(arrivals["server"])
      admitted == AdmitSync(m.at)
  IN  /\ arrivals["server"] # << >> /\ (fits => admitted)
      /\ arrivals' = [arrivals EXCEPT !["server"] = Tail(@)]
      /\ lastInbound' = IF admitted THEN m.at ELSE lastInbound
      /\ controls' = IF ~fits THEN controls
                     ELSE controls \cup
                            {ReplyPacket(m, ClockAt("server", m.at), ClockAt("server", time))}
      /\ UNCHANGED <<time, age, client, nextScan, nonces>>

\* handle_clock_sync_event on the client.
ClientHandles ==
  /\ arrivals["client"] # << >>
  /\ client' = AcceptReply(Head(arrivals["client"]))
  /\ arrivals' = [arrivals EXCEPT !["client"] = Tail(@)]
  /\ UNCHANGED <<time, age, lastInbound, nextScan, controls, nonces>>

ClockNext ==
  \/ ClockTick \/ ClientHandles
  \/ \E m \in controls : ClockArrive(m)
  \/ \E fits \in BOOLEAN : DriveClock(fits) \/ ServerHandles(fits)

ClockSpec == ClockInit /\ [][ClockNext]_clockVars

-----------------------------------------------------------------------------
(* Properties *)

Distance(a, b) == IF a < b THEN b - a ELSE a - b

\* server_minus_client_us as it really is: negative if the server's runtime is the younger.
ServerMinusClient == age["server"] - age["client"]

\* A sample is never worse than its round trip: the estimated offset is within half the
\* reported round trip of the true one (and the rounding), whichever runtime is the older,
\* whatever was delayed, lost or overtaken on either way and however late either side polled.
ClockErrorBounded ==
  client.sample.samples > 0 =>
    2 * Distance(client.sample.offset, ServerMinusClient) <= client.sample.rtt + 1
=============================================================================
