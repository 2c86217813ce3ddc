----------------------------- MODULE Heartbeat ------------------------------
(***************************************************************************)
(* The heartbeats of a game session, between two runtimes that each track  *)
(* the session: a runtime probes when the last acknowledgement is old      *)
(* enough, answers the other's probes, and closes the session when it has  *)
(* seen no progress for too long.                                          *)
(*                                                                         *)
(* A control gets its time of arrival when the transport queues it, and is *)
(* only looked at when the application polls.  A poll drains a prefix of   *)
(* the queue, as budgets allow, and then drives the heartbeats; the clock  *)
(* may advance between the two.  Controls may be lost or overtake each     *)
(* other; the transport does not duplicate them.                           *)
(***************************************************************************)
EXTENDS Naturals, Sequences, FiniteSets

CONSTANTS
  HbInterval,  \* heartbeat_interval, of each runtime
  HbTimeout,   \* heartbeat_timeout, of each runtime
  HbSlack,     \* the 50 ms a poll waits at most
  HbHorizon    \* the clock stops here

ASSUME HeartbeatAssumption ==
  /\ HbSlack \in Nat \ {0} /\ HbHorizon \in Nat
  /\ \A e \in 1..2 : HbInterval[e] \in Nat \ {0} /\ HbTimeout[e] \in Nat /\ HbTimeout[e] >= HbInterval[e]

VARIABLES
  hbNow,    \* monotonic time
  tracker,  \* per runtime, its HeartbeatTracker
  inbox,    \* per runtime, controls in its event queue
  wire,     \* controls on their way
  probes,   \* number of probes sent: challenges do not repeat
  emptied   \* history: per runtime, when it last drained its whole queue

hbVars == <<hbNow, tracker, inbox, wire, probes, emptied>>

HbEnds == 1..2
NoTime == HbHorizon + 1

\* HeartbeatTracker::new when the session becomes ready.
NewTracker == [open |-> TRUE, last_ack |-> 0, last_probe |-> NoTime, challenge |-> 0, sent_at |-> NoTime]

HbInit ==
  /\ hbNow = 0 /\ wire = {} /\ probes = 0
  /\ tracker = [e \in HbEnds |-> NewTracker]
  /\ inbox = [e \in HbEnds |-> << >>] /\ emptied = [e \in HbEnds |-> 0]

\* HeartbeatPacket, addressed: encoding and decoding keep the kind and the challenge.
HeartbeatPacket(to, kind, challenge) == [to |-> to, kind |-> kind, challenge |-> challenge]

-----------------------------------------------------------------------------
(* HeartbeatTracker *)

Outstanding(t) == t.challenge # 0

ShouldProbe(e) == ~Outstanding(tracker[e]) /\ hbNow - tracker[e].last_ack >= HbInterval[e]

ProbeSpacing(e) == IF HbInterval[e] \div 4 > 1 THEN HbInterval[e] \div 4 ELSE 1

\* admit_probe
AdmitProbe(e, at) ==
  LET last == tracker[e].last_probe
  IN  last = NoTime \/ (at >= last /\ at - last >= ProbeSpacing(e))

\* accept_ack: the arrival measures the round trip, the processing restarts the interval.
AcceptAck(e, challenge, at) ==
  LET t == tracker[e]
  IN  IF Outstanding(t) /\ t.challenge = challenge /\ at - t.sent_at < HbTimeout[e]
      THEN [t EXCEPT !.challenge = 0, !.sent_at = NoTime, !.last_ack = hbNow]
      ELSE t

\* A slip: without a probe in flight nothing ever times out.
DeadlineOfProbe(e) ==
  IF Outstanding(tracker[e]) THEN tracker[e].sent_at + HbTimeout[e] ELSE 2 * NoTime

\* When timed_out begins to hold: without a probe in flight, because none could be sent.
Deadline(e) ==
  IF Outstanding(tracker[e]) THEN tracker[e].sent_at + HbTimeout[e]
  ELSE tracker[e].last_ack + HbInterval[e] + HbTimeout[e]

\* timed_out, asked for one poll tick ago.
TimedOut(e) == hbNow >= Deadline(e) + HbSlack

-----------------------------------------------------------------------------
(* Steps *)

Tick == hbNow < HbHorizon /\ hbNow' = hbNow + 1 /\ UNCHANGED <<tracker, inbox, wire, probes, emptied>>

\* The receiving transport queues a control with its time of arrival; nothing arrives once the session is closed.
HbArrive(m) ==
  /\ tracker[m.to].open
  /\ inbox' = [inbox EXCEPT ![m.to] = Append(@, [kind |-> m.kind, challenge |-> m.challenge, at |-> hbNow])]
  /\ wire' = wire \ {m}
  /\ UNCHANGED <<hbNow, tracker, probes, emptied>>

\* handle_heartbeat_event on the oldest control: an answer may meet a full send queue.
HbHandle(e, fits) ==
  LET m == Head(inbox[e])
      t == tracker[e]
      admitted == t.open /\ m.kind = "Probe" /\ AdmitProbe(e, m.at)
  IN  /\ inbox[e] # << >> /\ (fits => admitted)
      /\ inbox' = [inbox EXCEPT ![e] = Tail(@)]
      /\ emptied' = IF inbox'[e] = << >> THEN [emptied EXCEPT ![e] = hbNow] ELSE emptied
      /\ tracker' = [tracker EXCEPT ![e] =
           IF ~t.open THEN t
           ELSE IF m.kind = "Ack" THEN AcceptAck(e, m.challenge, m.at)
           ELSE IF admitted THEN [t EXCEPT !.last_probe = m.at]
           ELSE t]
      /\ wire' = IF fits THEN wire \cup {HeartbeatPacket(3 - e, "Ack", m.challenge)} ELSE wire
      /\ UNCHANGED <<hbNow, probes>>

\* A poll that finds nothing.
HbFindNothing(e) ==
  /\ inbox[e] = << >> /\ emptied[e] # hbNow
  /\ emptied' = [emptied EXCEPT ![e] = hbNow]
  /\ UNCHANGED <<hbNow, tracker, inbox, wire, probes>>

\* drive_heartbeats for the session: close it, or probe if a probe is due and can be sent.
HbDrive(e, fits) ==
  /\ tracker[e].open
  /\ IF TimedOut(e)
     THEN /\ ~fits
          /\ tracker' = [tracker EXCEPT ![e].open = FALSE]
          /\ UNCHANGED <<wire, probes>>
     ELSE /\ fits /\ ShouldProbe(e)
          /\ probes' = probes + 1
          /\ tracker' = [tracker EXCEPT ![e].challenge = probes + 1, ![e].sent_at = hbNow]
          /\ wire' = wire \cup {HeartbeatPacket(3 - e, "Probe", probes + 1)}
  /\ UNCHANGED <<hbNow, inbox, emptied>>

HbNext ==
  \/ Tick
  \/ \E m \in wire : HbArrive(m)
  \/ \E e \in HbEnds, fits \in BOOLEAN : HbHandle(e, fits) \/ HbDrive(e, fits)
  \/ \E e \in HbEnds : HbFindNothing(e)

HbSpec == HbInit /\ [][HbNext]_hbVars

-----------------------------------------------------------------------------
(* Properties *)

\* An answer in time that a poll has not looked at.
TimelyAck(e) ==
  \E i \in DOMAIN inbox[e] :
    /\ inbox[e][i].kind = "Ack" /\ inbox[e][i].challenge = tracker[e].challenge
    /\ inbox[e][i].at - tracker[e].sent_at < HbTimeout[e]

\* A session is closed neither too early nor too late.  An application that drained its
\* events less than one poll tick before never closes a session whose answer arrived in
\* time, however long it was away before that; of one that closes behind a queue it has not
\* drained nothing is said.  And "a full queue cannot grant immortality": one interval, and
\* the timeout and the slack of a probe that could not be sent and of one that was not
\* answered, are the longest a session stays without an acknowledgement before the next
\* drive closes it, whether probes were lost, could not be sent at all or only at last.
HeartbeatIsHonest ==
  [][/\ \A e \in HbEnds : tracker[e].open /\ ~tracker'[e].open /\ hbNow - emptied[e] < HbSlack
                            => ~TimelyAck(e)
     /\ \A e \in HbEnds : tracker'[e].open /\ ~TimedOut(e)
                            => hbNow - tracker[e].last_ack < HbInterval[e] + 2 * (HbTimeout[e] + HbSlack) - 1]_hbVars
=============================================================================
