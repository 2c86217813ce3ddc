------------------------------- MODULE KcpArq -------------------------------
(***************************************************************************)
(* The vendored KCP engine as DatagramWire drives it: one end queues       *)
(* messages, cuts them into segments, sends these within the windows and   *)
(* repeats them; the other puts them in order, acknowledges and reassembles*)
(* them.  An engine is a record, and its operations are functions from     *)
(* such a record to what it becomes.                                       *)
(*                                                                         *)
(* packets holds every segment ever sent: one that is never received again *)
(* is lost, one received twice was duplicated, and the order is free.      *)
(* Which segments a flush repeats depends on clocks and fast               *)
(* acknowledgements and is any set; the adapter disables the congestion    *)
(* window.  Serial numbers are modulo SerialSpace and are compared by the  *)
(* sign of their difference; a segment does not outlive half that space.   *)
(***************************************************************************)
EXTENDS Integers, Sequences, FiniteSets, SequencesExt

CONSTANTS
  SerialSpace,   \* 2^32
  RcvWnd,        \* rcv_wnd, KCP_WND_RCV: segments the receive queue can hold
  SndWnd,        \* snd_wnd
  MaxQueued,     \* max_session_queued_bytes, in segments
  ControlShare,  \* the part of it kept for controls
  Fragments,     \* numbers of segments a message may need
  MaxMessages,   \* messages sent in a behaviour
  Starts         \* serial numbers the two ends have come to, all acknowledged

ASSUME KcpAssumption ==
  /\ \A n \in {SerialSpace, RcvWnd, SndWnd, MaxQueued, MaxMessages} : n \in Nat \ {0}
  /\ Starts \subseteq 0..(SerialSpace - 1) /\ Fragments \subseteq Nat \ {0}
  /\ \A n \in Fragments : n * MaxMessages < SerialSpace \div 2

VARIABLES
  sender, receiver,  \* the engines of the two ends
  packets,           \* segments sent by either
  accepted,          \* messages the sender's wire took, each its number of segments
  received           \* history: what the receiver's wire handed on

kcpVars == <<sender, receiver, packets, accepted, received>>

-----------------------------------------------------------------------------
(* Serial numbers *)

Advance(sn, n) == (sn + n) % SerialSpace

\* timediff
TimeDiff(later, earlier) ==
  LET d == (later - earlier) % SerialSpace
  IN  IF d < SerialSpace \div 2 THEN d ELSE d - SerialSpace

-----------------------------------------------------------------------------
(* An engine *)

\* Kcp::construct with the adapter's settings, after so many segments either way.
Engine(sn) ==
  [snd_queue |-> << >>, snd_buf |-> << >>, snd_una |-> sn, snd_nxt |-> sn, rmt_wnd |-> RcvWnd,
   rcv_queue |-> << >>, rcv_buf |-> << >>, rcv_nxt |-> sn, acklist |-> {}, tell |-> FALSE,
   queued |-> 0]

\* wait_snd, which queued_bytes multiplies by the segment size.
WaitSnd(k) == Len(k.snd_queue) + Len(k.snd_buf)

WndUnused(k) == IF Len(k.rcv_queue) < RcvWnd THEN RcvWnd - Len(k.rcv_queue) ELSE 0

\* Kcp::send refuses a message that could not be reassembled.
FitsWindow(count) == count < RcvWnd

\* queue_kcp: controls may use what is left when data may not.
Admits(k, count, control) ==
  WaitSnd(k) + count <= IF control THEN MaxQueued ELSE MaxQueued - ControlShare

\* Kcp::send: frg counts down to the last fragment.
Queue(k, message, count) ==
  [k EXCEPT !.snd_queue = @ \o [i \in 1..count |-> [frg |-> count - i, data |-> <<message, i>>]],
            !.queued = @ + count]

\* shrink_buf
Shrink(k) == [k EXCEPT !.snd_una = IF k.snd_buf = << >> THEN k.snd_nxt ELSE Head(k.snd_buf).sn]

\* parse_una and shrink_buf
ParseUna(k, una) ==
  Shrink([k EXCEPT !.snd_buf = SelectSeq(@, LAMBDA s : TimeDiff(una, s.sn) <= 0)])

\* parse_ack and shrink_buf
ParseAck(k, sn) ==
  IF TimeDiff(sn, k.snd_una) < 0 \/ TimeDiff(sn, k.snd_nxt) >= 0 THEN k
  ELSE Shrink([k EXCEPT !.snd_buf = SelectSeq(@, LAMBDA s : s.sn # sn)])

\* A slip: what was received moves up without asking whether it comes next.
MoveBufAny(k) ==
  [k EXCEPT !.rcv_queue = @ \o k.rcv_buf, !.rcv_buf = << >>, !.rcv_nxt = Advance(@, Len(k.rcv_buf))]

\* move_buf: the run of segments that continues what was received.
MoveBuf(k) ==
  LET limit == RcvWnd - Len(k.rcv_queue)
      ready == {n \in 0..Len(k.rcv_buf) : n <= limit /\ \A i \in 1..n : k.rcv_buf[i].sn = Advance(k.rcv_nxt, i - 1)}
      n == CHOOSE m \in ready : \A other \in ready : other <= m
  IN  [k EXCEPT !.rcv_queue = @ \o SubSeq(k.rcv_buf, 1, n),
                !.rcv_buf = SubSeq(@, n + 1, Len(@)),
                !.rcv_nxt = Advance(@, n)]

\* parse_data's search for the place of a new segment.
InsertSegment(buf, segment) ==
  LET later == {i \in DOMAIN buf : TimeDiff(segment.sn, buf[i].sn) < 0}
      place == IF later = {} THEN Len(buf) + 1 ELSE CHOOSE i \in later : \A j \in later : i <= j
  IN  IF \E i \in DOMAIN buf : buf[i].sn = segment.sn THEN buf ELSE InsertAt(buf, place, segment)

\* A slip: a segment beyond the window is acknowledged and dropped.
ParsePushAcking(k, p) ==
  LET acked == [k EXCEPT !.acklist = @ \cup {p.sn}]
  IN  IF TimeDiff(p.sn, k.rcv_nxt) < 0 \/ TimeDiff(p.sn, Advance(k.rcv_nxt, RcvWnd - 1)) >= 0 THEN acked
      ELSE MoveBuf([acked EXCEPT !.rcv_buf = InsertSegment(@, [sn |-> p.sn, frg |-> p.frg, data |-> p.data])])

\* input's PUSH arm and parse_data: what lies beyond the window is not even
\* acknowledged, what was received before is acknowledged again.
ParsePush(k, p) ==
  LET acked == [k EXCEPT !.acklist = @ \cup {p.sn}]
  IN  IF TimeDiff(p.sn, Advance(k.rcv_nxt, RcvWnd)) >= 0 THEN k
      ELSE IF TimeDiff(p.sn, k.rcv_nxt) < 0 THEN acked
      ELSE MoveBuf([acked EXCEPT !.rcv_buf = InsertSegment(@, [sn |-> p.sn, frg |-> p.frg, data |-> p.data])])

\* Kcp::input of one segment.
InputSegment(k, p) ==
  LET known == ParseUna([k EXCEPT !.rmt_wnd = p.wnd], p.una)
  IN  CASE p.cmd = "ACK" -> ParseAck(known, p.sn)
        [] p.cmd = "PUSH" -> ParsePush(known, p)
        [] p.cmd = "WASK" -> [known EXCEPT !.tell = TRUE]
        [] p.cmd = "WINS" -> known

\* The first complete message of the receive queue: peeksize and recv's loop.
Whole(queue) ==
  LET ends == {i \in DOMAIN queue : queue[i].frg = 0}
  IN  IF ends = {} THEN 0 ELSE CHOOSE i \in ends : \A j \in ends : i <= j

\* recv until nothing is complete, moving segments up after each message.
RECURSIVE Drain(_, _)
Drain(k, out) ==
  LET n == Whole(k.rcv_queue)
      recovers == Len(k.rcv_queue) >= RcvWnd
      taken == MoveBuf([k EXCEPT !.rcv_queue = SubSeq(@, n + 1, Len(@))])
  IN  IF n = 0 THEN [engine |-> k, out |-> out]
      ELSE Drain([taken EXCEPT !.tell = @ \/ (recovers /\ Len(taken.rcv_queue) < RcvWnd)],
                 Append(out, [i \in 1..n |-> k.rcv_queue[i].data]))

-----------------------------------------------------------------------------
(* Steps of the wire *)

KcpInit ==
  /\ \E sn \in Starts : sender = Engine(sn) /\ receiver = Engine(sn)
  /\ packets = {} /\ accepted = << >> /\ received = << >>

\* DatagramWire::send and send_reliable, through queue_kcp.
KcpSend(count, control) ==
  /\ Len(accepted) < MaxMessages /\ FitsWindow(count) /\ Admits(sender, count, control)
  /\ sender' = Queue(sender, Len(accepted) + 1, count)
  /\ accepted' = Append(accepted, count)
  /\ UNCHANGED <<receiver, packets, received>>

\* flush: the window may have moved far enough for so many more segments.
Opening(k) ==
  LET cwnd == IF SndWnd < k.rmt_wnd THEN SndWnd ELSE k.rmt_wnd
      free == TimeDiff(Advance(k.snd_una, cwnd), k.snd_nxt)
      wanted == IF free > 0 THEN free ELSE 0
  IN  IF wanted < Len(k.snd_queue) THEN wanted ELSE Len(k.snd_queue)

\* What flush does to the engine.
Flushed(k) ==
  LET n == Opening(k)
      moved == [i \in 1..n |-> [sn |-> Advance(k.snd_nxt, i - 1), frg |-> k.snd_queue[i].frg,
                                data |-> k.snd_queue[i].data]]
  IN  [k EXCEPT !.acklist = {}, !.tell = FALSE, !.snd_queue = SubSeq(@, n + 1, Len(@)),
                !.snd_buf = @ \o moved, !.snd_nxt = Advance(@, n)]

\* What flush sends: acknowledgements, window probes, new segments and some old ones.
Emitted(k, again, asks) ==
  LET segment(cmd, sn, frg, data) ==
        [cmd |-> cmd, sn |-> sn, frg |-> frg, data |-> data, wnd |-> WndUnused(k), una |-> k.rcv_nxt]
      after == Flushed(k).snd_buf
  IN  {segment("ACK", sn, 0, << >>) : sn \in k.acklist}
      \cup (IF asks THEN {segment("WASK", 0, 0, << >>)} ELSE {})
      \cup (IF k.tell THEN {segment("WINS", 0, 0, << >>)} ELSE {})
      \cup {segment("PUSH", after[i].sn, after[i].frg, after[i].data) :
              i \in again \cup (Len(k.snd_buf) + 1)..Len(after)}

\* update, as the wire's flush calls it when the engine is due.
SenderFlush ==
  \E again \in SUBSET DOMAIN sender.snd_buf, asks \in BOOLEAN :
    /\ asks => sender.rmt_wnd = 0
    /\ sender' = Flushed(sender)
    /\ packets' = packets \cup Emitted(sender, again, asks)
    /\ UNCHANGED <<receiver, accepted, received>>

ReceiverFlush ==
  /\ receiver' = Flushed(receiver)
  /\ packets' = packets \cup Emitted(receiver, {}, FALSE)
  /\ UNCHANGED <<sender, accepted, received>>

\* DatagramWire::receive: input, every complete message, and the queued bytes.
Received(k, p) ==
  LET out == Drain(InputSegment(k, p), << >>)
  IN  [out EXCEPT !.engine.queued = k.queued - WaitSnd(k) + WaitSnd(out.engine)]

KcpReceive(p) ==
  \/ /\ p.cmd \in {"PUSH", "WASK"}
     /\ receiver' = Received(receiver, p).engine
     /\ received' = received \o Received(receiver, p).out
     /\ UNCHANGED <<sender, packets, accepted>>
  \/ /\ p.cmd \in {"ACK", "WINS"}
     /\ sender' = Received(sender, p).engine
     /\ UNCHANGED <<receiver, packets, accepted, received>>

KcpNext ==
  \/ \E count \in Fragments, control \in BOOLEAN : KcpSend(count, control)
  \/ SenderFlush \/ ReceiverFlush
  \/ \E p \in packets : KcpReceive(p)

KcpSpec == KcpInit /\ [][KcpNext]_kcpVars

-----------------------------------------------------------------------------
(* Properties *)

\* The messages handed on are the messages taken, whole, in order, each once:
\* across loss, duplication, reordering, repetition and the wrap of the serials.
KcpInOrder ==
  /\ Len(received) <= Len(accepted)
  /\ \A m \in DOMAIN received : received[m] = [i \in 1..accepted[m] |-> <<m, i>>]

\* The sender gives up a segment only when the other end has it, so repetition
\* can always repair a loss; the bytes it charges are the ones it keeps; and no
\* message fills the receive window before its last fragment is there, so that
\* the window the receiver advertises never closes.
KcpKeepsUnreceived ==
  LET kept == {sender.snd_buf[i].data : i \in DOMAIN sender.snd_buf}
                \cup {sender.snd_queue[i].data : i \in DOMAIN sender.snd_queue}
      held == {receiver.rcv_buf[i].data : i \in DOMAIN receiver.rcv_buf}
                \cup {receiver.rcv_queue[i].data : i \in DOMAIN receiver.rcv_queue}
  IN  /\ \A m \in (Len(received) + 1)..Len(accepted) : \A i \in 1..accepted[m] : <<m, i>> \in kept \cup held
      /\ sender.queued = WaitSnd(sender)
      /\ \A p \in packets : p.wnd > 0
=============================================================================
