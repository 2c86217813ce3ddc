--------------------------- MODULE ClockSyncProofs --------------------------
(***************************************************************************)
(* The error of a clock sample is bounded by its round trip, for all ages  *)
(* of the two runtimes (so for every offset between them, of either sign), *)
(* every interval and timeout and every number of probes.  What carries    *)
(* the argument is that every time in a message was read from a clock      *)
(* before it was sent, wherever the message is: nonces and the freshness   *)
(* checks of the tracker decide which samples are taken, not how good they *)
(* are.                                                                    *)
(***************************************************************************)
EXTENDS ClockSync, TLAPS

Stamp == [kind: {"Probe", "Reply"}, nonce: Nat, t1: Nat, t2: Nat, t3: Nat, at: Nat]
Sample == [offset: Int, rtt: Nat, samples: Nat]
Tracker == [last_sent: Int, pending: [nonce: Nat, t1: Nat, sent_at: Nat], sample: Sample]

\* A probe carries a time the client's clock has shown.
Asked(m, now) == m.t1 <= now + age["client"]

\* The server's part of a reply happened between the client's sending and now.
Answered(m, now) ==
  m.t1 + age["server"] <= m.t2 + age["client"] /\ m.t2 <= m.t3 /\ m.t3 <= now + age["server"]

Honest(s) == s.samples > 0 => 2 * Distance(s.offset, ServerMinusClient) <= s.rtt + 1

\* The inductive invariant.
ClockInv ==
  /\ time \in Nat /\ nonces \in Nat /\ age \in [{"client", "server"} -> Nat]
  /\ client \in Tracker /\ Honest(client.sample)
  /\ controls \subseteq Stamp
  /\ \A m \in controls : IF m.kind = "Probe" THEN Asked(m, time) ELSE Answered(m, time)
  /\ arrivals \in [{"client", "server"} -> Seq(Stamp)]
  /\ \A i \in DOMAIN arrivals["server"] :
       LET m == arrivals["server"][i] IN m.kind = "Probe" /\ Asked(m, m.at) /\ m.at <= time
  /\ \A i \in DOMAIN arrivals["client"] :
       LET m == arrivals["client"][i] IN Answered(m, m.at) /\ m.at <= time

-----------------------------------------------------------------------------

\* Halving towards zero is off by at most one half.
LEMMA HalvedClose ==
  ASSUME NEW n \in Int
  PROVE  Halved(n) \in Int /\ 2 * Halved(n) <= n + 1 /\ n <= 2 * Halved(n) + 1
<1>1. ASSUME NEW k \in Nat  PROVE  k \div 2 \in Nat /\ 2 * (k \div 2) <= k /\ k <= 2 * (k \div 2) + 1
  BY <1>1
<1>2. CASE n >= 0
  BY <1>1, <1>2 DEF Halved
<1>3. CASE ~(n >= 0)
  <2>1. -n \in Nat  BY <1>3
  <2>2. /\ (-n) \div 2 \in Nat
        /\ 2 * ((-n) \div 2) <= -n
        /\ -n <= 2 * ((-n) \div 2) + 1
    BY <1>1, <2>1
  <2> QED  BY <1>3, <2>2 DEF Halved
<1> QED  BY <1>2, <1>3

\* A sample of times that were read in their order is honest: calculate_sample.
LEMMA SampleHonest ==
  ASSUME NEW t1 \in Nat, NEW t2 \in Nat, NEW t3 \in Nat, NEW t4 \in Nat, NEW offset \in Int,
         t1 + offset <= t2, t2 <= t3, t3 <= t4 + offset
  PROVE  LET s == CalculateSample(t1, t2, t3, t4)
         IN  s \in Sample /\ (s # NoSample => 2 * Distance(s.offset, offset) <= s.rtt + 1)
<1> DEFINE x == (t2 - t1) + (t3 - t4)
           s == CalculateSample(t1, t2, t3, t4)
<1>1. CASE t3 < t2 \/ t4 < t1 \/ t4 - t1 < t3 - t2
  <2>1. s = NoSample  BY <1>1 DEF CalculateSample
  <2> QED  BY <2>1 DEF Sample, NoSample
<1>2. CASE ~(t3 < t2 \/ t4 < t1 \/ t4 - t1 < t3 - t2)
  <2>1. s = [offset |-> Halved(x), rtt |-> (t4 - t1) - (t3 - t2), samples |-> 1]
    BY <1>2 DEF CalculateSample
  <2>2. Halved(x) \in Int /\ 2 * Halved(x) <= x + 1 /\ x <= 2 * Halved(x) + 1
    BY HalvedClose
  <2>3. (t4 - t1) - (t3 - t2) \in Nat
    BY <1>2
  <2>4. 2 * Distance(Halved(x), offset) <= (t4 - t1) - (t3 - t2) + 1
    BY <2>2 DEF Distance
  <2> QED  BY <2>1, <2>2, <2>3, <2>4 DEF Sample
<1> QED  BY <1>1, <1>2

\* accept_reply keeps the tracker honest if the reply it is given is.
LEMMA AcceptHonest ==
  ASSUME age \in [{"client", "server"} -> Nat], client \in Tracker, Honest(client.sample),
         NEW m \in Stamp, Answered(m, m.at)
  PROVE  AcceptReply(m) \in Tracker /\ Honest(AcceptReply(m).sample)
<1> DEFINE p == client.pending
           s == CalculateSample(m.t1, m.t2, m.t3, ClockAt("client", m.at))
           n == [s EXCEPT !.samples = client.sample.samples + 1]
<1>1. s \in Sample /\ (s # NoSample => 2 * Distance(s.offset, ServerMinusClient) <= s.rtt + 1)
  <2> DEFINE t4 == ClockAt("client", m.at)
  <2>1. m.t1 \in Nat /\ m.t2 \in Nat /\ m.t3 \in Nat /\ t4 \in Nat /\ ServerMinusClient \in Int
    BY DEF Stamp, ClockAt, ServerMinusClient
  <2>2. m.t1 + ServerMinusClient <= m.t2 /\ m.t2 <= m.t3 /\ m.t3 <= t4 + ServerMinusClient
    BY DEF Stamp, Answered, ClockAt, ServerMinusClient
  <2> QED  BY <2>1, <2>2, SampleHonest
<1>2. \/ AcceptReply(m) = client
      \/ s # NoSample /\ AcceptReply(m) = [last_sent |-> m.at, pending |-> NoProbe, sample |-> n]
  <2> DEFINE refused == \/ p = NoProbe \/ m.nonce # p.nonce \/ m.t1 # p.t1
                        \/ m.at < p.sent_at \/ m.at - p.sent_at > ClockTimeout \/ s = NoSample
  <2>1. AcceptReply(m) = IF refused THEN client
                         ELSE [last_sent |-> m.at, pending |-> NoProbe, sample |-> n]
    BY DEF AcceptReply
  <2>2. s = NoSample => refused
    OBVIOUS
  <2> HIDE DEF refused, s, n
  <2> QED  BY <2>1, <2>2
<1>3. CASE AcceptReply(m) = client
  BY <1>3
<1>4. CASE s # NoSample /\ AcceptReply(m) = [last_sent |-> m.at, pending |-> NoProbe, sample |-> n]
  <2> HIDE DEF s
  <2>1. n \in Sample /\ n.offset = s.offset /\ n.rtt = s.rtt
    BY <1>1 DEF Sample, Tracker
  <2>2. NoProbe \in [nonce: Nat, t1: Nat, sent_at: Nat] /\ m.at \in Int
    BY DEF NoProbe, Stamp
  <2> HIDE DEF n
  <2>3. AcceptReply(m).sample = n
    BY <1>4
  <2>4. AcceptReply(m) \in Tracker
    BY <1>4, <2>1, <2>2 DEF Tracker
  <2> QED  BY <1>1, <1>4, <2>1, <2>3, <2>4 DEF Honest
<1> QED  BY <1>2, <1>3, <1>4

-----------------------------------------------------------------------------

LEMMA ClockInitial == ClockInit => ClockInv
<1> SUFFICES ASSUME ClockInit PROVE ClockInv
  OBVIOUS
<1>1. client \in Tracker /\ Honest(client.sample)
  BY DEF ClockInit, Tracker, Honest, Never, NoProbe, NoSample, Sample
<1>2. age \in [{"client", "server"} -> Nat]
  BY ClockAssumption DEF ClockInit
<1> QED  BY <1>1, <1>2 DEF ClockInit, ClockInv

LEMMA ClockStep == ClockInv /\ [ClockNext]_clockVars => ClockInv'
<1> SUFFICES ASSUME ClockInv, [ClockNext]_clockVars PROVE ClockInv'
  OBVIOUS
<1>1. CASE ClockTick
  <2>1. time' \in Nat /\ time < time'
    BY <1>1 DEF ClockInv, ClockTick
  <2>2. \A m \in Stamp :
          /\ Asked(m, time) => Asked(m, time')
          /\ m.at <= time => m.at <= time'
          /\ Answered(m, time) => Answered(m, time')
    <3>1. time \in Nat /\ age["client"] \in Nat /\ age["server"] \in Nat
      BY DEF ClockInv
    <3> QED  BY <2>1, <3>1 DEF Asked, Answered, Stamp
  <2>3. \A k \in {"client", "server"} : \A i \in DOMAIN arrivals[k] : arrivals[k][i] \in Stamp
    BY DEF ClockInv
  <2>4. \A m \in controls : IF m.kind = "Probe" THEN Asked(m, time') ELSE Answered(m, time')
    <3> TAKE m \in controls
    <3>1. m \in Stamp /\ (IF m.kind = "Probe" THEN Asked(m, time) ELSE Answered(m, time))
      BY DEF ClockInv
    <3> QED  BY <2>2, <3>1
  <2>5. \A i \in DOMAIN arrivals["server"] :
          LET m == arrivals["server"][i] IN m.kind = "Probe" /\ Asked(m, m.at) /\ m.at <= time'
    <3> TAKE i \in DOMAIN arrivals["server"]
    <3> DEFINE m == arrivals["server"][i]
    <3>1. m \in Stamp /\ m.kind = "Probe" /\ Asked(m, m.at) /\ m.at <= time
      BY <2>3 DEF ClockInv
    <3> QED  BY <2>2, <3>1
  <2>6. \A i \in DOMAIN arrivals["client"] :
          LET m == arrivals["client"][i] IN Answered(m, m.at) /\ m.at <= time'
    <3> TAKE i \in DOMAIN arrivals["client"]
    <3> DEFINE m == arrivals["client"][i]
    <3>1. m \in Stamp /\ Answered(m, m.at) /\ m.at <= time
      BY <2>3 DEF ClockInv
    <3> QED  BY <2>2, <3>1
  <2> QED  BY <1>1, <2>1, <2>4, <2>5, <2>6 DEF ClockInv, ClockTick, Asked, Answered, Honest, ServerMinusClient
<1>2. CASE ClientHandles
  <2> DEFINE q == arrivals["client"]
  <2>1. q \in Seq(Stamp) /\ q # << >>
    BY <1>2 DEF ClockInv, ClientHandles
  <2>2. /\ Head(q) \in Stamp /\ Head(q) = q[1] /\ 1 \in DOMAIN q
        /\ Tail(q) \in Seq(Stamp)
        /\ \A i \in DOMAIN Tail(q) : i + 1 \in DOMAIN q /\ Tail(q)[i] = q[i + 1]
    BY <2>1
  <2>3. client' \in Tracker /\ Honest(client'.sample)
    BY <1>2, <2>2, AcceptHonest DEF ClockInv, ClientHandles
  <2>4. /\ arrivals' \in [{"client", "server"} -> Seq(Stamp)]
        /\ arrivals'["client"] = Tail(q) /\ arrivals'["server"] = arrivals["server"]
    BY <1>2, <2>2 DEF ClockInv, ClientHandles
  <2>5. \A i \in DOMAIN arrivals'["client"] :
          LET m == arrivals'["client"][i] IN Answered(m, m.at) /\ m.at <= time
    BY <2>2, <2>4 DEF ClockInv
  <2> QED  BY <1>2, <2>3, <2>4, <2>5 DEF ClockInv, ClientHandles, Honest, Asked, Answered, ServerMinusClient
<1>3. ASSUME NEW m \in controls, ClockArrive(m)  PROVE ClockInv'
  <2> DEFINE side == IF m.kind = "Probe" THEN "server" ELSE "client"
             a == [m EXCEPT !.at = time]
  <2>1. /\ a \in Stamp /\ a.at = time /\ a.kind = m.kind
        /\ a.t1 = m.t1 /\ a.t2 = m.t2 /\ a.t3 = m.t3 /\ m.kind \in {"Probe", "Reply"}
    BY <1>3 DEF ClockInv, Stamp
  <2> HIDE DEF a
  <2>2. arrivals' = [arrivals EXCEPT ![side] = Append(@, a)]
    BY <1>3 DEF ClockArrive, a
  <2>3. /\ arrivals' \in [{"client", "server"} -> Seq(Stamp)]
        /\ \A k \in {"client", "server"} :
             arrivals'[k] = IF k = side THEN Append(arrivals[k], a) ELSE arrivals[k]
    BY <2>1, <2>2 DEF ClockInv
  <2>4. \A k \in {"client", "server"} : \A i \in DOMAIN arrivals'[k] :
          \/ i \in DOMAIN arrivals[k] /\ arrivals'[k][i] = arrivals[k][i]
          \/ k = side /\ arrivals'[k][i] = a
    <3> SUFFICES ASSUME NEW k \in {"client", "server"}, NEW i \in DOMAIN arrivals'[k]
                 PROVE  \/ i \in DOMAIN arrivals[k] /\ arrivals'[k][i] = arrivals[k][i]
                        \/ k = side /\ arrivals'[k][i] = a
      OBVIOUS
    <3>1. arrivals[k] \in Seq(Stamp)  BY DEF ClockInv
    <3>2. CASE k # side  BY <2>3, <3>2
    <3>3. CASE k = side
      <4>1. arrivals'[k] = Append(arrivals[k], a)  BY <2>3, <3>3
      <4> QED  BY <3>1, <3>3, <4>1
    <3> QED  BY <3>2, <3>3
  <2>5. IF m.kind = "Probe" THEN Asked(a, a.at) ELSE Answered(a, a.at)
    BY <1>3, <2>1 DEF ClockInv, Asked, Answered
  <2>6. a.at <= time
    BY <2>1 DEF ClockInv
  <2>7. \A i \in DOMAIN arrivals'["server"] :
          LET n == arrivals'["server"][i] IN n.kind = "Probe" /\ Asked(n, n.at) /\ n.at <= time
    BY <2>1, <2>4, <2>5, <2>6 DEF ClockInv
  <2>8. \A i \in DOMAIN arrivals'["client"] :
          LET n == arrivals'["client"][i] IN Answered(n, n.at) /\ n.at <= time
    BY <2>4, <2>5, <2>6 DEF ClockInv
  <2> QED  BY <1>3, <2>3, <2>7, <2>8 DEF ClockInv, ClockArrive, Asked, Answered, Honest, ServerMinusClient
<1>4. ASSUME NEW fits \in BOOLEAN, DriveClock(fits)  PROVE ClockInv'
  <2>1. NoProbe \in [nonce: Nat, t1: Nat, sent_at: Nat]
    BY DEF NoProbe
  <2>2. client' \in Tracker /\ client'.sample = client.sample
    <3>1. CASE fits
      <4> DEFINE p == [nonce |-> nonces + 1, t1 |-> ClockAt("client", time), sent_at |-> time]
      <4>1. p \in [nonce: Nat, t1: Nat, sent_at: Nat] /\ time \in Int
        BY DEF ClockInv, ClockAt
      <4>2. client' = [client EXCEPT !.last_sent = time, !.pending = p]
        BY <1>4, <3>1 DEF DriveClock
      <4> HIDE DEF p
      <4> QED  BY <4>1, <4>2 DEF ClockInv, Tracker
    <3>2. CASE ~fits
      <4> DEFINE p == IF Expires THEN NoProbe ELSE client.pending
      <4>1. p \in [nonce: Nat, t1: Nat, sent_at: Nat]
        BY <2>1 DEF ClockInv, Tracker
      <4>2. client' = [client EXCEPT !.pending = p]
        BY <1>4, <3>2 DEF DriveClock
      <4> HIDE DEF p
      <4> QED  BY <4>1, <4>2 DEF ClockInv, Tracker
    <3> QED  BY <3>1, <3>2
  <2>3. /\ controls' \subseteq Stamp
        /\ \A m \in controls' : m \in controls \/ (m.kind = "Probe" /\ m.t1 = time + age["client"])
    BY <1>4 DEF ClockInv, DriveClock, Stamp, ClockAt, ProbePacket
  <2>4. nonces' \in Nat
    BY <1>4 DEF ClockInv, DriveClock
  <2> QED  BY <1>4, <2>2, <2>3, <2>4 DEF ClockInv, DriveClock, Asked, Answered, Honest, ServerMinusClient
<1>5. ASSUME NEW fits \in BOOLEAN, ServerHandles(fits)  PROVE ClockInv'
  <2> DEFINE q == arrivals["server"]
             m == Head(q)
             r == ReplyPacket(m, ClockAt("server", m.at), ClockAt("server", time))
  <2>1. q \in Seq(Stamp) /\ q # << >>
    BY <1>5 DEF ClockInv, ServerHandles
  <2>2. /\ m \in Stamp /\ m = q[1] /\ 1 \in DOMAIN q
        /\ Tail(q) \in Seq(Stamp)
        /\ \A i \in DOMAIN Tail(q) : i + 1 \in DOMAIN q /\ Tail(q)[i] = q[i + 1]
    BY <2>1
  <2>3. Asked(m, m.at) /\ m.at <= time
    BY <2>2 DEF ClockInv
  <2>4. r \in Stamp /\ r.kind = "Reply" /\ r.t1 = m.t1 /\ r.t2 = m.at + age["server"] /\ r.t3 = time + age["server"]
    <3> HIDE DEF m
    <3>1. m.at \in Nat /\ age["server"] \in Nat
      BY <2>2 DEF ClockInv, Stamp
    <3>2. /\ ClockAt("server", m.at) = m.at + age["server"] /\ m.at + age["server"] \in Nat
          /\ ClockAt("server", time) = time + age["server"] /\ time + age["server"] \in Nat
      BY <3>1 DEF ClockInv, ClockAt
    <3> QED  BY <2>2, <3>2 DEF Stamp, ReplyPacket
  <2>5. Answered(r, time)
    <3> HIDE DEF m, r
    <3>1. m.t1 \in Nat /\ m.at \in Nat /\ time \in Nat /\ age["client"] \in Nat /\ age["server"] \in Nat
      BY <2>2 DEF ClockInv, Stamp
    <3> QED  BY <2>3, <2>4, <3>1 DEF Asked, Answered
  <2>6. controls' \subseteq controls \cup {r}
    BY <1>5 DEF ServerHandles
  <2>7. /\ arrivals' \in [{"client", "server"} -> Seq(Stamp)]
        /\ arrivals'["server"] = Tail(q) /\ arrivals'["client"] = arrivals["client"]
    BY <1>5, <2>2 DEF ClockInv, ServerHandles
  <2>8. \A i \in DOMAIN arrivals'["server"] :
          LET n == arrivals'["server"][i] IN n.kind = "Probe" /\ Asked(n, n.at) /\ n.at <= time
    BY <2>2, <2>7 DEF ClockInv
  <2> HIDE DEF r, m
  <2>9. controls' \subseteq Stamp /\ \A n \in controls' : IF n.kind = "Probe" THEN Asked(n, time) ELSE Answered(n, time)
    BY <2>4, <2>5, <2>6 DEF ClockInv
  <2> QED  BY <1>5, <2>7, <2>8, <2>9 DEF ClockInv, ServerHandles, Asked, Answered, Honest, ServerMinusClient
<1>6. CASE UNCHANGED clockVars
  BY <1>6 DEF ClockInv, clockVars, Asked, Answered, Honest, ServerMinusClient
<1> QED  BY <1>1, <1>2, <1>3, <1>4, <1>5, <1>6 DEF ClockNext

\* Whatever the network does to the controls and whenever the two sides poll, the offset the
\* client reports is within half the round trip it reports of the server's true offset, for
\* every pair of ages the runtimes may have: the server's may be the younger one.
THEOREM ClockErrorIsBounded == ClockSpec => []ClockErrorBounded
<1>1. ClockInv => ClockErrorBounded
  BY DEF ClockInv, ClockErrorBounded, Honest
<1> QED  BY <1>1, ClockInitial, ClockStep, PTL DEF ClockSpec
=============================================================================
