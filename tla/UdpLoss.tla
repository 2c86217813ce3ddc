------------------------------ MODULE UdpLoss -------------------------------
(***************************************************************************)
(* The loss estimate of a UDP game session.  The sender numbers its        *)
(* datagrams, and only those that were queued; the receiver's              *)
(* UdpLossTracker counts what it expected and received from the numbers    *)
(* that arrive: late, never, or, when business data is plaintext, twice.   *)
(* Numbers wrap at SeqSpace; a position is a number without the wrap.      *)
(***************************************************************************)
EXTENDS Naturals, FiniteSets, FiniteSetsExt

CONSTANTS
  SeqSpace,       \* 2^32
  ReorderWindow,  \* REORDER_WINDOW
  MaxForwardGap,  \* MAX_FORWARD_GAP
  MaxDatagrams,   \* datagrams of a behaviour
  FirstNumbers    \* numbers the sender may have come to before one arrives

ASSUME UdpLossAssumption ==
  /\ \A n \in {SeqSpace, ReorderWindow, MaxForwardGap, MaxDatagrams} : n \in Nat \ {0}
  /\ FirstNumbers \subseteq 0..(SeqSpace - 1)
  /\ ReorderWindow <= MaxForwardGap /\ MaxForwardGap < SeqSpace \div 2
  /\ MaxDatagrams <= SeqSpace \div 2

VARIABLES
  first,    \* number of position 0
  sentOut,  \* positions below it were queued by the sender
  loss,     \* the receiver's UdpLossTracker
  observed, \* history: positions that arrived
  expects,  \* history: positions between the ends of a window, arrived or not
  timely    \* history: of those, the ones that arrived less than a window late

lossVars == <<first, sentOut, loss, observed, expects, timely>>

NoLoss == [some |-> FALSE, highest |-> 0, seen |-> {}, span |-> 0, expected |-> 0, received |-> 0]

LossInit ==
  /\ first \in FirstNumbers /\ sentOut = 0 /\ loss = NoLoss
  /\ observed = {} /\ expects = {} /\ timely = {}

Number(p) == (first + p) % SeqSpace

\* UdpLossTracker::observe ahead of the highest number: seen holds distances behind it.
Ahead(l, sequence, forward) ==
  IF forward > MaxForwardGap
  THEN [l EXCEPT !.highest = sequence, !.seen = {0}, !.span = 1, !.expected = @ + 1, !.received = @ + 1]
  ELSE [l EXCEPT !.highest = sequence,
                 !.seen = {d \in {n + forward : n \in @} : d < ReorderWindow} \cup {0},
                 !.span = @ + forward, !.expected = @ + forward, !.received = @ + 1]

\* A slip: what came before the window began counts as received late.
BehindAny(l, behind) ==
  IF behind >= ReorderWindow \/ behind \in l.seen THEN l
  ELSE [l EXCEPT !.seen = @ \cup {behind}, !.received = @ + 1]

\* UdpLossTracker::observe behind it: too old, a duplicate or reordered.
Behind(l, behind) ==
  IF behind >= ReorderWindow \/ behind >= l.span \/ behind \in l.seen THEN l
  ELSE [l EXCEPT !.seen = @ \cup {behind}, !.received = @ + 1]

\* UdpLossTracker::observe
ObserveSequence(l, sequence) ==
  LET forward == (SeqSpace + sequence - l.highest) % SeqSpace
      behind == (SeqSpace + l.highest - sequence) % SeqSpace
  IN  IF ~l.some
      THEN [some |-> TRUE, highest |-> sequence, seen |-> {0}, span |-> 1, expected |-> 1, received |-> 1]
      ELSE IF forward = 0 THEN l
      ELSE IF forward < SeqSpace \div 2 THEN Ahead(l, sequence, forward)
      ELSE Behind(l, behind)

\* send_game_application: the number advances after a successful enqueue.
SendDatagram ==
  /\ sentOut < MaxDatagrams /\ sentOut' = sentOut + 1
  /\ UNCHANGED <<first, loss, observed, expects, timely>>

\* observe_datagram_sequence
ObserveDatagram(p) ==
  LET newest == IF observed = {} THEN p ELSE Max(observed)
      from == IF observed = {} \/ p > newest + MaxForwardGap THEN p ELSE newest + 1
  IN  /\ p < sentOut
      /\ loss' = ObserveSequence(loss, Number(p))
      /\ observed' = observed \cup {p}
      /\ expects' = expects \cup from..p
      /\ timely' = timely \cup {q \in {p} \cap expects' : newest < q + ReorderWindow}
      /\ UNCHANGED <<first, sentOut>>

LossNext == SendDatagram \/ \E p \in 0..(MaxDatagrams - 1) : ObserveDatagram(p)

LossSpec == LossInit /\ [][LossNext]_lossVars

-----------------------------------------------------------------------------
(* Properties *)

\* UdpLossTracker::snapshot
RecentExpected(l) == IF l.span < ReorderWindow THEN l.span ELSE ReorderWindow
RecentMissing(l) == RecentExpected(l) - Cardinality(l.seen)

\* The recent loss is exact: of the positions in the reorder window, those that did not
\* arrive, however the arrivals were ordered or repeated and across the wrap.  The totals
\* are exact: every expected position counts once, a jump counts for none it passes, and
\* received are those that arrived, at first or again, before the window had left them.
LossIsExact ==
  loss.some =>
    LET newest == Max(observed)
        recent == {p \in expects : newest < p + RecentExpected(loss)}
    IN  /\ Cardinality(recent) = RecentExpected(loss)
        /\ RecentMissing(loss) = Cardinality(recent \ observed)
        /\ loss.expected = Cardinality(expects)
        /\ loss.received = Cardinality(timely)
=============================================================================
