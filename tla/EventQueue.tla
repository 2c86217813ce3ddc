----------------------------- MODULE EventQueue -----------------------------
(***************************************************************************)
(* rnet-core's EventQueue: the bounded FIFO every transport task publishes *)
(* into and the application polls.  Each operation runs under the queue    *)
(* lock and is one step, except that a poll of an empty queue and a        *)
(* push_timeout into a full one wait on a condition variable and go on     *)
(* when they are notified, time out or wake for no reason.                 *)
(*                                                                         *)
(* An event is its class and the length of its payload.  "data" stands for *)
(* Message, Writable and GameControl, "report" for SessionClosed,          *)
(* JoinFailed and EndpointError, "state" for all the others.               *)
(***************************************************************************)
EXTENDS Naturals, Sequences, SequencesExt, FiniteSetsExt

CONSTANTS
  Pollers, Producers,
  Capacity,         \* capacity
  ByteCapacity,     \* byte_capacity
  Sizes,            \* payload lengths
  Polls,            \* what polls ask for: how many events and bytes at most
  MaxEvents         \* bound: events admitted

ASSUME QueueAssumption ==
  /\ Capacity \in Nat \ {0} /\ ByteCapacity \in Nat \ {0} /\ MaxEvents \in Nat
  /\ Sizes \subseteq Nat /\ Polls \subseteq [take: Nat \ {0}, limit: Nat]

VARIABLES
  queue,        \* queue, each entry with its position in the log
  queuedBytes,  \* queued_bytes
  poller,       \* what each poller is doing, and what it asked for
  producer,     \* the event a waiting push_timeout holds
  log,          \* events admitted, as their producers offered them
  delivered,    \* events polled
  refused       \* a notified poller found events it could not take

vars == <<queue, queuedBytes, poller, producer, log, delivered, refused>>

Events == [class: {"data", "report", "state"}, size: Sizes]
Idle == [at |-> "idle"]
NoEvent == [class |-> "none"]

Init ==
  /\ queue = << >> /\ queuedBytes = 0
  /\ poller = [p \in Pollers |-> Idle]
  /\ producer = [r \in Producers |-> NoEvent]
  /\ log = << >> /\ delivered = << >> /\ refused = FALSE

-----------------------------------------------------------------------------
Bytes(q) == FoldSeq(LAMBDA e, sum : e.size + sum, 0, q)

Fits(q, bytes, e) == Len(q) # Capacity /\ bytes + e.size <= ByteCapacity

Waiting == {p \in Pollers : poller[p].at = "waiting"}

\* A slip: only the first event wakes a poller.
NotifyIfEmpty(was) ==
  IF was # << >> \/ Waiting = {} THEN UNCHANGED poller
  ELSE \E p \in Waiting : poller' = [poller EXCEPT ![p].at = "notified"]

\* available.notify_one: wakes one of those that wait, and is lost on nobody.
Notify(was) ==
  IF Waiting = {} THEN UNCHANGED poller
  ELSE \E p \in Waiting : poller' = [poller EXCEPT ![p].at = "notified"]

\* e, offered as it stands in the log, goes behind q with the payload it kept.
Append1(q, bytes, e, kept) ==
  /\ log' = Append(log, e)
  /\ queue' = Append(q, [id |-> Len(log) + 1, class |-> e.class, size |-> kept])
  /\ queuedBytes' = bytes + kept
  /\ Notify(queue)
  /\ UNCHANGED <<delivered, refused>>

TryPush(e) ==
  /\ Fits(queue, queuedBytes, e)
  /\ Append1(queue, queuedBytes, e, e.size)
  /\ UNCHANGED producer

-----------------------------------------------------------------------------
(* push_priority *)

IsData(e) == e.class = "data"

\* A slip: the oldest notifications go, whatever they are.
WithoutAny(q, k) == SubSeq(q, k + 1, Len(q))

\* A slip: the newest data goes first.
WithoutNewest(q, k) ==
  LET gone(i) == IsData(q[i]) /\ Len(SelectSeq(SubSeq(q, i, Len(q)), IsData)) <= k
      ids == {q[i].id : i \in {j \in DOMAIN q : gone(j)}}
  IN  SelectSeq(q, LAMBDA e : e.id \notin ids)

\* q without its k oldest data notifications.
Without(q, k) ==
  LET gone(i) == IsData(q[i]) /\ Len(SelectSeq(SubSeq(q, 1, i), IsData)) <= k
      ids == {q[i].id : i \in {j \in DOMAIN q : gone(j)}}
  IN  SelectSeq(q, LAMBDA e : e.id \notin ids)

\* The payload that is kept: a report's diagnostics go if they do not fit now.
Strip(e) ==
  IF e.class = "report" /\ queuedBytes + e.size > ByteCapacity THEN 0 ELSE e.size

\* Data is evicted one by one until the event fits.  When nothing is left to
\* evict the event is rejected, and what was evicted stays evicted.
PushPriority(e) ==
  LET kept == Strip(e)
      n    == Len(SelectSeq(queue, IsData))
      left(k)  == Without(queue, k)
      bytes(k) == queuedBytes - (Bytes(queue) - Bytes(left(k)))
      enough == {k \in 0 .. n : Fits(left(k), bytes(k), [e EXCEPT !.size = kept])}
  IN  /\ kept <= ByteCapacity
      /\ IF enough # {}
         THEN Append1(left(Min(enough)), bytes(Min(enough)), e, kept)
         ELSE /\ queue' = left(n) /\ queuedBytes' = bytes(n)
              /\ UNCHANGED <<poller, log, delivered, refused>>
      /\ UNCHANGED producer

-----------------------------------------------------------------------------
(* push_timeout *)

PushTimeout(r, e) ==
  /\ producer[r] = NoEvent
  /\ IF Fits(queue, queuedBytes, e)
     THEN Append1(queue, queuedBytes, e, e.size) /\ UNCHANGED producer
     ELSE /\ producer' = [producer EXCEPT ![r] = e]
          /\ UNCHANGED <<queue, queuedBytes, poller, log, delivered, refused>>

\* Notified with room or timed out; with no room it gives up or waits on.
Resume(r) ==
  /\ producer[r] # NoEvent
  /\ producer' = [producer EXCEPT ![r] = NoEvent]
  /\ IF Fits(queue, queuedBytes, producer[r])
     THEN Append1(queue, queuedBytes, producer[r], producer[r].size)
     ELSE UNCHANGED <<queue, queuedBytes, poller, log, delivered, refused>>

-----------------------------------------------------------------------------
(* poll_with_byte_limit *)

\* A slip: the budget is not returned.
TakeUnreleased(p, take, limit) ==
  LET n == Max({k \in 0 .. Len(queue) :
                  k <= take /\ Bytes(SubSeq(queue, 1, k)) <= limit})
  IN  /\ queue' = SubSeq(queue, n + 1, Len(queue))
      /\ UNCHANGED queuedBytes
      /\ delivered' = delivered \o SubSeq(queue, 1, n)
      /\ refused' = (queue' # << >> /\ (refused \/ (n = 0 /\ poller[p].at = "notified")))
      /\ poller' = [poller EXCEPT ![p] = Idle]

\* The longest prefix within both limits leaves the queue.
Take(p, take, limit) ==
  LET n == Max({k \in 0 .. Len(queue) :
                  k <= take /\ Bytes(SubSeq(queue, 1, k)) <= limit})
  IN  /\ queue' = SubSeq(queue, n + 1, Len(queue))
      /\ queuedBytes' = queuedBytes - Bytes(SubSeq(queue, 1, n))
      /\ delivered' = delivered \o SubSeq(queue, 1, n)
      /\ refused' = (queue' # << >> /\ (refused \/ (n = 0 /\ poller[p].at = "notified")))
      /\ poller' = [poller EXCEPT ![p] = Idle]

Poll(p, take, limit) ==
  /\ poller[p] = Idle
  /\ \/ /\ queue = << >>                    \* a positive timeout
        /\ poller' = [poller EXCEPT ![p] =
             [at |-> "waiting", take |-> take, limit |-> limit]]
        /\ UNCHANGED <<queue, queuedBytes, delivered, refused>>
     \/ Take(p, take, limit)
  /\ UNCHANGED <<producer, log>>

\* Notified, timed out or woken for no reason: one look, then it returns.
Wake(p) ==
  /\ poller[p] # Idle
  /\ Take(p, poller[p].take, poller[p].limit)
  /\ UNCHANGED <<producer, log>>

-----------------------------------------------------------------------------
Next ==
  \/ /\ Len(log) < MaxEvents
     /\ \/ \E e \in Events : TryPush(e)
        \/ \E e \in Events : e.class # "data" /\ PushPriority(e)
        \/ \E r \in Producers : Resume(r) \/ \E e \in Events : PushTimeout(r, e)
  \/ \E p \in Pollers :
       \/ Wake(p)
       \/ \E ask \in Polls : Poll(p, ask.take, ask.limit)

Spec == Init /\ [][Next]_vars

-----------------------------------------------------------------------------
(* Properties *)

\* The byte counter is what the queued payloads add up to, whatever was
\* evicted, stripped and polled: no path leaks budget or returns it twice, and
\* neither limit is ever exceeded.
BudgetIsExact ==
  /\ queuedBytes = Bytes(queue)
  /\ queuedBytes <= ByteCapacity /\ Len(queue) <= Capacity

\* Events come out in the order they were admitted, a lifecycle event that was
\* admitted is never lost to a later one ("an already published lifecycle
\* history is never rewritten"), and only a report is ever published without
\* its payload: authorization requests and data "must never be stripped".
HistoryKept ==
  LET out == delivered \o queue
      ids == {out[i].id : i \in DOMAIN out}
  IN  /\ \A i \in 1 .. Len(out) - 1 : out[i].id < out[i + 1].id
      /\ \A i \in DOMAIN log : log[i].class = "data" \/ i \in ids
      /\ \A i \in DOMAIN out :
           /\ out[i].class = log[out[i].id].class
           /\ out[i].size = log[out[i].id].size
                \/ (out[i].class = "report" /\ out[i].size = 0)

\* Positions of the queue whose events a step drops or hands out.
Dropped == {i \in DOMAIN queue : \A j \in DOMAIN queue' : queue'[j].id # queue[i].id}

\* An event that is dropped from the queue was data older than all the data
\* that stays, was dropped for an event that would not have fitted otherwise,
\* or for one that was rejected because no data was left.
EvictsOnlyForRoom ==
  [][delivered' = delivered =>
       /\ \A i \in Dropped : /\ IsData(queue[i])
                             /\ \A j \in 1 .. i : IsData(queue[j]) => j \in Dropped
       /\ log' = log => Dropped = {} \/ \A j \in DOMAIN queue' : ~IsData(queue'[j])
       /\ log' # log /\ Dropped # {} =>
            \/ Len(queue') = Capacity      \* the last one evicted had to go
            \/ queuedBytes' + queue[Max(Dropped)].size > ByteCapacity]_vars

\* While events are queued, nobody waits for a notification that has been
\* spent: some poller is on its way, or one was and its byte limit refused.
NoLostWakeup ==
  queue # << >> /\ Waiting # {} =>
    refused \/ \E p \in Pollers : poller[p].at = "notified"
=============================================================================
