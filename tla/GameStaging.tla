---------------------------- MODULE GameStaging -----------------------------
(***************************************************************************)
(* What rnet-game keeps between a send call and the transport: the weighted*)
(* queue of scheduled messages, the latest-value queue of snapshots, and   *)
(* SendAdmission, the lock that makes closing a session or stopping the    *)
(* runtime leave nothing of it behind.                                     *)
(*                                                                         *)
(* Application threads stage; polling, flushing, closing and stopping hold *)
(* poll_guard.  A flush takes a message out, gives it to the transport     *)
(* with no queue locked, and settles it afterwards; the transport takes    *)
(* it, is full or fails.  A flush of n messages is n flushes of one.       *)
(* Whether a deadline has passed when a message is looked at is free.      *)
(***************************************************************************)
EXTENDS Naturals, Sequences, FiniteSets, SequencesExt, FiniteSetsExt

CONSTANTS
  Threads,            \* application threads
  Players,            \* sessions, all of them ready at first
  SnapshotKeys,       \* keys of snapshots
  WeightedOrder,      \* WEIGHTED_ORDER: a sequence of priority classes
  StageSizes,         \* reserved bytes of a message, its envelope included
  MaxStagedBytes, MaxPlayerBytes, MaxStagedMessages,  \* ScheduledQueueConfig
  MaxSnapshotBytes, MaxPlayerSnapshotBytes,           \* RealtimeQueueConfig
  MaxPlayerKeys, MaxPendingKeys,
  Workloads,          \* sets of requests: what the threads of one behaviour send
  MaxStaged           \* send calls in a behaviour

Classes == Range(WeightedOrder)

ScheduledRequests ==
  [kind : {"scheduled"}, player : Players, class : Classes, size : StageSizes, expires : BOOLEAN, value : {0}]
LatestRequests == [kind : {"latest"}, player : Players, key : SnapshotKeys, size : StageSizes]

ASSUME StagingAssumption ==
  /\ Workloads \subseteq SUBSET (ScheduledRequests \cup LatestRequests)
  /\ WeightedOrder # << >> /\ StageSizes \subseteq Nat \ {0}
  /\ \A n \in {MaxStagedBytes, MaxPlayerBytes, MaxStagedMessages, MaxSnapshotBytes,
               MaxPlayerSnapshotBytes, MaxPlayerKeys, MaxPendingKeys, MaxStaged} : n \in Nat \ {0}

VARIABLES
  scheduled,  \* ScheduledQueue
  realtime,   \* LatestQueue
  ready,      \* SendAdmission::ready
  stopping,   \* SendAdmission::stopping
  inside,     \* per thread, the request it is admitting under the read lock
  guard,      \* who holds poll_guard, and what it has in hand
  workload,   \* the requests of this behaviour
  staged,     \* number of send calls, which also numbers what they stage
  newest,     \* history: per slot, the last value staged, 0 once that one was dropped
  flushed,    \* history: per slot, the last value the transport took
  skipped     \* history: per class, messages taken from others while it had some

stagingVars == <<scheduled, realtime, ready, stopping, inside, guard, workload, staged, newest, flushed, skipped>>

Slots == Players \X SnapshotKeys
NoRequest == [kind |-> "none"]
FreeGuard == [kind |-> "free"]

-----------------------------------------------------------------------------
(* ScheduledQueue *)

NoScheduled ==
  [order |-> [c \in Classes |-> << >>], messages |-> [c \in Classes |-> [p \in Players |-> << >>]],
   bytes |-> [p \in Players |-> 0], count |-> 0, total |-> 0, cursor |-> 1]

\* FairPriorityQueue::push
PushFair(q, m) ==
  [q EXCEPT !.order[m.class] = IF q.messages[m.class][m.player] = << >> THEN Append(@, m.player) ELSE @,
            !.messages[m.class][m.player] = Append(@, m)]

\* FairPriorityQueue::pop
PopFair(q, c) ==
  LET p == Head(q.order[c])
      rest == Tail(q.messages[c][p])
  IN  [q EXCEPT !.order[c] = IF rest = << >> THEN Tail(@) ELSE Append(Tail(@), p),
                !.messages[c][p] = rest]

FitsScheduled(q, m) ==
  /\ q.count < MaxStagedMessages
  /\ q.total + m.size <= MaxStagedBytes
  /\ q.bytes[m.player] + m.size <= MaxPlayerBytes

\* ScheduledQueue::enqueue
EnqueueScheduled(q, m) ==
  IF ~FitsScheduled(q, m) THEN q
  ELSE PushFair([q EXCEPT !.count = @ + 1, !.total = @ + m.size, !.bytes[m.player] = @ + m.size], m)

\* ScheduledQueue::release, on every way a message leaves for good.
ReleaseScheduled(q, m) ==
  [q EXCEPT !.count = @ - 1, !.total = @ - m.size, !.bytes[m.player] = @ - m.size]

\* A slip: every search starts at the heaviest class.
SelectHeaviest(q) == CHOOSE i \in DOMAIN WeightedOrder :
  /\ q.order[WeightedOrder[i]] # << >>
  /\ \A j \in 1..(i - 1) : q.order[WeightedOrder[j]] = << >>

\* The place in WEIGHTED_ORDER, from the cursor on, of the next class with a message.
SelectClass(q) ==
  LET place(n) == ((q.cursor - 1 + n) % Len(WeightedOrder)) + 1
      n == CHOOSE k \in 0..(Len(WeightedOrder) - 1) :
             /\ q.order[WeightedOrder[place(k)]] # << >>
             /\ \A j \in 0..(k - 1) : q.order[WeightedOrder[place(j)]] = << >>
  IN  place(n)

Passed(q, c, counts) ==
  [d \in Classes |-> IF d = c \/ q.order[d] = << >> THEN 0 ELSE counts[d] + 1]

\* ScheduledQueue::pop_next: messages past their deadline are dropped on the way.
RECURSIVE PopScheduled(_, _, _)
PopScheduled(q, dead, counts) ==
  IF \A c \in Classes : q.order[c] = << >> THEN [queue |-> q, message |-> NoRequest, counts |-> counts]
  ELSE LET i == SelectClass(q)
           c == WeightedOrder[i]
           m == Head(q.messages[c][Head(q.order[c])])
           taken == [PopFair(q, c) EXCEPT !.cursor = (i % Len(WeightedOrder)) + 1]
       IN  IF m \in dead THEN PopScheduled(ReleaseScheduled(taken, m), dead, Passed(q, c, counts))
           ELSE [queue |-> taken, message |-> m, counts |-> Passed(q, c, counts)]

\* ScheduledQueue::forget_session
ForgetScheduled(q, p) ==
  LET all == FoldSet(LAMBDA c, n : n + Len(q.messages[c][p]), 0, Classes)
  IN  [q EXCEPT !.order = [c \in Classes |-> SelectSeq(q.order[c], LAMBDA x : x # p)],
                !.messages = [c \in Classes |-> [q.messages[c] EXCEPT ![p] = << >>]],
                !.bytes[p] = 0, !.total = @ - q.bytes[p], !.count = @ - all]

-----------------------------------------------------------------------------
(* LatestQueue *)

NoRealtime ==
  [order |-> << >>, pending |-> << >>, count |-> 0, total |-> 0,
   keys |-> [p \in Players |-> 0], bytes |-> [p \in Players |-> 0]]

\* A slot's pending snapshot; the map is a function on the slots that have one.
Pending(q, slot) == IF slot \in DOMAIN q.pending THEN q.pending[slot] ELSE [value |-> 0, size |-> 0]

Put(map, slot, s) == [x \in DOMAIN map \cup {slot} |-> IF x = slot THEN s ELSE map[x]]
Drop(map, slots) == [x \in DOMAIN map \ slots |-> map[x]]

FitsRealtime(q, slot, size) ==
  LET old == Pending(q, slot).size
  IN  /\ q.total - old + size <= MaxSnapshotBytes
      /\ q.bytes[slot[1]] - old + size <= MaxPlayerSnapshotBytes
      /\ old = 0 => q.keys[slot[1]] < MaxPlayerKeys /\ Cardinality(DOMAIN q.pending) < MaxPendingKeys

\* LatestQueue::enqueue, of a snapshot that fits: in place when the slot has one.
EnqueueRealtime(q, slot, s) ==
  LET old == Pending(q, slot).size
      fresh == slot \notin DOMAIN q.pending
  IN  [q EXCEPT !.pending = Put(@, slot, s),
                !.order = IF fresh THEN Append(@, slot) ELSE @,
                !.count = IF fresh THEN @ + 1 ELSE @,
                !.keys[slot[1]] = IF fresh THEN @ + 1 ELSE @,
                !.total = @ - old + s.size, !.bytes[slot[1]] = @ - old + s.size]

\* LatestQueue::pop_next and release; the order holds no slot without a snapshot.
PopRealtime(q) ==
  LET slot == Head(q.order)
      s == q.pending[slot]
  IN  [q EXCEPT !.order = Tail(@), !.pending = Drop(@, {slot}), !.count = @ - 1, !.total = @ - s.size,
                !.keys[slot[1]] = @ - 1, !.bytes[slot[1]] = @ - s.size]

\* A slip: a refused snapshot is put back over the one that replaced it.
RequeueOver(q, slot, s) == IF FitsRealtime(q, slot, s.size) THEN EnqueueRealtime(q, slot, s) ELSE q

\* LatestQueue::requeue: a newer value wins, a full queue drops it.
RequeueRealtime(q, slot, s) ==
  IF slot \in DOMAIN q.pending \/ ~FitsRealtime(q, slot, s.size) THEN q ELSE EnqueueRealtime(q, slot, s)

\* LatestQueue::forget_session
ForgetRealtime(q, p) ==
  LET mine == {slot \in DOMAIN q.pending : slot[1] = p}
      size == FoldSet(LAMBDA slot, n : n + q.pending[slot].size, 0, mine)
  IN  [q EXCEPT !.order = SelectSeq(@, LAMBDA slot : slot[1] # p), !.pending = Drop(@, mine),
                !.count = @ - Cardinality(mine), !.total = @ - size,
                !.keys[p] = @ - Cardinality(mine), !.bytes[p] = @ - size]
-----------------------------------------------------------------------------
(* Steps *)

StagingInit ==
  /\ scheduled = NoScheduled /\ realtime = NoRealtime
  /\ ready = Players /\ stopping = FALSE
  /\ inside = [t \in Threads |-> NoRequest] /\ guard = FreeGuard
  /\ workload \in Workloads /\ staged = 0
  /\ newest = [slot \in Slots |-> 0] /\ flushed = newest
  /\ skipped = [c \in Classes |-> 0]

\* send_scheduled and send_latest up to with_ready, whose check under the read
\* lock repeats the earlier ones.
StageBegin(t, request) ==
  /\ inside[t] = NoRequest
  /\ staged + Cardinality({u \in Threads : inside[u] # NoRequest}) < MaxStaged
  /\ request.player \in ready /\ ~stopping
  /\ inside' = [inside EXCEPT ![t] = request]
  /\ UNCHANGED <<scheduled, realtime, ready, stopping, guard, staged, newest, flushed, skipped, workload>>

StageScheduled(t) ==
  /\ inside[t].kind = "scheduled"
  /\ scheduled' = EnqueueScheduled(scheduled, [inside[t] EXCEPT !.value = staged + 1])
  /\ inside' = [inside EXCEPT ![t] = NoRequest] /\ staged' = staged + 1
  /\ UNCHANGED <<realtime, ready, stopping, guard, newest, flushed, skipped, workload>>

StageLatest(t) ==
  LET request == inside[t]
      slot == <<request.player, request.key>>
  IN  /\ request.kind = "latest"
      /\ IF FitsRealtime(realtime, slot, request.size)
         THEN /\ realtime' = EnqueueRealtime(realtime, slot, [value |-> staged + 1, size |-> request.size])
              /\ newest' = [newest EXCEPT ![slot] = staged + 1]
         ELSE UNCHANGED <<realtime, newest>>
      /\ inside' = [inside EXCEPT ![t] = NoRequest] /\ staged' = staged + 1
      /\ UNCHANGED <<scheduled, ready, stopping, guard, flushed, skipped, workload>>

\* flush_scheduled_inner takes one message out ...
FlushScheduled ==
  /\ guard.kind \in {"free", "draining"} /\ scheduled.count > 0
  /\ \E dead \in SUBSET {m \in UNION {Range(scheduled.messages[c][p]) : c \in Classes, p \in Players} : m.expires} :
       LET out == PopScheduled(scheduled, dead, skipped)
       IN  /\ scheduled' = out.queue /\ skipped' = out.counts
           /\ guard' = IF out.message = NoRequest THEN guard
                       ELSE [kind |-> "scheduled", message |-> out.message, back |-> guard]
  /\ UNCHANGED <<realtime, ready, stopping, inside, staged, newest, flushed, workload>>

\* ... and settles it: forwarded, refused for lack of room, or failed.
SettleScheduled(result) ==
  /\ guard.kind = "scheduled"
  /\ scheduled' = IF result = "full" THEN PushFair(scheduled, guard.message)
                  ELSE ReleaseScheduled(scheduled, guard.message)
  /\ guard' = guard.back
  /\ UNCHANGED <<realtime, ready, stopping, inside, staged, newest, flushed, skipped, workload>>

FlushRealtime ==
  /\ guard.kind \in {"free", "draining"} /\ realtime.count > 0
  /\ realtime' = PopRealtime(realtime)
  /\ guard' = [kind |-> "latest", slot |-> Head(realtime.order),
               snapshot |-> realtime.pending[Head(realtime.order)], back |-> guard]
  /\ UNCHANGED <<scheduled, ready, stopping, inside, staged, newest, flushed, skipped, workload>>

\* A value that is dropped is no longer the newest one.
Lost(slot, value) == IF newest[slot] = value THEN [newest EXCEPT ![slot] = 0] ELSE newest

SettleRealtime(result) ==
  LET slot == guard.slot
      s == guard.snapshot
      full == result = "full" /\ slot \notin DOMAIN realtime.pending /\ ~FitsRealtime(realtime, slot, s.size)
  IN  /\ guard.kind = "latest"
      /\ realtime' = IF result = "full" THEN RequeueRealtime(realtime, slot, s) ELSE realtime
      /\ flushed' = IF result = "ok" THEN [flushed EXCEPT ![slot] = s.value] ELSE flushed
      /\ newest' = IF result = "failed" \/ full THEN Lost(slot, s.value) ELSE newest
      /\ guard' = guard.back
      /\ UNCHANGED <<scheduled, ready, stopping, inside, staged, skipped, workload>>

\* A slip: readiness is removed without waiting for those who rely on it.
NobodyCounts == TRUE

\* The write lock of SendAdmission: no thread is inside with_ready.
NoReader == \A t \in Threads : inside[t] = NoRequest

\* forget_ready_session, under poll_guard: readiness first, then the two queues.
ForgetReady(p) ==
  /\ guard = FreeGuard /\ p \in ready /\ NoReader
  /\ ready' = ready \ {p}
  /\ guard' = [kind |-> "forgetting", player |-> p, left |-> {"latest", "scheduled"}]
  /\ UNCHANGED <<scheduled, realtime, stopping, inside, staged, newest, flushed, skipped, workload>>

ForgetQueues ==
  /\ guard.kind = "forgetting"
  /\ IF "latest" \in guard.left
     THEN /\ realtime' = ForgetRealtime(realtime, guard.player)
          /\ newest' = [slot \in Slots |-> IF slot[1] = guard.player THEN 0 ELSE newest[slot]]
          /\ guard' = [guard EXCEPT !.left = {"scheduled"}]
          /\ UNCHANGED scheduled
     ELSE /\ scheduled' = ForgetScheduled(scheduled, guard.player)
          /\ guard' = FreeGuard
          /\ UNCHANGED <<realtime, newest>>
  /\ UNCHANGED <<ready, stopping, inside, staged, flushed, skipped, workload>>

\* stop: refuse new calls, drain under poll_guard, then clear everything.
BeginStop ==
  /\ ~stopping /\ stopping' = TRUE
  /\ UNCHANGED <<scheduled, realtime, ready, inside, guard, staged, newest, flushed, skipped, workload>>

DrainForStop ==
  /\ stopping /\ guard = FreeGuard /\ guard' = [kind |-> "draining"]
  /\ UNCHANGED <<scheduled, realtime, ready, stopping, inside, staged, newest, flushed, skipped, workload>>

\* The transport's stop fails: the call returns with admission closed and the queues as they are.
StopFails ==
  /\ guard.kind = "draining" /\ guard' = FreeGuard
  /\ UNCHANGED <<scheduled, realtime, ready, stopping, inside, staged, newest, flushed, skipped, workload>>

ClearReady ==
  /\ guard.kind = "draining" /\ NoReader
  /\ ready' = {} /\ guard' = [kind |-> "clearing"]
  /\ UNCHANGED <<scheduled, realtime, stopping, inside, staged, newest, flushed, skipped, workload>>

ClearQueues ==
  /\ guard.kind = "clearing"
  /\ realtime' = NoRealtime /\ scheduled' = [NoScheduled EXCEPT !.cursor = scheduled.cursor]
  /\ newest' = [slot \in Slots |-> 0] /\ guard' = [kind |-> "stopped"]
  /\ UNCHANGED <<ready, stopping, inside, staged, flushed, skipped, workload>>

StagingNext ==
  \/ \E t \in Threads : StageScheduled(t) \/ StageLatest(t) \/ \E request \in workload : StageBegin(t, request)
  \/ FlushScheduled \/ FlushRealtime
  \/ \E result \in {"ok", "full", "failed"} : SettleScheduled(result) \/ SettleRealtime(result)
  \/ \E p \in Players : ForgetReady(p)
  \/ ForgetQueues \/ BeginStop \/ DrainForStop \/ StopFails \/ ClearReady \/ ClearQueues

StagingSpec == StagingInit /\ [][StagingNext]_stagingVars

-----------------------------------------------------------------------------
(* Properties *)

StagedMessages(p) ==
  UNION {Range(scheduled.messages[c][p]) : c \in Classes}
    \cup (IF guard.kind = "scheduled" /\ guard.message.player = p THEN {guard.message} ELSE {})

SumOf(S) == FoldSet(LAMBDA m, n : n + m.size, 0, S)

\* Every byte and entry that is charged belongs to a message that is staged or in
\* a flush's hand, within all limits; and a session that is closed, or a runtime
\* that is stopped, has nothing staged, whatever calls raced with it: what the
\* comment on SendAdmission promises.
StagingIsExact ==
  LET gone(p) == p \notin ready /\ guard.kind \notin {"forgetting", "clearing"}
  IN  /\ \A p \in Players : scheduled.bytes[p] = SumOf(StagedMessages(p)) /\ scheduled.bytes[p] <= MaxPlayerBytes
      /\ scheduled.total = SumOf(UNION {StagedMessages(p) : p \in Players}) /\ scheduled.total <= MaxStagedBytes
      /\ scheduled.count = Cardinality(UNION {StagedMessages(p) : p \in Players})
      /\ Range(realtime.order) = DOMAIN realtime.pending /\ Len(realtime.order) = realtime.count
      /\ IsInjective(realtime.order)
      /\ \A p \in Players :
           LET mine == {slot \in DOMAIN realtime.pending : slot[1] = p}
           IN  /\ realtime.keys[p] = Cardinality(mine) /\ realtime.keys[p] <= MaxPlayerKeys
               /\ realtime.bytes[p] = FoldSet(LAMBDA slot, n : n + realtime.pending[slot].size, 0, mine)
      /\ realtime.total = FoldSet(LAMBDA p, n : n + realtime.bytes[p], 0, Players)
      /\ \A p \in Players : gone(p) => StagedMessages(p) = {} /\ realtime.keys[p] = 0

\* A refused snapshot never displaces a newer one, and the newest of a slot is
\* pending, in a flush's hand or with the transport until it is dropped itself;
\* what the transport took last of a slot is never overtaken by an older value.
NewestSnapshotKept ==
  \A slot \in Slots :
    LET pending == Pending(realtime, slot).value
        held == IF guard.kind = "latest" /\ guard.slot = slot THEN guard.snapshot.value ELSE 0
    IN  /\ newest[slot] # 0 => newest[slot] \in {pending, held, flushed[slot]}
        /\ pending # 0 => pending > flushed[slot] /\ pending > held
        /\ held # 0 => held > flushed[slot]

\* No class with a message waits for more turns of the others than WEIGHTED_ORDER
\* gives them: weighted service does not starve the lower classes.
ServedWithinRound ==
  \A c \in Classes :
    skipped[c] <= Cardinality({i \in DOMAIN WeightedOrder : WeightedOrder[i] # c})
=============================================================================
