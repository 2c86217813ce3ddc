---------------------------- MODULE LatestSlots -----------------------------
(***************************************************************************)
(* The transport's send path up to the worker: the byte budgets of the     *)
(* runtime and of each session, the queue of a session's worker, and the   *)
(* keyed slots of LatestRegistry, whose value can be replaced until the    *)
(* worker takes it.                                                        *)
(*                                                                         *)
(* A send looks its route up and lets go of the session table; it then     *)
(* reserves in the runtime's budget, then in the session's, then queues.   *)
(* Plain sends and slots contend for the same budgets; only slots take the *)
(* registry's lock.  Whatever is dropped returns its reservations.  The    *)
(* registry refers to a slot weakly: the queued placeholder keeps it.      *)
(***************************************************************************)
EXTENDS Naturals, Sequences, FiniteSets, SequencesExt, FiniteSetsExt

CONSTANTS
  Senders,        \* application threads
  Routes,         \* sessions
  SlotKeys,       \* keys of latest values
  NoKey,          \* the key of a plain send
  FrameSizes,     \* bytes of an encoded frame
  RuntimeLimit,   \* max_runtime_queued_bytes
  RouteLimit,     \* max_session_queued_bytes
  WriteCapacity,  \* capacity of a worker's queue
  MaxFrames       \* sends in a behaviour

ASSUME SlotsAssumption ==
  /\ NoKey \notin SlotKeys /\ 0 \notin Routes
  /\ FrameSizes \subseteq Nat \ {0}
  /\ \A n \in {RuntimeLimit, RouteLimit, WriteCapacity, MaxFrames} : n \in Nat \ {0}

VARIABLES
  open,     \* sessions that have a route
  alive,    \* sessions whose worker still holds the receiving end of its queue
  used,     \* ByteBudget::used, of the runtime (0) and of each session
  writes,   \* per session, the frames in its worker's queue
  content,  \* per frame, the Outbound that holds its bytes and reservations
  picked,   \* per session, the frame its worker is working on, or 0
  slots,    \* LatestRegistry::slots: per session and key the frame, or 0
  call,     \* per sender, the send it is in the middle of
  begun,    \* sends that were begun; it numbers the frames
  admitted, \* history: per session and key, values that sends admitted
  took      \* history: per session and key, the value the worker took last

slotVars == <<open, alive, used, writes, content, picked, slots, call, begun, admitted, took>>

NoCall == [step |-> "none"]
Empty == [key |-> NoKey, size |-> 0, value |-> 0, pending |-> FALSE]
Keyed == Routes \X SlotKeys

\* A sender holds the mutex of slot f while it grows its value.
SlotLocked(f) == \E s \in Senders : call[s].step = "growing" /\ call[s].slot = f

\* Nobody is inside LatestRegistry::enqueue.
RegistryFree ==
  ~ \E s \in Senders : call[s].step \notin {"none", "enter"} /\ call[s].key # NoKey

\* Slot f is held only by the sender that looked at it: its worker has gone.
Orphan(r, f) == f \notin Range(writes[r]) /\ f # picked[r]

SlotsInit ==
  /\ open = Routes /\ alive = Routes
  /\ used = [b \in {0} \cup Routes |-> 0]
  /\ writes = [r \in Routes |-> << >>] /\ picked = [r \in Routes |-> 0]
  /\ content = [f \in 1..MaxFrames |-> Empty]
  /\ slots = [x \in Keyed |-> 0] /\ admitted = slots /\ took = slots
  /\ call = [s \in Senders |-> NoCall] /\ begun = 0

-----------------------------------------------------------------------------
(* ByteBudget *)

LimitOf(b) == IF b = 0 THEN RuntimeLimit ELSE RouteLimit

\* ByteBudget::reserve
CanReserve(b, n) == used[b] + n <= LimitOf(b)

Reserve(budget, b, n) == [budget EXCEPT ![b] = @ + n]

\* Drop of both reservations of n bytes.
Release(budget, r, n) == [budget EXCEPT ![0] = @ - n, ![r] = @ - n]

-----------------------------------------------------------------------------
(* Sends *)

Finish(s) == call' = [call EXCEPT ![s] = NoCall]
Continue(s, step) == call' = [call EXCEPT ![s].step = step]

\* send_payload_latest_inner and enqueue_encoded: the route is copied out of the table.
LookUpRoute(s, r, k, n) ==
  /\ call[s] = NoCall /\ begun < MaxFrames /\ r \in open
  /\ begun' = begun + 1
  /\ call' = [call EXCEPT ![s] =
       [step |-> IF k = NoKey THEN "reserve" ELSE "enter",
        route |-> r, key |-> k, size |-> n, frame |-> begun + 1, slot |-> 0]]
  /\ UNCHANGED <<open, alive, used, writes, content, picked, slots, admitted, took>>

\* LatestRegistry::enqueue takes the lock and drops the session's entries without a value.
EnterRegistry(s) ==
  LET c == call[s]
      kept == [x \in Keyed |->
                 IF x[1] = c.route /\ slots[x] # 0 /\ ~content[slots[x]].pending THEN 0 ELSE slots[x]]
      slot == kept[<<c.route, c.key>>]
  IN  /\ c.step = "enter" /\ RegistryFree
      /\ slots' = kept
      /\ call' = [call EXCEPT ![s].slot = slot,
                              ![s].step = IF slot = 0 THEN "reserve" ELSE "replace"]
      /\ UNCHANGED <<open, alive, used, writes, content, picked, begun, admitted, took>>

\* The slot holds the new bytes; without its worker it ends with the sender's reference.
Replaced(s, budget) ==
  LET c == call[s]
      x == <<c.route, c.key>>
  IN  /\ admitted' = [admitted EXCEPT ![x] = @ + 1]
      /\ IF Orphan(c.route, c.slot)
         THEN /\ used' = Release(budget, c.route, c.size)
              /\ content' = [content EXCEPT ![c.slot] = Empty]
         ELSE /\ used' = budget
              /\ content' = [content EXCEPT ![c.slot].size = c.size, ![c.slot].value = admitted'[x]]

\* The old value stays.
Rejected(s, budget) ==
  LET c == call[s] IN
  /\ IF Orphan(c.route, c.slot)
     THEN /\ used' = Release(budget, c.route, content[c.slot].size)
          /\ content' = [content EXCEPT ![c.slot] = Empty]
     ELSE used' = budget /\ content' = content
  /\ UNCHANGED admitted

\* A slip: the bytes are replaced without asking whether the worker took them.
ReplaceTaken(s) ==
  LET c == call[s] IN
  /\ c.step = "replace"
  /\ Replaced(s, Release(used, c.route, content[c.slot].size - c.size)) /\ Finish(s)
  /\ UNCHANGED <<open, alive, writes, picked, slots, begun, took>>

\* LatestSlot::replace, as far as the growth's first reservation.
ReplaceSlot(s) ==
  LET c == call[s]
      old == content[c.slot]
  IN  /\ c.step = "replace"
      /\ \/ /\ ~old.pending
            /\ Continue(s, "reserve")
            /\ UNCHANGED <<used, content, admitted>>
         \/ /\ old.pending /\ c.size <= old.size
            /\ Replaced(s, Release(used, c.route, old.size - c.size)) /\ Finish(s)
         \/ /\ old.pending /\ c.size > old.size /\ CanReserve(0, c.size - old.size)
            /\ used' = Reserve(used, 0, c.size - old.size)
            /\ Continue(s, "growing")
            /\ UNCHANGED <<content, admitted>>
         \/ /\ old.pending /\ c.size > old.size /\ ~CanReserve(0, c.size - old.size)
            /\ Rejected(s, used) /\ Finish(s)
      /\ UNCHANGED <<open, alive, writes, picked, slots, begun, took>>

\* Outbound::replace_bytes: the second reservation of a growth, or the first one's end.
GrowSlot(s) ==
  LET c == call[s]
      extra == c.size - content[c.slot].size
  IN  /\ c.step = "growing"
      /\ IF CanReserve(c.route, extra)
         THEN Replaced(s, Reserve(used, c.route, extra))
         ELSE Rejected(s, [used EXCEPT ![0] = @ - extra])
      /\ Finish(s)
      /\ UNCHANGED <<open, alive, writes, picked, slots, begun, took>>

\* Outbound::with_kind: the runtime's reservation.
ReserveRuntime(s) ==
  LET c == call[s] IN
  /\ c.step = "reserve"
  /\ IF CanReserve(0, c.size)
     THEN used' = Reserve(used, 0, c.size) /\ Continue(s, "reserved")
     ELSE used' = used /\ Finish(s)
  /\ UNCHANGED <<open, alive, writes, content, picked, slots, begun, admitted, took>>

\* A slip: the runtime's reservation is forgotten when the session's fails.
ReserveRouteLeaking(s) ==
  LET c == call[s] IN
  /\ c.step = "reserved"
  /\ IF CanReserve(c.route, c.size)
     THEN used' = Reserve(used, c.route, c.size) /\ Continue(s, "queue")
     ELSE used' = used /\ Finish(s)
  /\ UNCHANGED <<open, alive, writes, content, picked, slots, begun, admitted, took>>

\* Outbound::with_kind: the session's reservation, or the end of the runtime's.
ReserveRoute(s) ==
  LET c == call[s] IN
  /\ c.step = "reserved"
  /\ IF CanReserve(c.route, c.size)
     THEN used' = Reserve(used, c.route, c.size) /\ Continue(s, "queue")
     ELSE used' = [used EXCEPT ![0] = @ - c.size] /\ Finish(s)
  /\ UNCHANGED <<open, alive, writes, content, picked, slots, begun, admitted, took>>

\* try_send and, for a slot, the registry's new entry; a full or closed queue drops the frame.
QueueFrame(s) ==
  LET c == call[s]
      x == <<c.route, c.key>>
  IN  /\ c.step = "queue" /\ Finish(s)
      /\ IF c.route \in alive /\ Len(writes[c.route]) < WriteCapacity
         THEN /\ writes' = [writes EXCEPT ![c.route] = Append(@, c.frame)]
              /\ IF c.key = NoKey
                 THEN UNCHANGED <<slots, admitted>>
                 ELSE /\ slots' = [slots EXCEPT ![x] = c.frame]
                      /\ admitted' = [admitted EXCEPT ![x] = @ + 1]
              /\ content' = [content EXCEPT ![c.frame] =
                   [key |-> c.key, size |-> c.size, pending |-> c.key # NoKey,
                    value |-> IF c.key = NoKey THEN 0 ELSE admitted'[x]]]
              /\ UNCHANGED used
         ELSE /\ used' = Release(used, c.route, c.size)
              /\ UNCHANGED <<writes, slots, admitted, content>>
      /\ UNCHANGED <<open, alive, picked, begun, took>>

-----------------------------------------------------------------------------
(* The worker and the end of a session *)

\* recv: the frame leaves the queue.
WorkerReceive(r) ==
  /\ r \in alive /\ picked[r] = 0 /\ writes[r] # << >>
  /\ picked' = [picked EXCEPT ![r] = Head(writes[r])]
  /\ writes' = [writes EXCEPT ![r] = Tail(@)]
  /\ UNCHANGED <<open, alive, used, content, slots, call, begun, admitted, took>>

\* Outbound::resolve_latest: a slot's value is taken under the slot's mutex.
WorkerTake(r) ==
  LET f == picked[r] IN
  /\ r \in alive /\ f # 0 /\ content[f].pending /\ ~SlotLocked(f)
  /\ content' = [content EXCEPT ![f].pending = FALSE]
  /\ took' = [took EXCEPT ![<<r, content[f].key>>] = content[f].value]
  /\ UNCHANGED <<open, alive, used, writes, picked, slots, call, begun, admitted>>

\* The frame was written: the Outbound is dropped.
WorkerDone(r) ==
  LET f == picked[r] IN
  /\ r \in alive /\ f # 0 /\ ~content[f].pending
  /\ used' = Release(used, r, content[f].size)
  /\ content' = [content EXCEPT ![f] = Empty]
  /\ picked' = [picked EXCEPT ![r] = 0]
  /\ UNCHANGED <<open, alive, writes, slots, call, begun, admitted, took>>

\* The worker ends, by an error or a cancellation: its queue is dropped, except for a slot
\* that a sender is looking at.
WorkerEnds(r) ==
  LET looked == {call[s].slot : s \in {t \in Senders : call[t].step \in {"replace", "growing"}}}
      gone == ((Range(writes[r]) \ looked) \cup {picked[r]}) \ {0}
      bytes == MapThenSumSet(LAMBDA f : content[f].size, gone)
  IN  /\ r \in alive /\ ~(picked[r] # 0 /\ content[picked[r]].pending)
      /\ alive' = alive \ {r}
      /\ used' = Release(used, r, bytes)
      /\ content' = [f \in 1..MaxFrames |-> IF f \in gone THEN Empty ELSE content[f]]
      /\ writes' = [writes EXCEPT ![r] = << >>]
      /\ picked' = [picked EXCEPT ![r] = 0]
      /\ UNCHANGED <<open, slots, call, begun, admitted, took>>

\* close_session and session_close::close: the route goes, LatestRegistry::forget_session.
CloseRoute(r) ==
  /\ r \in open /\ RegistryFree
  /\ open' = open \ {r}
  /\ slots' = [x \in Keyed |-> IF x[1] = r THEN 0 ELSE slots[x]]
  /\ UNCHANGED <<alive, used, writes, content, picked, call, begun, admitted, took>>

SlotsNext ==
  \/ \E s \in Senders, r \in Routes, k \in SlotKeys \cup {NoKey}, n \in FrameSizes :
       LookUpRoute(s, r, k, n)
  \/ \E s \in Senders :
       \/ EnterRegistry(s) \/ ReplaceSlot(s) \/ GrowSlot(s)
       \/ ReserveRuntime(s) \/ ReserveRoute(s) \/ QueueFrame(s)
  \/ \E r \in Routes :
       \/ WorkerReceive(r) \/ WorkerTake(r) \/ WorkerDone(r) \/ WorkerEnds(r) \/ CloseRoute(r)

SlotsSpec == SlotsInit /\ [][SlotsNext]_slotVars

-----------------------------------------------------------------------------
(* Properties *)

\* What sender s has reserved in a budget and not handed over.
Holding(s, b) ==
  LET c == call[s] IN
  CASE c.step = "reserved" /\ b = 0             -> c.size
    [] c.step = "queue" /\ b \in {0, c.route}   -> c.size
    [] c.step = "growing" /\ b = 0              -> c.size - content[c.slot].size
    [] OTHER                                    -> 0

\* The frames whose bytes a session's budget carries: queued, being written, or a slot that
\* outlived its worker in a sender's hands.
FramesOf(r) ==
  (Range(writes[r]) \cup {picked[r]} \cup
     {call[s].slot : s \in {t \in Senders : call[t].step \in {"replace", "growing"} /\ call[t].route = r}})
  \ {0}

\* Every byte in a budget is held by a queued frame, a frame being written or a send in
\* progress, and no budget passes its limit: a failed second reservation, a replaced or
\* rejected value, a full or closed queue and a worker's end all give back what they took.
SendBudgetIsExact ==
  LET Queued(r) == MapThenSumSet(LAMBDA f : content[f].size, FramesOf(r))
  IN  /\ \A r \in Routes :
           used[r] = Queued(r) + MapThenSumSet(LAMBDA s : Holding(s, r), Senders)
      /\ used[0] = MapThenSumSet(Queued, Routes) + MapThenSumSet(LAMBDA s : Holding(s, 0), Senders)
      /\ \A b \in DOMAIN used : used[b] <= LimitOf(b)

\* While the worker lives, the value of a key that was admitted last is either still pending
\* or was the last one taken, and what is pending was admitted after everything taken and in
\* the order of the queue: replacing races with the worker's take and never revives an older
\* value.
LatestValueWins ==
  \A r \in alive, k \in SlotKeys :
    LET line == (IF picked[r] = 0 THEN << >> ELSE <<picked[r]>>) \o writes[r]
        mine == SelectSeq(line, LAMBDA f : content[f].key = k /\ content[f].pending)
        values == <<took[<<r, k>>]>> \o [i \in DOMAIN mine |-> content[mine[i]].value]
    IN  /\ \A i \in 1..(Len(values) - 1) : values[i] < values[i + 1]
        /\ Last(values) = admitted[<<r, k>>]
=============================================================================
