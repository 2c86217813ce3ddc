---------------------------- MODULE AbiLifetime -----------------------------
(***************************************************************************)
(* The lifetime of runtimes behind the C ABI: a registry of handles, calls *)
(* that hold a lease on a runtime while they work, buffers that events     *)
(* export until the caller releases them, and the destruction of a stopped *)
(* runtime.  The transport's registry and the game's are built alike; this *)
(* is either.                                                              *)
(*                                                                         *)
(* The registry's mutex is held by a lease only for its look-up and by a   *)
(* destruction from its look-up to its removal; the counter of calls and   *)
(* the buffer table have their own synchronisation, so that calls begun    *)
(* before go on between the checks of a destruction.  (So a call that      *)
(* exports a buffer and returns between the two checks of destroy is seen  *)
(* by neither; the lifetime of the runtime itself is not affected.)        *)
(***************************************************************************)
EXTENDS Naturals, FiniteSets

CONSTANTS
  Callers,       \* threads of the application
  AbiSlots,      \* slots of the handle table
  GenSpace,      \* 2^32
  MaxRuntimes,   \* runtimes created in a behaviour
  MaxExports     \* buffers exported in a behaviour

ASSUME AbiAssumption ==
  /\ IsFiniteSet(Callers)
  /\ MaxRuntimes \in Nat /\ MaxExports \in Nat /\ GenSpace \in Nat
  /\ MaxRuntimes + 1 < GenSpace

VARIABLES
  slot,       \* HandleTable: per slot its generation (0 before its first use) and its entry
  created,    \* entries are numbered as they are created
  handleOf,   \* per entry, the handle its creation returned
  entry,      \* per entry: stopped, active_calls, unreleased buffers, whether it is in memory
  caller,     \* per thread, the call it is in: the entry whose handle it passes and the one it got
  exports     \* buffers exported so far

abiVars == <<slot, created, handleOf, entry, caller, exports>>

Entries == 1..MaxRuntimes
NoHandle == [index |-> 0, generation |-> 0]
NewEntry(memory) == [stopped |-> FALSE, calls |-> 0, buffers |-> {}, memory |-> memory]
Outside == [step |-> "out", meant |-> 0, entry |-> 0]

AbiInit ==
  /\ slot = [i \in AbiSlots |-> [generation |-> 0, entry |-> 0]]
  /\ created = 0 /\ exports = 0
  /\ handleOf = [e \in Entries |-> NoHandle]
  /\ entry = [e \in Entries |-> NewEntry("none")]
  /\ caller = [c \in Callers |-> Outside]

-----------------------------------------------------------------------------
(* HandleTable *)

\* get: the entry a handle names, 0 if it is stale.
Lookup(h) ==
  IF slot[h.index].generation = h.generation THEN slot[h.index].entry ELSE 0

\* A slip: a slot is used again under its old generation.
SameGeneration(g) == g

\* remove: wrapping_add(1).max(1)
NextGeneration(g) == IF (g + 1) % GenSpace = 0 THEN 1 ELSE (g + 1) % GenSpace

\* The registry's mutex: a destruction keeps it between its checks.
RegistryLocked == \E c \in Callers : caller[c].step \in {"stopped", "released"}

-----------------------------------------------------------------------------
(* Calls *)

\* rnet_runtime_create, rnet_game_runtime_create: insert takes a free slot or a new one.
CreateRuntime(c, i) ==
  LET g == IF slot[i].generation = 0 THEN 1 ELSE slot[i].generation
      e == created + 1
  IN  /\ caller[c].step = "out" /\ ~RegistryLocked
      /\ created < MaxRuntimes /\ slot[i].entry = 0
      /\ created' = e
      /\ slot' = [slot EXCEPT ![i] = [generation |-> g, entry |-> e]]
      /\ handleOf' = [handleOf EXCEPT ![e] = [index |-> i, generation |-> g]]
      /\ entry' = [entry EXCEPT ![e] = NewEntry("held")]
      /\ UNCHANGED <<caller, exports>>

\* runtime_entry and game_registry::lease, with the handle of any runtime ever created.
BeginCall(c, m) ==
  LET e == Lookup(handleOf[m]) IN
  /\ caller[c].step = "out" /\ ~RegistryLocked
  /\ e # 0
  /\ entry' = [entry EXCEPT ![e].calls = @ + 1]
  /\ caller' = [caller EXCEPT ![c] = [step |-> "call", meant |-> m, entry |-> e]]
  /\ UNCHANGED <<slot, created, handleOf, exports>>

\* rnet_poll_events: an event's data is exported under a token.
ExportBuffer(c) ==
  /\ caller[c].step = "call" /\ exports < MaxExports
  /\ exports' = exports + 1
  /\ entry' = [entry EXCEPT ![caller[c].entry].buffers = @ \cup {exports + 1}]
  /\ UNCHANGED <<slot, created, handleOf, caller>>

\* rnet_buffer_release
ReleaseBuffer(c, token) ==
  /\ caller[c].step = "call" /\ token \in entry[caller[c].entry].buffers
  /\ entry' = [entry EXCEPT ![caller[c].entry].buffers = @ \ {token}]
  /\ UNCHANGED <<slot, created, handleOf, caller, exports>>

\* rnet_runtime_stop, where it succeeds.
StopRuntime(c) ==
  /\ caller[c].step = "call" /\ ~entry[caller[c].entry].stopped
  /\ entry' = [entry EXCEPT ![caller[c].entry].stopped = TRUE]
  /\ UNCHANGED <<slot, created, handleOf, caller, exports>>

\* Drop of the lease.
EndCall(c) ==
  /\ caller[c].step = "call"
  /\ entry' = [entry EXCEPT ![caller[c].entry].calls = @ - 1]
  /\ caller' = [caller EXCEPT ![c] = Outside]
  /\ UNCHANGED <<slot, created, handleOf, exports>>

-----------------------------------------------------------------------------
(* rnet_runtime_destroy and game_registry::destroy *)

\* The registry is locked and the runtime has stopped; otherwise nothing happens.
BeginDestroy(c, m) ==
  LET e == Lookup(handleOf[m]) IN
  /\ caller[c].step = "out" /\ ~RegistryLocked
  /\ e # 0 /\ entry[e].stopped
  /\ caller' = [caller EXCEPT ![c] = [step |-> "stopped", meant |-> m, entry |-> e]]
  /\ UNCHANGED <<slot, created, handleOf, entry, exports>>

\* No buffer is outstanding, or the destruction is refused.
CheckBuffers(c) ==
  /\ caller[c].step = "stopped"
  /\ caller' = [caller EXCEPT ![c] =
       IF entry[@.entry].buffers = {} THEN [@ EXCEPT !.step = "released"] ELSE Outside]
  /\ UNCHANGED <<slot, created, handleOf, entry, exports>>

\* No call is active: the entry is removed and dropped, or the destruction is refused.
RemoveRuntime(c) ==
  LET e == caller[c].entry
      i == handleOf[caller[c].meant].index
  IN  /\ caller[c].step = "released"
      /\ caller' = [caller EXCEPT ![c] = Outside]
      /\ IF entry[e].calls = 0
         THEN /\ slot' = [slot EXCEPT ![i] = [generation |-> NextGeneration(@.generation), entry |-> 0]]
              /\ entry' = [entry EXCEPT ![e].memory = "freed"]
         ELSE UNCHANGED <<slot, entry>>
      /\ UNCHANGED <<created, handleOf, exports>>

AbiNext ==
  \E c \in Callers :
    \/ \E i \in AbiSlots : CreateRuntime(c, i)
    \/ \E e \in 1..created : BeginCall(c, e) \/ BeginDestroy(c, e)
    \/ ExportBuffer(c) \/ StopRuntime(c) \/ EndCall(c)
    \/ \E token \in 1..exports : ReleaseBuffer(c, token)
    \/ CheckBuffers(c) \/ RemoveRuntime(c)

AbiSpec == AbiInit /\ [][AbiNext]_abiVars

-----------------------------------------------------------------------------
(* Properties *)

\* A call works on the runtime whose creation returned its handle, and that runtime is in
\* memory until the call ends: a stale handle never reaches the runtime that took its slot,
\* and no interleaving of look-ups, calls and destructions frees a runtime under a call.
LeasesAreSound ==
  \A c \in Callers : caller[c].step = "call" =>
    /\ entry[caller[c].entry].memory = "held"
    /\ caller[c].entry = caller[c].meant
=============================================================================
