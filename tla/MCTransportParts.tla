-------------------------- MODULE MCTransportParts --------------------------
(***************************************************************************)
(* Small instances of the event queue, the send queue with its latest-only *)
(* slots, the KCP engine and the ABI registry, side by side: a behaviour   *)
(* is about the one in focus and the others stay as they start, so their   *)
(* state spaces add up.                                                    *)
(***************************************************************************)
EXTENDS EventQueue, LatestSlots, KcpArq, AbiLifetime, TLC

VARIABLE focus    \* the component the behaviour is about

Components == {"events", "slots", "kcp", "abi"}

\* One poll is limited by the number of events, the other by their bytes.
ShortPolls == {[take |-> 1, limit |-> 3], [take |-> 2, limit |-> 2]}

\* Threads are alike, and so are sessions.
ThreadsAndRoutes == Permutations(Pollers) \cup Permutations(Routes)

\* Where a component may start in several ways it starts in one when not in focus.
PartsInit ==
  /\ focus \in Components
  /\ Init /\ SlotsInit /\ KcpInit /\ AbiInit
  /\ focus # "kcp" => sender = Engine(0)

PartsNext ==
  /\ UNCHANGED focus
  /\ \/ focus = "events" /\ Next /\ UNCHANGED <<slotVars, kcpVars, abiVars>>
     \/ focus = "slots" /\ SlotsNext /\ UNCHANGED <<vars, kcpVars, abiVars>>
     \/ focus = "kcp" /\ KcpNext /\ UNCHANGED <<vars, slotVars, abiVars>>
     \/ focus = "abi" /\ AbiNext /\ UNCHANGED <<vars, slotVars, kcpVars>>

PartsSpec == PartsInit /\ [][PartsNext]_<<focus, vars, slotVars, kcpVars, abiVars>>
=============================================================================
