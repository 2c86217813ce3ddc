-------------------------- MODULE AbiLifetimeProofs -------------------------
(***************************************************************************)
(* No call outlives its runtime and no stale handle finds another one, for *)
(* any number of threads, slots and runtimes, as long as fewer runtimes    *)
(* are created than there are generations.                                 *)
(***************************************************************************)
EXTENDS AbiLifetime, FiniteSetTheorems, TLAPS

EntryType ==
  [stopped: BOOLEAN, calls: Int, buffers: SUBSET Nat, memory: {"none", "held", "freed"}]

AbiType ==
  /\ created \in 0..MaxRuntimes /\ exports \in Nat
  /\ slot \in [AbiSlots -> [generation: Nat, entry: Nat]]
  /\ handleOf \in [Entries -> [index: AbiSlots \cup {0}, generation: Nat]]
  /\ entry \in [Entries -> EntryType]
  /\ caller \in [Callers -> [step: {"out", "call", "stopped", "released"}, meant: Nat, entry: Nat]]

\* A handle's generation is that of its slot only while its entry is in the slot.
HandlesFit ==
  \A e \in 1..created :
    LET h == handleOf[e] IN
    /\ h.index \in AbiSlots /\ h.generation <= slot[h.index].generation
    /\ h.generation = slot[h.index].generation => slot[h.index].entry = e

\* What is in a slot is in memory, and no slot has been used often enough to wrap.
SlotsFit ==
  \A i \in AbiSlots :
    LET s == slot[i] IN
    /\ s.entry = 0 => s.generation <= created + 1
    /\ s.entry # 0 => /\ s.entry \in 1..created /\ s.generation \in 1..created
                      /\ entry[s.entry].memory = "held"
                      /\ handleOf[s.entry] = [index |-> i, generation |-> s.generation]

\* Who is in a call has the runtime it means; who destroys still finds it in its slot.
CallersFit ==
  \A c \in Callers :
    LET k == caller[c] IN
    /\ k.step # "out" => k.entry \in 1..created /\ k.meant = k.entry /\ entry[k.entry].memory = "held"
    /\ k.step \in {"stopped", "released"} => slot[handleOf[k.entry].index].entry = k.entry

OneDestroyer ==
  \A c, d \in Callers :
    caller[c].step \in {"stopped", "released"} /\ caller[d].step \in {"stopped", "released"} => c = d

Working(e) == {c \in Callers : caller[c].step = "call" /\ caller[c].entry = e}

\* active_calls counts the leases.
CallsCounted == \A e \in Entries : entry[e].calls = Cardinality(Working(e))

\* The inductive invariant.
AbiInv == AbiType /\ HandlesFit /\ SlotsFit /\ CallersFit /\ OneDestroyer /\ CallsCounted

-----------------------------------------------------------------------------

LEMMA AbiInitial == AbiInit => AbiInv
<1> SUFFICES ASSUME AbiInit PROVE AbiInv
  OBVIOUS
<1>1. AbiType
  BY AbiAssumption DEF AbiInit, AbiType, EntryType, Entries, NoHandle, NewEntry, Outside
<1>2. HandlesFit /\ OneDestroyer
  BY DEF AbiInit, HandlesFit, OneDestroyer, Outside
<1>3. SlotsFit
  BY DEF AbiInit, SlotsFit
<1>4. CallersFit
  BY DEF AbiInit, CallersFit, Outside
<1>5. CallsCounted
  <2>1. ASSUME NEW e \in Entries  PROVE  Working(e) = {}
    BY DEF AbiInit, Working, Outside
  <2> QED  BY <2>1, FS_EmptySet DEF AbiInit, CallsCounted, NewEntry
<1> QED  BY <1>1, <1>2, <1>3, <1>4, <1>5 DEF AbiInv

\* Leases: the set of callers at work on an entry grows or shrinks by one, or stays.
LEMMA WorkingFinite ==
  ASSUME NEW e
  PROVE  IsFiniteSet(Working(e)) /\ Cardinality(Working(e)) \in Nat
<1>1. Working(e) \subseteq Callers
  BY DEF Working
<1> QED  BY <1>1, AbiAssumption, FS_Subset, FS_CardinalityType

\* The look-up of a handle finds the entry it was made for or none.
LEMMA LookupSound ==
  ASSUME AbiType, HandlesFit, NEW m \in 1..created, Lookup(handleOf[m]) # 0
  PROVE  Lookup(handleOf[m]) = m /\ slot[handleOf[m].index].entry = m
  BY DEF HandlesFit, Lookup

\* Generations do not wrap.
LEMMA NoWrap ==
  ASSUME NEW g \in 0..MaxRuntimes
  PROVE  NextGeneration(g) = g + 1
  BY AbiAssumption DEF NextGeneration

-----------------------------------------------------------------------------

LEMMA CreatedRange ==
  ASSUME AbiType
  PROVE  created \in Nat /\ MaxRuntimes \in Nat /\ created <= MaxRuntimes /\ 1..created \subseteq Entries
  BY AbiAssumption DEF AbiType, Entries

\* A step inside a call that touches neither the count nor the life of an entry.
LEMMA InsideCall ==
  ASSUME AbiInv, UNCHANGED <<slot, created, handleOf, caller>>, exports' \in Nat,
         entry' \in [Entries -> EntryType],
         \A e \in Entries : entry'[e].calls = entry[e].calls /\ entry'[e].memory = entry[e].memory
  PROVE  AbiInv'
<1>1. 1..created \subseteq Entries
  BY CreatedRange DEF AbiInv
<1>2. AbiType' /\ HandlesFit' /\ OneDestroyer'
  BY DEF AbiInv, AbiType, HandlesFit, OneDestroyer
<1>3. SlotsFit'
  BY <1>1 DEF AbiInv, SlotsFit
<1>4. CallersFit'
  BY <1>1 DEF AbiInv, CallersFit
<1>5. CallsCounted'
  <2>1. \A e : Working(e)' = Working(e)
    BY DEF Working
  <2> QED  BY <2>1 DEF AbiInv, CallsCounted
<1> QED  BY <1>2, <1>3, <1>4, <1>5 DEF AbiInv

\* A caller that is in a call has an entry.
LEMMA InCall ==
  ASSUME AbiInv, NEW c \in Callers, caller[c].step # "out"
  PROVE  caller[c].entry \in Entries /\ caller[c].entry \in 1..created
  BY CreatedRange DEF AbiInv, CallersFit

LEMMA CreateStep ==
  ASSUME AbiInv, NEW c \in Callers, NEW i \in AbiSlots, CreateRuntime(c, i)
  PROVE  AbiInv'
<1> DEFINE g == IF slot[i].generation = 0 THEN 1 ELSE slot[i].generation
           n == created + 1
<1>1. /\ n \in Entries /\ n \in 1..MaxRuntimes /\ created \in Nat /\ MaxRuntimes \in Nat
      /\ n = created + 1 /\ created' = n /\ slot[i].entry = 0
  BY CreatedRange DEF AbiInv, Entries, CreateRuntime
<1>2. g \in 1..n /\ slot[i].generation <= g
  <2>1. slot[i].generation \in Nat /\ slot[i].generation <= created + 1
    BY <1>1 DEF AbiInv, AbiType, SlotsFit
  <2> QED  BY <1>1, <2>1
<1>3. /\ slot' = [slot EXCEPT ![i] = [generation |-> g, entry |-> n]]
      /\ handleOf' = [handleOf EXCEPT ![n] = [index |-> i, generation |-> g]]
      /\ entry' = [entry EXCEPT ![n] = NewEntry("held")]
      /\ caller' = caller /\ exports' = exports
  BY DEF CreateRuntime
<1> HIDE DEF g, n
<1>4. /\ NewEntry("held") \in EntryType
      /\ NewEntry("held").calls = 0
      /\ NewEntry("held").memory = "held"
  <2>1. NewEntry("held").memory = "held"
    BY Zenon DEF NewEntry
  <2>2. NewEntry("held") \in EntryType
    BY DEF NewEntry, EntryType
  <2> QED  BY <2>1, <2>2 DEF NewEntry
<1>5. AbiType'
  <2>1. created' \in 0..MaxRuntimes /\ exports' \in Nat
    BY <1>1, <1>3 DEF AbiInv, AbiType, EntryType
  <2>2. slot' \in [AbiSlots -> [generation: Nat, entry: Nat]]
    BY <1>1, <1>2, <1>3 DEF AbiInv, AbiType, EntryType
  <2>3. handleOf' \in [Entries -> [index: AbiSlots \cup {0}, generation: Nat]]
    BY <1>1, <1>2, <1>3 DEF AbiInv, AbiType, EntryType
  <2>4. entry' \in [Entries -> EntryType]
    BY <1>1, <1>3, <1>4 DEF AbiInv, AbiType, EntryType
  <2> QED  BY <1>3, <2>1, <2>2, <2>3, <2>4 DEF AbiInv, AbiType, EntryType
<1>6. \A e \in Entries : /\ e # n => handleOf'[e] = handleOf[e] /\ entry'[e] = entry[e]
                         /\ e = n => handleOf'[e] = [index |-> i, generation |-> g] /\ entry'[e].memory = "held"
  BY <1>1, <1>3, <1>4 DEF AbiInv, AbiType, EntryType
<1>7. \A j \in AbiSlots : slot'[j] = IF j = i THEN [generation |-> g, entry |-> n] ELSE slot[j]
  BY <1>3 DEF AbiInv, AbiType, EntryType
<1>8. 1..created \subseteq Entries /\ n \notin 1..created /\ 1..created' = 1..created \cup {n}
  BY <1>1 DEF Entries, n
<1>9. HandlesFit'
  <2> SUFFICES ASSUME NEW e \in 1..created'
               PROVE  /\ handleOf'[e].index \in AbiSlots
                      /\ handleOf'[e].generation <= slot'[handleOf'[e].index].generation
                      /\ handleOf'[e].generation = slot'[handleOf'[e].index].generation
                           => slot'[handleOf'[e].index].entry = e
    BY DEF HandlesFit
  <2>1. CASE e = n
    BY <1>1, <1>2, <1>6, <1>7, <1>8, <2>1
  <2>2. CASE e \in 1..created
    <3> DEFINE h == handleOf[e]
    <3>1. /\ h.index \in AbiSlots /\ h.generation <= slot[h.index].generation /\ h.generation \in Nat
          /\ h.generation = slot[h.index].generation => slot[h.index].entry = e
      BY <1>8, <2>2 DEF AbiInv, HandlesFit, AbiType
    <3>2. handleOf'[e] = h /\ e # n /\ e # 0
      BY <1>6, <1>8, <2>2
    <3>3. CASE h.index # i
      BY <1>7, <3>1, <3>2, <3>3
    <3>4. CASE h.index = i
      <4>1. h.generation # slot[i].generation
        BY <1>1, <3>1, <3>2, <3>4
      <4>2. slot[i].generation \in Nat /\ g \in Nat
        BY <1>2 DEF AbiInv, AbiType, EntryType
      <4> QED  BY <1>2, <1>7, <3>1, <3>2, <3>4, <4>1, <4>2
    <3> QED  BY <3>3, <3>4
  <2> QED  BY <1>8, <2>1, <2>2
<1>10. SlotsFit'
  <2> SUFFICES ASSUME NEW j \in AbiSlots
               PROVE  /\ slot'[j].entry = 0 => slot'[j].generation <= created' + 1
                      /\ slot'[j].entry # 0 =>
                           /\ slot'[j].entry \in 1..created' /\ slot'[j].generation \in 1..created'
                           /\ entry'[slot'[j].entry].memory = "held"
                           /\ handleOf'[slot'[j].entry] = [index |-> j, generation |-> slot'[j].generation]
    BY DEF SlotsFit
  <2>1. CASE j = i
    BY <1>1, <1>2, <1>6, <1>7, <1>8, <2>1
  <2>2. CASE j # i
    <3>1. slot'[j] = slot[j] /\ slot[j].generation \in Nat /\ slot[j].entry \in Nat
      BY <1>7, <2>2 DEF AbiInv, AbiType, EntryType
    <3>2. CASE slot[j].entry = 0
      <4>1. slot[j].generation <= created + 1
        BY <3>2 DEF AbiInv, SlotsFit
      <4> QED  BY <1>1, <3>1, <3>2, <4>1
    <3>3. CASE slot[j].entry # 0
      <4>1. /\ slot[j].entry \in 1..created /\ slot[j].generation \in 1..created
            /\ entry[slot[j].entry].memory = "held"
            /\ handleOf[slot[j].entry] = [index |-> j, generation |-> slot[j].generation]
        BY <3>3 DEF AbiInv, SlotsFit
      <4>2. 1..created \subseteq 1..created'
        BY <1>8
      <4> QED  BY <1>6, <1>8, <3>1, <3>3, <4>1, <4>2
    <3> QED  BY <3>2, <3>3
  <2> QED  BY <2>1, <2>2
<1>11. ~RegistryLocked
  BY DEF CreateRuntime
<1>12. CallersFit' /\ OneDestroyer'
  <2>1. OneDestroyer'
    BY <1>3 DEF AbiInv, OneDestroyer
  <2>2. \A k \in Callers : caller[k].step \notin {"stopped", "released"}
    BY <1>11 DEF RegistryLocked
  <2>3. ASSUME NEW k \in Callers, caller[k].step # "out"
        PROVE  /\ caller[k].entry \in 1..created' /\ caller[k].meant = caller[k].entry
               /\ entry'[caller[k].entry].memory = "held"
    <3>1. /\ caller[k].entry \in 1..created /\ caller[k].meant = caller[k].entry
          /\ entry[caller[k].entry].memory = "held"
      BY <2>3 DEF AbiInv, CallersFit
    <3> QED  BY <1>6, <1>8, <3>1
  <2> QED  BY <1>3, <2>1, <2>2, <2>3 DEF CallersFit
<1>13. CallsCounted'
  <2>1. \A e : Working(e)' = Working(e)
    BY <1>3 DEF Working
  <2>2. Working(n) = {}
    BY <1>8 DEF Working, AbiInv, CallersFit
  <2>3. entry'[n].calls = 0
    BY <1>1, <1>3, <1>4 DEF AbiInv, AbiType, EntryType
  <2> QED  BY <1>6, <2>1, <2>2, <2>3, FS_EmptySet DEF AbiInv, CallsCounted
<1> QED  BY <1>5, <1>9, <1>10, <1>12, <1>13 DEF AbiInv

\* What a change of active_calls leaves alone.
SetsCalls(e, n) == entry' = [entry EXCEPT ![e].calls = n]

LEMMA CallsChange ==
  ASSUME AbiType, NEW m \in Entries, NEW n \in Int, SetsCalls(m, n)
  PROVE  /\ entry' \in [Entries -> EntryType]
         /\ \A e \in Entries : entry'[e].memory = entry[e].memory
         /\ \A e \in Entries : entry'[e].calls = IF e = m THEN n ELSE entry[e].calls
<1>1. entry \in [Entries -> EntryType]
  BY DEF AbiType
<1>2. \A e \in Entries : entry'[e] = IF e = m THEN [entry[e] EXCEPT !.calls = n] ELSE entry[e]
  BY <1>1 DEF SetsCalls
<1>3. \A e \in Entries : entry'[e].memory = entry[e].memory
  BY <1>1, <1>2 DEF EntryType
<1>4. \A e \in Entries : entry'[e].calls = IF e = m THEN n ELSE entry[e].calls
  BY <1>1, <1>2 DEF EntryType
<1>5. entry' \in [Entries -> EntryType]
  BY <1>1 DEF EntryType, SetsCalls
<1> QED  BY <1>3, <1>4, <1>5

LEMMA BeginCallStep ==
  ASSUME AbiInv, NEW c \in Callers, NEW m \in 1..created, BeginCall(c, m)
  PROVE  AbiInv'
<1> DEFINE k == [step |-> "call", meant |-> m, entry |-> m]
<1>1. /\ Lookup(handleOf[m]) = m /\ slot[handleOf[m].index].entry = m
      /\ caller[c].step = "out" /\ ~RegistryLocked
  BY LookupSound DEF AbiInv, BeginCall
<1>2. /\ m \in Entries /\ m # 0 /\ handleOf[m].index \in AbiSlots /\ entry[m].memory = "held" /\ m \in Nat
  <2>1. m \in Entries /\ m \in Nat /\ m # 0
    BY CreatedRange DEF AbiInv
  <2>2. handleOf[m].index \in AbiSlots
    BY DEF AbiInv, HandlesFit
  <2>3. entry[slot[handleOf[m].index].entry].memory = "held"
    BY Zenon, <1>1, <2>1, <2>2 DEF AbiInv, SlotsFit
  <2> QED  BY <1>1, <2>1, <2>2, <2>3
<1>3. /\ entry' = [entry EXCEPT ![m].calls = @ + 1] /\ caller' = [caller EXCEPT ![c] = k]
      /\ slot' = slot /\ created' = created /\ handleOf' = handleOf /\ exports' = exports
  BY <1>1 DEF BeginCall
<1>4. /\ entry' \in [Entries -> EntryType]
      /\ \A e \in Entries : /\ entry'[e].memory = entry[e].memory
                            /\ entry'[e].calls = IF e = m THEN entry[e].calls + 1 ELSE entry[e].calls
  <2>1. PICK n \in Int : n = entry[m].calls + 1
    BY <1>2 DEF AbiInv, AbiType, EntryType
  <2>2. SetsCalls(m, n)
    BY <1>3, <2>1 DEF SetsCalls
  <2>3. AbiType
    BY DEF AbiInv
  <2> QED  BY <1>2, <2>1, <2>2, <2>3, CallsChange
<1>5. /\ caller' \in [Callers -> [step: {"out", "call", "stopped", "released"}, meant: Nat, entry: Nat]]
      /\ \A d \in Callers : caller'[d] = IF d = c THEN k ELSE caller[d]
  BY <1>2, <1>3 DEF AbiInv, AbiType, EntryType
<1>6. AbiType' /\ HandlesFit'
  BY <1>3, <1>4, <1>5 DEF AbiInv, AbiType, HandlesFit
<1>7. SlotsFit'
  BY <1>3, <1>4, CreatedRange DEF AbiInv, SlotsFit
<1>8. CallersFit' /\ OneDestroyer'
  <2>1. \A d \in Callers : caller'[d].step \notin {"stopped", "released"}
    BY <1>1, <1>5 DEF RegistryLocked
  <2>2. \A d \in Callers : caller'[d].step # "out" =>
          caller'[d].entry \in 1..created /\ caller'[d].meant = caller'[d].entry /\ entry[caller'[d].entry].memory = "held"
    BY <1>2, <1>5 DEF AbiInv, CallersFit
  <2>3. CallersFit'
    BY <1>3, <1>4, <2>1, <2>2, CreatedRange DEF AbiInv, CallersFit
  <2> QED  BY <2>1, <2>3 DEF OneDestroyer
<1>9. CallsCounted'
  <2>1. c \notin Working(m) /\ Working(m)' = Working(m) \cup {c}
    BY <1>1, <1>5 DEF Working
  <2>2. ASSUME NEW e \in Entries, e # m  PROVE Working(e)' = Working(e)
    BY <1>1, <1>5, <2>2 DEF Working
  <2>3. Cardinality(Working(m)') = Cardinality(Working(m)) + 1
    BY <2>1, WorkingFinite, FS_AddElement
  <2> QED  BY <1>4, <2>2, <2>3 DEF AbiInv, CallsCounted
<1> QED  BY <1>6, <1>7, <1>8, <1>9 DEF AbiInv

LEMMA EndCallStep ==
  ASSUME AbiInv, NEW c \in Callers, EndCall(c)
  PROVE  AbiInv'
<1> PICK m \in Entries : m = caller[c].entry
  BY InCall DEF EndCall
<1>1. caller[c].step = "call" /\ m \in Entries
  BY DEF EndCall
<1>2. /\ entry' = [entry EXCEPT ![m].calls = @ - 1] /\ caller' = [caller EXCEPT ![c] = Outside]
      /\ slot' = slot /\ created' = created /\ handleOf' = handleOf /\ exports' = exports
  BY DEF EndCall
<1>3. /\ entry' \in [Entries -> EntryType]
      /\ \A e \in Entries : /\ entry'[e].memory = entry[e].memory
                            /\ entry'[e].calls = IF e = m THEN entry[e].calls - 1 ELSE entry[e].calls
  <2>1. PICK n \in Int : n = entry[m].calls - 1
    BY <1>1 DEF AbiInv, AbiType, EntryType
  <2>2. SetsCalls(m, n)
    BY <1>2, <2>1 DEF SetsCalls
  <2>3. AbiType
    BY DEF AbiInv
  <2> QED  BY <1>1, <2>1, <2>2, <2>3, CallsChange
<1>4. /\ Outside.step = "out"
      /\ caller' \in [Callers -> [step: {"out", "call", "stopped", "released"}, meant: Nat, entry: Nat]]
      /\ \A d \in Callers : caller'[d] = IF d = c THEN Outside ELSE caller[d]
  BY <1>2 DEF AbiInv, AbiType, Outside
<1>5. AbiType' /\ HandlesFit'
  BY <1>2, <1>3, <1>4 DEF AbiInv, AbiType, HandlesFit
<1>6. SlotsFit'
  BY <1>2, <1>3, CreatedRange DEF AbiInv, SlotsFit
<1>7. CallersFit' /\ OneDestroyer'
  <2>1. \A d \in Callers : caller'[d].step # "out" => d # c /\ caller'[d] = caller[d]
    BY <1>4
  <2>2. CallersFit'
    BY <1>2, <1>3, <2>1, CreatedRange DEF AbiInv, CallersFit
  <2>3. OneDestroyer'
    BY <2>1 DEF AbiInv, OneDestroyer
  <2> QED  BY <2>2, <2>3
<1>8. CallsCounted'
  <2>1. c \in Working(m) /\ Working(m)' = Working(m) \ {c}
    BY <1>1, <1>4 DEF Working
  <2>2. ASSUME NEW e \in Entries, e # m  PROVE Working(e)' = Working(e)
    BY <1>1, <1>4, <2>2 DEF Working
  <2>3. Cardinality(Working(m)') = Cardinality(Working(m)) - 1
    BY <2>1, WorkingFinite, FS_RemoveElement
  <2> QED  BY <1>3, <2>2, <2>3 DEF AbiInv, CallsCounted
<1> QED  BY <1>5, <1>6, <1>7, <1>8 DEF AbiInv

\* The steps of a destruction before its last only move the thread that destroys.
LEMMA DestroyerMoves ==
  ASSUME AbiInv, NEW c \in Callers, NEW k,
         k \in [step: {"out", "stopped", "released"}, meant: Nat, entry: Nat],
         caller' = [caller EXCEPT ![c] = k], caller[c].step # "call",
         UNCHANGED <<slot, created, handleOf, entry, exports>>,
         k.step # "out" => /\ k.entry \in 1..created /\ k.meant = k.entry /\ entry[k.entry].memory = "held"
                           /\ slot[handleOf[k.entry].index].entry = k.entry
                           /\ \A d \in Callers : d # c => caller[d].step \notin {"stopped", "released"}
  PROVE  AbiInv'
<1>1. /\ caller' \in [Callers -> [step: {"out", "call", "stopped", "released"}, meant: Nat, entry: Nat]]
      /\ \A d \in Callers : caller'[d] = IF d = c THEN k ELSE caller[d]
  BY DEF AbiInv, AbiType, EntryType
<1>2. k.step \in {"out", "stopped", "released"}
  OBVIOUS
<1>3. AbiType' /\ HandlesFit' /\ SlotsFit'
  BY <1>1 DEF AbiInv, AbiType, HandlesFit, SlotsFit
<1>4. CallersFit'
  BY <1>1, <1>2 DEF AbiInv, CallersFit
<1>5. OneDestroyer'
  BY <1>1, <1>2 DEF AbiInv, OneDestroyer
<1>6. CallsCounted'
  <2>1. \A e : Working(e)' = Working(e)
    BY <1>1, <1>2 DEF Working
  <2> QED  BY <2>1 DEF AbiInv, CallsCounted
<1> QED  BY <1>3, <1>4, <1>5, <1>6 DEF AbiInv

LEMMA BeginDestroyStep ==
  ASSUME AbiInv, NEW c \in Callers, NEW m \in 1..created, BeginDestroy(c, m)
  PROVE  AbiInv'
<1> DEFINE k == [step |-> "stopped", meant |-> m, entry |-> m]
<1>1. /\ Lookup(handleOf[m]) = m /\ slot[handleOf[m].index].entry = m
      /\ caller[c].step = "out" /\ ~RegistryLocked
  BY LookupSound DEF AbiInv, BeginDestroy
<1>2. m \in Nat /\ m # 0 /\ handleOf[m].index \in AbiSlots
  BY CreatedRange DEF AbiInv, HandlesFit
<1>3. entry[slot[handleOf[m].index].entry].memory = "held"
  BY <1>1, <1>2 DEF AbiInv, SlotsFit
<1>4. caller' = [caller EXCEPT ![c] = k] /\ UNCHANGED <<slot, created, handleOf, entry, exports>>
  BY <1>1 DEF BeginDestroy
<1>5. k \in [step: {"out", "stopped", "released"}, meant: Nat, entry: Nat]
  BY <1>2
<1>6. \A d \in Callers : caller[d].step \notin {"stopped", "released"}
  BY <1>1 DEF RegistryLocked
<1>7. k.entry = m /\ k.meant = m
  OBVIOUS
<1> HIDE DEF k
<1> QED  BY <1>1, <1>3, <1>4, <1>5, <1>6, <1>7, DestroyerMoves

LEMMA CheckBuffersStep ==
  ASSUME AbiInv, NEW c \in Callers, CheckBuffers(c)
  PROVE  AbiInv'
<1> DEFINE k == IF entry[caller[c].entry].buffers = {} THEN [caller[c] EXCEPT !.step = "released"] ELSE Outside
<1>1. /\ caller[c].step = "stopped" /\ caller' = [caller EXCEPT ![c] = k]
      /\ UNCHANGED <<slot, created, handleOf, entry, exports>>
  BY DEF CheckBuffers, AbiInv, AbiType
<1>2. caller[c] \in [step: {"out", "call", "stopped", "released"}, meant: Nat, entry: Nat]
  BY DEF AbiInv, AbiType
<1>3. /\ k \in [step: {"out", "stopped", "released"}, meant: Nat, entry: Nat]
      /\ k.step # "out" => k.entry = caller[c].entry /\ k.meant = caller[c].meant
  BY <1>2 DEF Outside
<1>4. /\ caller[c].entry \in 1..created /\ caller[c].meant = caller[c].entry
      /\ entry[caller[c].entry].memory = "held"
      /\ slot[handleOf[caller[c].entry].index].entry = caller[c].entry
  BY <1>1 DEF AbiInv, CallersFit
<1>5. \A d \in Callers : d # c => caller[d].step \notin {"stopped", "released"}
  BY <1>1 DEF AbiInv, OneDestroyer
<1> HIDE DEF k
<1> QED  BY <1>1, <1>3, <1>4, <1>5, DestroyerMoves

\* The removal: no call is active, so nobody holds the entry, and its handles become stale.
LEMMA RemoveStep ==
  ASSUME AbiInv, NEW c \in Callers, RemoveRuntime(c)
  PROVE  AbiInv'
<1> PICK e \in Entries : e = caller[c].entry
  BY InCall DEF RemoveRuntime
<1>1. /\ caller[c].step = "released" /\ caller' = [caller EXCEPT ![c] = Outside]
      /\ UNCHANGED <<created, handleOf, exports>>
  BY DEF RemoveRuntime
<1>2. /\ e \in 1..created /\ caller[c].meant = e /\ entry[e].memory = "held"
      /\ slot[handleOf[e].index].entry = e
      /\ \A d \in Callers : d # c => caller[d].step \notin {"stopped", "released"}
  BY <1>1 DEF AbiInv, CallersFit, OneDestroyer
<1>3. Outside \in [step: {"out", "stopped", "released"}, meant: Nat, entry: Nat] /\ Outside.step = "out"
  BY DEF Outside
<1>4. CASE entry[e].calls # 0
  <2>1. UNCHANGED <<slot, entry>>
    BY <1>4 DEF RemoveRuntime
  <2> QED  BY <1>1, <1>3, <2>1, DestroyerMoves
<1>5. CASE entry[e].calls = 0
  <2>1. PICK i \in AbiSlots : i = handleOf[e].index
    BY <1>2 DEF AbiInv, HandlesFit
  <2>2. PICK g \in 1..created : g = slot[i].generation
    <3>1. slot[i].entry # 0
      BY <1>2, <2>1, CreatedRange DEF AbiInv
    <3> QED  BY <3>1 DEF AbiInv, SlotsFit
  <2>3. created \in Nat /\ 1..created \subseteq Entries /\ g \in Nat /\ g <= created /\ g \in 0..MaxRuntimes
    BY CreatedRange DEF AbiInv
  <2>4. /\ slot' = [slot EXCEPT ![i] = [generation |-> g + 1, entry |-> 0]]
        /\ entry' = [entry EXCEPT ![e].memory = "freed"]
    <3>1. NextGeneration(slot[i].generation) = g + 1
      BY <2>2, <2>3, NoWrap
    <3> QED  BY <1>2, <1>5, <2>1, <3>1 DEF RemoveRuntime, AbiInv, AbiType
  <2>5. /\ \A j \in AbiSlots : slot'[j] = IF j = i THEN [generation |-> g + 1, entry |-> 0] ELSE slot[j]
        /\ slot' \in [AbiSlots -> [generation: Nat, entry: Nat]]
    BY <2>3, <2>4 DEF AbiInv, AbiType
  <2>6. /\ entry' \in [Entries -> EntryType]
        /\ \A f \in Entries : f # e => entry'[f] = entry[f]
        /\ \A f \in Entries : entry'[f].calls = entry[f].calls
    <3>1. entry \in [Entries -> EntryType]
      BY DEF AbiInv, AbiType
    <3>2. entry' \in [Entries -> EntryType]
      BY <2>4, <3>1 DEF EntryType
    <3>3. \A f \in Entries : f # e => entry'[f] = entry[f]
      BY <2>4, <3>1
    <3>4. entry'[e].calls = entry[e].calls
      BY <2>4, <3>1 DEF EntryType
    <3> QED  BY <3>2, <3>3, <3>4
  <2>7. /\ caller' \in [Callers -> [step: {"out", "call", "stopped", "released"}, meant: Nat, entry: Nat]]
        /\ \A d \in Callers : caller'[d] = IF d = c THEN Outside ELSE caller[d]
    BY <1>1, <1>3 DEF AbiInv, AbiType
  <2>8. Working(e) = {}
    BY <1>5, WorkingFinite, FS_EmptySet DEF AbiInv, CallsCounted
  <2>9. AbiType'
    BY <1>1, <2>5, <2>6, <2>7 DEF AbiInv, AbiType
  <2>10. HandlesFit'
    <3> SUFFICES ASSUME NEW f \in 1..created
                 PROVE  /\ handleOf[f].index \in AbiSlots
                        /\ handleOf[f].generation <= slot'[handleOf[f].index].generation
                        /\ handleOf[f].generation = slot'[handleOf[f].index].generation
                             => slot'[handleOf[f].index].entry = f
      BY <1>1 DEF HandlesFit
    <3>1. /\ handleOf[f].index \in AbiSlots /\ handleOf[f].generation \in Nat
          /\ handleOf[f].generation <= slot[handleOf[f].index].generation
          /\ handleOf[f].generation = slot[handleOf[f].index].generation => slot[handleOf[f].index].entry = f
      BY <2>3 DEF AbiInv, AbiType, HandlesFit
    <3>2. CASE handleOf[f].index = i
      <4>1. handleOf[f].generation <= g
        BY <2>2, <3>1, <3>2
      <4> QED  BY <2>3, <2>5, <3>1, <3>2, <4>1
    <3>3. CASE handleOf[f].index # i
      BY <2>5, <3>1, <3>3
    <3> QED  BY <3>2, <3>3
  <2>11. SlotsFit'
    <3> SUFFICES ASSUME NEW j \in AbiSlots
                 PROVE  /\ slot'[j].entry = 0 => slot'[j].generation <= created + 1
                        /\ slot'[j].entry # 0 =>
                             /\ slot'[j].entry \in 1..created /\ slot'[j].generation \in 1..created
                             /\ entry'[slot'[j].entry].memory = "held"
                             /\ handleOf[slot'[j].entry] = [index |-> j, generation |-> slot'[j].generation]
      BY <1>1 DEF SlotsFit
    <3>1. CASE j = i
      BY <2>3, <2>5, <3>1
    <3>2. CASE j # i
      <4>1. slot'[j] = slot[j]
        BY <2>5, <3>2
      <4>2. slot[j].entry # e
        <5>1. e # 0
          BY <1>2, <2>3
        <5>2. slot[j].entry # 0 => handleOf[slot[j].entry] = [index |-> j, generation |-> slot[j].generation]
          BY DEF AbiInv, SlotsFit
        <5>3. slot[j].entry = e => handleOf[e].index = j
          BY <5>1, <5>2
        <5> QED  BY <2>1, <3>2, <5>3
      <4>3. slot[j].entry # 0 => entry'[slot[j].entry] = entry[slot[j].entry]
        <5>1. slot[j].entry # 0 => slot[j].entry \in 1..created
          BY DEF AbiInv, SlotsFit
        <5> QED  BY <2>3, <2>6, <4>2, <5>1
      <4> QED  BY <4>1, <4>3 DEF AbiInv, SlotsFit
    <3> QED  BY <3>1, <3>2
  <2>12. \A d \in Callers : caller'[d].step # "out" =>
           d # c /\ caller'[d] = caller[d] /\ caller[d].step \notin {"stopped", "released"} /\ caller[d].entry # e
    <3>1. \A d \in Callers : caller[d].step # "out" => caller[d].step \in {"call", "stopped", "released"}
      BY DEF AbiInv, AbiType
    <3> QED  BY <1>2, <1>3, <2>7, <2>8, <3>1 DEF Working
  <2>13. CallersFit'
    BY <1>1, <2>3, <2>6, <2>12 DEF AbiInv, CallersFit
  <2>14. OneDestroyer'
    BY <2>12 DEF OneDestroyer
  <2>15. CallsCounted'
    <3>1. \A f : Working(f)' = Working(f)
      BY <1>1, <1>3, <2>7 DEF Working
    <3> QED  BY <2>6, <3>1 DEF AbiInv, CallsCounted
  <2> QED  BY <2>9, <2>10, <2>11, <2>13, <2>14, <2>15 DEF AbiInv
<1> QED  BY <1>4, <1>5

-----------------------------------------------------------------------------

LEMMA AbiStep == AbiInv /\ [AbiNext]_abiVars => AbiInv'
<1> SUFFICES ASSUME AbiInv, [AbiNext]_abiVars  PROVE AbiInv'
  OBVIOUS
<1>1. entry \in [Entries -> EntryType] /\ exports \in Nat
  BY DEF AbiInv, AbiType
<1>2. CASE UNCHANGED abiVars
  <2>1. UNCHANGED <<slot, created, handleOf, caller>> /\ exports' \in Nat /\ entry' = entry
    BY <1>1, <1>2 DEF abiVars
  <2> QED  BY <1>1, <2>1, InsideCall
<1>3. ASSUME NEW c \in Callers, NEW i \in AbiSlots, CreateRuntime(c, i)  PROVE AbiInv'
  BY <1>3, CreateStep
<1>4. ASSUME NEW c \in Callers, NEW m \in 1..created, BeginCall(c, m) \/ BeginDestroy(c, m)  PROVE AbiInv'
  BY <1>4, BeginCallStep, BeginDestroyStep
<1>5. ASSUME NEW c \in Callers, ExportBuffer(c)  PROVE AbiInv'
  <2>1. PICK m \in Entries : m = caller[c].entry
    BY <1>5, InCall DEF ExportBuffer
  <2>2. /\ entry' = [entry EXCEPT ![m].buffers = @ \cup {exports + 1}] /\ exports' = exports + 1
        /\ UNCHANGED <<slot, created, handleOf, caller>>
    BY <1>5, <2>1 DEF ExportBuffer
  <2>3. entry' \in [Entries -> EntryType]
    BY <1>1, <2>2 DEF EntryType
  <2>4. \A e \in Entries : entry'[e].calls = entry[e].calls /\ entry'[e].memory = entry[e].memory
    BY <1>1, <2>2 DEF EntryType
  <2>5. exports' \in Nat
    BY <1>1, <2>2
  <2> QED  BY <2>2, <2>3, <2>4, <2>5, InsideCall
<1>6. ASSUME NEW c \in Callers, NEW token, ReleaseBuffer(c, token)  PROVE AbiInv'
  <2>1. PICK m \in Entries : m = caller[c].entry
    BY <1>6, InCall DEF ReleaseBuffer
  <2>2. /\ entry' = [entry EXCEPT ![m].buffers = @ \ {token}] /\ exports' = exports
        /\ UNCHANGED <<slot, created, handleOf, caller>>
    BY <1>6, <2>1 DEF ReleaseBuffer
  <2>3. entry' \in [Entries -> EntryType]
    BY <1>1, <2>2 DEF EntryType
  <2>4. \A e \in Entries : entry'[e].calls = entry[e].calls /\ entry'[e].memory = entry[e].memory
    BY <1>1, <2>2 DEF EntryType
  <2> QED  BY <1>1, <2>2, <2>3, <2>4, InsideCall
<1>7. ASSUME NEW c \in Callers, StopRuntime(c)  PROVE AbiInv'
  <2>1. PICK m \in Entries : m = caller[c].entry
    BY <1>7, InCall DEF StopRuntime
  <2>2. /\ entry' = [entry EXCEPT ![m].stopped = TRUE] /\ exports' = exports
        /\ UNCHANGED <<slot, created, handleOf, caller>>
    BY <1>7, <2>1 DEF StopRuntime
  <2>3. entry' \in [Entries -> EntryType]
    BY <1>1, <2>2 DEF EntryType
  <2>4. \A e \in Entries : entry'[e].calls = entry[e].calls /\ entry'[e].memory = entry[e].memory
    BY <1>1, <2>2 DEF EntryType
  <2> QED  BY <1>1, <2>2, <2>3, <2>4, InsideCall
<1>8. ASSUME NEW c \in Callers, EndCall(c) \/ CheckBuffers(c) \/ RemoveRuntime(c)  PROVE AbiInv'
  BY <1>8, EndCallStep, CheckBuffersStep, RemoveStep
<1> QED  BY <1>2, <1>3, <1>4, <1>5, <1>6, <1>7, <1>8 DEF AbiNext

\* For any number of threads, slots and runtimes, a call works on the runtime its handle was
\* made for and that runtime is in memory until the call ends.
THEOREM CallsHoldTheirRuntime == AbiSpec => []LeasesAreSound
<1>1. AbiInit => AbiInv
  BY AbiInitial
<1>2. AbiInv /\ [AbiNext]_abiVars => AbiInv'
  BY AbiStep
<1>3. AbiInv => LeasesAreSound
  BY DEF AbiInv, CallersFit, LeasesAreSound
<1> QED  BY <1>1, <1>2, <1>3, PTL DEF AbiSpec
=============================================================================
