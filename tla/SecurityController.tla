------------------------- MODULE SecurityController -------------------------
(***************************************************************************)
(* The server-led security barrier of rnet-security/src/transition.rs as   *)
(* pure operators on a controller value.  A transition is a mode switch or *)
(* a rekey and runs Propose, Ready, Commit, Ack.  The two families of arms *)
(* of SecurityController::handle differ only in the effect they return, so *)
(* one field "op" tells them apart here.                                   *)
(***************************************************************************)
EXTENDS Naturals, Sequences

CONSTANT EpochMax    \* the largest epoch the counter holds (u64::MAX)

ASSUME EpochMaxAssumption == EpochMax \in Nat \ {0}

Roles == {"server", "client"}
Modes == {"Plaintext", "Encrypted"}
NoMode == "NoMode"                      \* Control::barrier carries no mode
Ops == {"Switch", "Rekey"}
Epochs == 0 .. EpochMax
Effects == {"None", "SetMode", "Rekey", "AdvanceEpoch"}

Control == {m \in [op: Ops, step: {"Propose", "Ready", "Commit", "Ack"},
                   epoch: Epochs, mode: Modes \cup {NoMode}] :
              m.op = "Rekey" => m.mode = NoMode}

NoPending == [stage |-> "Idle", op |-> "Switch", epoch |-> 0, mode |-> NoMode]

\* ServerXReady, ServerXAck and ClientXCommit, for X in Ops.
Pending == {p \in [stage: {"Idle", "Ready", "Ack", "Commit"}, op: Ops,
                   epoch: Epochs, mode: Modes \cup {NoMode}] :
              p.stage # "Idle" => (p.mode = NoMode <=> p.op = "Rekey")}

Controller == [role: Roles, mode: Modes, epoch: Epochs, pending: Pending]

NewController(role, mode, epoch) ==
  [role |-> role, mode |-> mode, epoch |-> epoch, pending |-> NoPending]

IsTransitioning(c) == c.pending # NoPending

\* Control::switch and Control::barrier.
Switch(step, epoch, mode) ==
  [op |-> "Switch", step |-> step, epoch |-> epoch, mode |-> mode]

Barrier(op, step, epoch) ==
  [op |-> op, step |-> step, epoch |-> epoch, mode |-> NoMode]

HasNextEpoch(c) == c.epoch < EpochMax

EnsureServerIdle(c) ==
  c.role = "server" /\ ~IsTransitioning(c) /\ c.epoch # 0

ValidNextEpoch(c, epoch) == HasNextEpoch(c) /\ epoch = c.epoch + 1

-----------------------------------------------------------------------------
(* begin_switch and begin_rekey: the guard, the new controller and the     *)
(* proposal that is handed to the driver.                                  *)

CanBeginSwitch(c, mode) == EnsureServerIdle(c) /\ mode # c.mode /\ HasNextEpoch(c)

BeginSwitch(c, mode) ==
  [c EXCEPT !.pending = [stage |-> "Ready", op |-> "Switch",
                         epoch |-> c.epoch + 1, mode |-> mode]]

CanBeginRekey(c) == EnsureServerIdle(c) /\ HasNextEpoch(c)

BeginRekey(c) ==
  [c EXCEPT !.pending = [stage |-> "Ready", op |-> "Rekey",
                         epoch |-> c.epoch + 1, mode |-> NoMode]]

-----------------------------------------------------------------------------
(* handle: what the controller accepts, the state it moves to, the barrier *)
(* it answers with and the effects before and after that answer.           *)

AcceptsPropose(c, m) ==
  /\ c.role = "client" /\ ~IsTransitioning(c) /\ m.step = "Propose"
  /\ m.op = "Switch" => m.mode # NoMode
  /\ ValidNextEpoch(c, m.epoch)

\* The arms guarded by a pending stage, its operation and its epoch.
AcceptsAt(c, m, role, stage) ==
  /\ c.role = role /\ c.pending.stage = stage /\ m.step = stage
  /\ m.op = c.pending.op /\ m.epoch = c.pending.epoch

AcceptsReady(c, m)  == AcceptsAt(c, m, "server", "Ready")
AcceptsCommit(c, m) == AcceptsAt(c, m, "client", "Commit")
AcceptsAck(c, m)    == AcceptsAt(c, m, "server", "Ack")

Accepts(c, m) == \/ AcceptsPropose(c, m) \/ AcceptsReady(c, m)
                 \/ AcceptsCommit(c, m)  \/ AcceptsAck(c, m)

\* Mutant: a switch forgets to advance the epoch.
AdoptKeepsEpoch(c) ==
  [c EXCEPT !.mode = IF c.pending.op = "Switch" THEN c.pending.mode ELSE c.mode,
            !.epoch = IF c.pending.op = "Switch" THEN c.epoch ELSE c.pending.epoch,
            !.pending = NoPending]

\* The mode and the epoch of the pending transition become the active ones.
Adopt(c) ==
  [c EXCEPT !.mode = IF c.pending.op = "Switch" THEN c.pending.mode ELSE c.mode,
            !.epoch = c.pending.epoch,
            !.pending = NoPending]

\* Mutant: the server adopts when it commits, without waiting for the Ack.
HandledEarly(c, m) ==
  IF m.step = "Propose"
  THEN [c EXCEPT !.pending = [stage |-> "Commit", op |-> m.op,
                              epoch |-> m.epoch, mode |-> m.mode]]
  ELSE Adopt(c)

Handled(c, m) ==
  CASE m.step = "Propose" ->
         [c EXCEPT !.pending = [stage |-> "Commit", op |-> m.op,
                                epoch |-> m.epoch, mode |-> m.mode]]
    [] m.step = "Ready" -> [c EXCEPT !.pending.stage = "Ack"]
    [] OTHER -> Adopt(c)

\* The acknowledgement is the last barrier of its transition.
HasResponse(m) == m.step # "Ack"

Response(m) ==
  Barrier(m.op, CASE m.step = "Propose" -> "Ready"
                  [] m.step = "Ready" -> "Commit"
                  [] OTHER -> "Ack", m.epoch)

\* Mutant: the acknowledgement of a rekey turns the server's keys again.
BeforeResponseTwice(m) ==
  CASE m.step \in {"Commit", "Ack"} -> IF m.op = "Switch" THEN "SetMode" ELSE "Rekey"
    [] OTHER -> "None"

BeforeResponse(m) ==
  CASE m.step = "Commit" -> IF m.op = "Switch" THEN "SetMode" ELSE "Rekey"
    [] m.step = "Ack" -> IF m.op = "Switch" THEN "SetMode" ELSE "AdvanceEpoch"
    [] OTHER -> "None"

\* Mutant: the server forgets to turn its keys behind the commit.
AfterResponseNever(m) == "None"

\* The server turns its keys only once the commit has left under the old ones.
AfterResponse(m) ==
  IF m.step = "Ready" /\ m.op = "Rekey" THEN "Rekey" ELSE "None"
=============================================================================
