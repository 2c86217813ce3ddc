---------------------------- MODULE SecurityView ----------------------------
(***************************************************************************)
(* What a security transition promises, whatever carries it: the server    *)
(* alone chooses the next mode and epoch, the client adopts that choice    *)
(* and nothing else, and the server follows only after the client has.     *)
(***************************************************************************)
EXTENDS Naturals

CONSTANT Modes

VARIABLES
  server,   \* the mode and epoch the server's data travels under
  client,   \* the same for the client
  target    \* what the server has decided on; server when nothing is pending

viewVars == <<server, client, target>>

View == [mode: Modes, epoch: Nat]

Init == server \in View /\ client = server /\ target = server

Decide ==
  /\ target = server /\ client = server
  /\ target' \in View /\ target'.epoch = server.epoch + 1
  /\ UNCHANGED <<server, client>>

ClientAdopts ==
  /\ client = server /\ target # server
  /\ client' = target
  /\ UNCHANGED <<server, target>>

ServerAdopts ==
  /\ client = target
  /\ server' = target
  /\ UNCHANGED <<client, target>>

Next == Decide \/ ClientAdopts \/ ServerAdopts

Spec == Init /\ [][Next]_viewVars
=============================================================================
