---------------------------- MODULE MCGameLayer -----------------------------
(***************************************************************************)
(* Small instances of the parts of the game layer, side by side: sessions, *)
(* staged messages, heartbeats, clock synchronisation and loss estimation. *)
(* A behaviour is about the one in focus and the others stay as they       *)
(* start, so their state spaces add up.                                    *)
(***************************************************************************)
EXTENDS GameSession, GameStaging, Heartbeat, ClockSync, UdpLoss, TLC

VARIABLE focus    \* the component the behaviour is about

Components == {"session", "staging", "heartbeat", "clock", "loss"}

-----------------------------------------------------------------------------
(* Instances *)

\* One client without faults but a lost connection, with more early messages than it may have.
Early == [offers |-> << <<1, 2>> >>, resumes |-> {}, sends |-> 3, tickets |-> 0,
          kicks |-> 0, drops |-> 1, retries |-> 0, room |-> 1, closes |-> FALSE]

\* The second attempt resumes the first, whose session may be kicked.
ResumeKicked == [Early EXCEPT !.offers = << <<1, 1>>, <<1, 3>> >>, !.resumes = {2},
                              !.sends = 0, !.tickets = 1, !.kicks = 1, !.retries = 1]

\* The listener may close while a session is resumed.
ResumeClosed == [ResumeKicked EXCEPT !.kicks = 0, !.retries = 0, !.drops = 0,
                                     !.sends = 1, !.closes = TRUE]

\* Two attempts present the same ticket.
ResumeTwice == [ResumeKicked EXCEPT !.offers = << <<1, 1>>, <<1, 3>>, <<1, 2>> >>,
                                    !.resumes = {2, 3}, !.drops = 0, !.kicks = 0, !.retries = 0]

\* Nobody connects.
NoClients == [Early EXCEPT !.offers = << >>]

GameScenarios == {NoClients, Early, ResumeKicked, ResumeClosed, ResumeTwice}
GameVersions == <<1, 2>>

\* Class 1 is drained twice as often as class 0.
StageOrder == <<1, 1, 0>>
StageWork ==
  {{r \in ScheduledRequests : r.size = 1 /\ (r.expires => r.class = 1)}, LatestRequests,
   {r \in ScheduledRequests \cup LatestRequests :
      r.size = 2 /\ (r.kind = "scheduled" => ~r.expires /\ r.class = 1)}}

\* End 1 probes, end 2 only answers within the horizon.
ProbeEvery == <<1, HbHorizon + 1>>
ProbeTimeout == <<2, HbHorizon + 1>>

\* The server's runtime is older than the client's, or younger.
OlderAndYounger == {[client |-> 0, server |-> 1], [client |-> 2, server |-> 0]}

\* Threads are alike, and so are players.
ThreadsAndPlayers == Permutations(Threads) \cup Permutations(Players)

-----------------------------------------------------------------------------

\* Where a component may start in several ways it starts in one when not in focus.
LayerInit ==
  /\ focus \in Components
  /\ GameInit /\ StagingInit /\ HbInit /\ ClockInit /\ LossInit
  /\ (focus = "session") = (scenario # NoClients)
  /\ focus # "staging" => workload = LatestRequests
  /\ focus # "clock" => age["client"] = 0
  /\ focus # "loss" => first = 0

LayerNext ==
  /\ UNCHANGED focus
  /\ \/ focus = "session" /\ GameNext /\ UNCHANGED <<stagingVars, hbVars, clockVars, lossVars>>
     \/ focus = "staging" /\ StagingNext /\ UNCHANGED <<gameVars, hbVars, clockVars, lossVars>>
     \/ focus = "heartbeat" /\ HbNext /\ UNCHANGED <<gameVars, stagingVars, clockVars, lossVars>>
     \/ focus = "clock" /\ ClockNext /\ UNCHANGED <<gameVars, stagingVars, hbVars, lossVars>>
     \/ focus = "loss" /\ LossNext /\ UNCHANGED <<gameVars, stagingVars, hbVars, clockVars>>

LayerSpec ==
  LayerInit /\ [][LayerNext]_<<focus, gameVars, stagingVars, hbVars, clockVars, lossVars>>
=============================================================================
