----------------------------- MODULE MCDatagram -----------------------------
(***************************************************************************)
(* The datagram endpoints for TLC.  A setup concentrates on one part of    *)
(* the life of a session: the join, or one kind of transition with data    *)
(* around it.                                                              *)
(***************************************************************************)
EXTENDS DatagramEndpoint

Sends(c, s) == [e \in Roles |-> IF e = "client" THEN c ELSE s]

Join(kind) ==
  [kind |-> kind, candidates |-> 2, commands |-> {}, rekeys |-> FALSE, games |-> {},
   sends |-> Sends(0, 0), responders |-> 2]

Session(kind, rekeys, commands, sends, games) ==
  [kind |-> kind, candidates |-> 1, commands |-> commands, rekeys |-> rekeys,
   games |-> games, sends |-> sends, responders |-> 1]

AllSetups ==
  {Join("Udp"), Join("Kcp"),
   Session("Udp", TRUE, {}, Sends(1, 0), {}),
   Session("Udp", FALSE, {"Plaintext"}, Sends(1, 0), {}),
   Session("Udp", FALSE, {}, Sends(0, 2), {2}),
   Session("Kcp", TRUE, {"Rekey", "Plaintext"}, Sends(1, 0), {}),
   Session("Kcp", FALSE, {"Plaintext"}, Sends(0, 2), {2})}

KcpTwoSends == {Session("Kcp", FALSE, {"Plaintext"}, Sends(0, 2), {})}

UdpRekey == {Session("Udp", TRUE, {}, Sends(1, 0), {})}
=============================================================================
