---------------------------- MODULE MCTcpSession ----------------------------
(***************************************************************************)
(* The TCP session for TLC: how many sends each end makes.                 *)
(***************************************************************************)
EXTENDS TcpSession

OneEach == [s \in Roles |-> 1]
TwoFromClient == [s \in Roles |-> IF s = "client" THEN 2 ELSE 1]
OneFromClient == [s \in Roles |-> IF s = "client" THEN 1 ELSE 0]
=============================================================================
