-------------------------- MODULE MCSessionRegistry -------------------------
(* Small instances of SessionRegistry. *)
EXTENDS SessionRegistry, TLC

\* Which call and which connection is which makes no difference.
Symmetry == Permutations(Calls) \cup Permutations(Connections) \cup Permutations(Stops)
=============================================================================
