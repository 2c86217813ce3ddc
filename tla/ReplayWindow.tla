---------------------------- MODULE ReplayWindow ----------------------------
(***************************************************************************)
(* The replay window of DatagramTransport: the highest nonce received and  *)
(* a bitmap of the WindowSize positions that end at it.  The bitmap is the *)
(* set of the nonces whose bit is set; no nonce received is an empty set.  *)
(***************************************************************************)
EXTENDS Naturals

CONSTANT WindowSize   \* positions of the bitmap (64)

ASSUME WindowAssumption == WindowSize \in Nat \ {0}

EmptyWindow == [highest |-> 0, bitmap |-> {}]

\* Already received, or too old for the window to tell.
Contains(w, nonce) ==
  /\ w.bitmap # {} /\ nonce <= w.highest
  /\ w.highest - nonce >= WindowSize \/ nonce \in w.bitmap

\* Mutant: moving the window forward forgets what it holds.
InsertForgets(w, nonce) ==
  IF w.bitmap = {} \/ nonce > w.highest
  THEN [highest |-> nonce, bitmap |-> {nonce}]
  ELSE [w EXCEPT !.bitmap = @ \cup {nonce}]

\* A higher nonce shifts the bitmap, and what is shifted out is forgotten.
Insert(w, nonce) ==
  IF w.bitmap = {} \/ nonce > w.highest
  THEN [highest |-> nonce,
        bitmap |-> {n \in w.bitmap : nonce - n < WindowSize} \cup {nonce}]
  ELSE [w EXCEPT !.bitmap = @ \cup {nonce}]
=============================================================================
