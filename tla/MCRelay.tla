------------------------------ MODULE MCRelay ------------------------------
(***************************************************************************)
(* An instance of Relay for TLC.  The streams of the two directions have   *)
(* different lengths: the longer one wraps the buffer more than once, the  *)
(* shorter one leaves something to lose on the way back.                   *)
(***************************************************************************)
EXTENDS Relay

MCTotal == [d \in Dirs |-> IF d = "up" THEN 4 ELSE 1]
=============================================================================
