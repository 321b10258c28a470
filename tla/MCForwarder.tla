---------------------------- MODULE MCForwarder ----------------------------
(***************************************************************************)
(* An instance of Forwarder for TLC: one connection more than the pool has *)
(* threads, so that a dial waits behind dials that may never return.       *)
(***************************************************************************)
EXTENDS Forwarder

CONSTANTS c1, c2, c3

MCConns == {c1, c2, c3}
=============================================================================
