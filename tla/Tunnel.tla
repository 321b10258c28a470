------------------------------- MODULE Tunnel -------------------------------
(***************************************************************************)
(* What dialling a transport promises: a connection that grows along its   *)
(* route, one address after the other and none left out, and that is up    *)
(* only once it has reached the end of the route.                          *)
(***************************************************************************)
EXTENDS Naturals, Sequences

VARIABLES route,      \* the servers of the transport, then its target
          reached,    \* the addresses the connection goes through
          outcome     \* "dialing", "up" or "failed"

Init == reached = << >> /\ outcome = "dialing"

Extend == /\ outcome = "dialing"
          /\ Len(reached) < Len(route)
          /\ reached' = Append(reached, route[Len(reached) + 1])
          /\ UNCHANGED <<route, outcome>>

Finish == /\ outcome = "dialing"
          /\ reached = route
          /\ outcome' = "up"
          /\ UNCHANGED <<route, reached>>

Abandon == /\ outcome = "dialing"
           /\ outcome' = "failed"
           /\ UNCHANGED <<route, reached>>

Next == Extend \/ Finish \/ Abandon

Spec == Init /\ [][Next]_<<route, reached, outcome>>
=============================================================================
