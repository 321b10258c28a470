----------------------------- MODULE RelayPipe -----------------------------
(***************************************************************************)
(* What a forwarded connection promises, whatever buffers and loop it is   *)
(* built from: per direction a first-in first-out pipe of at most Cap      *)
(* bytes.  Bytes enter in the order they were sent, leave in the order     *)
(* they entered, and an orderly close happens only when one of the two     *)
(* streams has been passed on to its last byte.  After the close nothing   *)
(* moves any more.                                                         *)
(***************************************************************************)
EXTENDS Integers, Sequences

CONSTANTS Cap, Dirs

VARIABLES
  sent,      \* sent[d]: bytes the source of d has sent, numbered from 1
  fin,       \* fin[d]: the source of d will send no more
  pipe,      \* pipe[d]: bytes on their way
  out,       \* out[d]: bytes handed to the sink of d
  outcome    \* "running", or how the connection ended

pipeVars == <<sent, fin, pipe, out, outcome>>

Running == outcome = "running"

Init ==
  /\ sent = [d \in Dirs |-> 0]
  /\ fin = [d \in Dirs |-> FALSE]
  /\ pipe = [d \in Dirs |-> << >>]
  /\ out = [d \in Dirs |-> << >>]
  /\ outcome = "running"

Produce(d) ==
  /\ Running
  /\ ~fin[d]
  /\ sent' = [sent EXCEPT ![d] = @ + 1]
  /\ UNCHANGED <<fin, pipe, out, outcome>>

Hangup(d) ==
  /\ Running
  /\ fin' = [fin EXCEPT ![d] = TRUE]
  /\ UNCHANGED <<sent, pipe, out, outcome>>

\* Number of bytes of d that have entered its pipe.
Entered(d) == Len(out[d]) + Len(pipe[d])

Enter(d) ==
  /\ Running
  /\ \E n \in 1 .. Cap - Len(pipe[d]) :
       /\ Entered(d) + n <= sent[d]
       /\ pipe' = [pipe EXCEPT ![d] = @ \o [i \in 1 .. n |-> Entered(d) + i]]
  /\ UNCHANGED <<sent, fin, out, outcome>>

Leave(d) ==
  /\ Running
  /\ \E n \in 1 .. Len(pipe[d]) :
       /\ out' = [out EXCEPT ![d] = @ \o SubSeq(pipe[d], 1, n)]
       /\ pipe' = [pipe EXCEPT ![d] = SubSeq(@, n + 1, Len(@))]
  /\ UNCHANGED <<sent, fin, outcome>>

CloseOrderly ==
  /\ Running
  /\ \E d \in Dirs : fin[d] /\ Len(out[d]) = sent[d]
  /\ outcome' = "closed"
  /\ UNCHANGED <<sent, fin, pipe, out>>

\* A failing peer or a cancelled token may end the connection at any time.
Abort ==
  /\ Running
  /\ outcome' \in {"error", "cancelled"}
  /\ UNCHANGED <<sent, fin, pipe, out>>

Next ==
  \/ \E d \in Dirs : Produce(d) \/ Hangup(d) \/ Enter(d) \/ Leave(d)
  \/ CloseOrderly
  \/ Abort

Spec == Init /\ [][Next]_pipeVars
=============================================================================
