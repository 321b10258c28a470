------------------------------- MODULE Relay -------------------------------
(***************************************************************************)
(* One forwarded connection: forward_connection of                         *)
(* irodori-proxy/src/forwarder.rs, run under the select! of                *)
(* start_forwarder that races it against the cancellation token.           *)
(*                                                                         *)
(* Two peers talk through the relay.  "up" is what the client sends to the *)
(* remote, "down" what the remote sends to the client.  The loop of the    *)
(* relay makes four I/O attempts per turn, one action each, and sleeps     *)
(* when a turn moved nothing: the sleep is the only point where the task   *)
(* gives way, hence the only one where a cancellation is noticed.          *)
(*                                                                         *)
(* The peers and the sockets' kernel buffers are the environment: a peer   *)
(* sends, reads, shuts down its sending side or resets its connection at   *)
(* any time.                                                               *)
(***************************************************************************)
EXTENDS RelayBuffer, Sequences

CONSTANTS
  Total,      \* Total[d]: length of the stream the source of d may send (bounds the model)
  SockCap     \* bytes a socket's kernel buffer holds before a write would block

Dirs  == {"up", "down"}
Peers == {"client", "remote"}

ASSUME RelayAssumption ==
  /\ Total \in [Dirs -> Nat]
  /\ SockCap \in Nat \ {0}

VARIABLES
  pc,         \* the step of the loop the relay is about to take
  progress,   \* made_progress of the current turn
  outcome,    \* how forward_connection ended, or "running"
  closedBy,   \* the direction whose end of stream ended the relay, or "none"
  cancelled,  \* the cancellation token
  buf,        \* buf[d]: the Buffer of direction d
  sent,       \* sent[d]: bytes the source of d has sent
  taken,      \* taken[d]: how many of them the relay has read from its socket
  out,        \* out[d]: the bytes written to the socket of the sink of d
  got,        \* got[d]: how many of them the sink has read
  fin,        \* fin[d]: the source of d has shut down its sending side
  reset       \* reset[p]: the connection of peer p was reset

loopVars == <<pc, progress, outcome, closedBy>>
peerVars == <<cancelled, sent, got, fin, reset>>
vars     == <<loopVars, peerVars, buf, taken, out>>

Source(d) == IF d = "up" THEN "client" ELSE "remote"
Sink(d)   == IF d = "up" THEN "remote" ELSE "client"

Ended == outcome # "running"
-----------------------------------------------------------------------------
\* The task starts at the select!, with nothing polled yet.
Init ==
  /\ pc = "select"
  /\ progress = FALSE
  /\ outcome = "running"
  /\ closedBy = "none"
  /\ cancelled = FALSE
  /\ buf = [d \in Dirs |-> NewBuffer]
  /\ sent = [d \in Dirs |-> 0]
  /\ taken = [d \in Dirs |-> 0]
  /\ out = [d \in Dirs |-> << >>]
  /\ got = [d \in Dirs |-> 0]
  /\ fin = [d \in Dirs |-> FALSE]
  /\ reset = [p \in Peers |-> FALSE]

\* forward_connection returns, or is dropped; both sockets close.
Finish(how, d) ==
  /\ outcome' = how
  /\ closedBy' = d
  /\ pc' = "done"
  /\ UNCHANGED progress

GoOn(next, moved) ==
  /\ pc' = next
  /\ progress' = moved
  /\ UNCHANGED <<outcome, closedBy>>

\* Slips: the relay ends although bytes wait; it never ends.
CloseAtOnce(d, next) == Finish("closed", d)
NeverClose(d, next) == GoOn(next, progress)

\* Ok(0): the end of a stream ends the relay only once the direction is drained.
OnEof(d, next) == IF IsEmpty(buf[d]) THEN Finish("closed", d) ELSE GoOn(next, progress)

\* Room left in the kernel buffer towards the sink of d.
Room(d) == SockCap - (Len(out[d]) - got[d])

\* Steps 1 and 3: pass waiting bytes on.  A write takes any part of the slice;
\* Ok(0) and WouldBlock both leave everything as it is.
WriteOn(d, next) ==
  \/ /\ IsEmpty(buf[d])
     /\ GoOn(next, progress)
     /\ UNCHANGED <<buf, out>>
  \/ /\ ~IsEmpty(buf[d])
     /\ ~reset[Sink(d)]
     /\ \E n \in 1 .. Waiting(buf[d]) :
          /\ n <= Room(d)
          /\ out' = [out EXCEPT ![d] = @ \o ReadSlice(buf[d], n)]
          /\ buf' = [buf EXCEPT ![d] = DidRead(@, n)]
     /\ GoOn(next, TRUE)
  \/ /\ ~IsEmpty(buf[d])
     /\ ~reset[Sink(d)]
     /\ Room(d) = 0
     /\ GoOn(next, progress)
     /\ UNCHANGED <<buf, out>>
  \/ /\ ~IsEmpty(buf[d])
     /\ reset[Sink(d)]
     /\ Finish("error", "none")
     /\ UNCHANGED <<buf, out>>

\* Steps 2 and 4: read into the free end of the buffer, or make room when the
\* free end is used up.
ReadInto(d, next) ==
  \/ /\ AvailableWrite(buf[d]) > 0
     /\ \E n \in 1 .. AvailableWrite(buf[d]) :
          /\ n <= sent[d] - taken[d]
          /\ buf' = [buf EXCEPT ![d] = Fill(@, taken[d] + 1, n)]
          /\ taken' = [taken EXCEPT ![d] = @ + n]
     /\ GoOn(next, TRUE)
  \/ /\ AvailableWrite(buf[d]) > 0
     /\ sent[d] = taken[d]
     /\ fin[d]
     /\ OnEof(d, next)
     /\ UNCHANGED <<buf, taken>>
  \/ /\ AvailableWrite(buf[d]) > 0
     /\ sent[d] = taken[d]
     /\ ~fin[d]
     /\ ~reset[Source(d)]
     /\ GoOn(next, progress)
     /\ UNCHANGED <<buf, taken>>
  \/ /\ AvailableWrite(buf[d]) > 0
     /\ reset[Source(d)]
     /\ Finish("error", "none")
     /\ UNCHANGED <<buf, taken>>
  \/ /\ AvailableWrite(buf[d]) = 0
     /\ buf' = [buf EXCEPT ![d] = Compact(@)]
     /\ GoOn(next, progress)
     /\ UNCHANGED taken

WriteRemote ==
  /\ pc = "writeRemote"
  /\ WriteOn("up", "readClient")
  /\ UNCHANGED <<peerVars, taken>>

ReadClient ==
  /\ pc = "readClient"
  /\ ReadInto("up", "writeClient")
  /\ UNCHANGED <<peerVars, out>>

WriteClient ==
  /\ pc = "writeClient"
  /\ WriteOn("down", "readRemote")
  /\ UNCHANGED <<peerVars, taken>>

ReadRemote ==
  /\ pc = "readRemote"
  /\ ReadInto("down", "endTurn")
  /\ UNCHANGED <<peerVars, out>>

\* Slip: no sleep.
EndTurnWithoutSleep ==
  /\ pc = "endTurn"
  /\ GoOn("writeRemote", FALSE)
  /\ UNCHANGED <<peerVars, buf, taken, out>>

\* A turn that moved nothing sleeps 2 ms, which suspends the task at the select!.
EndTurn ==
  /\ pc = "endTurn"
  /\ IF progress THEN GoOn("writeRemote", FALSE) ELSE GoOn("select", FALSE)
  /\ UNCHANGED <<peerVars, buf, taken, out>>

\* The select! polls forward_connection (for the first time, or after the sleep).
Resume ==
  /\ pc = "select"
  /\ GoOn("writeRemote", FALSE)
  /\ UNCHANGED <<peerVars, buf, taken, out>>

\* The select! polls the token first and finds it cancelled.
StopOnCancel ==
  /\ pc = "select"
  /\ cancelled
  /\ Finish("cancelled", "none")
  /\ UNCHANGED <<peerVars, buf, taken, out>>

LoopStep == WriteRemote \/ ReadClient \/ WriteClient \/ ReadRemote \/ EndTurn \/ Resume
-----------------------------------------------------------------------------
(* The environment. *)

Send(d) ==
  /\ ~Ended
  /\ ~fin[d]
  /\ ~reset[Source(d)]
  /\ sent[d] < Total[d]
  /\ sent[d] - taken[d] < SockCap
  /\ sent' = [sent EXCEPT ![d] = @ + 1]
  /\ UNCHANGED <<loopVars, buf, taken, out, cancelled, got, fin, reset>>

ShutdownWrite(d) ==
  /\ ~Ended
  /\ ~fin[d]
  /\ ~reset[Source(d)]
  /\ fin' = [fin EXCEPT ![d] = TRUE]
  /\ UNCHANGED <<loopVars, buf, taken, out, cancelled, sent, got, reset>>

Receive(d) ==
  /\ ~reset[Sink(d)]
  /\ got[d] < Len(out[d])
  /\ got' = [got EXCEPT ![d] = @ + 1]
  /\ UNCHANGED <<loopVars, buf, taken, out, cancelled, sent, fin, reset>>

Reset(p) ==
  /\ ~Ended
  /\ ~reset[p]
  /\ reset' = [reset EXCEPT ![p] = TRUE]
  /\ UNCHANGED <<loopVars, buf, taken, out, cancelled, sent, got, fin>>

\* The owner of the forwarder cancels its token.
Cancel ==
  /\ ~cancelled
  /\ ~Ended
  /\ cancelled' = TRUE
  /\ UNCHANGED <<loopVars, buf, taken, out, sent, got, fin, reset>>

Environment ==
  \/ \E d \in Dirs : Send(d) \/ ShutdownWrite(d) \/ Receive(d)
  \/ \E p \in Peers : Reset(p)
  \/ Cancel
-----------------------------------------------------------------------------
Next == LoopStep \/ StopOnCancel \/ Environment

Spec == Init /\ [][Next]_vars

\* The runtime keeps polling a task that is ready, so the loop never stops half
\* way.  At a select! the branch polled first is chosen at random, so a token
\* that stays cancelled is polled first sooner or later.  The peers that are
\* still there read what they are sent.
Fairness ==
  /\ WF_vars(LoopStep)
  /\ SF_vars(StopOnCancel)
  /\ \A d \in Dirs : WF_vars(Receive(d))

FairSpec == Spec /\ Fairness
-----------------------------------------------------------------------------
TypeOK ==
  /\ pc \in {"select", "writeRemote", "readClient", "writeClient", "readRemote",
             "endTurn", "done"}
  /\ progress \in BOOLEAN
  /\ outcome \in {"running", "closed", "error", "cancelled"}
  /\ closedBy \in Dirs \cup {"none"}
  /\ cancelled \in BOOLEAN
  /\ buf \in [Dirs -> BufferType]
  /\ sent \in [Dirs -> Nat]
  /\ taken \in [Dirs -> Nat]
  /\ out \in [Dirs -> Seq(Nat)]
  /\ got \in [Dirs -> Nat]
  /\ fin \in [Dirs -> BOOLEAN]
  /\ reset \in [Peers -> BOOLEAN]

\* What a sink was given is the start of what its source sent: no byte is lost,
\* repeated or moved by the positions, the reset to 0 and the compaction of Buffer.
InOrder ==
  \A d \in Dirs :
    /\ Len(out[d]) <= sent[d]
    /\ \A i \in 1 .. Len(out[d]) : out[d][i] = i

\* The waiting part of a buffer is exactly the gap between what was read from the
\* source and what was written to the sink, and never leaves the allocation.
BufferIsTheGap ==
  \A d \in Dirs :
    /\ Holds(buf[d], Len(out[d]) + 1)
    /\ taken[d] = Len(out[d]) + Waiting(buf[d])
    /\ taken[d] <= sent[d]

\* A relay that ended on the end of a stream has delivered that whole stream: the
\* end of stream of a peer never overtakes the bytes the peer sent before it.
EofAfterLastByte ==
  outcome = "closed" =>
    /\ closedBy \in Dirs
    /\ fin[closedBy]
    /\ Len(out[closedBy]) = sent[closedBy]

\* A byte that was sent reaches the sink unless the relay ends first.
EveryByteDelivered ==
  \A d \in Dirs : \A k \in 1 .. Total[d] :
    (sent[d] >= k) ~> (Len(out[d]) >= k \/ Ended)

\* Once either peer has shut down its sending side the relay ends: no connection
\* lingers with its task spinning on an end of stream.
ShutdownEndsRelay == \A d \in Dirs : fin[d] ~> Ended

\* A cancelled relay ends, for streams of finite length: as soon as the traffic
\* pauses for one turn the task gives way and the token is seen.
CancelEndsRelay == cancelled ~> Ended
-----------------------------------------------------------------------------
(* The relay implements a pair of bounded byte pipes. *)

\* What is on its way in each direction: the waiting part of its buffer.
OnTheWay == [d \in Dirs |-> ReadSlice(buf[d], Waiting(buf[d]))]

Pipe == INSTANCE RelayPipe WITH pipe <- OnTheWay

\* Each direction is a first-in first-out pipe of at most Cap bytes, closed in an
\* orderly way only after the last byte of one of the streams.
ImplementsPipe == Pipe!Spec
=============================================================================
