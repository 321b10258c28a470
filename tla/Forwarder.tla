----------------------------- MODULE Forwarder -----------------------------
(***************************************************************************)
(* The local forwarder: start_forwarder of irodori-proxy/src/forwarder.rs. *)
(*                                                                         *)
(* One task accepts connections until the token is cancelled; every        *)
(* accepted client gets a task of its own, which dials the target on a     *)
(* thread of the runtime's blocking pool, waits for that thread and then   *)
(* relays under a select! against the token.  The dial itself looks at no  *)
(* token and sets no timeout, so a proxy that accepts and never answers    *)
(* holds its thread for ever: the state "hung".                            *)
(*                                                                         *)
(* What happens inside a relay is the module Relay; here a relay is one    *)
(* state that its peers end.  What both have is named apart here, for one  *)
(* module to extend both.                                                  *)
(***************************************************************************)
EXTENDS Integers, FiniteSets

CONSTANTS
  Conns,          \* the clients that may connect (bounds the model)
  PoolSize        \* threads of the blocking pool

ASSUME ForwarderAssumption == PoolSize \in Nat \ {0} /\ IsFiniteSet(Conns)

VARIABLES
  tokenCancelled, \* the cancellation token
  listener,       \* the accept loop: "accepting", "backoff" (its 100 ms sleep) or "closed"
  client,         \* client[c]: "absent", "pending" (in the backlog), "open" or "closed"
  left,           \* left[c]: the client has closed its end
  task,           \* task[c]: the step of the connection's task
  tunnel          \* tunnel[c]: "none", "open" or "closed"

forwarderVars == <<tokenCancelled, listener, client, left, task, tunnel>>

ForwarderInit ==
  /\ tokenCancelled = FALSE
  /\ listener = "accepting"
  /\ client = [c \in Conns |-> "absent"]
  /\ left = [c \in Conns |-> FALSE]
  /\ task = [c \in Conns |-> "none"]
  /\ tunnel = [c \in Conns |-> "none"]

\* The blocking pool is busy with a dial.
OnPool(c) == task[c] \in {"dialing", "hung"}
Busy == {c \in Conns : OnPool(c)}
-----------------------------------------------------------------------------
(* The accept loop. *)

Accept(c) ==
  /\ listener = "accepting"
  /\ client[c] = "pending"
  /\ client' = [client EXCEPT ![c] = "open"]
  /\ task' = [task EXCEPT ![c] = "queued"]
  /\ UNCHANGED <<tokenCancelled, listener, left, tunnel>>

\* Slip: the error ends the loop.
AcceptFailsForGood ==
  /\ listener = "accepting"
  /\ listener' = "closed"
  /\ UNCHANGED <<tokenCancelled, client, left, task, tunnel>>

\* accept() reports an error, for instance no file descriptor: sleep and go on.
AcceptFails ==
  /\ listener = "accepting"
  /\ listener' = "backoff"
  /\ UNCHANGED <<tokenCancelled, client, left, task, tunnel>>

BackoffOver ==
  /\ listener = "backoff"
  /\ listener' = "accepting"
  /\ UNCHANGED <<tokenCancelled, client, left, task, tunnel>>

\* The loop breaks; dropping the listener resets what is still in its backlog.
StopAccepting ==
  /\ listener = "accepting"
  /\ tokenCancelled
  /\ listener' = "closed"
  /\ client' = [c \in Conns |-> IF client[c] = "pending" THEN "closed" ELSE client[c]]
  /\ UNCHANGED <<tokenCancelled, left, task, tunnel>>
-----------------------------------------------------------------------------
(* The task of one connection. *)

\* Slip: a thread of its own for every dial.
StartDialUnpooled(c) ==
  /\ task[c] = "queued"
  /\ task' = [task EXCEPT ![c] = "dialing"]
  /\ UNCHANGED <<tokenCancelled, listener, client, left, tunnel>>

\* spawn_blocking: the dial runs once the pool has a thread for it.
StartDial(c) ==
  /\ task[c] = "queued"
  /\ Cardinality(Busy) < PoolSize
  /\ task' = [task EXCEPT ![c] = "dialing"]
  /\ UNCHANGED <<tokenCancelled, listener, client, left, tunnel>>

\* dial_resolved_transport returns a stream, an error (or panics), or never returns.
DialSucceeds(c) ==
  /\ task[c] = "dialing"
  /\ task' = [task EXCEPT ![c] = "dialed"]
  /\ tunnel' = [tunnel EXCEPT ![c] = "open"]
  /\ UNCHANGED <<tokenCancelled, listener, client, left>>

DialHangs(c) ==
  /\ task[c] = "dialing"
  /\ task' = [task EXCEPT ![c] = "hung"]
  /\ UNCHANGED <<tokenCancelled, listener, client, left, tunnel>>

\* Slip: the task ends and keeps its streams.
TaskLeaks(c) ==
  /\ task' = [task EXCEPT ![c] = "ended"]
  /\ UNCHANGED <<tokenCancelled, listener, client, left, tunnel>>

\* The task returns: what it owns, the client's stream and the tunnel, is dropped.
TaskEnds(c) ==
  /\ task' = [task EXCEPT ![c] = "ended"]
  /\ client' = [client EXCEPT ![c] = "closed"]
  /\ tunnel' = [tunnel EXCEPT ![c] = IF @ = "open" THEN "closed" ELSE @]
  /\ UNCHANGED <<tokenCancelled, listener, left>>

DialFails(c) ==
  /\ task[c] = "dialing"
  /\ TaskEnds(c)

StartRelay(c) ==
  /\ task[c] = "dialed"
  /\ task' = [task EXCEPT ![c] = "relaying"]
  /\ UNCHANGED <<tokenCancelled, listener, client, left, tunnel>>

\* set_nonblocking fails.
CannotRelay(c) ==
  /\ task[c] = "dialed"
  /\ TaskEnds(c)

\* A peer shuts down or fails, see Relay.
RelayEnds(c) ==
  /\ task[c] = "relaying"
  /\ TaskEnds(c)

\* Slip: the task does not look at the token.
StopRelayNever(c) ==
  /\ FALSE
  /\ TaskEnds(c)

StopRelay(c) ==
  /\ task[c] = "relaying"
  /\ tokenCancelled
  /\ TaskEnds(c)
-----------------------------------------------------------------------------
(* The clients and the owner of the forwarder. *)

\* A client connects once the kernel has room for it in the backlog.
Connect(c) ==
  /\ client[c] = "absent"
  /\ listener # "closed"
  /\ client' = [client EXCEPT ![c] = "pending"]
  /\ UNCHANGED <<tokenCancelled, listener, left, task, tunnel>>

Leave(c) ==
  /\ client[c] \in {"pending", "open"}
  /\ ~left[c]
  /\ left' = [left EXCEPT ![c] = TRUE]
  /\ UNCHANGED <<tokenCancelled, listener, client, task, tunnel>>

CancelForwarder ==
  /\ ~tokenCancelled
  /\ tokenCancelled' = TRUE
  /\ UNCHANGED <<listener, client, left, task, tunnel>>

AcceptLoop == AcceptFails \/ BackoffOver \/ StopAccepting \/ \E c \in Conns : Accept(c)

Dial(c) == DialSucceeds(c) \/ DialFails(c) \/ DialHangs(c)

Task(c) == StartDial(c) \/ Dial(c) \/ StartRelay(c) \/ CannotRelay(c) \/ RelayEnds(c) \/ StopRelay(c)

ForwarderNext ==
  \/ AcceptLoop
  \/ \E c \in Conns : Task(c) \/ Connect(c) \/ Leave(c)
  \/ CancelForwarder

ForwarderSpec == ForwarderInit /\ [][ForwarderNext]_forwarderVars

\* A pending client is accepted unless accept() fails for ever, a cancelled token
\* wins one of the select!s it is polled in, the pool takes queued dials in turn, a
\* dial returns or hangs, and a relay whose client has left ends (ShutdownEndsRelay).
ForwarderFairness ==
  /\ WF_forwarderVars(BackoffOver)
  /\ SF_forwarderVars(StopAccepting)
  /\ \A c \in Conns :
       /\ SF_forwarderVars(Accept(c))
       /\ SF_forwarderVars(StartDial(c))
       /\ WF_forwarderVars(Dial(c))
       /\ WF_forwarderVars(StartRelay(c) \/ CannotRelay(c))
       /\ WF_forwarderVars(StopRelay(c))
       /\ WF_forwarderVars(left[c] /\ RelayEnds(c))

ForwarderFairSpec == ForwarderSpec /\ ForwarderFairness
-----------------------------------------------------------------------------
ForwarderTypeOK ==
  /\ tokenCancelled \in BOOLEAN
  /\ listener \in {"accepting", "backoff", "closed"}
  /\ client \in [Conns -> {"absent", "pending", "open", "closed"}]
  /\ left \in [Conns -> BOOLEAN]
  /\ task \in [Conns -> {"none", "queued", "dialing", "hung", "dialed", "relaying", "ended"}]
  /\ tunnel \in [Conns -> {"none", "open", "closed"}]
  /\ Cardinality(Busy) <= PoolSize

\* A tunnel and its client live and die together: no tunnel stays open without a
\* task and a client, and no client stays open once its task is over, whichever of
\* the six exits of the task was taken.
EndsTogether ==
  \A c \in Conns :
    /\ tunnel[c] = "open" <=> task[c] \in {"dialed", "relaying"}
    /\ client[c] = "open" <=> task[c] \notin {"none", "ended"}

\* Only a cancellation stops the forwarder: neither a failing accept() nor anything
\* a connection does ends the accept loop, and it leaves no client in the backlog.
OnlyCancelStops ==
  listener = "closed" => tokenCancelled /\ \A c \in Conns : client[c] # "pending"

\* A dial that never returns, and dials that wait behind a pool full of those.
Stuck(c) ==
  \/ task[c] = "hung"
  \/ task[c] = "queued" /\ Cardinality({d \in Conns : task[d] = "hung"}) >= PoolSize

\* After a cancellation the port is released and every task ends, except the ones
\* held by a dial that never returns.
CancelStops ==
  tokenCancelled ~> (listener = "closed" /\ \A c \in Conns : task[c] \in {"none", "ended"} \/ Stuck(c))

\* Every client that connects is connected through or turned away, whatever the
\* dials of the other clients do, as long as they leave the pool a thread.
EveryClientAnswered ==
  \A c \in Conns : (client[c] = "pending") ~> (task[c] = "relaying" \/ client[c] = "closed" \/ Stuck(c))

\* A client that has left does not keep its tunnel, not even when it left while the
\* dial for it was under way.
LeaverReleasesTunnel ==
  \A c \in Conns : left[c] ~> (client[c] = "closed" /\ tunnel[c] # "open") \/ Stuck(c)
=============================================================================
