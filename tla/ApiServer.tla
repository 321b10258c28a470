----------------------------- MODULE ApiServer -----------------------------
(***************************************************************************)
(* The local data API: dispatch, route and query of                        *)
(* irodori-server/src/server.rs with the SQLite sources of source.rs.      *)
(*                                                                         *)
(* Every request runs as a task.  It authenticates, is routed and checked  *)
(* without giving way; a statement is then run on a thread of its own      *)
(* while the task waits, which is where a client can go away: the HTTP     *)
(* layer drops the waiting task, and the thread, which nobody can stop,    *)
(* goes on.  All statements on one source share one connection behind one  *)
(* lock, and with it one transaction.                                      *)
(*                                                                         *)
(* Statements are known by what the guard and the connection do with them: *)
(* "select", "insert", "begin", "commit", "rollback", "several" (more than *)
(* one statement) and "garbled" (a body that is no query).                 *)
(***************************************************************************)
EXTENDS Integers, Sequences, FiniteSets

CONSTANTS
  N,              \* number of requests (bounds the model)
  Sources,        \* the registry
  ReadOnly,       \* the sources opened read-only
  Tokens,         \* the configured tokens; none configured is the open mode
  WriteTokens,    \* those with the write scope
  Requests        \* the requests a client may make

Routes == {"query", "objects", "health", "unknown"}

Stmts == {"select", "insert", "begin", "commit", "rollback", "several", "garbled"}

TaskStates == {"idle", "reading", "received", "waiting", "answered", "dropped"}

Presented == {q.token : q \in Requests} \cup {"none"}

Named == {q.source : q \in Requests} \cup {"none"}

RequestType == [token : Presented, route : Routes, source : Named, stmt : Stmts]

ASSUME ApiServerAssumption ==
  /\ N \in Nat
  /\ Requests \subseteq RequestType
  /\ ReadOnly \subseteq Sources
  /\ WriteTokens \subseteq Tokens

\* The clients, one request each, numbered in the order they arrive in.
Clients == 1 .. N
NoClient == 0

VARIABLES
  serving,        \* serve() has not returned
  req,            \* req[c]: the request of c
  task,           \* task[c]: the state of c's task; "reading" is reading the body
  status,         \* status[c]: the status c was answered with, 0 before
  audit,          \* audit[c]: the statuses of the audit entries about c's request
  job,            \* job[c]: "none", "queued", "running", "done" or "failed"
  holder,         \* holder[s]: the client whose job holds the lock of s, or NoClient
  poisoned,       \* poisoned[s]: a job panicked with the lock of s
  rows,           \* rows[s]: the clients whose insert is in the data of s
  saved,          \* saved[s]: the data of s as it was before its open transaction, if any
  inTx,           \* inTx[s]: the connection of s is in a transaction
  log             \* log[s]: what was done to s, in order

taskVars == <<serving, req, task, status, audit>>
dataVars == <<holder, poisoned, rows, saved, inTx, log>>
vars     == <<taskVars, job, dataVars>>

Idle == [token |-> "none", route |-> "unknown", source |-> "none", stmt |-> "garbled"]

Init ==
  /\ serving = TRUE
  /\ req = [c \in Clients |-> Idle]
  /\ task = [c \in Clients |-> "idle"]
  /\ status = [c \in Clients |-> 0]
  /\ audit = [c \in Clients |-> << >>]
  /\ job = [c \in Clients |-> "none"]
  /\ holder = [s \in Sources |-> NoClient]
  /\ poisoned = [s \in Sources |-> FALSE]
  /\ rows = [s \in Sources |-> {}]
  /\ saved = [s \in Sources |-> {}]
  /\ inTx = [s \in Sources |-> FALSE]
  /\ log = [s \in Sources |-> << >>]
-----------------------------------------------------------------------------
(* Who may do what. *)

OpenMode == Tokens = {}

Authenticated(token) == OpenMode \/ token \in Tokens

\* The open mode grants the read scope only.
HasWriteScope(token) == token \in WriteTokens

Classify(stmt) ==
  CASE stmt = "several" -> "forbidden"
    [] stmt = "select"  -> "readOnly"
    [] OTHER            -> "write"

\* Slip: the scope is not asked for.
RefusalWithoutScope(q) ==
  CASE ~Authenticated(q.token)                                 -> 401
    [] q.route = "unknown"                                     -> 404
    [] q.route \in {"query", "objects"} /\ q.source \notin Sources -> 404
    [] q.route = "query" /\ q.stmt = "garbled"                 -> 400
    [] q.route = "query" /\ Classify(q.stmt) = "forbidden"     -> 400
    [] q.route = "query" /\ Classify(q.stmt) = "write" /\ q.source \in ReadOnly -> 403
    [] OTHER                                                   -> 0

\* The status a request is turned away with before anything is run, or 0.
Refusal(q) ==
  CASE ~Authenticated(q.token)                                 -> 401
    [] q.route = "unknown"                                     -> 404
    [] q.route \in {"query", "objects"} /\ q.source \notin Sources -> 404
    [] q.route = "query" /\ q.stmt = "garbled"                 -> 400
    [] q.route = "query" /\ Classify(q.stmt) = "forbidden"     -> 400
    [] q.route = "query" /\ Classify(q.stmt) = "write"
         /\ (q.source \in ReadOnly \/ ~HasWriteScope(q.token)) -> 403
    [] OTHER                                                   -> 0

NeedsSource(q) == q.route \in {"query", "objects"}
-----------------------------------------------------------------------------
(* The task of a request. *)

\* A connection is accepted and the head of its request read.
Arrive(c) ==
  /\ serving
  /\ task[c] = "idle"
  /\ \A d \in 1 .. c - 1 : task[d] # "idle"
  /\ \E q \in Requests : req' = [req EXCEPT ![c] = q]
  /\ task' = [task EXCEPT ![c] = "reading"]
  /\ UNCHANGED <<serving, status, audit, job, dataVars>>

\* The rest of the body comes in, for which the task waits without a limit of time.
BodyArrives(c) ==
  /\ serving
  /\ task[c] = "reading"
  /\ task' = [task EXCEPT ![c] = "received"]
  /\ UNCHANGED <<serving, req, status, audit, job, dataVars>>

\* Slip: an answer without an entry.
AnswerOnly(c, code) ==
  /\ task' = [task EXCEPT ![c] = "answered"]
  /\ status' = [status EXCEPT ![c] = code]
  /\ UNCHANGED <<serving, req, audit>>

\* dispatch ends: one audit entry, then the answer.
Answer(c, code) ==
  /\ task' = [task EXCEPT ![c] = "answered"]
  /\ status' = [status EXCEPT ![c] = code]
  /\ audit' = [audit EXCEPT ![c] = Append(@, code)]
  /\ UNCHANGED <<serving, req>>

\* The body is in: everything up to the first await, if there is one.
Dispatch(c) ==
  /\ serving
  /\ task[c] = "received"
  /\ LET refusal == Refusal(req[c]) IN
       \/ /\ refusal # 0
          /\ Answer(c, refusal)
          /\ UNCHANGED job
       \/ /\ refusal = 0
          /\ ~NeedsSource(req[c])
          /\ Answer(c, 200)
          /\ UNCHANGED job
       \/ /\ refusal = 0
          /\ NeedsSource(req[c])
          /\ task' = [task EXCEPT ![c] = "waiting"]
          /\ job' = [job EXCEPT ![c] = "queued"]
          /\ UNCHANGED <<serving, req, status, audit>>
  /\ UNCHANGED dataVars

\* Slip: the error of the statement is not passed on.
ResumeIgnoringError(c) ==
  /\ serving
  /\ task[c] = "waiting"
  /\ job[c] \in {"done", "failed"}
  /\ Answer(c, 200)
  /\ UNCHANGED <<job, dataVars>>

\* The thread is through and the task goes on.
Resume(c) ==
  /\ serving
  /\ task[c] = "waiting"
  /\ job[c] \in {"done", "failed"}
  /\ Answer(c, IF job[c] = "done" THEN 200 ELSE 500)
  /\ UNCHANGED <<job, dataVars>>

\* The client goes away.  The HTTP layer drops the task where it waits; if it waits
\* for the body it may also find it cut short and dispatch an empty one.
ClientLeaves(c) ==
  /\ serving
  /\ \/ /\ task[c] \in {"reading", "received", "waiting"}
        /\ task' = [task EXCEPT ![c] = "dropped"]
        /\ UNCHANGED req
     \/ /\ task[c] = "reading"
        /\ task' = [task EXCEPT ![c] = "received"]
        /\ req' = [req EXCEPT ![c].stmt = "garbled"]
  /\ UNCHANGED <<serving, status, audit, job, dataVars>>

\* accept() fails: serve returns and the process ends with it.  The runtime drops
\* every task and every job no thread has taken up, and waits for the others: of the
\* queued ones those go on whose thread already waits for the lock.
AcceptFails ==
  /\ serving
  /\ serving' = FALSE
  /\ task' = [c \in Clients |-> IF task[c] = "answered" THEN "answered" ELSE "dropped"]
  /\ \E begun \in SUBSET {c \in Clients : job[c] = "queued"} :
       job' = [c \in Clients |-> IF job[c] = "queued" /\ c \notin begun THEN "none" ELSE job[c]]
  /\ UNCHANGED <<req, status, audit, dataVars>>
-----------------------------------------------------------------------------
(* The thread of a job, under the lock of its source. *)

StartJob(c) ==
  /\ job[c] = "queued"
  /\ LET s == req[c].source IN
       \/ /\ poisoned[s]
          /\ job' = [job EXCEPT ![c] = "failed"]
          /\ UNCHANGED holder
       \/ /\ ~poisoned[s]
          /\ holder[s] = NoClient
          /\ holder' = [holder EXCEPT ![s] = c]
          /\ job' = [job EXCEPT ![c] = "running"]
  /\ UNCHANGED <<taskVars, poisoned, rows, saved, inTx, log>>

EndJob(c, how) ==
  /\ job' = [job EXCEPT ![c] = how]
  /\ holder' = [holder EXCEPT ![req[c].source] = NoClient]

Running(c, stmt) ==
  /\ job[c] = "running"
  /\ IF req[c].route = "query" THEN req[c].stmt = stmt ELSE stmt = "select"

\* The statement fails: nothing is changed.  (Conflict clauses that roll the whole
\* transaction back and failures of the database file are not modelled.)
StatementFails(c) ==
  /\ job[c] = "running"
  /\ EndJob(c, "failed")
  /\ UNCHANGED <<taskVars, poisoned, rows, saved, inTx, log>>

Read(c) ==
  /\ Running(c, "select")
  /\ EndJob(c, "done")
  /\ UNCHANGED <<taskVars, poisoned, rows, saved, inTx, log>>

PutRow(c) ==
  /\ Running(c, "insert")
  /\ LET s == req[c].source IN
       /\ rows' = [rows EXCEPT ![s] = @ \cup {c}]
       /\ log' = [log EXCEPT ![s] = Append(@, c)]

\* An insert that returns rows has done its work when the reading of a row fails.
Insert(c) ==
  /\ PutRow(c)
  /\ \E how \in {"done", "failed"} : EndJob(c, how)
  /\ UNCHANGED <<taskVars, poisoned, saved, inTx>>

Begin(c) ==
  /\ Running(c, "begin")
  /\ LET s == req[c].source IN
       /\ ~inTx[s]
       /\ inTx' = [inTx EXCEPT ![s] = TRUE]
       /\ saved' = [saved EXCEPT ![s] = rows[s]]
       /\ log' = [log EXCEPT ![s] = Append(@, c)]
  /\ EndJob(c, "done")
  /\ UNCHANGED <<taskVars, poisoned, rows>>

Commit(c) ==
  /\ Running(c, "commit")
  /\ LET s == req[c].source IN
       /\ inTx[s]
       /\ inTx' = [inTx EXCEPT ![s] = FALSE]
       /\ saved' = [saved EXCEPT ![s] = {}]
       /\ log' = [log EXCEPT ![s] = Append(@, c)]
  /\ EndJob(c, "done")
  /\ UNCHANGED <<taskVars, poisoned, rows>>

Rollback(c) ==
  /\ Running(c, "rollback")
  /\ LET s == req[c].source IN
       /\ inTx[s]
       /\ inTx' = [inTx EXCEPT ![s] = FALSE]
       /\ rows' = [rows EXCEPT ![s] = saved[s]]
       /\ saved' = [saved EXCEPT ![s] = {}]
       /\ log' = [log EXCEPT ![s] = Append(@, c)]
  /\ EndJob(c, "done")
  /\ UNCHANGED <<taskVars, poisoned>>

\* Slip: the panic leaves the lock taken.
JobPanicsHoldingLock(c) ==
  /\ job[c] = "running"
  /\ job' = [job EXCEPT ![c] = "failed"]
  /\ UNCHANGED <<taskVars, dataVars>>

\* The thread panics: the lock is released and poisoned.  It may panic while it reads
\* the rows an insert returns, when the insert has done its work.
JobPanics(c) ==
  /\ job[c] = "running"
  /\ PutRow(c) \/ UNCHANGED <<rows, log>>
  /\ EndJob(c, "failed")
  /\ poisoned' = [poisoned EXCEPT ![req[c].source] = TRUE]
  /\ UNCHANGED <<taskVars, saved, inTx>>

RunJob(c) ==
  \/ Read(c) \/ Insert(c) \/ Begin(c) \/ Commit(c) \/ Rollback(c)
  \/ StatementFails(c) \/ JobPanics(c)
-----------------------------------------------------------------------------
Next ==
  \/ \E c \in Clients :
       \/ Arrive(c) \/ BodyArrives(c) \/ Dispatch(c)
       \/ Resume(c) \/ ClientLeaves(c) \/ StartJob(c) \/ RunJob(c)
  \/ AcceptFails

Spec == Init /\ [][Next]_vars

\* The runtime polls every task that can go on, and a thread that waits for a lock
\* nobody holds any more gets it.  Nothing is assumed of the clients, who need not send
\* the rest of a body, nor of the statements, which need not end.
Fairness ==
  \A c \in Clients :
    /\ WF_vars(Dispatch(c) \/ Resume(c))
    /\ WF_vars(StartJob(c))

FairSpec == Spec /\ Fairness
-----------------------------------------------------------------------------
\* A job that runs holds the lock of its source, and no other job does.
LockIsHeld ==
  \A s \in Sources, c \in Clients :
    holder[s] = c <=> (job[c] = "running" /\ req[c].source = s)

\* The type of every variable, and who holds the locks.
TypeOK ==
  /\ serving \in BOOLEAN
  /\ req \in [Clients -> RequestType]
  /\ task \in [Clients -> TaskStates]
  /\ status \in [Clients -> {0, 200, 400, 401, 403, 404, 500}]
  /\ audit \in [Clients -> Seq({200, 400, 401, 403, 404, 500})]
  /\ job \in [Clients -> {"none", "queued", "running", "done", "failed"}]
  /\ holder \in [Sources -> Clients \cup {NoClient}]
  /\ poisoned \in [Sources -> BOOLEAN]
  /\ rows \in [Sources -> SUBSET Clients]
  /\ saved \in [Sources -> SUBSET Clients]
  /\ inTx \in [Sources -> BOOLEAN]
  /\ log \in [Sources -> Seq(Clients)]
  /\ LockIsHeld

\* A request that was answered has exactly one audit entry, with the status it was
\* answered with; a request that was not answered has none.
AnswerIsAudited ==
  \A c \in Clients :
    audit[c] = IF task[c] = "answered" THEN <<status[c]>> ELSE << >>

\* Whatever changed the data or the transaction of a source was asked for by a
\* request with the write scope, and the source is not a read-only one.
ChangesAreAuthorised ==
  \A s \in Sources : \A i \in 1 .. Len(log[s]) :
    /\ s \notin ReadOnly
    /\ HasWriteScope(req[log[s][i]].token)

\* The statement that entry i of the log of s is about.
LoggedStmt(s, i) == req[log[s][i]].stmt

\* Entry i of the log of s was done inside a transaction that was rolled back later.
RolledBack(s, i) ==
  \E b \in 1 .. i - 1, j \in i + 1 .. Len(log[s]) :
    /\ LoggedStmt(s, b) = "begin"
    /\ LoggedStmt(s, j) = "rollback"
    /\ \A k \in b + 1 .. j - 1 : LoggedStmt(s, k) \notin {"commit", "rollback"}

\* An insert that was answered with success is in the data, unless it fell into a
\* transaction that was rolled back: all requests to a source share its connection,
\* so the transaction may be another request's, but a rollback takes back nothing
\* that was there before the transaction began.
AcknowledgedInsertStays ==
  \A c \in Clients :
    (status[c] = 200 /\ req[c].route = "query" /\ req[c].stmt = "insert") =>
      LET s == req[c].source IN
        \/ c \in rows[s]
        \/ \E i \in 1 .. Len(log[s]) : log[s][i] = c /\ RolledBack(s, i)

\* The statement of d, on the source that c asks for, is being run.
HoldsUp(d, c) ==
  /\ job[d] = "running"
  /\ NeedsSource(req[c])
  /\ req[d].source = req[c].source

\* A request whose body is in is answered unless its client leaves or the server ends,
\* also when a job of another request has panicked with the lock of its source.  Only a
\* statement that never ends keeps it waiting, its own or that of one other request,
\* and only requests to the source of that statement.
EveryRequestAnswered ==
  \A c \in Clients :
    (task[c] = "received") ~> \/ task[c] \in {"answered", "dropped"}
                              \/ \E d \in Clients : []HoldsUp(d, c)
-----------------------------------------------------------------------------
(* What the comments on dispatch and on the audit trail say. *)

\* "Every request produces one structured entry": a request whose statement changed
\* the data leaves an entry by the time its task is over, as long as the server runs.
ChangesAreAudited ==
  \A s \in Sources : \A i \in 1 .. Len(log[s]) :
    (serving /\ task[log[s][i]] \in {"answered", "dropped"})
      => Len(audit[log[s][i]]) = 1
=============================================================================
