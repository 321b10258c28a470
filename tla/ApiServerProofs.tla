-------------------------- MODULE ApiServerProofs --------------------------
(***************************************************************************)
(* Proofs about ApiServer, for every number of requests, every registry    *)
(* and every set of tokens.                                                *)
(***************************************************************************)
EXTENDS ApiServer, TLAPS

Writes == {"insert", "begin", "commit", "rollback"}

\* A job was let through by the guards, and its request no longer changes.
JobsWereAdmitted ==
  \A c \in Clients : job[c] # "none" =>
    /\ task[c] \notin {"idle", "reading", "received"}
    /\ Refusal(req[c]) = 0
    /\ NeedsSource(req[c])

\* What is in the log was done by a job that has ended, with a writing statement.
LogIsOfEndedJobs ==
  \A s \in Sources : \A i \in 1 .. Len(log[s]) :
    /\ job[log[s][i]] \in {"done", "failed"}
    /\ req[log[s][i]].source = s
    /\ req[log[s][i]].route = "query"
    /\ req[log[s][i]].stmt \in Writes

IInv == TypeOK /\ JobsWereAdmitted /\ LogIsOfEndedJobs

\* A request that is not refused names a source of the registry, and when it writes
\* it has the write scope and the source is writable.
LEMMA Admission ==
  ASSUME NEW q, Refusal(q) = 0, NeedsSource(q)
  PROVE  /\ q.source \in Sources
         /\ (q.route = "query" /\ q.stmt \in Writes)
              => (q.source \notin ReadOnly /\ HasWriteScope(q.token))
<1>1. q.source \in Sources
  BY DEF Refusal, NeedsSource
<1>2. ASSUME q.route = "query", q.stmt \in Writes
      PROVE  q.source \notin ReadOnly /\ HasWriteScope(q.token)
  <2>1. Classify(q.stmt) = "write"
    BY <1>2 DEF Classify, Writes
  <2> QED
    BY <1>2, <2>1 DEF Refusal
<1> QED
  BY <1>1, <1>2

\* NoClient is none of the clients.
LEMMA NoClientIsNone == NoClient \notin Clients
  BY ApiServerAssumption DEF NoClient, Clients

\* Appending to a log leaves its earlier entries.
LEMMA AppendEntry ==
  ASSUME NEW S, NEW l \in Seq(S), NEW e \in S
  PROVE  /\ Append(l, e) \in Seq(S)
         /\ Len(Append(l, e)) = Len(l) + 1
         /\ Len(l) \in Nat
         /\ \A i \in 1 .. Len(l) + 1 :
              Append(l, e)[i] = IF i = Len(l) + 1 THEN e ELSE l[i]
  OBVIOUS

\* The state the server starts in satisfies the invariant.
LEMMA InitIInv == Init => IInv
<1> SUFFICES ASSUME Init PROVE IInv
  OBVIOUS
<1>1. TypeOK
  <2>1. Idle \in RequestType
    BY DEF Idle, RequestType, Routes, Stmts, Presented, Named
  <2> QED
    BY <2>1, NoClientIsNone DEF Init, TypeOK, LockIsHeld, TaskStates
<1>2. JobsWereAdmitted
  BY DEF Init, JobsWereAdmitted
<1>3. LogIsOfEndedJobs
  BY DEF Init, LogIsOfEndedJobs
<1> QED
  BY <1>1, <1>2, <1>3 DEF IInv

\* A step that leaves the logs, the ended jobs and their requests alone.
LEMMA LogFrame ==
  ASSUME TypeOK, LogIsOfEndedJobs, log' = log,
         \A d \in Clients : job[d] \in {"done", "failed"} => job'[d] = job[d] /\ req'[d] = req[d]
  PROVE  LogIsOfEndedJobs'
<1>1. \A s \in Sources : \A i \in 1 .. Len(log[s]) : log[s][i] \in Clients
  BY DEF TypeOK
<1> QED
  BY <1>1 DEF LogIsOfEndedJobs

\* A step that starts and ends no job.
LEMMA LockFrame ==
  ASSUME LockIsHeld, holder' = holder,
         \A d \in Clients : \/ job'[d] = job[d] /\ req'[d].source = req[d].source
                            \/ job[d] # "running" /\ job'[d] # "running"
  PROVE  LockIsHeld'
BY DEF LockIsHeld

\* A step that admits no job and moves no task with a job back.
LEMMA AdmissionFrame ==
  ASSUME JobsWereAdmitted,
         \A d \in Clients : job'[d] # "none" =>
           /\ job[d] # "none"
           /\ req'[d] = req[d]
           /\ task'[d] = task[d] \/ task'[d] \notin {"idle", "reading", "received"}
  PROVE  JobsWereAdmitted'
BY DEF JobsWereAdmitted

\* A client arrives.
LEMMA ArriveStep ==
  ASSUME IInv, NEW c \in Clients, Arrive(c)
  PROVE  IInv'
<1>1. TypeOK /\ JobsWereAdmitted /\ LogIsOfEndedJobs
  BY DEF IInv
<1>2. job[c] = "none"
  BY <1>1 DEF Arrive, JobsWereAdmitted
<1>3. PICK q \in Requests : req' = [req EXCEPT ![c] = q]
  BY DEF Arrive
<1>4. /\ task' = [task EXCEPT ![c] = "reading"]
      /\ UNCHANGED <<serving, status, audit, job, holder, poisoned, rows, saved, inTx, log>>
  BY DEF Arrive, dataVars
<1>5. req' \in [Clients -> RequestType] /\ \A d \in Clients : d # c => req'[d] = req[d]
  BY <1>1, <1>3, ApiServerAssumption DEF TypeOK
<1>6. /\ task' \in [Clients -> TaskStates]
      /\ \A d \in Clients : d # c => task'[d] = task[d]
  BY <1>1, <1>4 DEF TypeOK, TaskStates
<1>7. LockIsHeld'
  BY ZenonT(30), <1>1, <1>2, <1>4, <1>5, LockFrame DEF TypeOK
<1>8. TypeOK'
  BY <1>1, <1>4, <1>5, <1>6, <1>7 DEF TypeOK
<1>9. JobsWereAdmitted'
  BY <1>1, <1>2, <1>4, <1>5, <1>6 DEF JobsWereAdmitted
<1>10. LogIsOfEndedJobs'
  BY <1>1, <1>2, <1>4, <1>5, LogFrame
<1> QED
  BY <1>8, <1>9, <1>10 DEF IInv

\* The body of a request is in.
LEMMA BodyStep ==
  ASSUME IInv, NEW c \in Clients, BodyArrives(c)
  PROVE  IInv'
<1>1. TypeOK /\ JobsWereAdmitted /\ LogIsOfEndedJobs
  BY DEF IInv
<1>2. /\ task[c] = "reading" /\ task' = [task EXCEPT ![c] = "received"]
      /\ UNCHANGED <<serving, req, status, audit, job, holder, poisoned, rows, saved, inTx, log>>
  BY DEF BodyArrives, dataVars
<1>3. /\ task' \in [Clients -> TaskStates]
      /\ \A d \in Clients : d # c => task'[d] = task[d]
  BY <1>1, <1>2 DEF TypeOK, TaskStates
<1>4. job[c] = "none"
  BY <1>1, <1>2 DEF JobsWereAdmitted
<1>5. TypeOK'
  BY <1>1, <1>2, <1>3 DEF TypeOK, LockIsHeld
<1>6. JobsWereAdmitted'
  BY <1>1, <1>2, <1>3, <1>4 DEF JobsWereAdmitted
<1>7. LogIsOfEndedJobs'
  BY <1>1, <1>2, LogFrame
<1> QED
  BY <1>5, <1>6, <1>7 DEF IInv

\* An answer keeps the types of what it writes.
LEMMA AnswerTypes ==
  ASSUME TypeOK, NEW c \in Clients, NEW code \in {200, 400, 401, 403, 404, 500}, Answer(c, code)
  PROVE  /\ serving' = serving /\ req' = req
         /\ task' \in [Clients -> TaskStates]
         /\ task'[c] = "answered"
         /\ \A d \in Clients : d # c => task'[d] = task[d]
         /\ status' \in [Clients -> {0, 200, 400, 401, 403, 404, 500}]
         /\ audit' \in [Clients -> Seq({200, 400, 401, 403, 404, 500})]
<1>1. task \in [Clients -> TaskStates]
  BY DEF TypeOK
<1>2. status \in [Clients -> {0, 200, 400, 401, 403, 404, 500}]
  BY DEF TypeOK
<1>3. audit \in [Clients -> Seq({200, 400, 401, 403, 404, 500})]
  BY DEF TypeOK
<1>4. Append(audit[c], code) \in Seq({200, 400, 401, 403, 404, 500})
  BY <1>3, AppendEntry
<1>5. audit' \in [Clients -> Seq({200, 400, 401, 403, 404, 500})]
  BY <1>3, <1>4 DEF Answer
<1> QED
  BY <1>1, <1>2, <1>5 DEF Answer, TaskStates

\* A request is answered at once or its job is queued.
LEMMA DispatchStep ==
  ASSUME IInv, NEW c \in Clients, Dispatch(c)
  PROVE  IInv'
<1>1. TypeOK /\ JobsWereAdmitted /\ LogIsOfEndedJobs
  BY DEF IInv
<1>2. job[c] = "none" /\ UNCHANGED <<holder, poisoned, rows, saved, inTx, log>>
  BY <1>1 DEF Dispatch, JobsWereAdmitted, dataVars
<1>3. ASSUME NEW code \in {200, 400, 401, 403, 404, 500}, Answer(c, code), UNCHANGED job
      PROVE  IInv'
  <2>1. /\ serving' = serving /\ req' = req
        /\ task' \in [Clients -> TaskStates]
        /\ \A d \in Clients : d # c => task'[d] = task[d]
        /\ status' \in [Clients -> {0, 200, 400, 401, 403, 404, 500}]
        /\ audit' \in [Clients -> Seq({200, 400, 401, 403, 404, 500})]
    BY <1>1, <1>3, AnswerTypes
  <2>2. LockIsHeld'
    BY <1>1, <1>2, <1>3, <2>1, LockFrame DEF TypeOK
  <2>3. TypeOK'
    BY <1>1, <1>2, <1>3, <2>1, <2>2 DEF TypeOK
  <2>4. JobsWereAdmitted'
    BY <1>1, <1>2, <1>3, <2>1, AdmissionFrame
  <2>5. LogIsOfEndedJobs'
    BY <1>1, <1>2, <1>3, <2>1, LogFrame
  <2> QED
    BY <2>3, <2>4, <2>5 DEF IInv
<1>4. ASSUME Refusal(req[c]) = 0, NeedsSource(req[c]),
             task' = [task EXCEPT ![c] = "waiting"], job' = [job EXCEPT ![c] = "queued"],
             UNCHANGED <<serving, req, status, audit>>
      PROVE  IInv'
  <2>1. /\ task' \in [Clients -> TaskStates]
        /\ task'[c] = "waiting"
        /\ \A d \in Clients : d # c => task'[d] = task[d]
    BY <1>1, <1>4 DEF TypeOK, TaskStates
  <2>2. /\ job' \in [Clients -> {"none", "queued", "running", "done", "failed"}]
        /\ job'[c] = "queued"
        /\ \A d \in Clients : d # c => job'[d] = job[d]
    BY <1>1, <1>4 DEF TypeOK
  <2>3. LockIsHeld'
    BY <1>1, <1>2, <1>4, <2>2 DEF TypeOK, LockIsHeld
  <2>4. TypeOK'
    BY <1>1, <1>2, <1>4, <2>1, <2>2, <2>3 DEF TypeOK
  <2>5. JobsWereAdmitted'
    BY <1>1, <1>4, <2>1, <2>2 DEF JobsWereAdmitted
  <2>6. LogIsOfEndedJobs'
    BY <1>1, <1>2, <1>4, <2>2, LogFrame
  <2> QED
    BY <2>4, <2>5, <2>6 DEF IInv
<1>5. Refusal(req[c]) \in {0, 400, 401, 403, 404}
  BY DEF Refusal
<1>6. CASE Refusal(req[c]) # 0 /\ Answer(c, Refusal(req[c])) /\ UNCHANGED job
  <2>1. Refusal(req[c]) \in {200, 400, 401, 403, 404, 500}
    BY <1>5, <1>6
  <2> QED
    BY <1>3, <1>6, <2>1
<1>7. CASE Answer(c, 200) /\ UNCHANGED job
  BY <1>3, <1>7
<1> QED
  BY <1>4, <1>6, <1>7 DEF Dispatch

\* The client goes away, or its body is cut short.
LEMMA LeaveStep ==
  ASSUME IInv, NEW c \in Clients, ClientLeaves(c)
  PROVE  IInv'
<1>1. TypeOK /\ JobsWereAdmitted /\ LogIsOfEndedJobs
  BY DEF IInv
<1>2. UNCHANGED <<serving, status, audit, job, holder, poisoned, rows, saved, inTx, log>>
  BY DEF ClientLeaves, dataVars
<1>3. CASE task[c] # "answered" /\ task' = [task EXCEPT ![c] = "dropped"] /\ UNCHANGED req
  <2>1. /\ task' \in [Clients -> TaskStates]
        /\ task'[c] = "dropped"
        /\ \A d \in Clients : d # c => task'[d] = task[d]
    BY <1>1, <1>3 DEF TypeOK, TaskStates
  <2>2. TypeOK'
    BY <1>1, <1>2, <1>3, <2>1 DEF TypeOK, LockIsHeld
  <2>3. JobsWereAdmitted'
    BY <1>1, <1>2, <1>3, <2>1 DEF JobsWereAdmitted
  <2>4. LogIsOfEndedJobs'
    BY <1>1, <1>2, <1>3, LogFrame
  <2> QED
    BY <2>2, <2>3, <2>4 DEF IInv
<1>4. CASE /\ task[c] = "reading"
           /\ task' = [task EXCEPT ![c] = "received"]
           /\ req' = [req EXCEPT ![c].stmt = "garbled"]
  <2>1. job[c] = "none"
    BY <1>1, <1>4 DEF JobsWereAdmitted
  <2>2. \A d \in Clients : d # c => req'[d] = req[d] /\ task'[d] = task[d]
    BY <1>1, <1>4 DEF TypeOK
  <2>3. req' \in [Clients -> RequestType]
    <3>1. req \in [Clients -> RequestType]
      BY <1>1 DEF TypeOK
    <3>2. [req[c] EXCEPT !.stmt = "garbled"] \in RequestType
      BY <3>1 DEF RequestType, Stmts
    <3> QED
      BY <1>4, <3>1, <3>2
  <2>4. LockIsHeld'
    BY ZenonT(30), <1>1, <1>2, <2>1, <2>2, LockFrame DEF TypeOK
  <2>5. task' \in [Clients -> TaskStates]
    BY <1>1, <1>4 DEF TypeOK, TaskStates
  <2>6. TypeOK'
    BY <1>1, <1>2, <2>3, <2>4, <2>5 DEF TypeOK
  <2>7. JobsWereAdmitted'
    BY <1>1, <1>2, <2>1, <2>2 DEF JobsWereAdmitted
  <2>8. LogIsOfEndedJobs'
    BY <1>1, <1>2, <2>1, <2>2, LogFrame
  <2> QED
    BY <2>6, <2>7, <2>8 DEF IInv
<1> QED
  BY <1>3, <1>4 DEF ClientLeaves

\* The task goes on after its job.
LEMMA ResumeStep ==
  ASSUME IInv, NEW c \in Clients, Resume(c)
  PROVE  IInv'
<1>1. TypeOK /\ JobsWereAdmitted /\ LogIsOfEndedJobs
  BY DEF IInv
<1>2. UNCHANGED <<job, holder, poisoned, rows, saved, inTx, log>>
  BY DEF Resume, dataVars
<1>3. PICK code \in {200, 400, 401, 403, 404, 500} : Answer(c, code)
  BY DEF Resume
<1>4. /\ serving' = serving /\ req' = req
      /\ task' \in [Clients -> TaskStates]
      /\ task'[c] = "answered"
      /\ \A d \in Clients : d # c => task'[d] = task[d]
      /\ status' \in [Clients -> {0, 200, 400, 401, 403, 404, 500}]
      /\ audit' \in [Clients -> Seq({200, 400, 401, 403, 404, 500})]
  BY <1>1, <1>3, AnswerTypes
<1>5. TypeOK'
  BY <1>1, <1>2, <1>4 DEF TypeOK, LockIsHeld
<1>6. JobsWereAdmitted'
  BY <1>1, <1>2, <1>4, AdmissionFrame
<1>7. LogIsOfEndedJobs'
  BY <1>1, <1>2, <1>4, LogFrame
<1> QED
  BY <1>5, <1>6, <1>7 DEF IInv

\* The server ends.
LEMMA AcceptFailsStep ==
  ASSUME IInv, AcceptFails
  PROVE  IInv'
<1>1. TypeOK /\ JobsWereAdmitted /\ LogIsOfEndedJobs
  BY DEF IInv
<1>2. UNCHANGED <<req, status, audit, holder, poisoned, rows, saved, inTx, log>>
  BY DEF AcceptFails, dataVars
<1>3. /\ task' \in [Clients -> TaskStates]
      /\ \A d \in Clients : task'[d] \notin {"idle", "reading", "received"}
  BY DEF AcceptFails, TaskStates
<1>4. PICK begun \in SUBSET Clients :
        job' = [d \in Clients |-> IF job[d] = "queued" /\ d \notin begun THEN "none" ELSE job[d]]
  BY DEF AcceptFails
<1>5. /\ job' \in [Clients -> {"none", "queued", "running", "done", "failed"}]
      /\ \A d \in Clients : (job'[d] = "none" /\ job[d] = "queued") \/ job'[d] = job[d]
  BY <1>1, <1>4 DEF TypeOK
<1>6. serving' \in BOOLEAN
  BY DEF AcceptFails
<1>7. LockIsHeld'
  BY <1>1, <1>2, <1>5 DEF TypeOK, LockIsHeld
<1>8. TypeOK'
  BY <1>1, <1>2, <1>3, <1>5, <1>6, <1>7 DEF TypeOK
<1>9. JobsWereAdmitted'
  BY <1>1, <1>2, <1>3, <1>5 DEF JobsWereAdmitted
<1>10. LogIsOfEndedJobs'
  BY <1>1, <1>2, <1>5, LogFrame
<1> QED
  BY <1>8, <1>9, <1>10 DEF IInv

\* A job takes the lock of its source or finds it poisoned.
LEMMA StartStep ==
  ASSUME IInv, NEW c \in Clients, StartJob(c)
  PROVE  IInv'
<1>1. TypeOK /\ JobsWereAdmitted /\ LogIsOfEndedJobs
  BY DEF IInv
<1>2. job[c] = "queued" /\ UNCHANGED <<serving, req, task, status, audit, poisoned, rows, saved, inTx, log>>
  BY DEF StartJob, taskVars
<1>3. req[c].source \in Sources
  BY <1>1, <1>2, Admission DEF JobsWereAdmitted
<1>4. /\ job' \in [Clients -> {"none", "queued", "running", "done", "failed"}]
      /\ \A d \in Clients : d # c => job'[d] = job[d]
  <2>1. job \in [Clients -> {"none", "queued", "running", "done", "failed"}]
    BY <1>1 DEF TypeOK
  <2>2. CASE job' = [job EXCEPT ![c] = "failed"]
    BY <2>1, <2>2
  <2>3. CASE job' = [job EXCEPT ![c] = "running"]
    BY <2>1, <2>3
  <2> QED
    BY <2>2, <2>3 DEF StartJob
<1>5. holder' \in [Sources -> Clients \cup {NoClient}] /\ LockIsHeld'
  <2>1. CASE job' = [job EXCEPT ![c] = "failed"] /\ UNCHANGED holder
    BY <1>1, <1>2, <1>4, <2>1 DEF TypeOK, LockIsHeld
  <2>2. CASE /\ holder[req[c].source] = NoClient
             /\ holder' = [holder EXCEPT ![req[c].source] = c]
             /\ job' = [job EXCEPT ![c] = "running"]
    <3>1. holder' \in [Sources -> Clients \cup {NoClient}]
      <4>1. holder \in [Sources -> Clients \cup {NoClient}]
        BY <1>1 DEF TypeOK
      <4> QED BY <2>2, <4>1
    <3>2. \A s \in Sources : holder'[s] = IF s = req[c].source THEN c ELSE holder[s]
      BY <1>1, <2>2 DEF TypeOK
    <3>3. \A d \in Clients : job'[d] = IF d = c THEN "running" ELSE job[d]
      BY <1>1, <2>2 DEF TypeOK
    <3>4. \A s \in Sources, d \in Clients : holder[s] = d <=> (job[d] = "running" /\ req[d].source = s)
      BY <1>1 DEF TypeOK, LockIsHeld
    <3>5. LockIsHeld'
      BY <1>2, <2>2, <3>2, <3>3, <3>4, NoClientIsNone DEF LockIsHeld
    <3> QED
      BY <3>1, <3>5
  <2> QED
    BY <2>1, <2>2 DEF StartJob
<1>6. TypeOK'
  BY <1>1, <1>2, <1>4, <1>5 DEF TypeOK
<1>7. JobsWereAdmitted'
  BY <1>1, <1>2, <1>4 DEF JobsWereAdmitted
<1>8. LogIsOfEndedJobs'
  BY <1>1, <1>2, <1>4, LogFrame
<1> QED
  BY <1>6, <1>7, <1>8 DEF IInv

\* Ending a job gives back its lock and keeps it admitted.
LEMMA EndOfJob ==
  ASSUME IInv, NEW c \in Clients, job[c] = "running", NEW how \in {"done", "failed"},
         EndJob(c, how), UNCHANGED taskVars
  PROVE  /\ req[c].source \in Sources
         /\ job' \in [Clients -> {"none", "queued", "running", "done", "failed"}]
         /\ \A d \in Clients : job'[d] = IF d = c THEN how ELSE job[d]
         /\ holder' \in [Sources -> Clients \cup {NoClient}]
         /\ LockIsHeld'
         /\ JobsWereAdmitted'
<1>1. TypeOK /\ JobsWereAdmitted
  BY DEF IInv
<1>2. UNCHANGED <<serving, req, task, status, audit>>
  BY DEF taskVars
<1>3. req[c].source \in Sources
  BY <1>1, Admission DEF JobsWereAdmitted
<1>4. holder' \in [Sources -> Clients \cup {NoClient}]
  BY <1>1, <1>3 DEF TypeOK, EndJob
<1>5. job' \in [Clients -> {"none", "queued", "running", "done", "failed"}]
  BY <1>1 DEF TypeOK, EndJob
<1>6. \A d \in Clients : job'[d] = IF d = c THEN how ELSE job[d]
  BY <1>1 DEF TypeOK, EndJob
<1>7. \A s \in Sources : holder'[s] = IF s = req[c].source THEN NoClient ELSE holder[s]
  BY <1>1, <1>3 DEF TypeOK, EndJob
<1>8. \A s \in Sources, d \in Clients : holder[s] = d <=> (job[d] = "running" /\ req[d].source = s)
  BY <1>1 DEF TypeOK, LockIsHeld
<1>9. LockIsHeld'
  BY <1>2, <1>6, <1>7, <1>8, NoClientIsNone DEF LockIsHeld
<1>10. JobsWereAdmitted'
  BY <1>1, <1>2, <1>6 DEF JobsWereAdmitted
<1> QED
  BY <1>3, <1>4, <1>5, <1>6, <1>9, <1>10

\* A job ends that has done something to the data: also one that panics afterwards.
Inserted(c) == Insert(c) \/ (PutRow(c) /\ JobPanics(c))

Wrote(c) == Inserted(c) \/ Begin(c) \/ Commit(c) \/ Rollback(c)

\* A job that ends has done something to the data or has left the data and the log.
LEMMA EndsOfJobs ==
  ASSUME NEW c \in Clients, RunJob(c)
  PROVE  \/ Wrote(c)
         \/ UNCHANGED <<rows, log>> /\ (Read(c) \/ StatementFails(c) \/ JobPanics(c))
  BY DEF RunJob, Wrote, Inserted, Read, StatementFails, JobPanics

\* A job that ends without doing anything to the data.
LEMMA ReadStep ==
  ASSUME IInv, NEW c \in Clients, UNCHANGED <<rows, log>>,
         Read(c) \/ StatementFails(c) \/ JobPanics(c)
  PROVE  IInv'
<1>1. TypeOK /\ LogIsOfEndedJobs
  BY DEF IInv
<1>2. job[c] = "running" /\ UNCHANGED <<taskVars, rows, saved, inTx, log>>
  BY DEF Read, StatementFails, JobPanics, Running
<1>3. PICK how \in {"done", "failed"} : EndJob(c, how)
  BY DEF Read, StatementFails, JobPanics
<1>4. /\ req[c].source \in Sources
      /\ job' \in [Clients -> {"none", "queued", "running", "done", "failed"}]
      /\ \A d \in Clients : job'[d] = IF d = c THEN how ELSE job[d]
      /\ holder' \in [Sources -> Clients \cup {NoClient}]
      /\ LockIsHeld'
      /\ JobsWereAdmitted'
  BY <1>2, <1>3, EndOfJob
<1>5. poisoned' \in [Sources -> BOOLEAN]
  <2>1. poisoned \in [Sources -> BOOLEAN]
    BY <1>1 DEF TypeOK
  <2>2. CASE poisoned' = poisoned
    BY <2>1, <2>2
  <2>3. CASE poisoned' = [poisoned EXCEPT ![req[c].source] = TRUE]
    BY <2>1, <2>3
  <2> QED
    BY <2>2, <2>3 DEF Read, StatementFails, JobPanics
<1>6. TypeOK'
  BY <1>1, <1>2, <1>4, <1>5 DEF TypeOK, taskVars
<1>7. LogIsOfEndedJobs'
  BY <1>1, <1>2, <1>4, LogFrame DEF taskVars
<1> QED
  BY <1>4, <1>6, <1>7 DEF IInv

\* A job that ends having written.
LEMMA WriteStep ==
  ASSUME IInv, NEW c \in Clients, Wrote(c)
  PROVE  IInv'
<1>1. TypeOK /\ LogIsOfEndedJobs
  BY DEF IInv
<1>2. /\ job[c] = "running"
      /\ req[c].route = "query" /\ req[c].stmt \in Writes
  BY DEF Wrote, Inserted, Insert, PutRow, Begin, Commit, Rollback, JobPanics, Running, Writes
<1>3. /\ UNCHANGED taskVars
      /\ log' = [log EXCEPT ![req[c].source] = Append(@, c)]
  BY DEF Wrote, Inserted, Insert, PutRow, Begin, Commit, Rollback, JobPanics
<1>4. PICK how \in {"done", "failed"} : EndJob(c, how)
  BY DEF Wrote, Inserted, Insert, PutRow, Begin, Commit, Rollback, JobPanics
<1>5. /\ req[c].source \in Sources
      /\ job' \in [Clients -> {"none", "queued", "running", "done", "failed"}]
      /\ \A d \in Clients : job'[d] = IF d = c THEN how ELSE job[d]
      /\ holder' \in [Sources -> Clients \cup {NoClient}]
      /\ LockIsHeld'
      /\ JobsWereAdmitted'
  BY <1>2, <1>3, <1>4, EndOfJob
<1>6. log' \in [Sources -> Seq(Clients)]
  BY <1>1, <1>3, <1>5, AppendEntry DEF TypeOK
<1>7. rows' \in [Sources -> SUBSET Clients] /\ saved' \in [Sources -> SUBSET Clients]
  <2>1. rows \in [Sources -> SUBSET Clients] /\ saved \in [Sources -> SUBSET Clients]
    BY <1>1 DEF TypeOK
  <2>2. \/ rows' = rows
        \/ rows' = [rows EXCEPT ![req[c].source] = rows[req[c].source] \cup {c}]
        \/ rows' = [rows EXCEPT ![req[c].source] = saved[req[c].source]]
    BY DEF Wrote, Inserted, Insert, PutRow, Begin, Commit, Rollback, JobPanics
  <2>3. \/ saved' = saved
        \/ saved' = [saved EXCEPT ![req[c].source] = rows[req[c].source]]
        \/ saved' = [saved EXCEPT ![req[c].source] = {}]
    BY DEF Wrote, Inserted, Insert, PutRow, Begin, Commit, Rollback, JobPanics
  <2> QED BY <1>5, <2>1, <2>2, <2>3
<1>8. inTx' \in [Sources -> BOOLEAN]
  <2>1. inTx \in [Sources -> BOOLEAN]
    BY <1>1 DEF TypeOK
  <2>2. \/ inTx' = inTx
        \/ \E b \in BOOLEAN : inTx' = [inTx EXCEPT ![req[c].source] = b]
    BY Zenon DEF Wrote, Inserted, Insert, PutRow, Begin, Commit, Rollback, JobPanics
  <2> QED
    BY <2>1, <2>2
<1>9. poisoned' \in [Sources -> BOOLEAN]
  <2>1. poisoned \in [Sources -> BOOLEAN]
    BY <1>1 DEF TypeOK
  <2>2. \/ poisoned' = poisoned
        \/ poisoned' = [poisoned EXCEPT ![req[c].source] = TRUE]
    BY Zenon DEF Wrote, Inserted, Insert, Begin, Commit, Rollback, JobPanics
  <2> QED
    BY <2>1, <2>2
<1>10. TypeOK'
  BY <1>1, <1>3, <1>5, <1>6, <1>7, <1>8, <1>9 DEF TypeOK, taskVars
<1>11. LogIsOfEndedJobs'
  <2> SUFFICES ASSUME NEW s \in Sources, NEW i \in 1 .. Len(log'[s])
               PROVE  /\ job'[log'[s][i]] \in {"done", "failed"}
                      /\ req[log'[s][i]].source = s
                      /\ req[log'[s][i]].route = "query"
                      /\ req[log'[s][i]].stmt \in Writes
    BY <1>3 DEF LogIsOfEndedJobs, taskVars
  <2>1. log[s] \in Seq(Clients) /\ log'[s] = IF s = req[c].source THEN Append(log[s], c) ELSE log[s]
    BY <1>1, <1>3 DEF TypeOK
  <2>2. CASE s = req[c].source /\ i = Len(log[s]) + 1
    <3>1. log'[s][i] = c
      BY <2>1, <2>2, AppendEntry
    <3> QED
      BY <1>2, <1>5, <2>2, <3>1
  <2>3. CASE ~(s = req[c].source /\ i = Len(log[s]) + 1)
    <3>1. i \in 1 .. Len(log[s]) /\ log'[s][i] = log[s][i]
      BY <2>1, <2>3, AppendEntry
    <3>2. log[s][i] \in Clients
      BY <2>1, <3>1
    <3> QED
      BY <1>1, <1>5, <3>1, <3>2 DEF LogIsOfEndedJobs
  <2> QED
    BY <2>2, <2>3
<1> QED
  BY <1>5, <1>10, <1>11 DEF IInv

\* Every step preserves the invariant.
LEMMA NextIInv == IInv /\ [Next]_vars => IInv'
<1> SUFFICES ASSUME IInv, [Next]_vars PROVE IInv'
  OBVIOUS
<1>1. CASE UNCHANGED vars
  BY <1>1 DEF vars, taskVars, dataVars, IInv, TypeOK, LockIsHeld, JobsWereAdmitted, LogIsOfEndedJobs
<1>2. ASSUME NEW c \in Clients, RunJob(c)
      PROVE  IInv'
  <2>1. \/ Wrote(c)
        \/ UNCHANGED <<rows, log>> /\ (Read(c) \/ StatementFails(c) \/ JobPanics(c))
    BY <1>2, EndsOfJobs
  <2> QED
    BY <2>1, ReadStep, WriteStep
<1>3. CASE Next
  BY <1>2, <1>3, ArriveStep, BodyStep, DispatchStep, LeaveStep, ResumeStep, AcceptFailsStep,
     StartStep DEF Next
<1> QED
  BY <1>1, <1>3

\* Every variable keeps its type, and a job that runs holds the lock of its source
\* alone: no two statements ever use one connection at a time.
THEOREM TypeCorrect == Spec => []TypeOK
<1>1. IInv => TypeOK
  BY DEF IInv
<1> QED
  BY <1>1, InitIInv, NextIInv, PTL DEF Spec

\* What changed a source was asked for by a request with the write scope, and no
\* read-only source is ever changed, however requests interleave, whoever leaves,
\* and whatever was sent instead of a body that was cut short.
THEOREM OnlyAuthorisedChanges == Spec => []ChangesAreAuthorised
<1>1. IInv => ChangesAreAuthorised
  <2> SUFFICES ASSUME IInv, NEW s \in Sources, NEW i \in 1 .. Len(log[s])
               PROVE  s \notin ReadOnly /\ HasWriteScope(req[log[s][i]].token)
    BY DEF ChangesAreAuthorised
  <2>1. log[s][i] \in Clients /\ job[log[s][i]] # "none"
    <3>1. log[s] \in Seq(Clients)
      BY DEF IInv, TypeOK
    <3>2. job[log[s][i]] \in {"done", "failed"}
      BY DEF IInv, LogIsOfEndedJobs
    <3> QED
      BY <3>1, <3>2
  <2>2. Refusal(req[log[s][i]]) = 0 /\ NeedsSource(req[log[s][i]])
    BY <2>1 DEF IInv, JobsWereAdmitted
  <2>3. /\ req[log[s][i]].source = s
        /\ req[log[s][i]].route = "query"
        /\ req[log[s][i]].stmt \in Writes
    BY DEF IInv, LogIsOfEndedJobs
  <2> QED
    BY <2>2, <2>3, Admission
<1> QED
  BY <1>1, InitIInv, NextIInv, PTL DEF Spec

\* A request that was answered has exactly one audit entry, with the status it was
\* answered with, and a request that was not answered has none.
THEOREM AnswersAreAudited == Spec => []AnswerIsAudited
<1>1. Init => AnswerIsAudited
  BY DEF Init, AnswerIsAudited
<1>2. TypeOK /\ AnswerIsAudited /\ [Next]_vars => AnswerIsAudited'
  <2> SUFFICES ASSUME TypeOK, AnswerIsAudited, [Next]_vars PROVE AnswerIsAudited'
    OBVIOUS
  <2>1. ASSUME NEW c \in Clients, NEW code, Answer(c, code), task[c] # "answered"
        PROVE  AnswerIsAudited'
    <3>1. audit[c] = << >>
      BY <2>1 DEF AnswerIsAudited
    <3>2. Append(<< >>, code) = <<code>>
      OBVIOUS
    <3>3. audit'[c] = <<code>> /\ status'[c] = code /\ task'[c] = "answered"
      BY <2>1, <3>1, <3>2 DEF Answer, TypeOK
    <3>4. \A d \in Clients : d # c =>
            audit'[d] = audit[d] /\ status'[d] = status[d] /\ task'[d] = task[d]
      BY <2>1 DEF Answer, TypeOK
    <3> QED
      BY <3>3, <3>4 DEF AnswerIsAudited
  <2>2. ASSUME NEW c \in Clients, Dispatch(c)
        PROVE  AnswerIsAudited'
    <3>1. CASE \E code : Answer(c, code)
      BY <2>1, <2>2, <3>1 DEF Dispatch
    <3>2. CASE task' = [task EXCEPT ![c] = "waiting"] /\ UNCHANGED <<status, audit>>
      BY <2>2, <3>2 DEF Dispatch, AnswerIsAudited, TypeOK
    <3> QED
      BY <2>2, <3>1, <3>2 DEF Dispatch
  <2>3. ASSUME NEW c \in Clients, Resume(c)
        PROVE  AnswerIsAudited'
    BY <2>1, <2>3 DEF Resume
  <2>4. ASSUME NEW c \in Clients, Arrive(c) \/ BodyArrives(c) \/ ClientLeaves(c)
        PROVE  AnswerIsAudited'
    <3>1. status' = status /\ audit' = audit
      BY <2>4 DEF Arrive, BodyArrives, ClientLeaves
    <3>2. task[c] # "answered"
      BY <2>4 DEF Arrive, BodyArrives, ClientLeaves
    <3>3. \E t \in {"reading", "received", "dropped"} : task' = [task EXCEPT ![c] = t]
      BY <2>4 DEF Arrive, BodyArrives, ClientLeaves
    <3>4. \A d \in Clients : task'[d] = "answered" <=> task[d] = "answered"
      BY <3>2, <3>3 DEF TypeOK
    <3> QED
      BY <3>1, <3>4 DEF AnswerIsAudited
  <2>5. CASE AcceptFails
    BY <2>5 DEF AcceptFails, AnswerIsAudited, TypeOK
  <2>6. CASE UNCHANGED taskVars
    BY <2>6 DEF taskVars, AnswerIsAudited
  <2>7. ASSUME NEW c \in Clients, StartJob(c) \/ RunJob(c)
        PROVE  UNCHANGED taskVars
    BY <2>7 DEF StartJob, RunJob, Read, Insert, Begin, Commit, Rollback, StatementFails, JobPanics
  <2>8. CASE UNCHANGED vars
    BY <2>6, <2>8 DEF vars
  <2> QED
    BY <2>2, <2>3, <2>4, <2>5, <2>6, <2>7, <2>8 DEF Next
<1> QED
  BY <1>1, <1>2, TypeCorrect, PTL DEF Spec
-----------------------------------------------------------------------------
(* What was acknowledged stays.                                            *)
(*                                                                         *)
(* The data of a source is related to its whole log: an insert of the log  *)
(* is in the data or was rolled back (AllKept), and while a transaction is *)
(* open the same holds of what is saved, up to the entry that has begun it *)
(* (TransactionsAreSaved), so that a rollback keeps AllKept.               *)


\* Who was answered with success has had its statement done.
Acknowledged ==
  \A c \in Clients : status[c] = 200 =>
    /\ task[c] = "answered"
    /\ req[c].route = "query" => job[c] = "done"

\* An insert that was done is in the log.
DoneIsLogged ==
  \A c \in Clients :
    job[c] = "done" /\ req[c].route = "query" /\ req[c].stmt = "insert" =>
      \E i \in 1 .. Len(log[req[c].source]) : log[req[c].source][i] = c

\* The inserts among the first l entries of the log are in the data.
Kept(s, data, l) ==
  \A i \in 1 .. l : LoggedStmt(s, i) = "insert" =>
    log[s][i] \in data \/ RolledBack(s, i)

AllKept == \A s \in Sources : Kept(s, rows[s], Len(log[s]))

\* Entry b has begun a transaction that has not ended.
Began(s, b) ==
  /\ LoggedStmt(s, b) = "begin"
  /\ \A k \in b + 1 .. Len(log[s]) : LoggedStmt(s, k) \notin {"commit", "rollback"}

TransactionsAreSaved ==
  \A s \in Sources : inTx[s] =>
    \E b \in 1 .. Len(log[s]) : Began(s, b) /\ Kept(s, saved[s], b - 1)

DInv == Acknowledged /\ DoneIsLogged /\ AllKept /\ TransactionsAreSaved

-----------------------------------------------------------------------------
(* Answers. *)

LEMMA AcknowledgedFrame ==
  ASSUME Acknowledged,
         \A d \in Clients : status'[d] = 200 =>
           \/ /\ status[d] = 200 /\ req'[d] = req[d] /\ task'[d] = task[d]
              /\ job[d] = "done" => job'[d] = "done"
           \/ /\ task'[d] = "answered"
              /\ req'[d].route = "query" => job'[d] = "done"
  PROVE  Acknowledged'
  BY DEF Acknowledged

LEMMA RefusalsAreNoSuccess == \A q : Refusal(q) # 200
  BY DEF Refusal

\* What the task of a request does to the answers.
LEMMA AcknowledgedTasks ==
  ASSUME IInv, Acknowledged, NEW c \in Clients,
         Arrive(c) \/ BodyArrives(c) \/ Dispatch(c) \/ Resume(c) \/ ClientLeaves(c)
  PROVE  Acknowledged'
  <1>1. TypeOK
    BY DEF IInv
  <1>2. ASSUME NEW code, Answer(c, code), job' = job,
               code = 200 => (req[c].route = "query" => job[c] = "done")
        PROVE  Acknowledged'
    <2>1. \A d \in Clients :
            /\ status'[d] = IF d = c THEN code ELSE status[d]
            /\ task'[d] = IF d = c THEN "answered" ELSE task[d]
            /\ req'[d] = req[d] /\ job'[d] = job[d]
      BY <1>1, <1>2 DEF Answer, TypeOK
    <2> QED BY <1>2, <2>1, AcknowledgedFrame
  <1>3. CASE Arrive(c) \/ BodyArrives(c) \/ ClientLeaves(c)
    <2>1. task[c] # "answered" /\ status' = status /\ job' = job
      BY <1>3 DEF Arrive, BodyArrives, ClientLeaves
    <2>2. status[c] # 200
      BY <2>1 DEF Acknowledged
    <2>3. \A d \in Clients : d # c => task'[d] = task[d] /\ req'[d] = req[d]
      BY <1>1, <1>3 DEF Arrive, BodyArrives, ClientLeaves, TypeOK
    <2> QED BY <2>1, <2>2, <2>3, AcknowledgedFrame
  <1>4. CASE Dispatch(c)
    <2>1. CASE Answer(c, Refusal(req[c])) /\ job' = job
      BY <1>2, <2>1, RefusalsAreNoSuccess
    <2>2. CASE ~NeedsSource(req[c]) /\ Answer(c, 200) /\ job' = job
      BY <1>2, <2>2 DEF NeedsSource
    <2>3. CASE /\ task' = [task EXCEPT ![c] = "waiting"]
               /\ job' = [job EXCEPT ![c] = "queued"]
               /\ UNCHANGED <<serving, req, status, audit>>
      <3>1. task[c] = "received"
        BY <1>4 DEF Dispatch
      <3>2. status[c] # 200
        BY <3>1 DEF Acknowledged
      <3>3. \A d \in Clients : d # c => task'[d] = task[d] /\ job'[d] = job[d]
        BY <1>1, <2>3 DEF TypeOK
      <3> QED BY <2>3, <3>2, <3>3, AcknowledgedFrame
    <2> QED BY <1>4, <2>1, <2>2, <2>3 DEF Dispatch
  <1>5. CASE Resume(c)
    <2>1. Answer(c, IF job[c] = "done" THEN 200 ELSE 500) /\ job' = job
      BY <1>5 DEF Resume
    <2>2. CASE job[c] = "done"
      BY <1>2, <2>1, <2>2
    <2>3. CASE job[c] # "done"
      BY <1>2, <2>1, <2>3
    <2> QED BY <2>2, <2>3
  <1> QED BY <1>3, <1>4, <1>5

\* A job that changes its state was not done.
LEMMA AcknowledgedJobs ==
  ASSUME Acknowledged, UNCHANGED taskVars,
         \A d \in Clients : job[d] = "done" => job'[d] = "done"
  PROVE  Acknowledged'
  BY AcknowledgedFrame DEF taskVars

LEMMA AcknowledgedEnd ==
  ASSUME IInv, Acknowledged, AcceptFails PROVE Acknowledged'
  <1>1. \A d \in Clients :
          /\ task[d] = "answered" => task'[d] = "answered"
          /\ job[d] = "done" => job'[d] = "done"
    BY DEF AcceptFails
  <1>2. UNCHANGED <<req, status>>
    BY DEF AcceptFails
  <1> QED BY <1>1, <1>2 DEF Acknowledged

-----------------------------------------------------------------------------
(* The data. *)

\* A step that leaves the data, the log and the requests of the log alone.
LEMMA DataFrame ==
  ASSUME IInv, AllKept, TransactionsAreSaved,
         UNCHANGED <<rows, saved, inTx, log>>,
         \A d \in Clients : job[d] \in {"done", "failed"} => req'[d] = req[d]
  PROVE  AllKept' /\ TransactionsAreSaved'
  <1>1. ASSUME NEW s \in Sources, NEW i \in 1 .. Len(log[s])
        PROVE  LoggedStmt(s, i)' = LoggedStmt(s, i)
    <2>1. log[s][i] \in Clients /\ job[log[s][i]] \in {"done", "failed"}
      BY DEF IInv, TypeOK, LogIsOfEndedJobs
    <2> QED BY <2>1 DEF LoggedStmt
  <1>2. ASSUME NEW s \in Sources, NEW i \in 1 .. Len(log[s]), RolledBack(s, i)
        PROVE  RolledBack(s, i)'
    <2>1. Len(log[s]) \in Nat
      BY DEF IInv, TypeOK
    <2>2. PICK b \in 1 .. i - 1, j \in i + 1 .. Len(log[s]) :
            /\ LoggedStmt(s, b) = "begin"
            /\ LoggedStmt(s, j) = "rollback"
            /\ \A k \in b + 1 .. j - 1 : LoggedStmt(s, k) \notin {"commit", "rollback"}
      BY <1>2 DEF RolledBack
    <2>3. /\ b \in 1 .. Len(log[s]) /\ j \in 1 .. Len(log[s])
          /\ b + 1 .. j - 1 \subseteq 1 .. Len(log[s])
      BY <2>1
    <2>4. /\ LoggedStmt(s, b)' = "begin" /\ LoggedStmt(s, j)' = "rollback"
          /\ \A k \in b + 1 .. j - 1 :
               LoggedStmt(s, k)' \notin {"commit", "rollback"}
      BY <1>1, <2>2, <2>3
    <2> QED BY <2>4 DEF RolledBack
  <1>3. \A s \in Sources : Len(log[s]) \in Nat
    BY DEF IInv, TypeOK
  <1>4. AllKept'
    <2> SUFFICES ASSUME NEW s \in Sources PROVE Kept(s, rows[s], Len(log[s]))'
      BY DEF AllKept
    <2>1. Kept(s, rows[s], Len(log[s]))
      BY DEF AllKept
    <2> QED BY <1>1, <1>2, <2>1 DEF Kept
  <1>5. TransactionsAreSaved'
    <2> SUFFICES ASSUME NEW s \in Sources, inTx[s]
                 PROVE  \E b \in 1 .. Len(log[s]) :
                          Began(s, b)' /\ Kept(s, saved[s], b - 1)'
      BY DEF TransactionsAreSaved
    <2>1. PICK b \in 1 .. Len(log[s]) : Began(s, b) /\ Kept(s, saved[s], b - 1)
      BY DEF TransactionsAreSaved
    <2>2. b + 1 .. Len(log[s]) \subseteq 1 .. Len(log[s]) /\ 1 .. b - 1 \subseteq 1 .. Len(log[s])
      BY <1>3
    <2>3. Began(s, b)'
      BY <1>1, <2>1, <2>2 DEF Began
    <2>4. Kept(s, saved[s], b - 1)'
      BY <1>1, <1>2, <2>1, <2>2 DEF Kept
    <2> QED BY <2>3, <2>4
  <1> QED BY <1>4, <1>5

\* What an entry that is appended leaves of a log.
LEMMA EntriesStay ==
  ASSUME TypeOK, NEW c \in Clients, NEW r \in Sources,
         log' = [log EXCEPT ![r] = Append(@, c)], req' = req, NEW s \in Sources
  PROVE  \A i \in 1 .. Len(log[s]) : /\ log'[s][i] = log[s][i]
                                     /\ LoggedStmt(s, i)' = LoggedStmt(s, i)
  <1>1. log[s] \in Seq(Clients) /\ Len(log[s]) \in Nat
    BY DEF TypeOK
  <1>2. CASE s # r
    <2>1. log'[s] = log[s]
      BY <1>2 DEF TypeOK
    <2> QED BY <1>1, <1>2, <2>1 DEF LoggedStmt
  <1>3. CASE s = r
    <2>1. log'[s] = Append(log[s], c)
      BY <1>3 DEF TypeOK
    <2>2. ASSUME NEW i \in 1 .. Len(log[s]) PROVE log'[s][i] = log[s][i]
      BY <1>1, <2>1
    <2> QED BY <1>1, <1>3, <2>2 DEF LoggedStmt
  <1> QED BY <1>2, <1>3

LEMMA LogGrows ==
  ASSUME TypeOK, NEW c \in Clients, NEW r \in Sources,
         log' = [log EXCEPT ![r] = Append(@, c)], NEW s \in Sources
  PROVE  /\ Len(log[s]) \in Nat /\ Len(log'[s]) \in Nat
         /\ Len(log'[s]) >= Len(log[s])
         /\ s # r => Len(log'[s]) = Len(log[s])
  <1>1. log[s] \in Seq(Clients) /\ Len(log[s]) \in Nat
    BY DEF TypeOK
  <1>2. CASE s # r
    <2>1. log'[s] = log[s]
      BY <1>2 DEF TypeOK
    <2> QED BY <1>1, <2>1
  <1>3. CASE s = r
    <2>1. log'[s] = Append(log[s], c)
      BY <1>3 DEF TypeOK
    <2> QED BY <1>1, <1>3, <2>1
  <1> QED BY <1>2, <1>3

LEMMA NewEntry ==
  ASSUME TypeOK, NEW c \in Clients, NEW r \in Sources,
         log' = [log EXCEPT ![r] = Append(@, c)]
  PROVE  Len(log'[r]) = Len(log[r]) + 1 /\ log'[r][Len(log[r]) + 1] = c
  <1>1. log[r] \in Seq(Clients) /\ log'[r] = Append(log[r], c)
    BY DEF TypeOK
  <1> QED BY <1>1

LEMMA KeptGrows ==
  ASSUME TypeOK, NEW c \in Clients, NEW r \in Sources,
         log' = [log EXCEPT ![r] = Append(@, c)], req' = req,
         NEW s \in Sources, NEW data, NEW more, data \subseteq more,
         NEW l \in 0 .. Len(log[s]), Kept(s, data, l)
  PROVE  Kept(s, more, l)'
  <1>1. /\ Len(log[s]) \in Nat /\ Len(log'[s]) \in Nat /\ Len(log'[s]) >= Len(log[s])
        /\ \A i \in 1 .. Len(log[s]) : /\ log'[s][i] = log[s][i]
                                       /\ LoggedStmt(s, i)' = LoggedStmt(s, i)
    <2>1. /\ Len(log[s]) \in Nat /\ Len(log'[s]) \in Nat
          /\ Len(log'[s]) >= Len(log[s])
          /\ s # r => Len(log'[s]) = Len(log[s])
      BY LogGrows
    <2>2. \A i \in 1 .. Len(log[s]) : /\ log'[s][i] = log[s][i]
                                      /\ LoggedStmt(s, i)' = LoggedStmt(s, i)
      BY EntriesStay
    <2> QED BY <2>1, <2>2
  <1>2. ASSUME NEW i \in 1 .. l, RolledBack(s, i) PROVE RolledBack(s, i)'
    <2>1. PICK b \in 1 .. i - 1, j \in i + 1 .. Len(log[s]) :
            /\ LoggedStmt(s, b) = "begin"
            /\ LoggedStmt(s, j) = "rollback"
            /\ \A k \in b + 1 .. j - 1 : LoggedStmt(s, k) \notin {"commit", "rollback"}
      BY <1>2 DEF RolledBack
    <2>2. /\ b \in 1 .. Len(log[s]) /\ j \in 1 .. Len(log[s])
          /\ j \in i + 1 .. Len(log'[s])
          /\ b + 1 .. j - 1 \subseteq 1 .. Len(log[s])
      BY <1>1
    <2>3. /\ LoggedStmt(s, b)' = "begin" /\ LoggedStmt(s, j)' = "rollback"
          /\ \A k \in b + 1 .. j - 1 :
               LoggedStmt(s, k)' \notin {"commit", "rollback"}
      BY <1>1, <2>1, <2>2
    <2> QED BY <2>2, <2>3 DEF RolledBack
  <1>3. 1 .. l \subseteq 1 .. Len(log[s])
    BY <1>1
  <1> QED BY <1>1, <1>2, <1>3 DEF Kept

LEMMA BeganGrows ==
  ASSUME TypeOK, NEW c \in Clients, NEW r \in Sources,
         log' = [log EXCEPT ![r] = Append(@, c)], req' = req,
         NEW s \in Sources, NEW b \in 1 .. Len(log[s]), Began(s, b),
         s = r => req[c].stmt \notin {"commit", "rollback"}
  PROVE  b \in 1 .. Len(log'[s]) /\ Began(s, b)'
  <1>1. /\ Len(log[s]) \in Nat /\ Len(log'[s]) \in Nat
        /\ s # r => Len(log'[s]) = Len(log[s])
        /\ s = r => /\ Len(log'[s]) = Len(log[s]) + 1
                    /\ log'[s][Len(log[s]) + 1] = c
        /\ \A i \in 1 .. Len(log[s]) : LoggedStmt(s, i)' = LoggedStmt(s, i)
    <2>1. /\ Len(log[s]) \in Nat /\ Len(log'[s]) \in Nat
          /\ Len(log'[s]) >= Len(log[s])
          /\ s # r => Len(log'[s]) = Len(log[s])
      BY LogGrows
    <2>2. Len(log'[r]) = Len(log[r]) + 1 /\ log'[r][Len(log[r]) + 1] = c
      BY NewEntry
    <2>3. \A i \in 1 .. Len(log[s]) : /\ log'[s][i] = log[s][i]
                                      /\ LoggedStmt(s, i)' = LoggedStmt(s, i)
      BY EntriesStay
    <2> QED BY <2>1, <2>2, <2>3
  <1>2. ASSUME NEW k \in b + 1 .. Len(log'[s])
        PROVE  LoggedStmt(s, k)' \notin {"commit", "rollback"}
    <2>1. CASE k \in 1 .. Len(log[s])
      BY <1>1, <2>1 DEF Began
    <2>2. CASE s = r /\ k = Len(log[s]) + 1
      BY <1>1, <2>2 DEF LoggedStmt
    <2> QED BY <1>1, <2>1, <2>2
  <1> QED BY <1>1, <1>2 DEF Began

\* The sources that are not written to.
LEMMA OtherSources ==
  ASSUME TypeOK, AllKept, TransactionsAreSaved, NEW c \in Clients, NEW r \in Sources,
         log' = [log EXCEPT ![r] = Append(@, c)], req' = req,
         NEW s \in Sources, s # r,
         rows'[s] = rows[s], saved'[s] = saved[s], inTx'[s] = inTx[s]
  PROVE  /\ Kept(s, rows[s], Len(log[s]))'
         /\ (inTx[s])' => \E b \in 1 .. Len(log'[s]) :
              Began(s, b)' /\ Kept(s, saved[s], b - 1)'
  <1>1. Len(log[s]) \in Nat /\ Len(log'[s]) = Len(log[s])
    BY LogGrows
  <1>2. PICK l \in Nat : l = Len(log[s])
    BY <1>1
  <1>3. PICK data, kept : data = rows[s] /\ kept = saved[s]
    OBVIOUS
  <1>4. Kept(s, data, l)'
    <2>1. Kept(s, data, l) /\ l \in 0 .. Len(log[s])
      BY <1>1, <1>2, <1>3 DEF AllKept
    <2> QED BY <2>1, KeptGrows
  <1>5. ASSUME inTx[s]
        PROVE  \E b \in 1 .. Len(log'[s]) : Began(s, b)' /\ Kept(s, kept, b - 1)'
    <2>1. PICK b \in 1 .. Len(log[s]) : Began(s, b) /\ Kept(s, kept, b - 1)
      BY <1>3, <1>5 DEF TransactionsAreSaved
    <2>2. b - 1 \in 0 .. Len(log[s])
      BY <1>1
    <2>3. Kept(s, kept, b - 1)'
      BY <2>1, <2>2, KeptGrows
    <2> QED BY <2>1, <2>3, BeganGrows
  <1> QED BY <1>1, <1>2, <1>3, <1>4, <1>5 DEF Kept

\* From the source that is written to to all of them.
LEMMA AllSources ==
  ASSUME TypeOK, AllKept, TransactionsAreSaved, NEW c \in Clients, NEW r \in Sources,
         log' = [log EXCEPT ![r] = Append(@, c)], req' = req,
         \A s \in Sources : s # r =>
           rows'[s] = rows[s] /\ saved'[s] = saved[s] /\ inTx'[s] = inTx[s],
         NEW data, data = rows'[r], NEW kept, kept = saved'[r],
         Kept(r, data, Len(log[r]))',
         inTx'[r] => \E b \in 1 .. Len(log'[r]) :
           Began(r, b)' /\ Kept(r, kept, b - 1)'
  PROVE  AllKept' /\ TransactionsAreSaved'
  <1>1. ASSUME NEW s \in Sources, s # r
        PROVE  /\ Kept(s, rows[s], Len(log[s]))'
               /\ (inTx[s])' => \E b \in 1 .. Len(log'[s]) :
                    Began(s, b)' /\ Kept(s, saved[s], b - 1)'
    <2>1. rows'[s] = rows[s] /\ saved'[s] = saved[s] /\ inTx'[s] = inTx[s]
      BY <1>1
    <2> QED BY <1>1, <2>1, OtherSources
  <1>2. Kept(r, rows[r], Len(log[r]))'
    BY DEF Kept
  <1>3. (inTx[r])' => \E b \in 1 .. Len(log'[r]) :
          Began(r, b)' /\ Kept(r, saved[r], b - 1)'
    BY DEF Kept
  <1>4. AllKept'
    BY <1>1, <1>2 DEF AllKept
  <1>5. TransactionsAreSaved'
    BY <1>1, <1>3 DEF TransactionsAreSaved
  <1> QED BY <1>4, <1>5

\* The entry that is appended keeps what was kept.
LEMMA KeptWithNew ==
  ASSUME TypeOK, NEW c \in Clients, NEW r \in Sources,
         log' = [log EXCEPT ![r] = Append(@, c)], req' = req,
         NEW data, NEW l \in Nat, l = Len(log[r]), Kept(r, data, l)',
         req[c].stmt = "insert" => c \in data
  PROVE  Kept(r, data, Len(log[r]))'
  <1>1. Len(log'[r]) = l + 1 /\ log'[r][l + 1] = c
    <2>1. Len(log'[r]) = Len(log[r]) + 1 /\ log'[r][Len(log[r]) + 1] = c
      BY NewEntry
    <2> QED BY <2>1
  <1>2. ASSUME NEW i \in 1 .. l + 1, LoggedStmt(r, i)' = "insert"
        PROVE  log'[r][i] \in data \/ RolledBack(r, i)'
    <2>1. CASE i \in 1 .. l
      BY <1>2, <2>1 DEF Kept
    <2>2. CASE i = l + 1
      BY <1>1, <1>2, <2>2 DEF LoggedStmt
    <2> QED BY <2>1, <2>2
  <1> QED BY <1>1, <1>2 DEF Kept

\* The transaction that is open on the source written to stays open.
LEMMA SameTransaction ==
  ASSUME TypeOK, TransactionsAreSaved, NEW c \in Clients, NEW r \in Sources,
         log' = [log EXCEPT ![r] = Append(@, c)], req' = req,
         req[c].stmt \notin {"commit", "rollback"}, inTx[r],
         NEW kept, kept = saved[r]
  PROVE  \E b \in 1 .. Len(log'[r]) : Began(r, b)' /\ Kept(r, kept, b - 1)'
  <1>1. PICK b \in 1 .. Len(log[r]) : Began(r, b) /\ Kept(r, kept, b - 1)
    BY DEF TransactionsAreSaved
  <1>2. b - 1 \in 0 .. Len(log[r])
    <2>1. Len(log[r]) \in Nat
      BY DEF TypeOK
    <2> QED BY <2>1
  <1>3. Kept(r, kept, b - 1)'
    BY <1>1, <1>2, KeptGrows
  <1> QED BY <1>1, <1>3, BeganGrows

\* What the four statements that write have in common.
LEMMA Written ==
  ASSUME IInv, NEW c \in Clients, Wrote(c)
  PROVE  /\ req[c].source \in Sources /\ req' = req
         /\ req[c].route = "query"
         /\ log' = [log EXCEPT ![req[c].source] = Append(@, c)]
         /\ \A s \in Sources : s # req[c].source =>
              rows'[s] = rows[s] /\ saved'[s] = saved[s] /\ inTx'[s] = inTx[s]
  <1>1. TypeOK /\ JobsWereAdmitted
    BY DEF IInv
  <1>2. job[c] = "running" /\ req' = req /\ req[c].route = "query"
    BY DEF Wrote, Inserted, Insert, PutRow, JobPanics, Begin, Commit, Rollback, Running, taskVars
  <1>3. req[c].source \in Sources
    BY <1>1, <1>2, Admission DEF JobsWereAdmitted
  <1>4. log' = [log EXCEPT ![req[c].source] = Append(@, c)]
    BY DEF Wrote, Inserted, Insert, PutRow, Begin, Commit, Rollback
  <1>5. CASE Inserted(c)
    BY <1>1, <1>2, <1>3, <1>4, <1>5 DEF Inserted, Insert, PutRow, JobPanics, TypeOK
  <1>6. CASE Begin(c)
    BY <1>1, <1>2, <1>3, <1>4, <1>6 DEF Begin, TypeOK
  <1>7. CASE Commit(c)
    BY <1>1, <1>2, <1>3, <1>4, <1>7 DEF Commit, TypeOK
  <1>8. CASE Rollback(c)
    BY <1>1, <1>2, <1>3, <1>4, <1>8 DEF Rollback, TypeOK
  <1> QED BY <1>5, <1>6, <1>7, <1>8 DEF Wrote

\* An insert puts its client into the data; an open transaction stays open.
LEMMA InsertKeeps ==
  ASSUME IInv, AllKept, TransactionsAreSaved, NEW c \in Clients, Inserted(c)
  PROVE  AllKept' /\ TransactionsAreSaved'
  <1>1. PICK r : r = req[c].source
    OBVIOUS
  <1>2. /\ r \in Sources /\ req' = req
        /\ log' = [log EXCEPT ![r] = Append(@, c)]
        /\ \A s \in Sources : s # r =>
             rows'[s] = rows[s] /\ saved'[s] = saved[s] /\ inTx'[s] = inTx[s]
    BY <1>1, Written DEF Wrote
  <1>3. TypeOK /\ req[c].stmt = "insert"
    BY DEF IInv, Inserted, Insert, PutRow, Running
  <1>4. /\ rows'[r] = rows[r] \cup {c}
        /\ saved'[r] = saved[r] /\ inTx'[r] = inTx[r]
    BY <1>1, <1>2, <1>3 DEF Inserted, Insert, PutRow, JobPanics, TypeOK
  <1>5. PICK l \in Nat : l = Len(log[r])
    BY <1>2, <1>3 DEF TypeOK
  <1>6. PICK old, data, kept : old = rows[r] /\ data = rows'[r] /\ kept = saved[r]
    OBVIOUS
  <1>7. Kept(r, data, l)'
    <2>1. Kept(r, old, l) /\ l \in 0 .. Len(log[r])
      BY <1>2, <1>5, <1>6 DEF AllKept
    <2>2. old \subseteq data
      BY <1>4, <1>6
    <2> QED BY <1>2, <1>3, <2>1, <2>2, KeptGrows
  <1>8. c \in data
    BY <1>4, <1>6
  <1>9. Kept(r, data, Len(log[r]))'
    BY <1>2, <1>3, <1>5, <1>7, <1>8, KeptWithNew
  <1>10. inTx'[r] => \E b \in 1 .. Len(log'[r]) : Began(r, b)' /\ Kept(r, kept, b - 1)'
    <2>1. req[c].stmt \notin {"commit", "rollback"}
      BY <1>3
    <2> QED BY <1>2, <1>3, <1>4, <1>6, <2>1, SameTransaction
  <1>11. kept = saved'[r]
    BY <1>4, <1>6
  <1> QED BY <1>2, <1>3, <1>6, <1>9, <1>10, <1>11, AllSources

\* A transaction saves the data as it is when it begins.
LEMMA BeginKeeps ==
  ASSUME IInv, AllKept, TransactionsAreSaved, NEW c \in Clients, Begin(c)
  PROVE  AllKept' /\ TransactionsAreSaved'
  <1>1. PICK r : r = req[c].source
    OBVIOUS
  <1>2. /\ r \in Sources /\ req' = req
        /\ log' = [log EXCEPT ![r] = Append(@, c)]
        /\ \A s \in Sources : s # r =>
             rows'[s] = rows[s] /\ saved'[s] = saved[s] /\ inTx'[s] = inTx[s]
    BY <1>1, Written DEF Wrote
  <1>3. TypeOK
    BY DEF IInv
  <1>4. req[c].stmt = "begin"
    BY <1>1, <1>2, Written DEF Wrote, Begin, Running
  <1>5. rows'[r] = rows[r] /\ saved'[r] = rows[r]
    BY <1>1, <1>2, <1>3 DEF Begin, TypeOK
  <1>6. PICK l \in Nat : l = Len(log[r])
    BY <1>2, <1>3 DEF TypeOK
  <1>7. PICK data : data = rows[r]
    OBVIOUS
  <1>8. Kept(r, data, l)'
    <2>1. Kept(r, data, l) /\ l \in 0 .. Len(log[r])
      BY <1>2, <1>6, <1>7 DEF AllKept
    <2> QED BY <1>2, <1>3, <2>1, KeptGrows
  <1>9. Kept(r, data, Len(log[r]))'
    BY <1>2, <1>3, <1>4, <1>6, <1>8, KeptWithNew
  <1>10. Len(log'[r]) = l + 1 /\ log'[r][l + 1] = c
    <2>1. Len(log'[r]) = Len(log[r]) + 1 /\ log'[r][Len(log[r]) + 1] = c
      BY <1>2, <1>3, NewEntry
    <2> QED BY <1>6, <2>1
  <1>11. Began(r, l + 1)'
    BY <1>2, <1>4, <1>10 DEF Began, LoggedStmt
  <1>12. \E b \in 1 .. Len(log'[r]) : Began(r, b)' /\ Kept(r, data, b - 1)'
    <2>1. l + 1 \in 1 .. Len(log'[r]) /\ (l + 1) - 1 = l
      BY <1>10
    <2> QED BY <1>8, <1>11, <2>1
  <1>13. data = rows'[r] /\ data = saved'[r]
    BY <1>5, <1>7
  <1> QED BY <1>2, <1>3, <1>9, <1>12, <1>13, AllSources

\* A commit leaves the data and ends the transaction.
LEMMA CommitKeeps ==
  ASSUME IInv, AllKept, TransactionsAreSaved, NEW c \in Clients, Commit(c)
  PROVE  AllKept' /\ TransactionsAreSaved'
  <1>1. PICK r : r = req[c].source
    OBVIOUS
  <1>2. /\ r \in Sources /\ req' = req
        /\ log' = [log EXCEPT ![r] = Append(@, c)]
        /\ \A s \in Sources : s # r =>
             rows'[s] = rows[s] /\ saved'[s] = saved[s] /\ inTx'[s] = inTx[s]
    BY <1>1, Written DEF Wrote
  <1>3. TypeOK
    BY DEF IInv
  <1>4. req[c].stmt = "commit"
    BY <1>1, <1>2, Written DEF Wrote, Commit, Running
  <1>5. rows'[r] = rows[r] /\ ~inTx'[r]
    BY <1>1, <1>2, <1>3 DEF Commit, TypeOK
  <1>6. PICK l \in Nat : l = Len(log[r])
    BY <1>2, <1>3 DEF TypeOK
  <1>7. PICK data, kept : data = rows[r] /\ kept = saved'[r]
    OBVIOUS
  <1>8. Kept(r, data, l)'
    <2>1. Kept(r, data, l) /\ l \in 0 .. Len(log[r])
      BY <1>2, <1>6, <1>7 DEF AllKept
    <2> QED BY <1>2, <1>3, <2>1, KeptGrows
  <1>9. Kept(r, data, Len(log[r]))'
    BY <1>2, <1>3, <1>4, <1>6, <1>8, KeptWithNew
  <1>10. data = rows'[r]
    BY <1>5, <1>7
  <1> QED BY <1>2, <1>3, <1>5, <1>7, <1>9, <1>10, AllSources

\* A rollback gives back what was there when the transaction began, and every insert
\* that came after that lies between the two.
LEMMA RollbackKeeps ==
  ASSUME IInv, AllKept, TransactionsAreSaved, NEW c \in Clients, Rollback(c)
  PROVE  AllKept' /\ TransactionsAreSaved'
  <1>1. PICK r : r = req[c].source
    OBVIOUS
  <1>2. /\ r \in Sources /\ req' = req
        /\ log' = [log EXCEPT ![r] = Append(@, c)]
        /\ \A s \in Sources : s # r =>
             rows'[s] = rows[s] /\ saved'[s] = saved[s] /\ inTx'[s] = inTx[s]
    BY <1>1, Written DEF Wrote
  <1>3. TypeOK
    BY DEF IInv
  <1>4. req[c].stmt = "rollback"
    BY <1>1, <1>2, Written DEF Wrote, Rollback, Running
  <1>5. inTx[r] /\ rows'[r] = saved[r] /\ ~inTx'[r]
    BY <1>1, <1>2, <1>3 DEF Rollback, TypeOK
  <1>6. PICK l \in Nat : l = Len(log[r])
    BY <1>2, <1>3 DEF TypeOK
  <1>7. PICK data, kept : data = saved[r] /\ kept = saved'[r]
    OBVIOUS
  <1>8. PICK b \in 1 .. l : Began(r, b) /\ Kept(r, data, b - 1)
    BY <1>2, <1>5, <1>6, <1>7 DEF TransactionsAreSaved
  <1>9. Kept(r, data, b - 1)'
    <2>1. b - 1 \in 0 .. Len(log[r])
      BY <1>6
    <2> QED BY <1>2, <1>3, <1>8, <2>1, KeptGrows
  <1>10. /\ Len(log'[r]) = l + 1 /\ log'[r][l + 1] = c
         /\ \A i \in 1 .. l : LoggedStmt(r, i)' = LoggedStmt(r, i)
    <2>1. Len(log'[r]) = Len(log[r]) + 1 /\ log'[r][Len(log[r]) + 1] = c
      BY <1>2, <1>3, NewEntry
    <2>2. \A i \in 1 .. Len(log[r]) : /\ log'[r][i] = log[r][i]
                                      /\ LoggedStmt(r, i)' = LoggedStmt(r, i)
      BY <1>2, <1>3, EntriesStay
    <2> QED BY <1>6, <2>1, <2>2
  <1>11. Kept(r, data, l)'
    <2>1. ASSUME NEW i \in 1 .. l, LoggedStmt(r, i)' = "insert"
          PROVE  log'[r][i] \in data \/ RolledBack(r, i)'
      <3>1. CASE i \in 1 .. b - 1
        BY <1>9, <2>1, <3>1 DEF Kept
      <3>2. i # b
        BY <1>8, <1>10, <2>1 DEF Began
      <3>3. CASE i \in b + 1 .. l
        <4>1. b \in 1 .. i - 1 /\ l + 1 \in i + 1 .. Len(log'[r])
          BY <1>10, <3>3
        <4>2. LoggedStmt(r, b)' = "begin" /\ LoggedStmt(r, l + 1)' = "rollback"
          BY <1>2, <1>4, <1>8, <1>10 DEF Began, LoggedStmt
        <4>3. \A k \in b + 1 .. (l + 1) - 1 :
                LoggedStmt(r, k)' \notin {"commit", "rollback"}
          BY <1>6, <1>8, <1>10 DEF Began
        <4> QED BY <4>1, <4>2, <4>3 DEF RolledBack
      <3> QED BY <3>1, <3>2, <3>3
    <2> QED BY <2>1 DEF Kept
  <1>12. Kept(r, data, Len(log[r]))'
    BY <1>2, <1>3, <1>4, <1>6, <1>11, KeptWithNew
  <1>13. data = rows'[r]
    BY <1>5, <1>7
  <1> QED BY <1>2, <1>3, <1>5, <1>7, <1>12, <1>13, AllSources

-----------------------------------------------------------------------------
(* What is done is in the log. *)

LEMMA LoggedFrame ==
  ASSUME DoneIsLogged, log' = log,
         \A d \in Clients : job'[d] = "done" =>
           \/ job[d] = "done" /\ req'[d] = req[d]
           \/ ~(req'[d].route = "query" /\ req'[d].stmt = "insert")
  PROVE  DoneIsLogged'
  BY DEF DoneIsLogged

\* A job that runs has ended when its statement is done.
LEMMA JobEnds ==
  ASSUME IInv, NEW c \in Clients, RunJob(c)
  PROVE  /\ job[c] = "running" /\ UNCHANGED taskVars
         /\ \E how \in {"done", "failed"} :
              /\ Read(c) \/ ~(StatementFails(c) \/ JobPanics(c)) \/ how = "failed"
              /\ \A d \in Clients : job'[d] = IF d = c THEN how ELSE job[d]
  <1>1. job[c] = "running" /\ UNCHANGED taskVars
    BY DEF RunJob, Read, Insert, PutRow, Begin, Commit, Rollback, StatementFails, JobPanics, Running
  <1>2. \E how \in {"done", "failed"} :
          /\ Read(c) \/ ~(StatementFails(c) \/ JobPanics(c)) \/ how = "failed"
          /\ EndJob(c, how)
    BY DEF RunJob, Read, Insert, Begin, Commit, Rollback, StatementFails, JobPanics
  <1> QED BY <1>1, <1>2, EndOfJob

LEMMA LoggedWrite ==
  ASSUME IInv, DoneIsLogged, NEW c \in Clients, Wrote(c)
  PROVE  DoneIsLogged'
  <1>1. PICK r : r = req[c].source
    OBVIOUS
  <1>2. r \in Sources /\ req' = req /\ log' = [log EXCEPT ![r] = Append(@, c)]
    BY <1>1, Written DEF Wrote
  <1>3. TypeOK
    BY DEF IInv
  <1>4. \A d \in Clients : d # c => job'[d] = job[d]
    <2>1. RunJob(c)
      BY DEF RunJob, Wrote, Inserted
    <2> QED BY <2>1, JobEnds
  <1>5. Len(log[r]) \in Nat /\ Len(log'[r]) \in Nat
        /\ Len(log'[r]) = Len(log[r]) + 1 /\ log'[r][Len(log[r]) + 1] = c
    <2>1. Len(log[r]) \in Nat /\ Len(log'[r]) \in Nat
      BY <1>2, <1>3, LogGrows
    <2>2. Len(log'[r]) = Len(log[r]) + 1 /\ log'[r][Len(log[r]) + 1] = c
      BY <1>2, <1>3, NewEntry
    <2> QED BY <2>1, <2>2
  <1> SUFFICES ASSUME NEW d \in Clients,
                      job'[d] = "done", req[d].route = "query", req[d].stmt = "insert"
               PROVE  \E i \in 1 .. Len(log'[req[d].source]) :
                        log'[req[d].source][i] = d
    BY <1>2 DEF DoneIsLogged
  <1>6. CASE d = c
    <2>1. Len(log'[r]) \in 1 .. Len(log'[r]) /\ log'[r][Len(log'[r])] = c
      BY <1>5
    <2> QED BY <1>1, <1>6, <2>1
  <1>7. CASE d # c
    <2>1. PICK i \in 1 .. Len(log[req[d].source]) : log[req[d].source][i] = d
      BY <1>4, <1>7 DEF DoneIsLogged
    <2>2. CASE req[d].source # r
      <3>1. req[d].source \in Sources
        BY <1>4, <1>7, Admission DEF IInv, JobsWereAdmitted
      <3>2. log'[req[d].source] = log[req[d].source]
        BY <1>2, <1>3, <2>2, <3>1 DEF TypeOK
      <3> QED BY <2>1, <3>2
    <2>3. CASE req[d].source = r
      <3>1. log'[r][i] = log[r][i]
        <4>1. \A j \in 1 .. Len(log[r]) : /\ log'[r][j] = log[r][j]
                                          /\ LoggedStmt(r, j)' = LoggedStmt(r, j)
          BY <1>2, <1>3, EntriesStay
        <4> QED BY <2>1, <2>3, <4>1
      <3>2. i \in 1 .. Len(log'[r])
        BY <1>5, <2>1, <2>3
      <3> QED BY <2>1, <2>3, <3>1, <3>2
    <2> QED BY <2>2, <2>3
  <1> QED BY <1>6, <1>7

\* The jobs of the log keep their requests.
LEMMA RequestsStay ==
  ASSUME IInv, NEW c \in Clients,
         Arrive(c) \/ BodyArrives(c) \/ Dispatch(c) \/ Resume(c) \/ ClientLeaves(c)
  PROVE  /\ \A d \in Clients : job[d] \in {"done", "failed"} => req'[d] = req[d]
         /\ \A d \in Clients : job'[d] = "done" => job[d] = "done"
  <1>1. TypeOK /\ JobsWereAdmitted
    BY DEF IInv
  <1>2. CASE Arrive(c) \/ BodyArrives(c) \/ ClientLeaves(c)
    <2>1. job' = job /\ \A d \in Clients : d # c => req'[d] = req[d]
      BY <1>1, <1>2 DEF Arrive, BodyArrives, ClientLeaves, TypeOK
    <2>2. task[c] \in {"idle", "reading", "received"} \/ req' = req
      BY <1>2 DEF Arrive, BodyArrives, ClientLeaves
    <2>3. job[c] = "none" \/ req' = req
      BY <1>1, <2>2 DEF JobsWereAdmitted
    <2> QED BY <2>1, <2>3
  <1>3. CASE Dispatch(c) \/ Resume(c)
    <2>1. req' = req
      BY <1>3 DEF Dispatch, Resume, Answer
    <2>2. job' = job \/ job' = [job EXCEPT ![c] = "queued"]
      BY <1>3 DEF Dispatch, Resume
    <2> QED BY <1>1, <2>1, <2>2 DEF TypeOK
  <1> QED BY <1>2, <1>3

-----------------------------------------------------------------------------
LEMMA InitDInv == Init => DInv
  BY DEF Init, DInv, Acknowledged, DoneIsLogged, AllKept, Kept, TransactionsAreSaved

\* A step that writes nothing.
LEMMA QuietStep ==
  ASSUME IInv, DInv, Acknowledged', UNCHANGED <<rows, saved, inTx, log>>,
         \A d \in Clients : job[d] \in {"done", "failed"} => req'[d] = req[d],
         \A d \in Clients : job'[d] = "done" =>
           \/ job[d] = "done"
           \/ ~(req'[d].route = "query" /\ req'[d].stmt = "insert")
  PROVE  DInv'
  <1>1. AllKept' /\ TransactionsAreSaved'
    BY DataFrame DEF DInv
  <1>2. DoneIsLogged'
    BY LoggedFrame DEF DInv
  <1> QED BY <1>1, <1>2 DEF DInv

LEMMA NextDInv == IInv /\ DInv /\ [Next]_vars => DInv'
  <1> SUFFICES ASSUME IInv, DInv, [Next]_vars PROVE DInv'
    OBVIOUS
  <1>1. Acknowledged /\ DoneIsLogged /\ AllKept /\ TransactionsAreSaved
    BY DEF DInv
  <1>2. CASE UNCHANGED vars
    <2>1. UNCHANGED <<taskVars, job, rows, saved, inTx, log, req>>
      BY <1>2 DEF vars, dataVars, taskVars
    <2>2. Acknowledged'
      BY <1>1, <2>1, AcknowledgedJobs
    <2> QED BY <2>1, <2>2, QuietStep
  <1>3. ASSUME NEW c \in Clients,
               Arrive(c) \/ BodyArrives(c) \/ Dispatch(c) \/ Resume(c) \/ ClientLeaves(c)
        PROVE  DInv'
    <2>1. UNCHANGED <<rows, saved, inTx, log>>
      BY <1>3 DEF Arrive, BodyArrives, Dispatch, Resume, ClientLeaves, dataVars
    <2>2. Acknowledged'
      BY <1>1, <1>3, AcknowledgedTasks
    <2>3. /\ \A d \in Clients : job[d] \in {"done", "failed"} => req'[d] = req[d]
          /\ \A d \in Clients : job'[d] = "done" => job[d] = "done"
      BY <1>3, RequestsStay
    <2> QED BY <2>1, <2>2, <2>3, QuietStep
  <1>4. CASE AcceptFails
    <2>1. UNCHANGED <<req, rows, saved, inTx, log>>
      BY <1>4 DEF AcceptFails, dataVars
    <2>2. Acknowledged'
      BY <1>1, <1>4, AcknowledgedEnd
    <2>3. \A d \in Clients : job'[d] = "done" => job[d] = "done"
      BY <1>4 DEF AcceptFails
    <2> QED BY <2>1, <2>2, <2>3, QuietStep
  <1>5. ASSUME NEW c \in Clients, StartJob(c)
        PROVE  DInv'
    <2>1. UNCHANGED <<taskVars, rows, saved, inTx, log, req>>
      BY <1>5 DEF StartJob, taskVars
    <2>2. /\ job[c] = "queued"
          /\ job' = [job EXCEPT ![c] = "failed"] \/ job' = [job EXCEPT ![c] = "running"]
      BY <1>5 DEF StartJob
    <2>3. \A d \in Clients : job'[d] = "done" <=> job[d] = "done"
      BY <2>2 DEF IInv, TypeOK
    <2>4. Acknowledged'
      BY <1>1, <2>1, <2>3, AcknowledgedJobs
    <2> QED BY <2>1, <2>3, <2>4, QuietStep
  <1>6. ASSUME NEW c \in Clients, RunJob(c)
        PROVE  DInv'
    <2>1. job[c] = "running" /\ UNCHANGED <<taskVars, req>>
      BY <1>6, JobEnds DEF taskVars
    <2>2. PICK how \in {"done", "failed"} :
            /\ Read(c) \/ ~(StatementFails(c) \/ JobPanics(c)) \/ how = "failed"
            /\ \A d \in Clients : job'[d] = IF d = c THEN how ELSE job[d]
      BY <1>6, JobEnds
    <2>3. Acknowledged'
      BY <1>1, <2>1, <2>2, AcknowledgedJobs
    <2>4. CASE /\ UNCHANGED <<rows, log>>
               /\ Read(c) \/ StatementFails(c) \/ JobPanics(c)
      <3>1. UNCHANGED <<rows, saved, inTx, log>>
        BY <2>4 DEF Read, StatementFails, JobPanics
      <3>2. how = "failed" \/ ~(req[c].route = "query" /\ req[c].stmt = "insert")
        BY <2>2, <2>4 DEF Read, Running
      <3> QED BY <2>1, <2>2, <2>3, <3>1, <3>2, QuietStep
    <2>5. CASE Wrote(c)
      <3>1. AllKept' /\ TransactionsAreSaved'
        BY <1>1, <2>5, InsertKeeps, BeginKeeps, CommitKeeps, RollbackKeeps DEF Wrote
      <3>2. DoneIsLogged'
        BY <1>1, <2>5, LoggedWrite
      <3> QED BY <2>3, <3>1, <3>2 DEF DInv
    <2>6. \/ Wrote(c)
          \/ UNCHANGED <<rows, log>> /\ (Read(c) \/ StatementFails(c) \/ JobPanics(c))
      BY <1>6, EndsOfJobs
    <2> QED BY <2>4, <2>5, <2>6
  <1> QED BY <1>2, <1>3, <1>4, <1>5, <1>6 DEF Next

\* An insert that was answered with success is in the data or fell into a transaction
\* that was rolled back, whatever the other requests on its connection do, whichever
\* of them fail or panic, and whether or not the server has ended since.
THEOREM AcknowledgedStays == Spec => []AcknowledgedInsertStays
  <1>1. IInv /\ DInv => AcknowledgedInsertStays
    <2> SUFFICES ASSUME IInv, DInv, NEW c \in Clients,
                        status[c] = 200, req[c].route = "query", req[c].stmt = "insert"
                 PROVE  \/ c \in rows[req[c].source]
                        \/ \E i \in 1 .. Len(log[req[c].source]) :
                             log[req[c].source][i] = c /\ RolledBack(req[c].source, i)
      BY DEF AcknowledgedInsertStays
    <2>1. job[c] = "done"
      BY DEF DInv, Acknowledged
    <2>2. PICK i \in 1 .. Len(log[req[c].source]) : log[req[c].source][i] = c
      BY <2>1 DEF DInv, DoneIsLogged
    <2>3. req[c].source \in Sources
      BY <2>1, Admission DEF IInv, JobsWereAdmitted
    <2>4. Kept(req[c].source, rows[req[c].source], Len(log[req[c].source]))
      BY <2>3 DEF DInv, AllKept
    <2>5. LoggedStmt(req[c].source, i) = "insert"
      BY <2>2 DEF LoggedStmt
    <2> QED BY <2>2, <2>4, <2>5 DEF Kept
  <1> QED
    BY <1>1, InitIInv, NextIInv, InitDInv, NextDInv, PTL DEF Spec
=============================================================================
