# irodori-kit in TLA+

Models of the concurrent and stateful parts of irodori-kit, the libraries below the
Irodori Table database client, written from the Rust sources. Each model is checked
with TLC on small instances; the safety properties are proved with TLAPS for every
value of the constants.

    tlc -config MCRelay.cfg MCRelay        model-check one run
    tlapm ForwarderProofs.tla              check the proofs of one module

`PROJECT.json` lists, for every definition, the lines of the source it stands for.

## 1. Inventory

irodori-kit is a workspace of crates around one flow: a connection *profile* is
validated, its secrets are looked up, a *transport plan* is resolved, the plan is dialled
through proxies, a local *forwarder* offers the result to a database driver, and around
the connection live completion, export, SQL generation and a small data API.

| Component | State it keeps | Operations | Correct when | Status |
|---|---|---|---|---|
| Forwarder, relay (`irodori-proxy/forwarder.rs`) | two byte buffers with positions, `made_progress`, the token | four non-blocking I/O attempts per turn, sleep, end | no byte lost, repeated, reordered; an end of stream never overtakes data; the relay ends when it should | `RelayBuffer`, `Relay`, `RelayPipe` |
| Forwarder, accept loop (same file) | listener, one task per client, token, blocking pool | accept, back off, dial, relay, cancel | nothing leaks, nobody is left unanswered, a cancellation ends everything | `Forwarder` |
| Model command (`irodori-generate/command.rs`) | child process, three pipes | complete, chat | what is returned is whole; parent and child do not block each other | `ModelCommand` |
| Data API (`irodori-server`) | sources with one connection and one lock each, tokens, audit sink | dispatch, query, list, serve | only authorised changes, one audit entry per request, nothing acknowledged is lost | `ApiServer` |
| Chain dial and handshakes (`irodori-proxy/protocol.rs`) | the stream so far, the SSH session kept | SOCKS5, HTTP CONNECT, SSH channel, hop loop | every hop is asked for the next one, a reply is read to its last byte and no further | `Tunnel`, `Dial` |
| Transport plan, diagnostics (`plan.rs`, `resolved.rs`, `diagnostics.rs`) | none; the report of a probe | plan, resolve, probe | what a user is shown is what is dialled; a report is what was found | `TransportPlan`, `Diagnostics`, `Connect` |
| Profiles (`irodori-connection`) | none; a bundle while it travels | validate, export, import, list secret slots | every secret has one slot and no two share a path; an export is refused for a reason | `ConnectionProfile`, `PortableProfile` |
| Secure store (`irodori-secure-store`) | handle -> secret | put, get, delete | what is read back is what was put under that name | `SecureStore`, `ProfileTransfer` |
| Result export and import (`irodori-io`) | row count, the encoder's buffer, the job's state; inferred columns | write row, progress, cancel, finish; preview, infer, insert | the file is the rows reported; what is read back is what was written | `TabularOutput`, `TabularImport`, `ExportJob` |
| Metadata cache (`irodori-completion/metadata.rs`) | snapshots, refresh queue | upsert, ensure_fresh, invalidate, drain | nothing invalidated stays away unasked for; the cache becomes what the database is | `MetadataCache` |
| SQL generation (`irodori-generate/lib.rs`, `plan.rs`, `verify.rs`) | attempt counter, last error | plan, ask, verify, retry | a verified statement has the meaning the database gives it; a model that obeys is accepted | `QueryPlan`, `SqlVerify`, `Generate` |
| HTTP and llama models, completion engine, redaction, connector ABI, manifest, core facade, scripts | none, or text | requests, ranking, passes over text, buffers across a C boundary, declarations | | not modelled, see 6 |

Interactions. The forwarder calls the dial on a blocking thread for every client and owns
the stream the dial returns; the relay is the last part of a connection task and shares
nothing but the token with other connections. `generate` calls a model, of which the
command model is one, and shows it the plan of the same schema its answer is verified
against. A profile that was exported, carried and imported is linked to its secrets by the
handles the store derives from its slots, and is then planned, dialled or probed. A result
is exported by one encoder and may be imported again. The API server's tasks meet only at the lock of a source. The host
application (not in this repository) drains the metadata cache, runs the export jobs and
cancels forwarders.

What is hard in it: partial reads and writes against a compacting buffer; a task that
gives way at one point only; blocking calls that cannot be cancelled (dials, SQL
statements); two processes coupled by bounded pipes; one SQLite connection, hence one
transaction, shared by all requests; clients that leave in the middle of any of it.
Nothing is persisted by these crates except through the OS keychain, so there is no crash
recovery to model.

## 2. What is modelled

### RelayBuffer, Relay, RelayPipe: one forwarded connection

`RelayBuffer` has the operations of `Buffer` as operators on records with the read and
the write position and the cells of the allocation, stale bytes included, so that a
compaction that forgets to copy shows. `Relay` is `forward_connection` under the
`select!` of `start_forwarder`: `pc` is the place in the loop, and `WriteRemote`,
`ReadClient`, `WriteClient`, `ReadRemote`, `EndTurn` are its five steps. Every partial
read and write, `WouldBlock`, error and `Ok(0)` is an alternative of a step. Bytes are
numbers in the order they were sent. The peers and the kernel's socket buffers are the
environment: `Send`, `ShutdownWrite`, `Receive`, `Reset`, and `Cancel`.

`RelayPipe` is what a forwarded connection promises and knows no buffers, positions or
turns: per direction a first-in first-out pipe of bounded size that closes in an orderly
way only after the last byte of a stream. `Relay` implements it; the waiting part of a
buffer is the pipe's content (`ImplementsPipe`).

### Forwarder: accept loop, dials, tasks

`listener` is the accept loop (accepting, in its 100 ms sleep after an error, or
closed), `task[c]` the step of the connection task of client `c`, `tunnel[c]` the stream
the dial returned. A dial occupies a thread of the blocking pool and succeeds, fails or
never returns: `TcpStream::connect` and the handshakes set no timeout, and no one looks at
the token meanwhile. A relay is one state here; that it ends when its client leaves, which
the fairness of this module assumes, is `ShutdownEndsRelay` of `Relay`.

### ModelCommand: a program run as the model

Parent (`complete` or `chat`) and child, three pipes. `pc` is the call the parent is in:
it writes the whole prompt, then `complete` reads both outputs at once while `chat` reads
stdout to its end and stderr only after the exit, and drops a stderr that is not UTF-8. The
child is any program that commits to one operation at a time and blocks in it; `readsFirst`
marks the children that read their prompt before they answer, the case the liveness
properties are about.

### ApiServer: the data API

A request is a task: `Arrive`, `BodyArrives` (the handler waits for the whole body, without
a limit of time), `Dispatch` (everything up to the first await: authenticate, route, guard,
with the statuses they refuse with), then `Resume` after the blocking job.
`StartJob` and the statements (`Read`, `Insert`, `Begin`, `Commit`, `Rollback`,
`StatementFails`, `JobPanics`) run under the lock of the source; the rows, the snapshot
to roll back to and the transaction flag belong to the connection, not to a request.
A statement may also never end, and nothing can stop it. An insert that returns rows has
done its work when the reading of a row fails or panics. `ClientLeaves` drops the waiting
task, never the job, or leaves a torn body, which the handler replaces by an empty one.
`AcceptFails` ends `serve` and the process: of the queued jobs those still run whose thread
already waits for the lock. `log` is a history variable: what was done to a source, in order.

A statement is known by what the guard and the connection do with it. Left out: how the
guard blanks strings and comments, the row cap, conflict clauses that roll a whole
transaction back, failures of the database file, and the size of the blocking pool: jobs
behind a statement that never ends keep a thread each, and with 512 of them those of other
sources would wait too.

### Tunnel, Dial, TransportPlan, Diagnostics, Connect: from a profile to a connection

`Dial` is `dial_resolved_transport`: `pc` is the call the dial is in, `hop` the server it
talks to. Of the wire only byte counts are kept: `unread` bytes of the server's answer,
`early` ones behind it, which the far end of the tunnel has sent already (an SSH server
greets its client), and `lost`, those a handshake has taken from the tunnel. `stream`,
`session` and `under` are `current_stream`, `final_session` and the sessions the stream
runs through. Servers answer anything: wrong versions, methods and status codes, every
address type, headers as long as the limit and one byte more. `Tunnel` is what a dial
promises: a connection that grows along its route and is up at its end.

`TransportPlan` has the plan a profile yields, `Diagnostics` the probe of its target,
address by address. `Connect` puts a profile through both and through the dial of the same
transport.

### ConnectionProfile, PortableProfile, SecureStore, ProfileTransfer

`ConnectionProfile` has the profile types and their validation, `PortableProfile` the
bundle without secrets: the flags an export sets, the slots an import asks for and the
second validation. `SecureStore` has handles, references and the three kinds of store: the
map in memory; the keychains of macOS and Linux, which are commands, so that a failed
deletion is reported as done, a failed lookup as no secret, and the line breaks at the end
of an answer are cut off; and the Windows Credential Manager, which keys a secret by one name
made of service and handle, cuts nothing off and takes no more than 2560 bytes.
`ProfileTransfer` exports a list of profiles, lets someone edit the file, imports it, and
enters and deletes secrets next to those of other connections. A text is a short sequence
where a handle or a path is put together from it, since the separators inside ids and hop
names are what can collide; elsewhere it is a value.

### TabularOutput, TabularImport, ExportJob

`TabularOutput` has the encoders (delimited, JSON, NDJSON, inserts, batched scripts, Avro,
Parquet) with what each keeps back until it is finished, `TabularImport` the readers and the
inference of column types, `ExportJob` the job: rows, progress callbacks, a cancellation at
any time, a writer that fails in the middle of a piece, the job's terminal state, then a
preview of the file. A cell is its type and the few symbols of its text that a format gives
a meaning to; 2^53 + 1 is among them, which a Parquet column of floats keeps as 2^53. Column
names that are no names of Avro, or the same twice, make its encoder fail at once.

### MetadataCache

The cache with its refresh queue, and around it a host that drains the queue and has
several loads under way at a time, a database whose schema changes, and a clock that steps
back. A load reads the database when it starts and replaces a snapshot when it ends.
`excused` remembers the connections where the host broke its part: a load failed, or one
that had been overtaken was put in all the same.

### QueryPlan, SqlVerify, Generate

`QueryPlan` has the planner and what the grammar exposes, `SqlVerify` the verification of a
parsed statement and, next to it, how SQL itself resolves its names (the condition of a join
sees the tables up to its own, a common table those before it in its WITH or around it),
`Generate` the loop of attempts around a model that may write anything. An expression is the sequence of its
nodes, each before the nodes below it and with the index of the last of them, so that what
`walk_columns` collects on its way down is a selection from the sequence, and what lies in an
aggregate is an interval. A statement is the sequence of its queries in the order
`verify_statement` reaches them, a common table before the query it belongs to. The two
shapes say what the recursive types of the parser say, without recursion, which the prover
does not support.

## 3. What is checked

| Run | Instance | What it shows |
|---|---|---|
| `relay` | capacity 2, sockets of 2, streams of 4 and 1 bytes | the buffer and order invariants, `ImplementsPipe`; bytes are delivered, a shutdown or a cancellation ends the relay |
| `forwarder` | 3 clients, pool of 2 | no leak, only a cancellation stops it, every client is answered |
| `command_model` | pipes of 1, prompt of 2, output of 2 and 2 | whole answers, the two ways to block, when complete and chat return |
| `command_stderr` | pipes of 1, output of 1 and 1 | counterexample to the comment that stderr is surfaced |
| `api_safety` | 3 requests out of 11, 2 sources, 2 tokens | audit, authorisation, acknowledged inserts |
| `api_liveness` | 2 requests | every request whose body is in is answered, also behind a panicked job; a statement that never ends holds up its own source only |
| `api_audit_trail` | 1 request | counterexample to the comment that every request is audited |
| `connect` | 72 profiles: each kind of transport, chains of 1 to 3 hops | the dial implements `Tunnel`, keeps the right session, leaves the tunnel's bytes alone; the plan shown is the route taken; a probe reports what it found |
| `profile_transfer` | one or two profiles of each variant, 2 calls on the store | slots are the secrets, an export is refused for a reason, secrets read back, in three kinds of store |
| `export` | every format and its options, up to 5 rows, batch, progress and sample of 2 | the file is the rows (Parquet but for digits an f64 loses), a preview reads them back, inserts fit the inferred schema, a cancellation stops soon |
| `metadata` | one connection, two schemas, one name, two loads at a time | what was invalidated is asked for until it is there, and the cache converges |
| `generate` | three schemas, 86 questions, 4236 statements, 2 attempts | verdicts are those of SQL's scoping, a model that obeys the prompt is accepted |

The bounds. In the relay a stream of 4 bytes through a buffer of 2 reaches every
relation of the two positions: full, compacted with a byte waiting, reset to 0. The
capacity is larger than one, so that a compaction moves bytes, and the stream is longer than
buffer and sockets in turn, so that a direction has bytes left when its end of stream is
read. In the
forwarder one client more than pool threads is what makes a dial wait behind dials that
hang. Pipes of one unit with two units to write fill as pipes of 64 KiB do. In the API
three requests are what a shared transaction takes: one that begins it, one that writes
into it and one that rolls it back; a panic, or a statement that never ends, needs two for
its effect on another request.

A chain of three hops has a first, a middle and a last one, and the orders of their kinds
that differ are listed one by one; the length limits of SOCKS5 and HTTP are scaled down to 2
and 5, with values at and above them. A transfer of two profiles is what a collision of ids
takes, and two calls enter a secret and then enter or delete another. An export of a row
more than the batch and the interval is in every list of results. In the metadata run one
change, one invalidation and two loads at a time are what an overtaken load takes; the
connection is one because connections share nothing but the queue. The planner's limits of
12 and 16 tables are scaled to 3, and a schema of four lies above them.

Fairness. The runtime polls a task that is ready (weak fairness of `LoopStep`, `Dispatch`,
`Resume`, and of the steps of connection tasks). `select!` polls its branches in a random order, so a
token that stays cancelled is seen sooner or later although other branches are ready too
(strong fairness of `StopOnCancel`, `StopAccepting`, and of `Accept`: a client in the
backlog is accepted unless accept() fails for ever). The blocking pool takes queued dials
in turn (strong fairness of `StartDial`). No fairness is assumed of peers, clients,
proxies and SQL statements, except that a peer that is there reads what it is sent (`Receive`) and, in
`ModelCommand`, that the child finishes operations that can be finished. So a client of the
API need not send its body, and `EveryRequestAnswered` begins when it is in; a statement need
not end, and the formula says what then waits: the requests to its source, for as long as the
lock is held, and no others. Of a lock no more is asked than that a free one is given to a
job that waits (weak fairness of `StartJob`): with finitely many requests this is enough.

For the metadata cache: time passes (`Tick`), the user goes on typing (`EnsureFresh`), the
host goes on draining and loading (`DrainRefreshRequests`, `StartLoad`), all weakly fair, and
not every load fails (strong fairness of a successful load). Nothing is assumed of
invalidations, of the clock's steps back or of the order in which loads end.

Deadlock checking is off but for the metadata cache: a forwarder that was cancelled, a
command that has returned, requests that were answered, a dial, a transfer, an export and a
generation are over.

### Where a property makes an exception

Some properties hold only up to cases that the code has and that are named in the formula:
`GapsAreAskedFor` (a load that failed or was overtaken; nothing tells the cache, and
only staleness repairs it, which is `CacheConverges`), `SecretsReadBack` (a secret of a
keychain that is reached by a command may read as none, and may be there after it was
deleted), `OutputIsTheRows` (an integer that no f64 holds in a Parquet column of floats),
`ErrorCarriesStderr` (the stderr of a chat that is not UTF-8), `ExportRefusesForAReason` (a hop
called `a.ssh` behind a proxy and a hop `a` over SSH have one path), `InsertsFitTheSchema`
(only the sampled rows, and `NaN` is inferred as a float), `PreviewReadsBack`
(`Readable`: a file whose lines do not end in a line break has one record, a header of
one empty name is a blank line and is skipped, and of two columns of one name a JSON
object keeps the last), `VerdictIsTheDatabases` and
`PlanIsAccepted`. The last two are the longest lists. The verification keeps the own name of
a table that has an alias, drops the schema of a qualified name, resolves a name two tables
share to the first, lets an output name stand in WHERE, accepts any column without a
FROM, takes a column that no table has or two have for one of a common table where there is
one, lets the condition of a join name a table that is joined later, and accepts two common
tables of one name; it rejects a common table that reads another, a column of a join condition
that a later table has too, and a group called by its output name.
The planner describes the last of two tables of one name where the verification looks
at the first, joins to tables that nothing joins, and may choose an alias that is the name
of an earlier table. Each case was taken out of the formula once, and TLC then finds it
violated: none of them is there in vain.

### Two comments the code does not keep

* `chat` of the command model "captures stderr and surfaces it on non-zero exit"
  (command.rs:127). A child that fails before it has read its prompt breaks the pipe; the
  write error is returned and stderr is dropped (`StderrIsSurfaced`).
* "Every request produces one structured entry" (audit.rs:1). A client that disconnects
  while its statement runs takes the dispatch future with it; the statement is executed, the
  entry never written (`ChangesAreAudited`).

## 4. What is proved

| Module | Theorems | Inductive invariant |
|---|---|---|
| `ForwarderProofs` (relay) | `TypeCorrect`, `BytesInOrder`, `GapInBuffer`, `EofIsLast`, `Refinement` | the four invariants together, and that `pc` is "done" exactly when the relay has ended |
| `ForwarderProofs` (accept loop) | `ForwarderTypeCorrect`, `TunnelAndClient`, `ListensUntilCancelled` | the types, `EndsTogether`, `OnlyCancelStops`, and with finite `Conns` that dials never outnumber the pool |
| `GenerateProofs` (loop) | `VerdictIsAlwaysTheDatabases`, `PlanIsAlwaysAccepted` | the types, and that the outcome was decided by the verdict on the last answer (`GenerateInv`) |
| `GenerateProofs` (command) | `TypeCorrect`, `WholeAnswer`, `WholeStderr`, `OnlyTwoWaysToGetStuck` | bytes written to a pipe are in it or were read (`Conserved`), and which ends are open at which step (`Ends`) |
| `ApiServerProofs` (requests) | `TypeCorrect`, `OnlyAuthorisedChanges`, `AnswersAreAudited` | a job was admitted by the guards and its request no longer changes (`JobsWereAdmitted`), the log consists of ended writing jobs (`LogIsOfEndedJobs`) |
| `ApiServerProofs` (data) | `AcknowledgedStays` | every insert of the log is in the data or was rolled back (`AllKept`), the same of what an open transaction has saved, up to its beginning (`TransactionsAreSaved`), and what was answered with success is in the log |
| `ConnectProofs` (dial) | `TypeCorrect`, `SessionKept`, `BytesLeftAlone`, `Refinement` | where the stream, the session and the answer are at each label (`Placed`), that what was reached is the route up to the hop (`Along`), that sessions are those carried (`Carried`), and how many bytes are unread (`Counted`) |
| `ConnectProofs` (profiles) | `TypesOfADial`, `DialsKeepSessionAndBytes`, `ProfilesAreTunnelled`, `ProbesTellTheTruth`, `PlansNameTheRoute` | what a probe has noted at each of its places (`Probed`); the rest is that of the dial |
| `ProfileTransferProofs` | `StoredSecretsReadBack`, `ExportedSlotsAreTheSecrets`, `RefusedExportsHaveAReason` | what is stored is what was entered (`StoreIsEntered`), under handles no two of which are one (`Carried`) |
| `ExportProofs` (job) | `StaysOnCourse`, `CancelIsSeenInTime`, `FilesAreTheRows` | the place in the job's course (`OnCourse`), that no look at the token was left out (`LooksInTime`), and what each encoder has written and still keeps (`Written`) |
| `ExportProofs` (readers) | `PreviewsReadBack`, `ImportsFitTheSchema` | the same, and that a preview is that of a file that is over (`Previewed`) |
| `MetadataProofs` | `TypeCorrect`, `GapsGetAskedFor` | each announced name is asked for, or every load that shows something else has a settled one behind it (`AllAccounted`) |
| `SequenceFacts` | lemmas on `FlattenSeq`, concatenation, the unique ways to take it apart, and on folds | none |

The assumptions are those the modules state: positive capacities, finitely many
connections, read-only sources among the sources, tokens with the write scope among
the tokens; of the metadata cache, that the databases are sets of entries of every schema,
that a missing snapshot is none, and that the clock steps back boundedly; of profiles, that
hops and fields are of the kinds there are (`ConnectAssumption`, `TransferAssumption`); of
exports, that formats are those there are, rows are of cells and no token of a text is the
keyword of a statement (`ExportAssumption`; the number of cells is fixed by the columns for
Avro and Parquet only). Of a generation: that foreign keys name columns there are, and where
they lead to a name of several tables not even that (`SchemaAssumption`; the schema is read
from a database, which has checked its keys); that an alias is found for each table of a
question, since `unique_alias` counts on until one is free (`AliasAssumption`); and that an
answer is what the parser returns (`AnswerAssumption`). Nothing bounds the sizes.

*Relay.* `InOrder` alone is not inductive: the next byte written comes from a buffer cell.
`BufferIsTheGap` says which cells hold which bytes, in terms of what was written and what
was read; lemmas about `Fill`, `DidRead` and `Compact` say that each keeps this
(`ForwarderProofs`, first section), and the steps of the loop only combine them. The refinement
maps a read to `Enter`, a write to `Leave`, an end to a close and everything else, the
compaction included, to a stutter.

*Forwarder.* `EndsTogether` is inductive because all six exits of a task go through
`TaskEnds`; the bound on the pool is a separate induction about cardinalities.

*ModelCommand.* Who can be blocked where follows from which ends are open: the parent
leaves `writeStdin` only with the prompt written and stdin closed, so a child that
still waits for input later would contradict `Ends`.

*Generation.* The loop is the smaller part: an answer is verified in the step it arrives in,
and no other step touches it (`GenerateInv`). The larger part is about the operators. One
half says what the verification collects: the columns of a statement are those of its clauses
(`StatementColumns`), a relation of a scope is a table by one of its names and every name has
one, so that where no two tables share a name a key of the scope means one table, and the
tables that have a column are as many as the relations that offer it. With these, a column
that is accepted resolves (`AcceptedQueryResolves`) and one that resolves is accepted
(`ResolvedColumnIsAccepted`), each up to its list of exceptions. An induction over
expressions is not needed: a column stands at a place of the sequence, and is inside an
aggregate if that place is in the interval of one. The other half follows a plan: the aliases
differ because each is taken where none before it was (`PlannedTablesAre`), the predicates of
a join are columns of the tables it joins (`JoinPredicatesAre`), and a statement of these
columns alone is accepted when no alias is the name of another planned table
(`PlannedQueryIsAccepted`). The proof brought to light the exception of a column that two
tables have next to a common table, which the instance of the run had not contained until
then.

*ApiServer.* `ChangesAreAuthorised` needs that the request a job works for is the one that
was checked: a torn body changes the request, but only before there is a job.

*Dial.* `Placed` ties the stream, the session and the answer to the label: in a handshake
there is a TCP stream or a tunnel of the earlier hops, and nothing of the next hop yet.
`Along` says that what was reached is a prefix of the route, one longer than `hop` when a
handshake has just ended. `Counted` has, for each label, how many bytes of the answer are
unread; `BytesLeftAlone` needs it at every label because the length of a SOCKS5 reply is
only known once its address type has been read. The refinement maps the end of a handshake
to a step of `Tunnel` and everything within it to a stutter.

*Connect.* A step of `Connect` is a step of a dial, of a probe, or the start of one, and for
the variables of the dial each is a step of `DialSpec` or none, so `DialsATransport` carries
the theorems about a dial over to every profile. Of a probe, `Probed` lists the stages
noted at each place; a report names its first failure because only the last stage noted can
have failed. `PlansNameTheRoute` follows a plan along a chain: that hop after hop leads from
the client to the target is an induction over the hops, which `SequenceFacts` offers for the
set of the numbers up to which a fact holds, as the theorems that take an operator
are out of the prover's reach.

*Profile transfer.* That no two secrets share a handle rests on three facts: the tables of
purposes match the variants of a transport; the slots of a profile are listed for its places,
one for each; and the codes of the purposes are no prefixes of one another and contain no
"/", while the last separator of a slot's handle is a "." and that of a connection's own
secret a "/". The names of all three stores put the service in front of the handle or leave
it out, so none of them brings two handles together (`AccountIsUnique`). A bundle that was
edited and imported keeps this (`Carried`), and what the store then holds under a handle was
last entered for it (`StoreIsEntered`); what is deleted is gone from the memory store and from
Windows, and from a keychain if the command did what its status would have said.

*Export.* A cancellation is seen in time because a multiple of the interval lies among any
rows as many as the interval. What a file holds at the end follows from what an encoder has
written and keeps after each row (`SoFar`, `FileOf`): the batches that are full are
written, and less than one is kept. A Parquet column admits its cells because its type is
chosen from all of them; only an integer among floats is put in as another number
(`LosesDigits`). The theorem says what each format is: inserts, scripts and Avro exactly,
Parquet up to that, JSON and NDJSON the marks and, where columns differ and rows fit them, the
object of each row. It says nothing of delimited text, whose content `PreviewsReadBack` gives.

*Import.* A reader is a fold over the tokens of a file. `ReadConcat` says that it may be
stopped and taken up again anywhere, so what is written for a row can be looked at alone:
a field, quoted or not, is read as the text it was written from (`FieldIsRead`, by the places a
reader can be in: at the start, in a field, in quotes, behind one), a line is read as its
fields, and the reader then is where it was before (`LineIsRead`). A line without a byte is
the exception, which is why the rows found are those `KeptRows` keeps. So `ReadsBack` is
kept row by row, and at the end the records are the rows (`DelimitedShows`). An object is
built by insertions, and has each column once when columns differ (`RowObjectIs`); the
headers of a preview, folded from the objects, are then the columns (`HeadersAre`). The
type of a column admits its cells because a merge admits what either type does
(`MergeAdmits`). A fold is put in terms of its intermediate values by `FoldRuns`. For the
import, every piece of `GenerateInserts` has one keyword, in front (`OneForEach`), and the
schema and the literals go back to the same trimmed texts (`LiteralFits`).

*Data behind the API.* `AcknowledgedInsertStays` speaks of the data and of a rollback that
may come at any time later, so the invariant relates the data to the whole log. A rollback
puts back what was saved: for the inserts before the transaction that is
`TransactionsAreSaved`, and those after its beginning now lie between a begin and a rollback
with neither commit nor rollback between them. That one connection is used by one job at a
time is what makes the log an order (`LogIsOfEndedJobs`).

*Metadata cache.* That the cache or some load shows a name as it is, is not inductive: loads
end in any order, and one that matches may be overwritten by one that was begun earlier. The
invariant therefore asks for a load behind which no load of its connection shows anything
else (`Settled`); a change of the database unsettles them all, but then the invalidation of
the changed name is still due, so the name is no longer announced. A `late` load,
of which one begun after it has already ended, is the exception the property names.

Model-checked only: all liveness properties, since the prover knows neither fairness nor
ENABLED; and the two counterexamples. Every other property of the runs is stated by a theorem. `WholeStderr`,
`ListensUntilCancelled`, `StaysOnCourse` and the types of the metadata cache
are proved and belong to no run.

## 5. Plan

Done: the relay, the accept loop, the model command, the data API; the dial, the plan and
the probe; profiles and secrets; export and import; the metadata cache; generation. Left,
in this order:

1. `Forwarder` composed with `Relay`, so that the fairness assumed of `RelayEnds` is the
   property checked of `Relay`.
2. The buffers of the connector ABI, and the redaction passes as operators.

## 6. What is not modelled

* The completion engine and its ranking: a function of the text around a cursor, with no
  state but the metadata cache, and no promise beyond the order of a list.
* The HTTP and llama models: one request and one call into foreign code each.
* Redaction and the audit export: passes over text, which a model would have to spell out
  character by character.
* The connector ABI, the extension manifest, the core facade: declarations, re-exports and
  buffers handed across a C boundary.
* In modelled components: how the secure store calls its commands and the Windows functions,
  and that Windows compares names without regard to case; the size of the blocking pool behind
  the API; the SQL parser (a crate outside this repository, with what it makes of USING,
  NATURAL, RECURSIVE and `t.*`) and the printer of plans; the escaping rules of each file
  format beyond the symbols named in `TabularOutput`, the TLS and SSH libraries.
* Scripts, the TypeScript SDK and packaging are outside the program.
