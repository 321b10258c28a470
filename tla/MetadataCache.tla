--------------------------- MODULE MetadataCache ---------------------------
(***************************************************************************)
(* The metadata cache of the completion engine (irodori-completion/src/    *)
(* metadata.rs) between a database whose schema changes and the host that  *)
(* loads snapshots of it.                                                  *)
(*                                                                         *)
(* External: the host (it drains the requests, reads a whole connection,   *)
(* for upsert_snapshot takes nothing less, and may have several loads      *)
(* under way or see one fail), the database and the clock.  The generation *)
(* of a snapshot is left out: the cache never looks at it.                 *)
(***************************************************************************)
EXTENDS Integers, SequencesExt

CONSTANTS Connections, Schemas, Names,
          Databases,        \* what the databases may hold at first
          Manual,           \* the scopes a user may ask to refresh
          StaleAfter,       \* MetadataSnapshot::stale_after, in ticks
          MaxBack,          \* bound: how far, and how often, the clock steps back
          MaxChanges,       \* bound: changes of the databases
          MaxInvalidations, \* bound: calls of invalidate_*
          MaxQueue,         \* bound: a user asks when less is queued
          MaxLoads,         \* bound: loads under way at a time
          Absent

\* An entry is an object or a routine.  A snapshot holds some schemas of its
\* connection, a database all of them.
Entries  == [name : Names, kind : {"object", "routine"}, version : Nat]
Contents == UNION {[S -> SUBSET Entries] : S \in SUBSET Schemas}
Ages     == (0 - 2 * MaxBack) .. StaleAfter
Snapshots == [age : Ages, schemas : Contents]

ASSUME CacheAssumption ==
  /\ Databases \subseteq [Connections -> [Schemas -> SUBSET Entries]]
  /\ StaleAfter \in Nat /\ MaxBack \in Nat
  /\ Absent \notin Snapshots

VARIABLES snapshots,   \* by connection: Absent or its age and schemas
          requests,    \* refresh_requests
          drained,     \* host: the scopes it has yet to refresh
          loads,       \* host: loads under way, the earliest first
          db,          \* the databases
          announced,   \* history: names invalidated since they last changed
          excused,     \* history: connections a load of which failed, or
                       \* whose snapshot is older than one it replaced
          changes, invalidations, back    \* what the bounds count

cache   == <<snapshots, requests>>
host    == <<drained, loads>>
history == <<announced, excused>>
counts  == <<changes, invalidations, back>>
vars    == <<cache, host, db, history, counts>>

-----------------------------------------------------------------------------
(* The cache.  A snapshot has its entries by schema, objects and routines. *)

IsStale(snapshot) == snapshot.age >= StaleAfter

Connection(c)   == [kind |-> "connection", conn |-> c]
Schema(c, s)    == [kind |-> "schema", conn |-> c, schema |-> s]
Object(c, s, n) == [kind |-> "object", conn |-> c, schema |-> s, object |-> n]

RefreshRequest(scope, reason) == [scope |-> scope, reason |-> reason]

\* The requests after request_refresh.
WithRequest(scope, reason) ==
  LET request == RefreshRequest(scope, reason) IN
  IF Contains(requests, request) THEN requests ELSE Append(requests, request)

LookupSchema(c, s) ==
  IF snapshots[c] # Absent /\ s \in DOMAIN snapshots[c].schemas
  THEN snapshots[c].schemas[s] ELSE {}

\* lookup_object and routines_named: everything of that name.
Lookup(c, s, n) == {e \in LookupSchema(c, s) : e.name = n}

\* Slip: what was asked for before the snapshot came is taken to be in it.
UpsertAndForget(c, content) ==
  /\ snapshots' = [snapshots EXCEPT ![c] = [age |-> 0, schemas |-> content]]
  /\ requests' = SelectSeq(requests, LAMBDA r : r.scope.conn # c)
UpsertSnapshot(c, content) ==
  /\ snapshots' = [snapshots EXCEPT ![c] = [age |-> 0, schemas |-> content]]
  /\ UNCHANGED requests

StaleSnapshots ==
  {RefreshRequest(Connection(c), "stale") : c \in {c \in Connections :
     snapshots[c] # Absent /\ IsStale(snapshots[c])}}

-----------------------------------------------------------------------------
Init ==
  /\ snapshots = [c \in Connections |-> Absent]
  /\ requests = << >>
  /\ drained = {} /\ loads = << >>
  /\ db \in Databases
  /\ announced = {} /\ excused = {}
  /\ changes = 0 /\ invalidations = 0 /\ back = 0

\* Slip: only a snapshot that is missing is asked for.
EnsureThere(c) ==
  /\ snapshots[c] = Absent
  /\ requests' = WithRequest(Connection(c), "missing")
  /\ UNCHANGED <<snapshots, host, db, history, counts>>
\* A completion or a hover.
EnsureFresh(c) ==
  /\ \/ /\ snapshots[c] = Absent
        /\ requests' = WithRequest(Connection(c), "missing")
     \/ /\ snapshots[c] # Absent /\ IsStale(snapshots[c])
        /\ requests' = WithRequest(Connection(c), "stale")
  /\ UNCHANGED <<snapshots, host, db, history, counts>>

RequestRefresh(scope) ==
  /\ Len(requests) < MaxQueue
  /\ requests' = WithRequest(scope, "manual")
  /\ UNCHANGED <<snapshots, host, db, history, counts>>

\* The names under a scope were invalidated, and a refresh asked for.
Invalidated(c, scope, names) ==
  /\ invalidations < MaxInvalidations
  /\ invalidations' = invalidations + 1
  /\ requests' = WithRequest(scope, "invalidated")
  /\ announced' = announced \cup ({c} \X names)
  /\ UNCHANGED <<host, db, excused, changes, back>>

InvalidateConnection(c) ==
  /\ snapshots[c] # Absent
  /\ snapshots' = [snapshots EXCEPT ![c] = Absent]
  /\ Invalidated(c, Connection(c), Schemas \X Names)

InvalidateSchema(c, s) ==
  /\ snapshots[c] # Absent /\ s \in DOMAIN snapshots[c].schemas
  /\ snapshots' = [snapshots EXCEPT ![c].schemas =
                     [t \in DOMAIN @ \ {s} |-> @[t]]]
  /\ Invalidated(c, Schema(c, s), {s} \X Names)

InvalidateObject(c, s, n) ==
  /\ Lookup(c, s, n) # {}
  /\ snapshots' = [snapshots EXCEPT ![c].schemas[s] = @ \ Lookup(c, s, n)]
  /\ Invalidated(c, Object(c, s, n), {<<s, n>>})

DrainRefreshRequests ==
  /\ requests # << >>
  /\ requests' = << >>
  /\ drained' = drained \cup {r.scope : r \in ToSet(requests)}
  /\ UNCHANGED <<snapshots, loads, db, history, counts>>

PollStale ==
  /\ drained' = drained \cup {r.scope : r \in StaleSnapshots}
  /\ UNCHANGED <<cache, loads, db, history, counts>>

-----------------------------------------------------------------------------
(* The host, the databases and the clock. *)

\* One load answers what was drained for its connection.
StartLoad(c) ==
  /\ Len(loads) < MaxLoads
  /\ \E scope \in drained : scope.conn = c
  /\ drained' = {scope \in drained : scope.conn # c}
  /\ loads' = Append(loads, [conn |-> c, content |-> db[c], late |-> FALSE])
  /\ UNCHANGED <<cache, db, history, counts>>

\* The loads of a connection that began before one that has ended are late.
LoadEnds(i) ==
  loads' = RemoveAt([j \in DOMAIN loads |->
             IF j < i /\ loads[j].conn = loads[i].conn
             THEN [loads[j] EXCEPT !.late = TRUE] ELSE loads[j]], i)

LoadDone(i) ==
  /\ UpsertSnapshot(loads[i].conn, loads[i].content)
  /\ LoadEnds(i)
  /\ excused' = IF loads[i].late THEN excused \cup {loads[i].conn}
                ELSE excused \ {loads[i].conn}
  /\ UNCHANGED <<drained, db, announced, counts>>

LoadFails(i) ==
  /\ LoadEnds(i)
  /\ excused' = excused \cup {loads[i].conn}
  /\ UNCHANGED <<cache, drained, db, announced, counts>>

\* A statement creates, alters or drops an object or a routine.
Change(c, s, n, kind) ==
  /\ changes < MaxChanges
  /\ changes' = changes + 1
  /\ \E new \in SUBSET {[name |-> n, kind |-> kind, version |-> changes']} :
       db' = [db EXCEPT ![c][s] =
                {e \in @ : e.name # n \/ e.kind # kind} \cup new]
  /\ db' # db
  /\ announced' = announced \ {<<c, <<s, n>>>>}
  /\ UNCHANGED <<cache, host, excused, invalidations, back>>

Aged(older) ==
  snapshots' = [c \in Connections |->
                  IF snapshots[c] = Absent THEN Absent
                  ELSE [snapshots[c] EXCEPT !.age = older[@]]]

\* An age is not told from a greater one once the snapshot is stale.
Tick ==
  /\ Aged([age \in Ages |-> IF age < StaleAfter THEN age + 1 ELSE StaleAfter])
  /\ UNCHANGED <<requests, host, db, history, counts>>

StepBack ==
  /\ back < MaxBack
  /\ back' = back + 1
  /\ \/ Aged([age \in Ages |-> age - 1])
     \/ Aged([age \in Ages |-> 0 - MaxBack])
  /\ UNCHANGED <<requests, host, db, history, changes, invalidations>>

-----------------------------------------------------------------------------
Next ==
  \/ \E c \in Connections :
       \/ EnsureFresh(c) \/ InvalidateConnection(c) \/ StartLoad(c)
       \/ \E s \in Schemas :
            \/ InvalidateSchema(c, s)
            \/ \E n \in Names :
                 \/ InvalidateObject(c, s, n)
                 \/ \E kind \in {"object", "routine"} : Change(c, s, n, kind)
  \/ \E scope \in Manual : RequestRefresh(scope)
  \/ DrainRefreshRequests \/ PollStale
  \/ \E i \in DOMAIN loads : LoadDone(i) \/ LoadFails(i)
  \/ Tick \/ StepBack

Spec == Init /\ [][Next]_vars

\* Time passes, the user goes on typing, the host goes on taking requests,
\* and not every load of a connection fails.
LoadSucceeds(c) == \E i \in DOMAIN loads : loads[i].conn = c /\ LoadDone(i)
Fairness ==
  /\ WF_vars(Tick) /\ WF_vars(DrainRefreshRequests)
  /\ \A c \in Connections : /\ WF_vars(EnsureFresh(c)) /\ WF_vars(StartLoad(c))
                            /\ SF_vars(LoadSucceeds(c))
FairSpec == Spec /\ Fairness

-----------------------------------------------------------------------------
InScope(scope, c, s, n) ==
  /\ scope.conn = c
  /\ "schema" \in DOMAIN scope => scope.schema = s
  /\ "object" \in DOMAIN scope => scope.object = n

\* A name that was invalidated after its last change is shown as it is in
\* the database, or a refresh that will show it so is asked for or under way.
\* The exceptions are the host's: a load that failed, and one that was
\* overtaken by a later one and then replaced what that one had brought.
GapsAreAskedFor ==
  \A c \in Connections, s \in Schemas, n \in Names :
    LET now == {e \in db[c][s] : e.name = n} IN
    \/ <<c, <<s, n>>>> \notin announced
    \/ c \in excused
    \/ Lookup(c, s, n) = now
    \/ \E scope \in {r.scope : r \in ToSet(requests)} \cup drained :
         InScope(scope, c, s, n)
    \/ \E i \in DOMAIN loads :
         loads[i].conn = c /\ {e \in loads[i].content[s] : e.name = n} = now

\* Once the database is left alone the cache becomes and stays what it
\* holds, whatever was invalidated or not, lost, overtaken or loaded before
\* the clock stepped back.
Current == \A c \in Connections :
             snapshots[c] # Absent /\ snapshots[c].schemas = db[c]
CacheConverges == <>[]Current
=============================================================================
