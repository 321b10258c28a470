-------------------------- MODULE MetadataProofs --------------------------
(***************************************************************************)
(* Proofs about MetadataCache, for any number of connections, schemas and  *)
(* names, of loads under way, changes and invalidations: what was          *)
(* invalidated is asked for until it is there.                             *)
(*                                                                         *)
(* A load that matches the database may be overtaken by one that does not, *)
(* so the invariant does not ask for a matching load but for one behind    *)
(* which no other load of the connection brings anything else (Settled).   *)
(***************************************************************************)
EXTENDS MetadataCache, SequenceTheorems, TLAPS

Load == [conn : Connections, content : [Schemas -> SUBSET Entries], late : BOOLEAN]

Scopes == Manual \cup {Connection(c) : c \in Connections}
            \cup {Schema(c, s) : c \in Connections, s \in Schemas}
            \cup {Object(c, s, n) : c \in Connections, s \in Schemas, n \in Names}

Requests == {RefreshRequest(scope, reason) : scope \in Scopes,
               reason \in {"missing", "stale", "manual", "invalidated"}}

\* The types, and how far the clock can have stepped back.
TypeOK ==
  /\ snapshots \in [Connections -> Snapshots \cup {Absent}]
  /\ loads \in Seq(Load)
  /\ requests \in Seq(Requests)
  /\ db \in [Connections -> [Schemas -> SUBSET Entries]]
  /\ announced \subseteq Connections \X (Schemas \X Names)
  /\ changes \in Nat /\ back \in 0 .. MaxBack
  /\ \A c \in Connections :
       snapshots[c] # Absent => snapshots[c].age >= 0 - (MaxBack + back)

\* A refresh of a name is asked for.
Covered(c, s, n) ==
  \/ \E r \in ToSet(requests) : InScope(r.scope, c, s, n)
  \/ \E scope \in drained : InScope(scope, c, s, n)

Held(content, s, n) == {e \in content[s] : e.name = n}
Now(c, s, n) == Held(db[c], s, n)

\* Load j and the loads of its connection behind it show a name as it is.
Settled(j, c, s, n) ==
  /\ loads[j].conn = c
  /\ \A k \in DOMAIN loads : k >= j /\ loads[k].conn = c =>
       Held(loads[k].content, s, n) = Now(c, s, n)

\* A load that shows something else, and is not late, has such a load
\* behind it.
Awaited(c, s, n) ==
  \A i \in DOMAIN loads :
    loads[i].conn = c /\ ~loads[i].late =>
      \/ Held(loads[i].content, s, n) = Now(c, s, n)
      \/ \E j \in DOMAIN loads : j > i /\ Settled(j, c, s, n)

Provided(c, s, n) == \/ Lookup(c, s, n) = Now(c, s, n)
                     \/ \E j \in DOMAIN loads : Settled(j, c, s, n)

Accounted(c, s, n) ==
  Covered(c, s, n) \/ (Awaited(c, s, n) /\ (c \in excused \/ Provided(c, s, n)))

AllAccounted ==
  \A c \in Connections, s \in Schemas, n \in Names :
    <<c, <<s, n>>>> \in announced => Accounted(c, s, n)

Inv == TypeOK /\ AllAccounted

-----------------------------------------------------------------------------
(* Requests. *)

LEMMA RequestsGrow ==
  ASSUME requests \in Seq(Requests), NEW scope, NEW reason,
         RefreshRequest(scope, reason) \in Requests
  PROVE  /\ WithRequest(scope, reason) \in Seq(Requests)
         /\ ToSet(requests) \subseteq ToSet(WithRequest(scope, reason))
         /\ RefreshRequest(scope, reason) \in ToSet(WithRequest(scope, reason))
  <1> DEFINE r == RefreshRequest(scope, reason)
  <1>1. CASE Contains(requests, r)
    BY <1>1 DEF WithRequest, Contains, ToSet
  <1>2. CASE ~Contains(requests, r)
    <2>1. WithRequest(scope, reason) = Append(requests, r)
      BY <1>2 DEF WithRequest
    <2>2. /\ Len(Append(requests, r)) = Len(requests) + 1
          /\ Append(requests, r)[Len(requests) + 1] = r
          /\ \A i \in 1 .. Len(requests) : Append(requests, r)[i] = requests[i]
          /\ Append(requests, r) \in Seq(Requests)
      OBVIOUS
    <2> QED BY <2>1, <2>2 DEF ToSet
  <1> QED BY <1>1, <1>2

LEMMA CoveredStays ==
  ASSUME NEW c, NEW s, NEW n, Covered(c, s, n),
         ToSet(requests) \subseteq ToSet(requests'), drained \subseteq drained'
  PROVE  Covered(c, s, n)'
  BY DEF Covered

\* What is asked for stays so, and nothing else has changed for the name.
LEMMA AccountedStays ==
  ASSUME NEW c, NEW s, NEW n, Accounted(c, s, n),
         Covered(c, s, n) => Covered(c, s, n)',
         UNCHANGED <<loads, excused>>,
         Now(c, s, n)' = Now(c, s, n), Lookup(c, s, n)' = Lookup(c, s, n)
  PROVE  Accounted(c, s, n)'
  <1>1. \A j : Settled(j, c, s, n) => Settled(j, c, s, n)'
    BY DEF Settled
  <1>2. Awaited(c, s, n) => Awaited(c, s, n)'
    BY <1>1 DEF Awaited
  <1>3. Provided(c, s, n) => Provided(c, s, n)'
    BY <1>1 DEF Provided
  <1> QED BY <1>2, <1>3 DEF Accounted

LEMMA SameLookup ==
  ASSUME NEW c, NEW s, NEW n, UNCHANGED snapshots
  PROVE  Lookup(c, s, n)' = Lookup(c, s, n)
  BY DEF Lookup, LookupSchema

LEMMA SameNow ==
  ASSUME NEW c, NEW s, NEW n, UNCHANGED db
  PROVE  Now(c, s, n)' = Now(c, s, n)
  BY DEF Now

\* Steps that leave loads, databases and snapshots alone.
LEMMA OnlyRequestsChange ==
  ASSUME AllAccounted, UNCHANGED <<loads, db, snapshots, excused, announced>>,
         \A c \in Connections, s \in Schemas, n \in Names :
           Covered(c, s, n) => Covered(c, s, n)'
  PROVE  AllAccounted'
  BY AccountedStays, SameLookup, SameNow DEF AllAccounted

LEMMA AskingKeepsInv ==
  ASSUME Inv, NEW scope \in Scopes,
         NEW reason \in {"missing", "stale", "manual", "invalidated"},
         requests' = WithRequest(scope, reason),
         UNCHANGED <<snapshots, host, db, history, counts>>
  PROVE  Inv'
  <1>1. RefreshRequest(scope, reason) \in Requests
    BY DEF Requests
  <1>2. requests' \in Seq(Requests) /\ ToSet(requests) \subseteq ToSet(requests')
    BY <1>1, RequestsGrow DEF Inv, TypeOK
  <1>3. AllAccounted'
    BY <1>2, OnlyRequestsChange, CoveredStays DEF Inv, host, history
  <1> QED BY <1>2, <1>3 DEF Inv, TypeOK, host, history, counts

\* DrainRefreshRequests and poll_stale hand on what is asked for.
LEMMA HandingOnKeepsInv ==
  ASSUME Inv, DrainRefreshRequests \/ PollStale PROVE Inv'
  <1>1. requests' \in Seq(Requests)
    <2>1. << >> \in Seq(Requests)
      OBVIOUS
    <2>2. CASE DrainRefreshRequests
      BY <2>1, <2>2 DEF DrainRefreshRequests
    <2>3. CASE PollStale
      BY <2>3 DEF PollStale, cache, Inv, TypeOK
    <2> QED BY <2>2, <2>3
  <1>2. UNCHANGED <<loads, db, snapshots, excused, announced, changes, back>>
    BY DEF DrainRefreshRequests, PollStale, cache, history, counts
  <1>3. ASSUME NEW c, NEW s, NEW n, Covered(c, s, n) PROVE Covered(c, s, n)'
    <2>1. CASE DrainRefreshRequests
      <3>1. drained \subseteq drained'
            /\ \A r \in ToSet(requests) : r.scope \in drained'
        BY <2>1 DEF DrainRefreshRequests
      <3> QED BY <1>3, <3>1 DEF Covered
    <2>2. CASE PollStale
      BY <1>3, <2>2, CoveredStays DEF PollStale, cache
    <2> QED BY <2>1, <2>2
  <1>4. AllAccounted'
    BY <1>2, <1>3, OnlyRequestsChange DEF Inv
  <1> QED BY <1>1, <1>2, <1>4 DEF Inv, TypeOK

-----------------------------------------------------------------------------
(* The clock. *)

LEMMA SnapshotsAreRecords ==
  ASSUME TypeOK, NEW c \in Connections, snapshots[c] # Absent
  PROVE  /\ snapshots[c] \in Snapshots
         /\ snapshots[c].age \in Ages /\ snapshots[c].schemas \in Contents
  BY DEF TypeOK, Snapshots

LEMMA AgedKeepsInv ==
  ASSUME Inv, NEW older, Aged(older),
         \A c \in Connections : snapshots[c] # Absent =>
           /\ older[snapshots[c].age] \in Ages
           /\ older[snapshots[c].age] >= 0 - (MaxBack + back'),
         back' \in 0 .. MaxBack,
         UNCHANGED <<requests, host, db, history, changes, invalidations>>
  PROVE  Inv'
  <1>1. ASSUME NEW c \in Connections, snapshots[c] # Absent
        PROVE  snapshots'[c] = [ age     |-> older[snapshots[c].age],
                                 schemas |-> snapshots[c].schemas ]
    BY <1>1, SnapshotsAreRecords DEF Aged, Snapshots, Inv
  <1>2. ASSUME NEW c \in Connections, snapshots[c] = Absent
        PROVE  snapshots'[c] = Absent
    BY <1>2 DEF Aged
  <1>3. ASSUME NEW c \in Connections
        PROVE  /\ snapshots'[c] \in Snapshots \cup {Absent}
               /\ snapshots'[c] # Absent =>
                    snapshots'[c].age >= 0 - (MaxBack + back')
               /\ snapshots'[c] = Absent <=> snapshots[c] = Absent
               /\ snapshots[c] # Absent =>
                    snapshots'[c].schemas = snapshots[c].schemas
    <2>1. CASE snapshots[c] = Absent
      BY <2>1, <1>2
    <2>2. CASE snapshots[c] # Absent
      <3> DEFINE age == older[snapshots[c].age]
                 schemas == snapshots[c].schemas
      <3>1. age \in Ages /\ schemas \in Contents /\ age >= 0 - (MaxBack + back')
        BY <2>2, SnapshotsAreRecords DEF Inv
      <3>2. snapshots'[c] = [age |-> age, schemas |-> schemas]
        BY <1>1, <2>2
      <3> HIDE DEF age, schemas
      <3>3. snapshots'[c] \in Snapshots
        BY <3>1, <3>2 DEF Snapshots
      <3>4. snapshots'[c] # Absent
        BY <3>3, CacheAssumption
      <3>5. snapshots'[c].age = age /\ snapshots'[c].schemas = schemas
        BY <3>2
      <3> QED BY <2>2, <3>1, <3>3, <3>4, <3>5 DEF schemas
    <2> QED BY <2>1, <2>2
  <1>4. DOMAIN snapshots' = Connections
    BY DEF Aged
  <1>5. TypeOK'
    BY <1>3, <1>4 DEF Aged, Inv, TypeOK, host, history
  <1>6. AllAccounted'
    <2>1. ASSUME NEW c \in Connections, NEW s \in Schemas, NEW n \in Names
          PROVE  Lookup(c, s, n)' = Lookup(c, s, n)
      BY <1>3 DEF Lookup, LookupSchema
    <2>2. \A c \in Connections, s \in Schemas, n \in Names :
            Covered(c, s, n) => Covered(c, s, n)'
      BY CoveredStays DEF host
    <2> QED BY <2>1, <2>2, AccountedStays, SameNow
            DEF Inv, AllAccounted, host, history
  <1> QED BY <1>5, <1>6 DEF Inv, host

LEMMA TimeKeepsInv == ASSUME Inv, Tick \/ StepBack PROVE Inv'
  <1> USE CacheAssumption DEF Ages
  <1>1. ASSUME NEW c \in Connections, snapshots[c] # Absent
        PROVE  /\ snapshots[c].age \in Ages
               /\ snapshots[c].age >= 0 - (MaxBack + back)
    BY <1>1, SnapshotsAreRecords DEF Inv, TypeOK
  <1>2. back \in 0 .. MaxBack
    BY DEF Inv, TypeOK
  <1>3. CASE Tick
    <2> DEFINE older == [age \in Ages |-> IF age < StaleAfter THEN age + 1
                                          ELSE StaleAfter]
    <2>1. Aged(older) /\ UNCHANGED <<requests, host, db, history, counts>>
      BY <1>3 DEF Tick
    <2>2. ASSUME NEW c \in Connections, snapshots[c] # Absent
          PROVE  /\ older[snapshots[c].age] \in Ages
                 /\ older[snapshots[c].age] >= 0 - (MaxBack + back)
      BY <1>1, <1>2, <2>2
    <2> HIDE DEF older
    <2> QED BY <1>2, <2>1, <2>2, AgedKeepsInv DEF counts
  <1>4. CASE StepBack
    <2>1. /\ back < MaxBack /\ back' = back + 1
          /\ UNCHANGED <<requests, host, db, history, changes, invalidations>>
      BY <1>4 DEF StepBack
    <2>2. CASE Aged([age \in Ages |-> age - 1])
      <3> DEFINE older == [age \in Ages |-> age - 1]
      <3>1. ASSUME NEW c \in Connections, snapshots[c] # Absent
            PROVE  /\ older[snapshots[c].age] \in Ages
                   /\ older[snapshots[c].age] >= 0 - (MaxBack + back')
        BY SMTT(30), <1>1, <1>2, <2>1, <3>1
      <3>2. Aged(older)
        BY <2>2
      <3> HIDE DEF older
      <3> QED BY <1>2, <2>1, <3>1, <3>2, AgedKeepsInv
    <2>3. CASE Aged([age \in Ages |-> 0 - MaxBack])
      <3> DEFINE older == [age \in Ages |-> 0 - MaxBack]
      <3>1. ASSUME NEW c \in Connections, snapshots[c] # Absent
            PROVE  /\ older[snapshots[c].age] \in Ages
                   /\ older[snapshots[c].age] >= 0 - (MaxBack + back')
        BY <1>1, <1>2, <2>1, <3>1
      <3>2. Aged(older)
        BY <2>3
      <3> HIDE DEF older
      <3> QED BY <1>2, <2>1, <3>1, <3>2, AgedKeepsInv
    <2> QED BY <1>4, <2>2, <2>3 DEF StepBack
  <1> QED BY <1>3, <1>4

-----------------------------------------------------------------------------
(* Invalidations. *)

LEMMA InvalidatingKeepsInv ==
  ASSUME Inv, NEW c \in Connections, NEW scope \in Scopes,
         NEW names \in SUBSET (Schemas \X Names), Invalidated(c, scope, names),
         \A s \in Schemas, n \in Names :
           <<s, n>> \in names => InScope(scope, c, s, n),
         snapshots' \in [Connections -> Snapshots \cup {Absent}],
         \A d \in Connections : snapshots'[d] # Absent =>
           snapshots[d] # Absent /\ snapshots'[d].age = snapshots[d].age,
         \A d \in Connections, s \in Schemas, n \in Names :
           d # c \/ <<s, n>> \notin names => Lookup(d, s, n)' = Lookup(d, s, n)
  PROVE  Inv'
  <1>1. RefreshRequest(scope, "invalidated") \in Requests
    BY DEF Requests
  <1>2. /\ requests' \in Seq(Requests)
        /\ ToSet(requests) \subseteq ToSet(requests')
        /\ RefreshRequest(scope, "invalidated") \in ToSet(requests')
    BY <1>1, RequestsGrow DEF Inv, TypeOK, Invalidated
  <1>3. UNCHANGED <<drained, loads, db, excused, changes, back>>
    BY DEF Invalidated, host
  <1>4. announced' = announced \cup ({c} \X names)
    BY DEF Invalidated
  <1>5. TypeOK'
    BY <1>2, <1>3, <1>4 DEF Inv, TypeOK
  <1>6. ASSUME NEW d \in Connections, NEW s \in Schemas, NEW n \in Names,
               <<d, <<s, n>>>> \in announced'
        PROVE  Accounted(d, s, n)'
    <2>1. CASE d = c /\ <<s, n>> \in names
      <3>1. InScope(RefreshRequest(scope, "invalidated").scope, d, s, n)
        BY <2>1 DEF RefreshRequest
      <3> QED BY <1>2, <3>1 DEF Accounted, Covered
    <2>2. CASE d # c \/ <<s, n>> \notin names
      <3>1. <<d, <<s, n>>>> \in announced
        BY <1>4, <1>6, <2>2
      <3>2. Accounted(d, s, n)
        BY <3>1 DEF Inv, AllAccounted
      <3>3. Covered(d, s, n) => Covered(d, s, n)'
        BY <1>2, <1>3, CoveredStays
      <3>4. Lookup(d, s, n)' = Lookup(d, s, n)
        BY <2>2
      <3> QED BY <1>3, <3>2, <3>3, <3>4, AccountedStays, SameNow
    <2> QED BY <2>1, <2>2
  <1>7. AllAccounted'
    BY <1>6 DEF AllAccounted
  <1> QED BY <1>3, <1>5, <1>7 DEF Inv

LEMMA InvalidateConnectionKeepsInv ==
  ASSUME Inv, NEW c \in Connections, InvalidateConnection(c) PROVE Inv'
  <1> DEFINE names == Schemas \X Names
  <1>1. Connection(c) \in Scopes
    BY DEF Scopes
  <1>2. \A s \in Schemas, n \in Names : InScope(Connection(c), c, s, n)
    BY DEF InScope, Connection
  <1>3. /\ snapshots \in [Connections -> Snapshots \cup {Absent}]
        /\ snapshots' = [snapshots EXCEPT ![c] = Absent]
        /\ Invalidated(c, Connection(c), names)
    BY DEF InvalidateConnection, Inv, TypeOK
  <1>4. \A d \in Connections, s \in Schemas, n \in Names :
          d # c => Lookup(d, s, n)' = Lookup(d, s, n)
    BY <1>3 DEF Lookup, LookupSchema
  <1>5. \A d \in Connections : snapshots'[d] # Absent =>
          snapshots[d] # Absent /\ snapshots'[d].age = snapshots[d].age
    BY <1>3
  <1>6. snapshots' \in [Connections -> Snapshots \cup {Absent}]
    BY <1>3
  <1> HIDE DEF names
  <1>7. /\ names \in SUBSET (Schemas \X Names)
        /\ \A s \in Schemas, n \in Names : <<s, n>> \in names
    BY DEF names
  <1> QED BY <1>1, <1>2, <1>3, <1>4, <1>5, <1>6, <1>7, InvalidatingKeepsInv

LEMMA InvalidateSchemaKeepsInv ==
  ASSUME Inv, NEW c \in Connections, NEW s \in Schemas, InvalidateSchema(c, s)
  PROVE  Inv'
  <1> DEFINE names == {s} \X Names
             rest == [t \in DOMAIN snapshots[c].schemas \ {s} |->
                        snapshots[c].schemas[t]]
  <1>1. Schema(c, s) \in Scopes
    BY DEF Scopes
  <1>2. \A t \in Schemas, n \in Names :
          <<t, n>> \in names => InScope(Schema(c, s), c, t, n)
    BY DEF InScope, Schema
  <1>3. /\ snapshots \in [Connections -> Snapshots \cup {Absent}]
        /\ snapshots[c] \in Snapshots /\ snapshots[c].schemas \in Contents
        /\ snapshots' = [snapshots EXCEPT ![c].schemas = rest]
        /\ Invalidated(c, Schema(c, s), names)
    BY SnapshotsAreRecords DEF InvalidateSchema, Inv, TypeOK
  <1>4. rest \in Contents
    <2>1. PICK S \in SUBSET Schemas : snapshots[c].schemas \in [S -> SUBSET Entries]
      BY <1>3 DEF Contents
    <2>2. rest \in [S \ {s} -> SUBSET Entries] /\ S \ {s} \in SUBSET Schemas
      BY <2>1
    <2> QED BY <2>2 DEF Contents
  <1>5. \A t : /\ t \in DOMAIN rest <=> t \in DOMAIN snapshots[c].schemas /\ t # s
               /\ t \in DOMAIN rest => rest[t] = snapshots[c].schemas[t]
    OBVIOUS
  <1> HIDE DEF rest
  <1>6. /\ snapshots'[c] = [age |-> snapshots[c].age, schemas |-> rest]
        /\ \A d \in Connections : d # c => snapshots'[d] = snapshots[d]
        /\ DOMAIN snapshots' = Connections
    BY <1>3 DEF Snapshots
  <1>7. snapshots'[c] \in Snapshots /\ snapshots'[c] # Absent
    BY <1>3, <1>4, <1>6, CacheAssumption DEF Snapshots
  <1>8. snapshots' \in [Connections -> Snapshots \cup {Absent}]
    BY <1>3, <1>6, <1>7
  <1>9. snapshots[c] # Absent
    BY DEF InvalidateSchema
  <1>10. snapshots'[c].age = snapshots[c].age /\ snapshots'[c].schemas = rest
    BY <1>6
  <1>11. \A d \in Connections, t \in Schemas, n \in Names :
           d # c \/ <<t, n>> \notin names => Lookup(d, t, n)' = Lookup(d, t, n)
    <2>1. ASSUME NEW d \in Connections, NEW t \in Schemas, NEW n \in Names,
                 d # c \/ t # s
          PROVE  Lookup(d, t, n)' = Lookup(d, t, n)
      BY <1>5, <1>6, <1>7, <1>9, <1>10, <2>1 DEF Lookup, LookupSchema
    <2> QED BY <2>1
  <1>12. \A d \in Connections : snapshots'[d] # Absent =>
           snapshots[d] # Absent /\ snapshots'[d].age = snapshots[d].age
    BY <1>6, <1>9, <1>10
  <1>13. names \in SUBSET (Schemas \X Names)
    OBVIOUS
  <1> HIDE DEF names
  <1> QED BY <1>1, <1>2, <1>3, <1>8, <1>11, <1>12, <1>13, InvalidatingKeepsInv

LEMMA InvalidateObjectKeepsInv ==
  ASSUME Inv, NEW c \in Connections, NEW s \in Schemas, NEW n \in Names,
         InvalidateObject(c, s, n)
  PROVE  Inv'
  <1> DEFINE names == {<<s, n>>}
             less == [snapshots[c].schemas EXCEPT ![s] = @ \ Lookup(c, s, n)]
  <1>1. Object(c, s, n) \in Scopes
    BY DEF Scopes
  <1>2. \A t \in Schemas, m \in Names :
          <<t, m>> \in names => InScope(Object(c, s, n), c, t, m)
    BY DEF InScope, Object
  <1>3. snapshots[c] # Absent /\ s \in DOMAIN snapshots[c].schemas
    BY DEF InvalidateObject, Lookup, LookupSchema
  <1>4. /\ snapshots \in [Connections -> Snapshots \cup {Absent}]
        /\ snapshots[c] \in Snapshots /\ snapshots[c].schemas \in Contents
        /\ snapshots' = [snapshots EXCEPT ![c].schemas = less]
        /\ Invalidated(c, Object(c, s, n), names)
    BY <1>3, SnapshotsAreRecords DEF InvalidateObject, Inv, TypeOK
  <1>5. less \in Contents
    <2>1. PICK S \in SUBSET Schemas : snapshots[c].schemas \in [S -> SUBSET Entries]
      BY <1>4 DEF Contents
    <2>2. less \in [S -> SUBSET Entries]
      BY <2>1
    <2> QED BY <2>2 DEF Contents
  <1>6. /\ DOMAIN less = DOMAIN snapshots[c].schemas
        /\ \A t \in DOMAIN less : t # s => less[t] = snapshots[c].schemas[t]
        /\ less[s] = snapshots[c].schemas[s] \ Lookup(c, s, n)
    BY <1>3
  <1> HIDE DEF less
  <1>7. /\ snapshots'[c] = [age |-> snapshots[c].age, schemas |-> less]
        /\ \A d \in Connections : d # c => snapshots'[d] = snapshots[d]
        /\ DOMAIN snapshots' = Connections
    BY <1>4 DEF Snapshots
  <1>8. snapshots'[c] \in Snapshots /\ snapshots'[c] # Absent
    BY <1>4, <1>5, <1>7, CacheAssumption DEF Snapshots
  <1>9. snapshots' \in [Connections -> Snapshots \cup {Absent}]
    BY <1>4, <1>7, <1>8
  <1>10. snapshots'[c].age = snapshots[c].age /\ snapshots'[c].schemas = less
    BY <1>7
  <1>11. \A d \in Connections, t \in Schemas, m \in Names :
           d # c \/ <<t, m>> \notin names => Lookup(d, t, m)' = Lookup(d, t, m)
    <2>1. ASSUME NEW d \in Connections, NEW t \in Schemas, NEW m \in Names,
                 d # c \/ t # s
          PROVE  Lookup(d, t, m)' = Lookup(d, t, m)
      BY <1>3, <1>6, <1>7, <1>8, <1>10, <2>1 DEF Lookup, LookupSchema
    <2>2. ASSUME NEW m \in Names, m # n
          PROVE  Lookup(c, s, m)' = Lookup(c, s, m)
      <3>1. LookupSchema(c, s)' = LookupSchema(c, s) \ Lookup(c, s, n)
        BY <1>3, <1>6, <1>8, <1>10 DEF LookupSchema
      <3> QED BY <2>2, <3>1 DEF Lookup
    <2> QED BY <2>1, <2>2
  <1>12. \A d \in Connections : snapshots'[d] # Absent =>
           snapshots[d] # Absent /\ snapshots'[d].age = snapshots[d].age
    BY <1>3, <1>7, <1>10
  <1>13. names \in SUBSET (Schemas \X Names)
    OBVIOUS
  <1> HIDE DEF names
  <1> QED BY <1>1, <1>2, <1>4, <1>9, <1>11, <1>12, <1>13, InvalidatingKeepsInv

-----------------------------------------------------------------------------
(* The databases. *)

LEMMA ChangeKeepsInv ==
  ASSUME Inv, NEW c \in Connections, NEW s \in Schemas, NEW n \in Names,
         NEW kind \in {"object", "routine"}, Change(c, s, n, kind)
  PROVE  Inv'
  <1>1. PICK new \in SUBSET {[name |-> n, kind |-> kind, version |-> changes']} :
          db' = [db EXCEPT ![c][s] =
                   {e \in @ : e.name # n \/ e.kind # kind} \cup new]
    BY DEF Change
  <1>2. /\ changes' \in Nat /\ announced' = announced \ {<<c, <<s, n>>>>}
        /\ UNCHANGED <<snapshots, requests, drained, loads, excused, back>>
    BY DEF Change, Inv, TypeOK, cache, host
  <1> DEFINE kept == {e \in db[c][s] : e.name # n \/ e.kind # kind} \cup new
  <1>3. kept \in SUBSET Entries
    BY <1>2 DEF Inv, TypeOK, Entries
  <1>4. \A e \in kept : e.name # n => e \in db[c][s]
    OBVIOUS
  <1>5. \A e \in db[c][s] : e.name # n => e \in kept
    OBVIOUS
  <1>6. db' = [db EXCEPT ![c] = [db[c] EXCEPT ![s] = kept]]
    BY <1>1
  <1> HIDE DEF kept
  <1>7. db' \in [Connections -> [Schemas -> SUBSET Entries]]
    BY <1>3, <1>6 DEF Inv, TypeOK
  <1>8. TypeOK'
    BY <1>2, <1>7 DEF Inv, TypeOK
  <1>9. ASSUME NEW d \in Connections, NEW t \in Schemas, NEW m \in Names,
               <<d, <<t, m>>>> \in announced'
        PROVE  Accounted(d, t, m)'
    <2>1. <<d, <<t, m>>>> \in announced /\ (d # c \/ t # s \/ m # n)
      BY <1>2, <1>9
    <2>2. Now(d, t, m)' = Now(d, t, m)
      <3>1. CASE d # c \/ t # s
        <4>1. db'[d][t] = db[d][t]
          BY <1>6, <3>1 DEF Inv, TypeOK
        <4> QED BY <4>1 DEF Now, Held
      <3>2. CASE d = c /\ t = s
        <4>1. db'[c][s] = kept
          BY <1>6 DEF Inv, TypeOK
        <4> QED BY <2>1, <3>2, <4>1, <1>4, <1>5 DEF Now, Held
      <3> QED BY <3>1, <3>2
    <2>3. Covered(d, t, m) => Covered(d, t, m)'
      BY <1>2, CoveredStays
    <2> QED BY <1>2, <2>1, <2>2, <2>3, AccountedStays, SameLookup
            DEF Inv, AllAccounted
  <1>10. AllAccounted'
    BY <1>9 DEF AllAccounted
  <1> QED BY <1>2, <1>8, <1>10 DEF Inv

-----------------------------------------------------------------------------
(* Loads. *)

LEMMA StartLoadKeepsInv ==
  ASSUME Inv, NEW c \in Connections, StartLoad(c) PROVE Inv'
  <1> DEFINE load == [conn |-> c, content |-> db[c], late |-> FALSE]
  <1>1. PICK last \in Nat : last = Len(loads) + 1
    BY DEF Inv, TypeOK
  <1>2. /\ drained' = {scope \in drained : scope.conn # c}
        /\ loads' = Append(loads, load)
        /\ UNCHANGED <<snapshots, requests, db, announced, excused, changes, back>>
    BY DEF StartLoad, cache, history, counts
  <1>3. load \in Load /\ loads \in Seq(Load)
    BY DEF Load, Inv, TypeOK
  <1>4. load.conn = c /\ load.content = db[c] /\ load.late = FALSE
    OBVIOUS
  <1> HIDE DEF load
  <1>5. /\ loads' \in Seq(Load) /\ DOMAIN loads' = 1 .. last
        /\ DOMAIN loads = 1 .. Len(loads) /\ Len(loads) \in Nat
        /\ loads'[last] = load
        /\ \A i \in DOMAIN loads : loads'[i] = loads[i]
    BY <1>1, <1>2, <1>3
  <1>6. /\ last \in DOMAIN loads' /\ last \in Nat /\ DOMAIN loads \subseteq Nat
        /\ \A i \in DOMAIN loads : i < last /\ ~(i >= last) /\ i \in DOMAIN loads'
        /\ loads'[last].conn = c /\ loads'[last].content = db[c]
    BY <1>1, <1>4, <1>5
  <1>7. \A i \in DOMAIN loads' : i = last \/ i \in DOMAIN loads
    BY <1>1, <1>5
  <1>8. TypeOK'
    BY <1>2, <1>5 DEF Inv, TypeOK
  <1>9. ASSUME NEW d \in Connections, NEW s \in Schemas, NEW n \in Names,
               <<d, <<s, n>>>> \in announced'
        PROVE  Accounted(d, s, n)'
    <2>1. Accounted(d, s, n) /\ Now(d, s, n)' = Now(d, s, n)
      BY <1>2, <1>9, SameNow DEF Inv, AllAccounted
    <2>2. CASE d = c
      <3>1. Settled(last, c, s, n)'
        <4>1. Now(c, s, n)' = Held(loads'[last].content, s, n)
          BY <1>2, <1>6 DEF Now
        <4>2. \A k \in DOMAIN loads' : k >= last => k = last
          BY <1>6, <1>7
        <4> QED BY <1>6, <4>1, <4>2 DEF Settled
      <3>2. Awaited(c, s, n)'
        <4>1. ASSUME NEW i \in DOMAIN loads'
              PROVE  \/ Held(loads'[i].content, s, n) = Now(c, s, n)'
                     \/ \E j \in DOMAIN loads' : j > i /\ Settled(j, c, s, n)'
          <5>1. CASE i = last
            BY <1>2, <1>6, <5>1 DEF Now
          <5>2. CASE i \in DOMAIN loads
            BY <1>6, <3>1, <5>2
          <5> QED BY <1>7, <5>1, <5>2
        <4> QED BY <4>1 DEF Awaited
      <3> QED BY <1>6, <2>2, <3>1, <3>2 DEF Accounted, Provided
    <2>3. CASE d # c
      <3>1. Covered(d, s, n) => Covered(d, s, n)'
        BY <1>2, <2>3 DEF Covered, InScope
      <3>2. ASSUME NEW j \in DOMAIN loads, Settled(j, d, s, n)
            PROVE  Settled(j, d, s, n)'
        <4>1. loads'[j].conn = d
          BY <1>5, <3>2 DEF Settled
        <4>2. ASSUME NEW k \in DOMAIN loads', k >= j, loads'[k].conn = d
              PROVE  Held(loads'[k].content, s, n) = Now(d, s, n)'
          <5>1. k \in DOMAIN loads /\ loads'[k] = loads[k]
            BY <1>5, <1>6, <1>7, <2>3, <4>2
          <5> QED BY <2>1, <3>2, <4>2, <5>1 DEF Settled
        <4> QED BY <4>1, <4>2 DEF Settled
      <3>3. Awaited(d, s, n) => Awaited(d, s, n)'
        <4> SUFFICES ASSUME Awaited(d, s, n), NEW i \in DOMAIN loads',
                            loads'[i].conn = d, ~loads'[i].late
                     PROVE  \/ Held(loads'[i].content, s, n) = Now(d, s, n)'
                            \/ \E j \in DOMAIN loads' :
                                 j > i /\ Settled(j, d, s, n)'
          BY DEF Awaited
        <4>1. i \in DOMAIN loads /\ loads'[i] = loads[i]
          BY <1>5, <1>6, <1>7, <2>3
        <4> QED BY <1>6, <2>1, <3>2, <4>1 DEF Awaited
      <3>4. Provided(d, s, n) => Provided(d, s, n)'
        <4>1. Lookup(d, s, n)' = Lookup(d, s, n)
          BY <1>2, SameLookup
        <4> QED BY <1>6, <2>1, <3>2, <4>1 DEF Provided
      <3> QED BY <1>2, <2>1, <3>1, <3>3, <3>4 DEF Accounted
    <2> QED BY <2>2, <2>3
  <1>10. AllAccounted'
    BY <1>9 DEF AllAccounted
  <1> QED BY <1>8, <1>10 DEF Inv

\* Where the load that comes to be at place j was before load i was removed.
Before(i, j) == IF j < i THEN j ELSE j + 1

LEMMA Removal ==
  ASSUME NEW S, NEW q \in Seq(S), NEW i \in 1 .. Len(q)
  PROVE  /\ RemoveAt(q, i) \in Seq(S)
         /\ Len(RemoveAt(q, i)) = Len(q) - 1
         /\ \A j \in 1 .. Len(q) - 1 : RemoveAt(q, i)[j] = q[Before(i, j)]
  <1> DEFINE front == SubSeq(q, 1, i - 1)
             back_ == SubSeq(q, i + 1, Len(q))
  <1>1. /\ front \in Seq(S) /\ Len(front) = i - 1
        /\ \A j \in 1 .. i - 1 : front[j] = q[j]
    OBVIOUS
  <1>2. /\ back_ \in Seq(S) /\ Len(back_) = Len(q) - i
        /\ \A j \in 1 .. Len(q) - i : back_[j] = q[i + j]
    OBVIOUS
  <1> HIDE DEF front, back_
  <1>3. /\ front \o back_ \in Seq(S) /\ Len(front \o back_) = Len(q) - 1
        /\ \A j \in 1 .. Len(q) - 1 : (front \o back_)[j] =
             IF j <= i - 1 THEN front[j] ELSE back_[j - (i - 1)]
    <2>1. Len(front) + Len(back_) = Len(q) - 1
      BY <1>1, <1>2
    <2>2. front \o back_ \in Seq(S)
      BY <1>1, <1>2
    <2>3. Len(front \o back_) = Len(front) + Len(back_)
      BY <1>1, <1>2, ConcatProperties
    <2>4. \A j \in 1 .. Len(front) + Len(back_) : (front \o back_)[j] =
            IF j <= Len(front) THEN front[j] ELSE back_[j - Len(front)]
      BY <1>1, <1>2, ConcatProperties
    <2> QED BY <1>1, <2>1, <2>2, <2>3, <2>4
  <1>4. RemoveAt(q, i) = front \o back_
    BY DEF RemoveAt, front, back_
  <1>5. ASSUME NEW j \in 1 .. Len(q) - 1
        PROVE  (front \o back_)[j] = q[Before(i, j)]
    <2>1. CASE j < i
      BY <1>1, <1>3, <2>1 DEF Before
    <2>2. CASE ~(j < i)
      <3>1. j - (i - 1) \in 1 .. Len(q) - i /\ i + (j - (i - 1)) = j + 1
        BY <2>2
      <3>2. back_[j - (i - 1)] = q[i + (j - (i - 1))]
        BY <1>2, <3>1
      <3>3. ~(j <= i - 1)
        BY <2>2
      <3> QED BY <1>3, <2>2, <3>1, <3>2, <3>3 DEF Before
    <2> QED BY <2>1, <2>2
  <1> QED BY <1>3, <1>4, <1>5

LEMMA PlacesBefore ==
  ASSUME NEW l \in Nat, NEW i \in 1 .. l
  PROVE  /\ \A j \in 1 .. l - 1 : Before(i, j) \in 1 .. l /\ Before(i, j) # i
         /\ \A j, k \in 1 .. l - 1 : Before(i, j) < Before(i, k) <=> j < k
         /\ \A k \in 1 .. l : k # i => \E j \in 1 .. l - 1 : Before(i, j) = k
  <1>1. ASSUME NEW k \in 1 .. l, k # i PROVE \E j \in 1 .. l - 1 : Before(i, j) = k
    <2>1. CASE k < i
      BY <2>1 DEF Before
    <2>2. CASE k > i
      <3>1. k - 1 \in 1 .. l - 1 /\ Before(i, k - 1) = k
        BY <2>2 DEF Before
      <3> QED BY <3>1
    <2> QED BY <1>1, <2>1, <2>2
  <1> QED BY <1>1 DEF Before

\* The loads that are left, and which of them are late.
LEMMA LoadsLeft ==
  ASSUME TypeOK, NEW i \in DOMAIN loads, LoadEnds(i)
  PROVE  /\ loads' \in Seq(Load)
         /\ DOMAIN loads = 1 .. Len(loads) /\ Len(loads) \in Nat
         /\ DOMAIN loads' = 1 .. Len(loads) - 1
         /\ \A j \in DOMAIN loads' :
              /\ loads'[j].conn = loads[Before(i, j)].conn
              /\ loads'[j].content = loads[Before(i, j)].content
              /\ ~loads'[j].late =>
                   /\ ~loads[Before(i, j)].late
                   /\ ~( /\ Before(i, j) < i
                         /\ loads[Before(i, j)].conn = loads[i].conn )
  <1> DEFINE Marked(j) == j < i /\ loads[j].conn = loads[i].conn
             q == [j \in DOMAIN loads |->
                     IF j < i /\ loads[j].conn = loads[i].conn
                     THEN [loads[j] EXCEPT !.late = TRUE] ELSE loads[j]]
  <1>1. loads \in Seq(Load) /\ Len(loads) \in Nat /\ DOMAIN loads = 1 .. Len(loads)
    BY DEF TypeOK
  <1>2. \A j \in DOMAIN loads : loads[j] \in Load
    BY <1>1
  <1>3. ASSUME NEW j \in DOMAIN loads
        PROVE  /\ q[j] \in Load
               /\ q[j].conn = loads[j].conn /\ q[j].content = loads[j].content
               /\ Marked(j) => q[j].late
               /\ ~Marked(j) => q[j].late = loads[j].late
    <2>1. CASE Marked(j)
      <3>1. q[j] = [loads[j] EXCEPT !.late = TRUE]
        BY <2>1
      <3> HIDE DEF q
      <3> QED BY <1>2, <2>1, <3>1 DEF Load
    <2>2. CASE ~Marked(j)
      <3>1. q[j] = loads[j]
        BY <2>2
      <3> HIDE DEF q
      <3> QED BY <1>2, <2>2, <3>1
    <2> QED BY <2>1, <2>2
  <1>4. DOMAIN q = 1 .. Len(loads) /\ q = [j \in 1 .. Len(loads) |-> q[j]]
    BY <1>1
  <1>5. loads' = RemoveAt(q, i)
    BY DEF LoadEnds
  <1> HIDE DEF q
  <1>6. q \in Seq(Load) /\ Len(q) = Len(loads)
    BY <1>1, <1>3, <1>4
  <1>7. /\ loads' \in Seq(Load) /\ DOMAIN loads' = 1 .. Len(loads) - 1
        /\ \A j \in DOMAIN loads' : loads'[j] = q[Before(i, j)]
    <2>1. /\ RemoveAt(q, i) \in Seq(Load)
          /\ Len(RemoveAt(q, i)) = Len(loads) - 1
          /\ \A j \in 1 .. Len(loads) - 1 : RemoveAt(q, i)[j] = q[Before(i, j)]
      <3>1. i \in 1 .. Len(q)
        BY <1>1, <1>6
      <3>2. \A j \in 1 .. Len(q) - 1 : RemoveAt(q, i)[j] = q[Before(i, j)]
        BY <1>6, <3>1, Removal
      <3>3. RemoveAt(q, i) \in Seq(Load) /\ Len(RemoveAt(q, i)) = Len(q) - 1
        BY <1>6, <3>1, Removal
      <3> QED BY <1>6, <3>2, <3>3
    <2>2. loads' \in Seq(Load) /\ Len(loads') = Len(loads) - 1
      BY <1>5, <2>1
    <2>3. DOMAIN loads' = 1 .. Len(loads) - 1
      BY <2>2
    <2> QED BY <1>5, <2>1, <2>2, <2>3
  <1>8. \A j \in DOMAIN loads' : Before(i, j) \in DOMAIN loads
    BY <1>1, <1>7, PlacesBefore
  <1> QED BY <1>1, <1>3, <1>7, <1>8

LEMMA PlacesLeft ==
  ASSUME TypeOK, NEW i \in DOMAIN loads, LoadEnds(i)
  PROVE  /\ DOMAIN loads \subseteq Nat /\ DOMAIN loads' \subseteq Nat
         /\ \A j \in DOMAIN loads' : Before(i, j) \in DOMAIN loads /\ Before(i, j) # i
         /\ \A j, k \in DOMAIN loads' : Before(i, j) < Before(i, k) <=> j < k
         /\ \A k \in DOMAIN loads :
              k # i => \E j \in DOMAIN loads' : Before(i, j) = k
  <1>1. PICK l \in Nat : DOMAIN loads = 1 .. l /\ DOMAIN loads' = 1 .. l - 1
    BY LoadsLeft
  <1>2. i \in 1 .. l
    BY <1>1
  <1>3. /\ \A j \in 1 .. l - 1 : Before(i, j) \in 1 .. l /\ Before(i, j) # i
        /\ \A j, k \in 1 .. l - 1 : Before(i, j) < Before(i, k) <=> j < k
        /\ \A k \in 1 .. l : k # i => \E j \in 1 .. l - 1 : Before(i, j) = k
    BY <1>2, PlacesBefore
  <1>4. 1 .. l \subseteq Nat /\ 1 .. l - 1 \subseteq Nat
    OBVIOUS
  <1> QED BY <1>1, <1>3, <1>4, Zenon

\* A load that is not the one to end goes on showing what it shows.
LEMMA SettledMoves ==
  ASSUME TypeOK, NEW i \in DOMAIN loads, LoadEnds(i), UNCHANGED db,
         NEW c, NEW s, NEW n,
         NEW m \in DOMAIN loads, m # i, Settled(m, c, s, n)
  PROVE  \E j \in DOMAIN loads' : Before(i, j) = m /\ Settled(j, c, s, n)'
  <1>1. PICK j \in DOMAIN loads' : Before(i, j) = m
    BY PlacesLeft
  <1>2. loads'[j].conn = c
    BY <1>1, LoadsLeft DEF Settled
  <1>3. ASSUME NEW k \in DOMAIN loads', k >= j, loads'[k].conn = c
        PROVE  Held(loads'[k].content, s, n) = Now(c, s, n)'
    <2>1. /\ Before(i, k) \in DOMAIN loads /\ loads[Before(i, k)].conn = c
          /\ loads'[k].content = loads[Before(i, k)].content
      BY <1>3, LoadsLeft, PlacesLeft
    <2>2. Before(i, k) >= m
      BY <1>1, <1>3, PlacesLeft DEF Before
    <2>3. Now(c, s, n)' = Now(c, s, n)
      BY DEF Now
    <2> QED BY <2>1, <2>2, <2>3 DEF Settled
  <1>4. Settled(j, c, s, n)'
    BY <1>2, <1>3 DEF Settled
  <1> QED BY <1>1, <1>4

\* No load waits for the one that ends: it would be late by now.
LEMMA AwaitedStays ==
  ASSUME TypeOK, NEW i \in DOMAIN loads, LoadEnds(i), UNCHANGED db,
         NEW c, NEW s, NEW n, Awaited(c, s, n)
  PROVE  Awaited(c, s, n)'
  <1> SUFFICES ASSUME NEW j \in DOMAIN loads', loads'[j].conn = c, ~loads'[j].late
               PROVE  \/ Held(loads'[j].content, s, n) = Now(c, s, n)'
                      \/ \E k \in DOMAIN loads' : k > j /\ Settled(k, c, s, n)'
    BY DEF Awaited
  <1> DEFINE before == Before(i, j)
  <1>1. /\ before \in DOMAIN loads /\ before # i /\ loads[before].conn = c
        /\ ~loads[before].late /\ ~(before < i /\ loads[i].conn = c)
        /\ loads'[j].content = loads[before].content
    BY LoadsLeft, PlacesLeft
  <1>2. CASE Held(loads[before].content, s, n) = Now(c, s, n)
    BY <1>1, <1>2 DEF Now
  <1>3. CASE \E m \in DOMAIN loads : m > before /\ Settled(m, c, s, n)
    <2>1. PICK m \in DOMAIN loads : m > before /\ Settled(m, c, s, n)
      BY <1>3
    <2>2. m # i
      BY <1>1, <2>1 DEF Settled
    <2>3. PICK k \in DOMAIN loads' : Before(i, k) = m /\ Settled(k, c, s, n)'
      BY <2>1, <2>2, SettledMoves
    <2>4. k > j
      <3>1. Before(i, j) < Before(i, k)
        BY <1>1, <2>1, <2>3, PlacesLeft
      <3> QED BY <3>1, PlacesLeft
    <2> QED BY <2>3, <2>4
  <1> QED BY <1>1, <1>2, <1>3 DEF Awaited

\* The connections that have no part in the load.
LEMMA OthersStayAccounted ==
  ASSUME Inv, NEW i \in DOMAIN loads, LoadEnds(i), UNCHANGED <<requests, drained, db>>,
         NEW c \in Connections, NEW s \in Schemas, NEW n \in Names,
         c # loads[i].conn, Accounted(c, s, n), c \in excused => c \in excused',
         Lookup(c, s, n)' = Lookup(c, s, n)
  PROVE  Accounted(c, s, n)'
  <1>1. Covered(c, s, n) => Covered(c, s, n)'
    BY CoveredStays
  <1>2. Awaited(c, s, n) => Awaited(c, s, n)'
    BY AwaitedStays DEF Inv
  <1>3. ASSUME NEW j \in DOMAIN loads, Settled(j, c, s, n)
        PROVE  \E k \in DOMAIN loads' : Settled(k, c, s, n)'
    <2>1. j # i
      BY <1>3 DEF Settled
    <2> QED BY <1>3, <2>1, SettledMoves DEF Inv
  <1>4. Provided(c, s, n) => Provided(c, s, n)'
    BY <1>3, SameNow DEF Provided
  <1> QED BY <1>1, <1>2, <1>4 DEF Accounted

LEMMA LoadFailsKeepsInv ==
  ASSUME Inv, NEW i \in DOMAIN loads, LoadFails(i) PROVE Inv'
  <1>1. /\ LoadEnds(i) /\ excused' = excused \cup {loads[i].conn}
        /\ UNCHANGED <<snapshots, requests, drained, db, announced, changes, back>>
    BY DEF LoadFails, cache, counts
  <1>2. TypeOK'
    BY <1>1, LoadsLeft DEF Inv, TypeOK
  <1>3. ASSUME NEW c \in Connections, NEW s \in Schemas, NEW n \in Names,
               <<c, <<s, n>>>> \in announced'
        PROVE  Accounted(c, s, n)'
    <2>1. Accounted(c, s, n)
      BY <1>1, <1>3 DEF Inv, AllAccounted
    <2>2. CASE c = loads[i].conn
      <3>1. Covered(c, s, n) => Covered(c, s, n)'
        BY <1>1, CoveredStays
      <3>2. Awaited(c, s, n) => Awaited(c, s, n)'
        BY <1>1, AwaitedStays DEF Inv
      <3> QED BY <1>1, <2>1, <2>2, <3>1, <3>2 DEF Accounted
    <2>3. CASE c # loads[i].conn
      BY <1>1, <2>1, <2>3, OthersStayAccounted, SameLookup
    <2> QED BY <2>2, <2>3
  <1>4. AllAccounted'
    BY <1>3 DEF AllAccounted
  <1> QED BY <1>2, <1>4 DEF Inv

LEMMA LoadDoneKeepsInv ==
  ASSUME Inv, NEW i \in DOMAIN loads, LoadDone(i) PROVE Inv'
  <1> DEFINE content == loads[i].content
  <1>1. loads[i] \in Load
    BY DEF Inv, TypeOK
  <1>2. PICK d \in Connections : d = loads[i].conn
    BY <1>1 DEF Load
  <1>3. /\ LoadEnds(i)
        /\ excused' = IF loads[i].late THEN excused \cup {d} ELSE excused \ {d}
        /\ snapshots' = [snapshots EXCEPT ![d] = [age |-> 0, schemas |-> content]]
        /\ UNCHANGED <<requests, drained, db, announced, changes, back>>
    BY <1>2 DEF LoadDone, UpsertSnapshot, counts
  <1>4. content \in [Schemas -> SUBSET Entries]
    BY <1>1 DEF Load
  <1>5. [age |-> 0, schemas |-> content] \in Snapshots
    <2>1. 0 \in Ages
      BY CacheAssumption DEF Ages
    <2>2. content \in Contents
      BY <1>4 DEF Contents
    <2> HIDE DEF content
    <2> QED BY <2>1, <2>2 DEF Snapshots
  <1>6. /\ snapshots'[d] = [age |-> 0, schemas |-> content]
        /\ \A c \in Connections : c # d => snapshots'[c] = snapshots[c]
        /\ snapshots' \in [Connections -> Snapshots \cup {Absent}]
    BY <1>3, <1>5 DEF Inv, TypeOK
  <1>7. /\ snapshots'[d] # Absent /\ snapshots'[d].age = 0
        /\ snapshots'[d].schemas = content
    BY <1>5, <1>6, CacheAssumption
  <1>8. TypeOK'
    <2>1. \A c \in Connections : snapshots'[c] # Absent =>
            snapshots'[c].age >= 0 - (MaxBack + back)
      BY <1>6, <1>7, CacheAssumption DEF Inv, TypeOK
    <2> QED BY <1>3, <1>6, <2>1, LoadsLeft DEF Inv, TypeOK
  <1>9. ASSUME NEW s \in Schemas, NEW n \in Names, <<d, <<s, n>>>> \in announced
        PROVE  Accounted(d, s, n)'
    <2>1. Accounted(d, s, n)
      BY <1>9 DEF Inv, AllAccounted
    <2>2. Covered(d, s, n) => Covered(d, s, n)'
      BY <1>3, CoveredStays
    <2>3. Awaited(d, s, n) => Awaited(d, s, n)'
      BY <1>3, AwaitedStays DEF Inv
    <2>4. CASE loads[i].late
      BY <1>3, <2>1, <2>2, <2>3, <2>4 DEF Accounted
    <2>5. CASE ~loads[i].late /\ Awaited(d, s, n)
      <3>1. CASE Held(content, s, n) = Now(d, s, n)
        <4>1. Lookup(d, s, n)' = Held(content, s, n)
          BY <1>4, <1>7 DEF Lookup, LookupSchema, Held
        <4> QED BY <1>3, <2>3, <2>5, <3>1, <4>1, SameNow DEF Accounted, Provided
      <3>2. CASE \E j \in DOMAIN loads : j > i /\ Settled(j, d, s, n)
        <4>1. PICK j \in DOMAIN loads : j > i /\ Settled(j, d, s, n)
          BY <3>2
        <4>2. j # i
          BY <4>1, LoadsLeft, <1>3 DEF Inv
        <4>3. \E k \in DOMAIN loads' : Settled(k, d, s, n)'
          BY <1>3, <4>1, <4>2, SettledMoves DEF Inv
        <4> QED BY <2>3, <2>5, <4>3 DEF Accounted, Provided
      <3> QED BY <1>2, <2>5, <3>1, <3>2 DEF Awaited
    <2> QED BY <2>1, <2>2, <2>4, <2>5 DEF Accounted
  <1>10. ASSUME NEW c \in Connections, c # d, NEW s \in Schemas, NEW n \in Names,
               <<c, <<s, n>>>> \in announced
        PROVE  Accounted(c, s, n)'
    <2>1. Lookup(c, s, n)' = Lookup(c, s, n)
      BY <1>6, <1>10 DEF Lookup, LookupSchema
    <2>2. Accounted(c, s, n) /\ (c \in excused => c \in excused')
      BY <1>3, <1>10 DEF Inv, AllAccounted
    <2> QED BY <1>2, <1>3, <1>10, <2>1, <2>2, OthersStayAccounted
  <1>11. AllAccounted'
    BY <1>3, <1>9, <1>10 DEF AllAccounted
  <1> QED BY <1>8, <1>11 DEF Inv

-----------------------------------------------------------------------------
LEMMA InvInit == Init => Inv
  <1> SUFFICES ASSUME Init PROVE Inv
    OBVIOUS
  <1>1. /\ << >> \in Seq(Load) /\ << >> \in Seq(Requests)
        /\ db \in [Connections -> [Schemas -> SUBSET Entries]]
    BY CacheAssumption DEF Init
  <1>2. TypeOK
    BY <1>1, CacheAssumption DEF Init, TypeOK
  <1>3. AllAccounted
    BY DEF Init, AllAccounted
  <1> QED BY <1>2, <1>3 DEF Inv

LEMMA InvStutter == ASSUME Inv, UNCHANGED vars PROVE Inv'
  <1>1. TypeOK'
    BY DEF Inv, TypeOK, vars, cache, host, history, counts
  <1>2. \A c \in Connections, s \in Schemas, n \in Names :
          Covered(c, s, n) => Covered(c, s, n)'
    BY CoveredStays DEF vars, cache, host
  <1>3. AllAccounted'
    BY <1>2, OnlyRequestsChange DEF Inv, vars, cache, host, history
  <1> QED BY <1>1, <1>3 DEF Inv

LEMMA InvNext == Inv /\ Next => Inv'
  <1> SUFFICES ASSUME Inv, Next PROVE Inv'
    OBVIOUS
  <1>1. ASSUME NEW c \in Connections, EnsureFresh(c) PROVE Inv'
    <2>1. Connection(c) \in Scopes
      BY DEF Scopes
    <2> QED BY <1>1, <2>1, AskingKeepsInv DEF EnsureFresh
  <1>2. ASSUME NEW scope \in Manual, RequestRefresh(scope) PROVE Inv'
    <2>1. scope \in Scopes
      BY DEF Scopes
    <2> QED BY <1>2, <2>1, AskingKeepsInv DEF RequestRefresh
  <1> QED
    BY <1>1, <1>2, InvalidateConnectionKeepsInv, InvalidateSchemaKeepsInv,
       InvalidateObjectKeepsInv, StartLoadKeepsInv, ChangeKeepsInv,
       HandingOnKeepsInv, LoadDoneKeepsInv, LoadFailsKeepsInv, TimeKeepsInv
       DEF Next

LEMMA Invariance == Spec => []Inv
  <1>1. Inv /\ [Next]_vars => Inv'
    BY InvNext, InvStutter
  <1> QED BY InvInit, <1>1, PTL DEF Spec

\* The ages of snapshots stay in range however often the clock steps back,
\* and a connection has a snapshot of its own schemas or none.
THEOREM TypeCorrect == Spec => []TypeOK
  BY Invariance, PTL DEF Inv

\* An object that was invalidated is shown as it is or a refresh of it is on
\* its way (invalidate_connection, invalidate_schema, invalidate_object,
\* drain_refresh_requests, upsert_snapshot), for any number of loads at a
\* time that end in any order.
THEOREM GapsGetAskedFor == Spec => []GapsAreAskedFor
  <1>1. Inv => GapsAreAskedFor
    <2> DEFINE Told(c, s, n) ==
                 LET now == {e \in db[c][s] : e.name = n} IN
                 \/ <<c, <<s, n>>>> \notin announced
                 \/ c \in excused
                 \/ Lookup(c, s, n) = now
                 \/ \E scope \in {r.scope : r \in ToSet(requests)} \cup drained :
                      InScope(scope, c, s, n)
                 \/ \E i \in DOMAIN loads :
                      /\ loads[i].conn = c
                      /\ {e \in loads[i].content[s] : e.name = n} = now
    <2>1. ASSUME Inv, NEW c \in Connections, NEW s \in Schemas, NEW n \in Names,
                 <<c, <<s, n>>>> \in announced, c \notin excused
          PROVE  Told(c, s, n)
      <3>1. Accounted(c, s, n)
        BY <2>1 DEF Inv, AllAccounted
      <3>2. CASE Covered(c, s, n)
        BY <3>2 DEF Covered
      <3>3. CASE Provided(c, s, n)
        <4>1. ASSUME NEW j \in DOMAIN loads, Settled(j, c, s, n)
              PROVE  /\ loads[j].conn = c
                     /\ {e \in loads[j].content[s] : e.name = n} =
                          {e \in db[c][s] : e.name = n}
          <5>1. j >= j
            BY <2>1 DEF Inv, TypeOK
          <5> QED BY <4>1, <5>1 DEF Settled, Held, Now
        <4> QED BY <3>3, <4>1 DEF Provided, Held, Now
      <3> QED BY <2>1, <3>1, <3>2, <3>3 DEF Accounted
    <2>2. ASSUME Inv, NEW c \in Connections, NEW s \in Schemas, NEW n \in Names
          PROVE  Told(c, s, n)
      BY <2>1, <2>2
    <2> QED BY <2>2 DEF GapsAreAskedFor
  <1> QED BY <1>1, Invariance, PTL
=============================================================================
