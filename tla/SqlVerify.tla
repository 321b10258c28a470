----------------------------- MODULE SqlVerify -----------------------------
(***************************************************************************)
(* What irodori-generate/src/verify.rs accepts of a parsed SELECT, and,    *)
(* for comparison, how SQL itself resolves the names of one.               *)
(*                                                                         *)
(* The parser is external.  An expression is the sequence of its nodes, a  *)
(* node before those below it, each with the index of the last one below   *)
(* it.  A node is a column, a leaf, a call of an aggregate or a compound   *)
(* (operators, CASE, IN, BETWEEN and the other functions, between which    *)
(* the verification does not tell).  A statement is the sequence of its    *)
(* queries, the common tables of a WITH before the query it belongs to,    *)
(* its parent; the last one is the statement itself.                       *)
(***************************************************************************)
EXTENDS QueryPlan

Error(what) == [rejected |-> what]

FirstError(errors) ==
  LET found == {i \in DOMAIN errors : errors[i] # Absent}
  IN IF found = {} THEN Absent ELSE errors[Min(found)]

\* The tables of FROM and of the joins.
TableExprs(q) == q.from \o [i \in DOMAIN q.joins |-> q.joins[i].table]

\* The names of the common tables of a query's own WITH.
CommonNames(stmt, i) == {stmt[j].name : j \in {k \in DOMAIN stmt : stmt[k].parent = i}}

-----------------------------------------------------------------------------
ContainsAggregate(expr) == \E i \in DOMAIN expr : expr[i].kind = "aggregate"

InAggregate(expr, i) ==
  \E a \in DOMAIN expr : expr[a].kind = "aggregate" /\ i \in a .. expr[a].last

WalkColumns(expr, skipAggregates) ==
  FlattenSeq([i \in DOMAIN expr |->
    If(expr[i].kind = "column" /\ ~(skipAggregates /\ InAggregate(expr, i)),
       <<expr[i].column>>)])

CollectColumns(exprs) == FlattenSeq([i \in DOMAIN exprs |-> WalkColumns(exprs[i], FALSE)])

Projected(q) == [i \in DOMAIN q.projection |-> q.projection[i].expr]

JoinConditions(q) == FlattenSeq([i \in DOMAIN q.joins |-> q.joins[i].on])

CollectStatementColumns(q) ==
  CollectColumns(Projected(q) \o JoinConditions(q) \o q.filter \o q.groupBy
                 \o q.having \o q.orderBy)

-----------------------------------------------------------------------------
\* What a name of FROM stands for.  A common table is opaque: Absent.
Resolved(t, schema, ctes) ==
  IF t.object \in ctes THEN Absent ELSE IndexTable(schema, t.object)

\* The relations by the names they can be qualified with; a name that is taken
\* stays with the relation that came first.
BuildScope(q, schema, ctes) ==
  LET tables == TableExprs(q)
      Keyed(t, key) == [key |-> key, table |-> Resolved(t, schema, ctes)]
      Keys(t) == <<Keyed(t, t.object)>> \o If(t.alias # Absent, <<Keyed(t, t.alias)>>)
      keys == FlattenSeq([i \in DOMAIN tables |-> Keys(tables[i])])
      First(i) == \A j \in 1 .. i - 1 : keys[j].key # keys[i].key
  IN [relations |-> {keys[i] : i \in {j \in DOMAIN keys : First(j)}},
      opaque |-> \E t \in ToSet(tables) : t.object \in ctes,
      aliases |-> {item.alias : item \in ToSet(q.projection)} \ {Absent}]

UnknownTable(q, schema, ctes) ==
  \E t \in ToSet(TableExprs(q)) :
    t.object \notin ctes /\ IndexTable(schema, t.object) = Absent

KnownTables(scope) == {r.table : r \in scope.relations} \ {Absent}

ValidateQualified(column, scope) ==
  LET found == {r.table : r \in {s \in scope.relations : s.key = column.qualifier}}
  IN IF found = {} THEN Error("unknown qualifier")
     ELSE IF \A table \in found : table = Absent \/ HasColumn(table, column.name)
     THEN Absent
     ELSE Error("unknown column")

\* Slip: a column of several tables is one of the first of them.
ValidateOfAny(column, scope) ==
  LET matching == {t \in KnownTables(scope) : HasColumn(t, column.name)} IN
  IF \/ column.name \in scope.aliases
     \/ matching # {}
     \/ scope.opaque \/ KnownTables(scope) = {}
  THEN Absent
  ELSE Error("unknown column")
ValidateUnqualified(column, scope) ==
  LET matching == {t \in KnownTables(scope) : HasColumn(t, column.name)} IN
  IF \/ column.name \in scope.aliases
     \/ Cardinality(matching) = 1
     \/ scope.opaque \/ KnownTables(scope) = {}
  THEN Absent
  ELSE Error(IF matching = {} THEN "unknown column" ELSE "ambiguous column")

ValidateColumn(column, scope) ==
  IF column.qualifier = Absent THEN ValidateUnqualified(column, scope)
  ELSE ValidateQualified(column, scope)

ValidateGroupBy(q) ==
  LET grouped == {c.name : c \in ToSet(CollectColumns(q.groupBy))}
      bare == UNION {ToSet(WalkColumns(e, TRUE)) : e \in ToSet(Projected(q))}
  IN IF /\ \E e \in ToSet(Projected(q)) : ContainsAggregate(e)
        /\ \E c \in bare : c.name \notin grouped
     THEN Error("not grouped") ELSE Absent

VerifyQuery(q, schema, ctes) ==
  LET scope == BuildScope(q, schema, ctes)  columns == CollectStatementColumns(q) IN
  IF UnknownTable(q, schema, ctes) THEN Error("unknown table")
  ELSE FirstError([i \in DOMAIN columns |-> ValidateColumn(columns[i], scope)]
                  \o <<ValidateGroupBy(q)>>)

\* The common tables are verified before the query that has them.
VerifyStatement(stmt, schema) ==
  FirstError([i \in DOMAIN stmt |-> VerifyQuery(stmt[i], schema, CommonNames(stmt, i))])

-----------------------------------------------------------------------------
(* The names of a SELECT as SQL has them: a table goes by its alias only,  *)
(* no two by the same name, a join condition sees the tables up to its     *)
(* own, a common table is seen by those after it in its WITH, where no two *)
(* have the same name, and the names of the output are seen by GROUP BY    *)
(* and ORDER BY.                                                           *)

VisibleName(t) == IF t.alias = Absent THEN t.object ELSE t.alias

IsCommon(t, ctes) == t.schema = Absent /\ t.object \in ctes

\* The table of the schema a table expression stands for has the column.
Offers(t, schema, ctes, name) ==
  /\ ~IsCommon(t, ctes)
  /\ \E i \in Named(schema, t.object) :
       /\ IF t.schema = Absent THEN i = Min(Named(schema, t.object))
          ELSE schema[i].schema = t.schema
       /\ HasColumn(schema[i], name)

TableExists(t, schema, ctes) ==
  \/ IsCommon(t, ctes)
  \/ \E i \in Named(schema, t.object) : t.schema \in {Absent, schema[i].schema}

\* Exactly one of the tables has it, or none of the schema and a common table
\* may: which columns that has is left open.
ColumnResolves(column, tables, schema, ctes) ==
  LET called == {i \in DOMAIN tables :
                   column.qualifier \in {Absent, VisibleName(tables[i])}}
      holders == {i \in called : Offers(tables[i], schema, ctes, column.name)}
  IN \/ Cardinality(holders) = 1
     \/ holders = {} /\ \E i \in called : IsCommon(tables[i], ctes)

\* The tables the condition of a join sees.
SeenByJoin(q, j) == SubSeq(TableExprs(q), 1, Len(q.from) + j)

QueryResolves(q, schema, ctes) ==
  LET tables  == TableExprs(q)
      outputs == {item.alias : item \in ToSet(q.projection)} \ {Absent}
      inner   == Projected(q) \o q.filter \o q.having
  IN /\ \A t \in ToSet(tables) : TableExists(t, schema, ctes)
     /\ \A i, j \in DOMAIN tables :
          i # j => VisibleName(tables[i]) # VisibleName(tables[j])
     /\ \A c \in ToSet(CollectColumns(inner)) : ColumnResolves(c, tables, schema, ctes)
     /\ \A j \in DOMAIN q.joins : \A c \in ToSet(CollectColumns(q.joins[j].on)) :
          ColumnResolves(c, SeenByJoin(q, j), schema, ctes)
     /\ \A c \in ToSet(CollectColumns(q.groupBy \o q.orderBy)) :
          \/ c.qualifier = Absent /\ c.name \in outputs
          \/ ColumnResolves(c, tables, schema, ctes)

\* A query is another one or within it: none between them belongs to a later one.
Within(stmt, i, a) == i <= a /\ \A j \in i .. a - 1 : stmt[j].parent <= a

\* The common tables a query sees from outside: those before it, or before one
\* it is within, in the same WITH.
OuterNames(stmt, i) ==
  {stmt[j].name : j \in {k \in DOMAIN stmt : \E a \in DOMAIN stmt :
     Within(stmt, i, a) /\ k < a /\ stmt[k].parent = stmt[a].parent}}

NamesSeen(stmt, i) == OuterNames(stmt, i) \cup CommonNames(stmt, i)

\* Two common tables of the query's own WITH have the same name.
RepeatsCommonName(stmt, i) ==
  \E j, k \in DOMAIN stmt : /\ j # k /\ stmt[j].parent = i /\ stmt[k].parent = i
                            /\ stmt[j].name = stmt[k].name

Resolves(stmt, i, schema) ==
  /\ ~RepeatsCommonName(stmt, i)
  /\ QueryResolves(stmt[i], schema, NamesSeen(stmt, i))

\* What is selected next to an aggregate is grouped by.
Grouped(q) ==
  (\E e \in ToSet(Projected(q)) : ContainsAggregate(e)) =>
  \A item \in ToSet(q.projection) :
    \/ \E e \in ToSet(q.groupBy) :
         /\ Len(e) = 1 /\ e[1].kind = "column"
         /\ e[1].column.qualifier = Absent /\ e[1].column.name = item.alias
    \/ ToSet(WalkColumns(item.expr, TRUE)) \subseteq ToSet(CollectColumns(q.groupBy))
=============================================================================
