--------------------------- MODULE GenerateProofs ---------------------------
(***************************************************************************)
(* Proofs about the two halves of irodori-generate, which share no state.  *)
(*                                                                         *)
(* Generate, for every schema, question and answer: the verdict on a       *)
(* statement is the one the rules of SQL give, and the statement that does *)
(* as the prompt says is accepted.  The loop needs no more than that what  *)
(* was verified last decided the outcome (GenerateInv); the rest is about  *)
(* the operators: which columns an expression has, what a scope holds, how *)
(* tables are planned and joined.                                          *)
(*                                                                         *)
(* ModelCommand, for pipes of any size, prompts of any length and any      *)
(* amount of output.                                                       *)
(***************************************************************************)
EXTENDS Generate, ModelCommand, SequenceFacts, FiniteSetTheorems

\* The verdict over several checks: none of them fails.
LEMMA NoError ==
  ASSUME NEW n \in Nat, NEW errors, DOMAIN errors = 1 .. n
  PROVE  /\ FirstError(errors) = Absent <=> \A i \in 1 .. n : errors[i] = Absent
         /\ FirstError(errors) = Absent \/ \E i \in 1 .. n : FirstError(errors) = errors[i]
  <1> DEFINE found == {i \in DOMAIN errors : errors[i] # Absent}
  <1>1. CASE found = {}
    BY <1>1 DEF FirstError
  <1>2. CASE found # {}
    <2>1. found \in SUBSET (1 .. n)
      OBVIOUS
    <2>2. Min(found) \in found
      BY <1>2, <2>1, MinIsThere
    <2>3. FirstError(errors) = errors[Min(found)]
      BY <1>2 DEF FirstError
    <2>4. PICK i \in found : i = Min(found)
      BY <2>2
    <2> QED BY <2>3, <2>4
  <1> QED BY <1>1, <1>2

-----------------------------------------------------------------------------
(* The columns of expressions. *)

\* The columns of an expression are columns.
LEMMA NodesHaveColumns ==
  ASSUME NEW expr \in Exprs, NEW skip \in BOOLEAN
  PROVE  WalkColumns(expr, skip) \in Seq(Columns)
  <1>1. PICK f : f = [i \in DOMAIN expr |->
                  If(expr[i].kind = "column" /\ ~(skip /\ InAggregate(expr, i)),
                     <<expr[i].column>>)]
    OBVIOUS
  <1>2. \A i \in DOMAIN expr : f[i] \in Seq(Columns)
    <2>1. ASSUME NEW i \in DOMAIN expr PROVE f[i] \in Seq(Columns)
      <3>1. expr[i] \in Nodes
        BY DEF Exprs
      <3>2. CASE expr[i].kind = "column"
        <4>1. expr[i].column \in Columns
          BY <3>1, <3>2 DEF Nodes
        <4> QED BY <1>1, <4>1 DEF If
      <3>3. CASE expr[i].kind # "column"
        BY <1>1, <3>3 DEF If
      <3> QED BY <3>2, <3>3
    <2> QED BY <2>1
  <1>3. f \in Seq(Seq(Columns))
    <2>1. f \in [1 .. Len(expr) -> Seq(Columns)] /\ Len(expr) \in Nat
      BY <1>1, <1>2 DEF Exprs
    <2> QED BY <2>1
  <1> QED BY <1>1, <1>3, FlattenType DEF WalkColumns

\* The columns of a sequence of expressions are those of its elements.
LEMMA ColumnsOfExprs ==
  ASSUME NEW exprs \in Seq(Exprs)
  PROVE  /\ CollectColumns(exprs) \in Seq(Columns)
         /\ \A c : c \in ToSet(CollectColumns(exprs)) <=>
                   \E e \in ToSet(exprs) : c \in ToSet(WalkColumns(e, FALSE))
  <1>1. PICK f : f = [i \in DOMAIN exprs |-> WalkColumns(exprs[i], FALSE)]
    OBVIOUS
  <1>2. ASSUME NEW i \in DOMAIN exprs PROVE f[i] \in Seq(Columns)
    <2>1. exprs[i] \in Exprs
      OBVIOUS
    <2>2. WalkColumns(exprs[i], FALSE) \in Seq(Columns)
      BY <2>1, NodesHaveColumns
    <2> QED BY <1>1, <2>2
  <1>3. f \in Seq(Seq(Columns)) /\ Len(f) = Len(exprs) /\ DOMAIN exprs = 1 .. Len(exprs)
    <2>1. DOMAIN exprs = 1 .. Len(exprs) /\ Len(exprs) \in Nat
      OBVIOUS
    <2>2. PICK C : C = Seq(Columns)
      OBVIOUS
    <2>3. f \in [1 .. Len(exprs) -> C]
      BY <1>1, <1>2, <2>1, <2>2
    <2>4. f \in Seq(C) /\ Len(f) = Len(exprs)
      BY <2>1, <2>3
    <2> QED BY <2>1, <2>2, <2>4
  <1>4. CollectColumns(exprs) = FlattenSeq(f)
    BY <1>1 DEF CollectColumns
  <1>5. CollectColumns(exprs) \in Seq(Columns)
    BY <1>3, <1>4, FlattenType
  <1>6. ToSet(CollectColumns(exprs)) = UNION {ToSet(f[i]) : i \in 1 .. Len(f)}
    BY <1>3, <1>4, FlattenElements
  <1>7. ASSUME NEW c
        PROVE  c \in ToSet(CollectColumns(exprs)) <=>
                 \E i \in 1 .. Len(exprs) : c \in ToSet(WalkColumns(exprs[i], FALSE))
    BY <1>1, <1>3, <1>6, Zenon
  <1>8. ToSet(exprs) = {exprs[i] : i \in 1 .. Len(exprs)}
    BY <1>3 DEF ToSet
  <1>9. ASSUME NEW c
        PROVE  c \in ToSet(CollectColumns(exprs)) <=>
                 \E e \in ToSet(exprs) : c \in ToSet(WalkColumns(e, FALSE))
    BY <1>7, <1>8, Zenon
  <1> QED BY <1>5, <1>9

\* Two sequences of expressions have the columns of both.
LEMMA ConcatColumns ==
  ASSUME NEW a \in Seq(Exprs), NEW b \in Seq(Exprs)
  PROVE  /\ a \o b \in Seq(Exprs)
         /\ ToSet(CollectColumns(a \o b)) =
              ToSet(CollectColumns(a)) \cup ToSet(CollectColumns(b))
  <1>1. PICK c \in Seq(Exprs) : c = a \o b
    BY ConcatProperties
  <1>2. ToSet(c) = ToSet(a) \cup ToSet(b)
    BY <1>1, ConcatElements
  <1>3. \A x : x \in ToSet(CollectColumns(c)) <=>
               x \in ToSet(CollectColumns(a)) \/ x \in ToSet(CollectColumns(b))
    BY <1>2, ColumnsOfExprs
  <1> QED BY <1>1, <1>3

\* The columns of a statement: those that see all tables only, those of the
\* join conditions, and those of GROUP BY and ORDER BY.
LEMMA StatementColumns ==
  ASSUME NEW q \in Queries
  PROVE  /\ CollectStatementColumns(q) \in Seq(Columns)
         /\ Projected(q) \in Seq(Exprs) /\ JoinConditions(q) \in Seq(Exprs)
         /\ ToSet(CollectStatementColumns(q)) =
              ToSet(CollectColumns(Projected(q) \o q.filter \o q.having))
                \cup ToSet(CollectColumns(JoinConditions(q)))
                \cup ToSet(CollectColumns(q.groupBy \o q.orderBy))
         /\ ToSet(CollectColumns(q.groupBy)) \subseteq
              ToSet(CollectColumns(q.groupBy \o q.orderBy))
         /\ \A c \in ToSet(CollectStatementColumns(q)) :
              \/ c \in ToSet(CollectColumns(Projected(q)))
              \/ c \in ToSet(CollectColumns(JoinConditions(q)))
              \/ \E e \in {q.filter, q.groupBy, q.having, q.orderBy} : c \in ToSet(CollectColumns(e))
  <1>1. PICK p : p = Projected(q)
    OBVIOUS
  <1>2. p \in Seq(Exprs)
    <2>1. q.projection \in Seq([expr : Exprs, alias : Names \cup {Absent}])
      BY DEF Queries
    <2>2. PICK s \in Seq([expr : Exprs, alias : Names \cup {Absent}]) : s = q.projection
      BY <2>1
    <2>3. ASSUME NEW i \in 1 .. Len(s) PROVE s[i].expr \in Exprs
      <3>1. PICK R : R = [expr : Exprs, alias : Names \cup {Absent}]
        OBVIOUS
      <3>2. s \in Seq(R)
        BY <3>1
      <3>3. s[i] \in R
        BY <3>2
      <3> QED BY <3>1, <3>3
    <2>4. p = [i \in 1 .. Len(s) |-> s[i].expr] /\ Len(s) \in Nat
      BY <1>1, <2>2 DEF Projected
    <2>5. p \in [1 .. Len(s) -> Exprs]
      BY <2>3, <2>4
    <2> QED BY <2>4, <2>5
  <1>3. PICK o : o = JoinConditions(q)
    OBVIOUS
  <1>4. o \in Seq(Exprs)
    <2>1. q.joins \in Seq([table : TableRefs, on : Seq(Exprs)])
      BY DEF Queries
    <2>2. PICK s \in Seq([table : TableRefs, on : Seq(Exprs)]) : s = q.joins
      BY <2>1
    <2>3. PICK C : C = Seq(Exprs)
      OBVIOUS
    <2>4. ASSUME NEW i \in 1 .. Len(s) PROVE s[i].on \in C
      <3>1. PICK R : R = [table : TableRefs, on : Seq(Exprs)]
        OBVIOUS
      <3>2. s \in Seq(R)
        BY <3>1
      <3>3. s[i] \in R
        BY <3>2
      <3> QED BY <2>3, <3>1, <3>3
    <2>5. PICK f : f = [i \in DOMAIN q.joins |-> q.joins[i].on]
      OBVIOUS
    <2>6. f \in [1 .. Len(s) -> C] /\ Len(s) \in Nat
      BY <2>2, <2>4, <2>5
    <2>7. f \in Seq(Seq(Exprs))
      <3>1. f \in Seq(C)
        BY <2>6
      <3> QED BY <2>3, <3>1
    <2>8. o = FlattenSeq(f)
      BY <1>3, <2>5 DEF JoinConditions
    <2> QED BY <2>7, <2>8, FlattenType
  <1>5. q.filter \in Seq(Exprs) /\ q.groupBy \in Seq(Exprs) /\ q.having \in Seq(Exprs)
        /\ q.orderBy \in Seq(Exprs)
    BY DEF Queries
  <1>6. PICK f \in Seq(Exprs), g \in Seq(Exprs), h \in Seq(Exprs), b \in Seq(Exprs) :
          f = q.filter /\ g = q.groupBy /\ h = q.having /\ b = q.orderBy
    BY <1>5
  <1>7. PICK po \in Seq(Exprs) : po = p \o o
    BY <1>2, <1>4, ConcatProperties
  <1>8. PICK pof \in Seq(Exprs) : pof = po \o f
    BY ConcatProperties
  <1>9. PICK pf \in Seq(Exprs), pfh \in Seq(Exprs) : pf = p \o f /\ pfh = pf \o h
    <2>1. PICK x \in Seq(Exprs) : x = p \o f
      BY <1>2, ConcatProperties
    <2>2. PICK y \in Seq(Exprs) : y = x \o h
      BY ConcatProperties
    <2> QED BY <2>1, <2>2
  <1>10. PICK gb \in Seq(Exprs) : gb = g \o b
    BY ConcatProperties
  <1>11. PICK pofg \in Seq(Exprs) : pofg = pof \o g
    BY ConcatProperties
  <1>12. PICK pofgh \in Seq(Exprs) : pofgh = pofg \o h
    BY ConcatProperties
  <1>13. PICK all \in Seq(Exprs) : all = pofgh \o b
    BY ConcatProperties
  <1>14. CollectStatementColumns(q) = CollectColumns(all)
    BY <1>1, <1>3, <1>6, <1>7, <1>8, <1>11, <1>12, <1>13 DEF CollectStatementColumns
  <1>15. /\ ToSet(CollectColumns(pf)) = ToSet(CollectColumns(p)) \cup ToSet(CollectColumns(f))
         /\ ToSet(CollectColumns(pfh)) = ToSet(CollectColumns(pf)) \cup ToSet(CollectColumns(h))
         /\ ToSet(CollectColumns(gb)) = ToSet(CollectColumns(g)) \cup ToSet(CollectColumns(b))
         /\ ToSet(CollectColumns(pofg)) = ToSet(CollectColumns(pof)) \cup ToSet(CollectColumns(g))
         /\ ToSet(CollectColumns(pofgh)) = ToSet(CollectColumns(pofg)) \cup ToSet(CollectColumns(h))
         /\ ToSet(CollectColumns(all)) = ToSet(CollectColumns(pofgh)) \cup ToSet(CollectColumns(b))
    BY <1>2, <1>9, <1>10, <1>11, <1>12, <1>13, ConcatColumns
  <1>16. CollectColumns(all) \in Seq(Columns)
    BY ColumnsOfExprs
  <1>17. ToSet(CollectColumns(g)) \subseteq ToSet(CollectColumns(gb))
    BY <1>15, Zenon
  <1>18. /\ ToSet(CollectColumns(po)) = ToSet(CollectColumns(p)) \cup ToSet(CollectColumns(o))
         /\ ToSet(CollectColumns(pof)) = ToSet(CollectColumns(po)) \cup ToSet(CollectColumns(f))
    BY <1>2, <1>4, <1>7, <1>8, ConcatColumns
  <1>19. ToSet(CollectColumns(all)) = ToSet(CollectColumns(pfh)) \cup ToSet(CollectColumns(o))
                                       \cup ToSet(CollectColumns(gb))
    BY <1>15, <1>18, Zenon
  <1>20. \A c \in ToSet(CollectColumns(all)) :
           \/ c \in ToSet(CollectColumns(p)) \/ c \in ToSet(CollectColumns(o))
           \/ c \in ToSet(CollectColumns(f)) \/ c \in ToSet(CollectColumns(g))
           \/ c \in ToSet(CollectColumns(h)) \/ c \in ToSet(CollectColumns(b))
    BY <1>15, <1>18, Zenon
  <1>21. \A c \in ToSet(CollectStatementColumns(q)) :
           \/ c \in ToSet(CollectColumns(Projected(q)))
           \/ c \in ToSet(CollectColumns(JoinConditions(q)))
           \/ \E e \in {q.filter, q.groupBy, q.having, q.orderBy} : c \in ToSet(CollectColumns(e))
    BY <1>1, <1>3, <1>6, <1>14, <1>20, Zenon
  <1> QED BY <1>1, <1>2, <1>3, <1>4, <1>6, <1>9, <1>10, <1>14, <1>16, <1>19, <1>17,
             <1>21, Zenon

\* The columns of the join conditions are those of each join's.
LEMMA JoinColumns ==
  ASSUME NEW q \in Queries
  PROVE  \A c : c \in ToSet(CollectColumns(JoinConditions(q))) <=>
           \E j \in DOMAIN q.joins : c \in ToSet(CollectColumns(q.joins[j].on))
  <1>1. PICK C : C = Seq(Exprs)
    OBVIOUS
  <1>2. PICK R : R = [table : TableRefs, on : C]
    OBVIOUS
  <1>3. q.joins \in Seq(R)
    BY <1>1, <1>2 DEF Queries
  <1>4. PICK n \in Nat : DOMAIN q.joins = 1 .. n
    BY <1>3
  <1>5. ASSUME NEW i \in 1 .. n PROVE q.joins[i].on \in C
    <2>1. q.joins[i] \in R
      BY <1>3, <1>4
    <2> QED BY <1>2, <2>1
  <1>6. PICK f : f = [i \in DOMAIN q.joins |-> q.joins[i].on]
    OBVIOUS
  <1>7. f \in Seq(C) /\ Len(f) = n
    BY <1>4, <1>5, <1>6
  <1>8. JoinConditions(q) = FlattenSeq(f)
    BY <1>6 DEF JoinConditions
  <1>9. /\ JoinConditions(q) \in Seq(Exprs)
        /\ ToSet(JoinConditions(q)) = UNION {ToSet(f[i]) : i \in 1 .. n}
    BY <1>1, <1>7, <1>8, FlattenType, FlattenElements
  <1>10. ASSUME NEW c
         PROVE  c \in ToSet(CollectColumns(JoinConditions(q))) <=>
                  \E i \in 1 .. n : c \in ToSet(CollectColumns(f[i]))
    <2>1. c \in ToSet(CollectColumns(JoinConditions(q))) <=>
            \E e \in ToSet(JoinConditions(q)) : c \in ToSet(WalkColumns(e, FALSE))
      BY <1>9, ColumnsOfExprs
    <2>2. ASSUME NEW i \in 1 .. n
          PROVE  c \in ToSet(CollectColumns(f[i])) <=>
                   \E e \in ToSet(f[i]) : c \in ToSet(WalkColumns(e, FALSE))
      <3>1. f[i] \in Seq(Exprs)
        BY <1>1, <1>4, <1>5, <1>6
      <3> QED BY <3>1, ColumnsOfExprs
    <2> QED BY <1>9, <2>1, <2>2, Zenon
  <1>11. \A i \in 1 .. n : f[i] = q.joins[i].on
    BY <1>4, <1>6
  <1> QED BY <1>4, <1>10, <1>11

-----------------------------------------------------------------------------
(* The tables of a query and their names. *)

\* FROM and the joins are table expressions.
LEMMA TablesOfQuery ==
  ASSUME NEW q \in Queries
  PROVE  TableExprs(q) \in Seq(TableRefs)
  <1>1. PICK s \in Seq([table : TableRefs, on : Seq(Exprs)]) : s = q.joins
    BY DEF Queries
  <1>2. q.from \in Seq(TableRefs)
    BY DEF Queries
  <1>3. PICK j : j = [i \in DOMAIN q.joins |-> q.joins[i].table]
    OBVIOUS
  <1>4. j \in [1 .. Len(s) -> TableRefs] /\ Len(s) \in Nat
    <2>1. PICK R : R = [table : TableRefs, on : Seq(Exprs)]
      OBVIOUS
    <2>2. s \in Seq(R)
      BY <2>1
    <2>3. \A i \in 1 .. Len(s) : s[i] \in R
      BY <2>2
    <2>4. \A i \in 1 .. Len(s) : s[i].table \in TableRefs
      BY <2>1, <2>3
    <2>5. DOMAIN s = 1 .. Len(s) /\ Len(s) \in Nat
      OBVIOUS
    <2> QED BY <1>1, <1>3, <2>4, <2>5
  <1>5. j \in Seq(TableRefs)
    BY <1>4
  <1>6. TableExprs(q) = q.from \o j
    BY <1>3 DEF TableExprs
  <1> QED BY <1>2, <1>5, <1>6, ConcatProperties

\* The names of a table expression: its own and its alias.
LEMMA NamesOfTable ==
  ASSUME NEW t \in TableRefs
  PROVE  /\ NamesOf(t) = {t.object} \cup (IF t.alias # Absent THEN {t.alias} ELSE {})
         /\ NamesOf(t) \subseteq Names /\ VisibleName(t) \in NamesOf(t)
         /\ t.object \in Names /\ t.object # Absent
  <1>1. t.object \in Names /\ t.alias \in Names \cup {Absent}
    BY DEF TableRefs
  <1>2. Absent \notin Names
    BY SchemaAssumption
  <1> QED BY <1>1, <1>2 DEF NamesOf, VisibleName

\* A relation of the scope is a table by one of its names, and every name of
\* every table has one.
LEMMA ScopeHasNames ==
  ASSUME NEW q \in Queries, NEW sch, NEW ctes, NEW tables, tables = TableExprs(q),
         NEW relations, relations = BuildScope(q, sch, ctes).relations
  PROVE  /\ \A r \in relations : \E i \in DOMAIN tables :
              r.key \in NamesOf(tables[i]) /\ r.table = Resolved(tables[i], sch, ctes)
         /\ \A i \in DOMAIN tables : \A name \in NamesOf(tables[i]) :
              \E r \in relations : r.key = name
  <1>1. tables \in Seq(TableRefs) /\ DOMAIN tables = 1 .. Len(tables) /\ Len(tables) \in Nat
    <2>1. tables \in Seq(TableRefs)
      BY TablesOfQuery
    <2> QED BY <2>1
  <1>2. PICK R : R = [i \in DOMAIN tables |-> Resolved(tables[i], sch, ctes)]
    OBVIOUS
  <1>3. PICK X : X = [key : Names, table : {R[i] : i \in DOMAIN tables}]
    OBVIOUS
  <1> DEFINE Keyed(i, key) == [key |-> key, table |-> R[i]]
  <1>4. PICK f : f = [i \in DOMAIN tables |->
               <<Keyed(i, tables[i].object)>> \o
               If(tables[i].alias # Absent, <<Keyed(i, tables[i].alias)>>)]
    OBVIOUS
  <1>5. ASSUME NEW i \in DOMAIN tables
        PROVE  /\ f[i] \in Seq(X)
               /\ ToSet(f[i]) = {Keyed(i, name) : name \in NamesOf(tables[i])}
    <2>1. PICK t \in TableRefs : t = tables[i]
      BY <1>1
    <2>2. /\ NamesOf(t) = {t.object} \cup (IF t.alias # Absent THEN {t.alias} ELSE {})
          /\ NamesOf(t) \subseteq Names
      BY NamesOfTable
    <2>3. PICK a \in X : a = Keyed(i, t.object)
      BY <1>3, <2>2
    <2>4. CASE t.alias = Absent
      <3>1. f[i] = <<a>> \o << >>
        BY <1>4, <2>1, <2>3, <2>4 DEF If
      <3>2. f[i] = <<a>>
        BY <3>1
      <3>3. ToSet(f[i]) = {a} /\ f[i] \in Seq(X)
        BY <3>2 DEF ToSet
      <3>4. NamesOf(t) = {t.object}
        BY <2>2, <2>4
      <3> QED BY <2>1, <2>3, <3>3, <3>4
    <2>5. CASE t.alias # Absent
      <3>1. PICK b \in X : b = Keyed(i, t.alias)
        BY <1>3, <2>2, <2>5
      <3>2. f[i] = <<a>> \o <<b>>
        BY <1>4, <2>1, <2>3, <2>5, <3>1 DEF If
      <3>3. f[i] = <<a, b>>
        <4>1. <<a>> \in Seq(X) /\ <<b>> \in Seq(X) /\ <<a, b>> \in Seq(X)
          OBVIOUS
        <4>2. \A k \in 1 .. Len(<<a>>) : <<a, b>>[k] = <<a>>[k]
          OBVIOUS
        <4>3. \A k \in 1 .. Len(<<b>>) : <<a, b>>[Len(<<a>>) + k] = <<b>>[k]
          OBVIOUS
        <4>4. Len(<<a, b>>) = Len(<<a>>) + Len(<<b>>)
          OBVIOUS
        <4>5. <<a, b>> = <<a>> \o <<b>>
          BY <4>1, <4>2, <4>3, <4>4, IsConcat
        <4> QED BY <3>2, <4>5
      <3>4. ToSet(f[i]) = {a, b} /\ f[i] \in Seq(X)
        BY <3>3 DEF ToSet
      <3>5. NamesOf(t) = {t.object, t.alias}
        BY <2>2, <2>5
      <3> QED BY <2>1, <2>3, <3>1, <3>4, <3>5
    <2> QED BY <2>4, <2>5
  <1>6. f \in Seq(Seq(X)) /\ Len(f) = Len(tables)
    <2>1. PICK C : C = Seq(X)
      OBVIOUS
    <2>2. f \in [1 .. Len(tables) -> C]
      BY <1>1, <1>4, <1>5, <2>1
    <2>3. f \in Seq(C) /\ Len(f) = Len(tables)
      BY <1>1, <2>2
    <2> QED BY <2>1, <2>3
  <1>7. PICK keys \in Seq(X) : keys = FlattenSeq(f)
    BY <1>6, FlattenType
  <1>8. ToSet(keys) = UNION {ToSet(f[i]) : i \in 1 .. Len(f)}
    BY <1>6, <1>7, FlattenElements
  <1>9. relations = {keys[i] : i \in {j \in DOMAIN keys :
                                        \A k \in 1 .. j - 1 : keys[k].key # keys[j].key}}
    <2>1. f = [i \in DOMAIN tables |->
                 <<[key |-> tables[i].object, table |-> Resolved(tables[i], sch, ctes)]>> \o
                 If(tables[i].alias # Absent,
                    <<[key |-> tables[i].alias, table |-> Resolved(tables[i], sch, ctes)]>>)]
      BY <1>2, <1>4
    <2>2. keys = FlattenSeq([i \in DOMAIN tables |->
                 <<[key |-> tables[i].object, table |-> Resolved(tables[i], sch, ctes)]>> \o
                 If(tables[i].alias # Absent,
                    <<[key |-> tables[i].alias, table |-> Resolved(tables[i], sch, ctes)]>>)])
      BY <1>7, <2>1, Zenon
    <2>3. relations =
             LET kk == FlattenSeq([i \in DOMAIN tables |->
                   <<[key |-> tables[i].object, table |-> Resolved(tables[i], sch, ctes)]>> \o
                   If(tables[i].alias # Absent,
                      <<[key |-> tables[i].alias, table |-> Resolved(tables[i], sch, ctes)]>>)])
             IN {kk[i] : i \in {j \in DOMAIN kk :
                                  \A k \in 1 .. j - 1 : kk[k].key # kk[j].key}}
      BY DEF BuildScope
    <2>4. PICK kk : kk = FlattenSeq([i \in DOMAIN tables |->
                   <<[key |-> tables[i].object, table |-> Resolved(tables[i], sch, ctes)]>> \o
                   If(tables[i].alias # Absent,
                      <<[key |-> tables[i].alias, table |-> Resolved(tables[i], sch, ctes)]>>)])
      OBVIOUS
    <2>5. kk = keys
      BY <2>2, <2>4, Zenon
    <2>6. relations = {kk[i] : i \in {j \in DOMAIN kk :
                                  \A k \in 1 .. j - 1 : kk[k].key # kk[j].key}}
      BY <2>3, <2>4
    <2> QED BY <2>5, <2>6
  <1>10. ASSUME NEW r \in relations
         PROVE  \E i \in DOMAIN tables : r.key \in NamesOf(tables[i])
                                         /\ r.table = Resolved(tables[i], sch, ctes)
    <2>1. r \in ToSet(keys)
      BY <1>9 DEF ToSet
    <2>2. PICK i \in DOMAIN tables : r \in ToSet(f[i])
      BY <1>1, <1>6, <1>8, <2>1
    <2>3. PICK name \in NamesOf(tables[i]) : r = Keyed(i, name)
      BY <1>5, <2>2
    <2> QED BY <1>2, <2>3
  <1>11. ASSUME NEW i \in DOMAIN tables, NEW name \in NamesOf(tables[i])
         PROVE  \E r \in relations : r.key = name
    <2>1. Keyed(i, name) \in ToSet(keys)
      BY <1>1, <1>5, <1>6, <1>8
    <2>2. PICK k \in DOMAIN keys : keys[k] = Keyed(i, name)
      BY <2>1 DEF ToSet
    <2>3. PICK same : same = {j \in DOMAIN keys : keys[j].key = name}
      OBVIOUS
    <2>4. DOMAIN keys = 1 .. Len(keys) /\ Len(keys) \in Nat
      OBVIOUS
    <2>5. same \in SUBSET (1 .. Len(keys)) /\ same # {}
      BY <2>2, <2>3, <2>4
    <2>6. PICK m : m = Min(same)
      OBVIOUS
    <2>7. m \in same /\ \A j \in same : m <= j
      BY <2>4, <2>5, <2>6, MinIsThere
    <2>8. ASSUME NEW j \in 1 .. m - 1 PROVE keys[j].key # keys[m].key
      <3>1. j \in DOMAIN keys /\ j < m
        BY <2>3, <2>4, <2>7
      <3>2. j \notin same
        BY <2>3, <2>4, <2>7, <3>1
      <3> QED BY <2>3, <2>7, <3>1, <3>2
    <2>9. keys[m] \in relations
      BY <1>9, <2>3, <2>7, <2>8
    <2> QED BY <2>3, <2>7, <2>9
  <1> QED BY <1>10, <1>11

\* Where no two tables share a name, a name of the scope is one table's.
LEMMA OneTableByName ==
  ASSUME NEW q \in Queries, NEW sch, NEW ctes, ~SharesNames(q),
         NEW i \in DOMAIN TableExprs(q), NEW name \in NamesOf(TableExprs(q)[i])
  PROVE  {r.table : r \in {s \in BuildScope(q, sch, ctes).relations : s.key = name}}
           = {Resolved(TableExprs(q)[i], sch, ctes)}
  <1>1. PICK tables : tables = TableExprs(q)
    OBVIOUS
  <1>2. PICK relations : relations = BuildScope(q, sch, ctes).relations
    OBVIOUS
  <1>3. PICK x : x = Resolved(tables[i], sch, ctes)
    OBVIOUS
  <1>4. PICK r \in relations : r.key = name
    BY <1>1, <1>2, ScopeHasNames
  <1>5. ASSUME NEW s \in relations, s.key = name PROVE s.table = x
    <2>1. PICK j \in DOMAIN tables :
            s.key \in NamesOf(tables[j]) /\ s.table = Resolved(tables[j], sch, ctes)
      BY <1>1, <1>2, ScopeHasNames
    <2>2. i = j
      BY <1>1, <1>5, <2>1 DEF SharesNames
    <2> QED BY <1>3, <2>1, <2>2
  <1>6. {t.table : t \in {s \in relations : s.key = name}} = {x}
    BY <1>4, <1>5
  <1> QED BY <1>1, <1>2, <1>3, <1>6

-----------------------------------------------------------------------------
(* The tables of the schema that a query names. *)

\* The index has a table of every name of the schema.
LEMMA IndexOfSchema ==
  ASSUME NEW sch \in Schemas, NEW name
  PROVE  /\ IndexTable(sch, name) = Absent <=> Named(sch, name) = {}
         /\ Named(sch, name) # {} =>
              /\ Min(Named(sch, name)) \in Named(sch, name)
              /\ IndexTable(sch, name) = sch[Min(Named(sch, name))]
              /\ IndexTable(sch, name).name = name
              /\ IndexTable(sch, name) \in ToSet(sch)
  <1>1. sch \in Seq(Tables) /\ \A t \in ToSet(sch) : t # Absent
    BY SchemaAssumption
  <1>2. PICK s : s = Named(sch, name)
    OBVIOUS
  <1>3. CASE s = {}
    BY <1>2, <1>3 DEF IndexTable
  <1>4. CASE s # {}
    <2>1. s \in SUBSET (1 .. Len(sch)) /\ Len(sch) \in Nat
      BY <1>1, <1>2 DEF Named
    <2>2. Min(s) \in s
      BY <1>4, <2>1, MinIsThere
    <2>3. PICK i \in s : i = Min(s)
      BY <2>2
    <2>4. i \in DOMAIN sch /\ sch[i].name = name
      BY <1>2 DEF Named
    <2>5. IndexTable(sch, name) = sch[i]
      BY <1>2, <1>4, <2>3 DEF IndexTable
    <2>6. sch[i] \in ToSet(sch)
      BY <2>4 DEF ToSet
    <2>7. sch[i] # Absent
      BY <1>1, <2>6
    <2> QED BY <1>2, <1>4, <2>2, <2>3, <2>4, <2>5, <2>6, <2>7
  <1> QED BY <1>3, <1>4

\* A table that is not called by a schema.
LEMMA UnqualifiedTable ==
  ASSUME schema \in Schemas, NEW t \in TableRefs, t.schema = Absent, NEW names, NEW name
  PROVE  /\ IsCommon(t, names) <=> t.object \in names
         /\ TableExists(t, schema, names) <=>
              t.object \in names \/ IndexTable(schema, t.object) # Absent
         /\ Offers(t, schema, names, name) <=>
              /\ t.object \notin names
              /\ IndexTable(schema, t.object) # Absent
              /\ HasColumn(IndexTable(schema, t.object), name)
  <1>1. PICK s : s = Named(schema, t.object)
    OBVIOUS
  <1>2. PICK found : found = IndexTable(schema, t.object)
    OBVIOUS
  <1>3. /\ found = Absent <=> s = {}
        /\ s # {} => Min(s) \in s /\ found = schema[Min(s)]
    BY <1>1, <1>2, IndexOfSchema
  <1>4. IsCommon(t, names) <=> t.object \in names
    BY DEF IsCommon
  <1>5. TableExists(t, schema, names) <=> t.object \in names \/ found # Absent
    BY <1>1, <1>3, <1>4 DEF TableExists
  <1>6. Offers(t, schema, names, name) <=>
          t.object \notin names /\ found # Absent /\ HasColumn(found, name)
    <2>1. Offers(t, schema, names, name) <=>
            t.object \notin names /\ \E i \in s : i = Min(s) /\ HasColumn(schema[i], name)
      BY <1>1, <1>4 DEF Offers
    <2> QED BY <1>3, <2>1
  <1> QED BY <1>2, <1>4, <1>5, <1>6

\* Where no two tables share a name, the tables that have a column are as many
\* as the relations that offer it.
LEMMA MatchingTables ==
  ASSUME schema \in Schemas, NEW q \in Queries, ~SharesNames(q), ~NamesASchema(q),
         NEW ctes, NEW name
  PROVE  Cardinality({t \in KnownTables(BuildScope(q, schema, ctes)) : HasColumn(t, name)}) = 1
           <=> Cardinality({i \in DOMAIN TableExprs(q) :
                              Offers(TableExprs(q)[i], schema, ctes, name)}) = 1
  <1>1. PICK tables, scope, matching, offering :
          /\ tables = TableExprs(q) /\ scope = BuildScope(q, schema, ctes)
          /\ matching = {t \in KnownTables(scope) : HasColumn(t, name)}
          /\ offering = {i \in DOMAIN tables : Offers(tables[i], schema, ctes, name)}
    OBVIOUS
  <1>2. tables \in Seq(TableRefs) /\ DOMAIN tables = 1 .. Len(tables) /\ Len(tables) \in Nat
    <2>1. tables \in Seq(TableRefs)
      BY <1>1, TablesOfQuery
    <2> QED BY <2>1
  <1>3. ASSUME NEW i \in DOMAIN tables
        PROVE  tables[i] \in TableRefs /\ tables[i].schema = Absent
    <2>1. tables[i] \in TableRefs /\ tables[i] \in ToSet(tables)
      BY <1>2 DEF ToSet
    <2> QED BY <1>1, <2>1 DEF NamesASchema
  <1> DEFINE Found(i) == IndexTable(schema, tables[i].object)
  <1>4. \A i \in DOMAIN tables :
          i \in offering <=> /\ tables[i].object \notin ctes
                             /\ Found(i) # Absent /\ HasColumn(Found(i), name)
    BY <1>1, <1>3, UnqualifiedTable
  <1>5. \A i \in offering : Found(i) \in matching
    <2>1. SUFFICES ASSUME NEW i \in offering PROVE Found(i) \in matching
      OBVIOUS
    <2>2. i \in DOMAIN tables
      BY <1>1
    <2>3. tables[i].object \in NamesOf(tables[i])
      BY <1>3, <2>2, NamesOfTable
    <2>4. {r.table : r \in {s \in scope.relations : s.key = tables[i].object}}
            = {Resolved(tables[i], schema, ctes)}
      <3>1. PICK own : own = tables[i].object
        OBVIOUS
      <3>2. i \in DOMAIN TableExprs(q) /\ own \in NamesOf(TableExprs(q)[i])
        BY <1>1, <2>2, <2>3, <3>1
      <3>3. {r.table : r \in {s \in BuildScope(q, schema, ctes).relations : s.key = own}}
              = {Resolved(TableExprs(q)[i], schema, ctes)}
        BY <3>2, OneTableByName
      <3> QED BY <1>1, <3>1, <3>3, Zenon
    <2>5. \E r \in scope.relations : r.table = Resolved(tables[i], schema, ctes)
      BY <2>4
    <2>6. Resolved(tables[i], schema, ctes) = Found(i) /\ Found(i) # Absent
          /\ HasColumn(Found(i), name)
      BY <1>4, <2>2 DEF Resolved
    <2> QED BY <1>1, <2>5, <2>6 DEF KnownTables
  <1>6. \A t \in matching : \E i \in offering : t = Found(i)
    <2>1. SUFFICES ASSUME NEW t \in matching PROVE \E i \in offering : t = Found(i)
      OBVIOUS
    <2>2. PICK r \in scope.relations : t = r.table /\ t # Absent /\ HasColumn(t, name)
      BY <1>1 DEF KnownTables
    <2>3. PICK i \in DOMAIN tables : r.table = Resolved(tables[i], schema, ctes)
      BY <1>1, ScopeHasNames
    <2>4. t = Found(i) /\ tables[i].object \notin ctes
      BY <2>2, <2>3 DEF Resolved
    <2> QED BY <1>1, <1>4, <2>2, <2>4
  <1>7. \A i, j \in offering : Found(i) = Found(j) => i = j
    <2>1. SUFFICES ASSUME NEW i \in offering, NEW j \in offering, Found(i) = Found(j), i # j
                   PROVE  FALSE
      OBVIOUS
    <2>2. i \in DOMAIN tables /\ j \in DOMAIN tables /\ Found(i) # Absent /\ Found(j) # Absent
      BY <1>1, <1>4
    <2>3. Found(i).name = tables[i].object /\ Found(j).name = tables[j].object
      BY <2>2, IndexOfSchema
    <2>4. tables[i].object = tables[j].object
      BY <2>1, <2>3
    <2>5. tables[i].object \in NamesOf(tables[i]) /\ tables[j].object \in NamesOf(tables[j])
      BY <1>3, <2>2, NamesOfTable
    <2> QED BY <1>1, <2>1, <2>2, <2>4, <2>5 DEF SharesNames
  <1> HIDE DEF Found
  <1>8. IsFiniteSet(offering)
    <2>1. offering \subseteq 1 .. Len(tables)
      BY <1>1, <1>2
    <2>2. IsFiniteSet(1 .. Len(tables))
      BY <1>2, FS_Interval
    <2> QED BY <2>1, <2>2, FS_Subset
  <1>9. IsFiniteSet(matching)
    <2>1. PICK f : f = [i \in offering |-> Found(i)]
      OBVIOUS
    <2>2. f \in Surjection(offering, matching)
      BY <1>5, <1>6, <2>1 DEF Surjection
    <2> QED BY <1>8, <2>2, FS_Surjection
  <1>10. Cardinality(offering) = 1 <=> \E i : offering = {i}
    BY <1>8, FS_Singleton
  <1>11. Cardinality(matching) = 1 <=> \E t : matching = {t}
    BY <1>9, FS_Singleton
  <1>12. ASSUME NEW i, offering = {i} PROVE \E t : matching = {t}
    <2>1. i \in offering
      BY <1>12
    <2>2. Found(i) \in matching
      BY <1>5, <2>1
    <2>3. \A t \in matching : t = Found(i)
      BY <1>6, <1>12
    <2>4. matching = {Found(i)}
      BY <2>2, <2>3
    <2> QED BY <2>4
  <1>13. ASSUME NEW t, matching = {t} PROVE \E i : offering = {i}
    <2>1. PICK i \in offering : t = Found(i)
      BY <1>6, <1>13
    <2>2. \A j \in offering : j = i
      BY <1>5, <1>7, <1>13, <2>1
    <2> QED BY <2>1, <2>2
  <1> QED BY <1>1, <1>10, <1>11, <1>12, <1>13

-----------------------------------------------------------------------------
(* The verdict on one query. *)

\* A rejection is not an acceptance.
LEMMA VerdictValues ==
  /\ Absent # Error("unknown table") /\ Absent # Error("unknown qualifier")
  /\ Absent # Error("unknown column") /\ Absent # Error("ambiguous column")
  /\ Absent # Error("not grouped")
  BY SchemaAssumption DEF Errors

\* A column and the groups are accepted or rejected for one of the reasons.
LEMMA VerdictTypes ==
  ASSUME NEW q, NEW c, NEW scope
  PROVE  /\ ValidateColumn(c, scope) \in Errors \cup {Absent}
         /\ ValidateGroupBy(q) \in Errors \cup {Absent}
  <1>1. /\ Error("unknown qualifier") \in Errors /\ Error("unknown column") \in Errors
        /\ Error("ambiguous column") \in Errors /\ Error("not grouped") \in Errors
    BY DEF Errors
  <1>2. ValidateQualified(c, scope) \in Errors \cup {Absent}
    BY <1>1 DEF ValidateQualified
  <1>3. ValidateUnqualified(c, scope) \in Errors \cup {Absent}
    BY <1>1 DEF ValidateUnqualified
  <1>4. ValidateGroupBy(q) \in Errors \cup {Absent}
    BY <1>1 DEF ValidateGroupBy
  <1> QED BY <1>2, <1>3, <1>4 DEF ValidateColumn

\* A query is accepted when its tables are known, each of its columns is
\* accepted, and what it selects next to an aggregate is grouped.
LEMMA QueryVerdict ==
  ASSUME NEW q \in Queries, NEW sch, NEW ctes
  PROVE  /\ VerifyQuery(q, sch, ctes) \in Errors \cup {Absent}
         /\ VerifyQuery(q, sch, ctes) = Absent <=>
              /\ ~UnknownTable(q, sch, ctes)
              /\ \A c \in ToSet(CollectStatementColumns(q)) :
                   ValidateColumn(c, BuildScope(q, sch, ctes)) = Absent
              /\ ValidateGroupBy(q) = Absent
  <1>1. PICK columns : columns = CollectStatementColumns(q)
    OBVIOUS
  <1>2. PICK n \in Nat : DOMAIN columns = 1 .. n
    <2>1. columns \in Seq(Columns)
      BY <1>1, StatementColumns
    <2> QED BY <2>1
  <1>3. PICK scope : scope = BuildScope(q, sch, ctes)
    OBVIOUS
  <1>4. Absent # Error("unknown table") /\ Absent # Error("not grouped")
    BY SchemaAssumption DEF Errors
  <1>5. PICK last : last = ValidateGroupBy(q)
    OBVIOUS
  <1>6. PICK V : V = {ValidateColumn(columns[i], scope) : i \in 1 .. n} \cup {last}
    OBVIOUS
  <1>7. PICK e : e = [i \in DOMAIN columns |-> ValidateColumn(columns[i], scope)]
    OBVIOUS
  <1>8. e \in Seq(V) /\ Len(e) = n
    <2>1. e \in [1 .. n -> V]
      BY <1>2, <1>6, <1>7
    <2> QED BY <2>1
  <1>9. PICK one \in Seq(V) : one = <<last>>
    <2>1. last \in V
      BY <1>6
    <2>2. <<last>> \in Seq(V)
      BY <2>1
    <2> QED BY <2>2
  <1>10. PICK all \in Seq(V) : all = e \o one
    BY <1>8, ConcatProperties
  <1>11. /\ DOMAIN all = 1 .. n + 1 /\ all[n + 1] = last
         /\ \A i \in 1 .. n : all[i] = ValidateColumn(columns[i], scope)
    <2>1. Len(one) = 1 /\ one[1] = last
      BY <1>9
    <2>2. Len(e) \in Nat /\ Len(all) = Len(e) + Len(one) /\ DOMAIN all = 1 .. Len(all)
      <3>1. Len(e \o one) = Len(e) + Len(one)
        BY <1>8, ConcatProperties
      <3>2. Len(e) \in Nat
        BY <1>8
      <3>3. DOMAIN all = 1 .. Len(all)
        OBVIOUS
      <3> QED BY <1>10, <3>1, <3>2, <3>3
    <2>3. Len(all) = n + 1 /\ DOMAIN all = 1 .. Len(all)
      BY <1>8, <2>2, <2>1
    <2>4. \A i \in 1 .. n : all[i] = e[i]
      BY <1>8, <1>10
    <2>5. all[n + 1] = last
      <3>1. all[Len(e) + 1] = one[1]
        <4>1. Len(e) + 1 \in 1 .. Len(e) + Len(one)
          BY <2>2, <2>1
        <4>2. (e \o one)[Len(e) + 1] =
                IF Len(e) + 1 <= Len(e) THEN e[Len(e) + 1] ELSE one[Len(e) + 1 - Len(e)]
          BY <1>8, <4>1, ConcatProperties
        <4>3. ~(Len(e) + 1 <= Len(e)) /\ Len(e) + 1 - Len(e) = 1
          BY <2>2
        <4> QED BY <1>10, <4>2, <4>3
      <3> QED BY <1>8, <2>1, <3>1
    <2> QED BY <1>2, <1>7, <2>3, <2>4, <2>5
  <1>12. FirstError(all) = Absent <=> \A i \in 1 .. n + 1 : all[i] = Absent
    BY <1>11, NoError
  <1>13. (\A i \in 1 .. n + 1 : all[i] = Absent) <=>
           last = Absent /\ \A i \in 1 .. n : ValidateColumn(columns[i], scope) = Absent
    <2>1. \A i \in 1 .. n + 1 : i \in 1 .. n \/ i = n + 1
      OBVIOUS
    <2>2. n + 1 \in 1 .. n + 1 /\ \A i \in 1 .. n : i \in 1 .. n + 1
      OBVIOUS
    <2> QED BY <1>11, <2>1, <2>2, Zenon
  <1>14. ToSet(columns) = {columns[i] : i \in 1 .. n}
    BY <1>2 DEF ToSet
  <1>15. (\A i \in 1 .. n : ValidateColumn(columns[i], scope) = Absent) <=>
           \A c \in ToSet(columns) : ValidateColumn(c, scope) = Absent
    BY <1>14, Zenon
  <1>16. VerifyQuery(q, sch, ctes) =
           IF UnknownTable(q, sch, ctes) THEN Error("unknown table") ELSE FirstError(all)
    BY <1>1, <1>3, <1>5, <1>7, <1>9, <1>10, Zenon DEF VerifyQuery
  <1>17. FirstError(all) \in Errors \cup {Absent}
    <2>1. FirstError(all) = Absent \/ \E i \in 1 .. n + 1 : FirstError(all) = all[i]
      BY <1>11, NoError
    <2>2. ASSUME NEW i \in 1 .. n + 1 PROVE all[i] \in Errors \cup {Absent}
      <3>1. i \in 1 .. n \/ i = n + 1
        OBVIOUS
      <3> QED BY <1>5, <1>11, <3>1, VerdictTypes
    <2> QED BY <2>1, <2>2
  <1>18. Error("unknown table") \in Errors
    BY DEF Errors
  <1>19. VerifyQuery(q, sch, ctes) \in Errors \cup {Absent}
    BY <1>16, <1>17, <1>18
  <1>20. VerifyQuery(q, sch, ctes) = Absent <=>
           /\ ~UnknownTable(q, sch, ctes) /\ last = Absent
           /\ \A c \in ToSet(columns) : ValidateColumn(c, scope) = Absent
    BY <1>4, <1>12, <1>13, <1>15, <1>16, Zenon
  <1> QED BY <1>1, <1>3, <1>5, <1>19, <1>20, Zenon

\* The scope of a query in the words of its tables.
LEMMA ScopeOfQuery ==
  ASSUME NEW q \in Queries, NEW sch, NEW ctes, NEW scope, scope = BuildScope(q, sch, ctes)
  PROVE  /\ scope.opaque <=> \E t \in ToSet(TableExprs(q)) : t.object \in ctes
         /\ scope.aliases = {item.alias : item \in ToSet(q.projection)} \ {Absent}
  BY DEF BuildScope

\* A qualified column is accepted where the table of that name may have it.
LEMMA QualifiedColumn ==
  ASSUME schema \in Schemas, NEW q \in Queries, ~SharesNames(q), NEW ctes,
         NEW tables, tables = TableExprs(q),
         NEW i \in DOMAIN tables, NEW c, c.qualifier \in NamesOf(tables[i])
  PROVE  ValidateColumn(c, BuildScope(q, schema, ctes)) = Absent <=>
           \/ tables[i].object \in ctes
           \/ IndexTable(schema, tables[i].object) = Absent
           \/ HasColumn(IndexTable(schema, tables[i].object), c.name)
  <1>1. PICK scope : scope = BuildScope(q, schema, ctes)
    OBVIOUS
  <1>2. PICK found : found = {r.table : r \in {s \in scope.relations : s.key = c.qualifier}}
    OBVIOUS
  <1>3. found = {Resolved(tables[i], schema, ctes)}
    <2>1. PICK name \in NamesOf(tables[i]) : name = c.qualifier
      OBVIOUS
    <2>2. PICK relations : relations = BuildScope(q, schema, ctes).relations
      OBVIOUS
    <2>3. {r.table : r \in {s \in relations : s.key = name}} = {Resolved(tables[i], schema, ctes)}
      BY <2>1, <2>2, OneTableByName
    <2> QED BY <1>1, <1>2, <2>1, <2>2, <2>3, Zenon
  <1>4. c.qualifier # Absent
    BY DEF NamesOf
  <1>5. PICK t : t = Resolved(tables[i], schema, ctes)
    OBVIOUS
  <1>6. ValidateColumn(c, scope) = ValidateQualified(c, scope)
    BY <1>4 DEF ValidateColumn
  <1>7. ValidateQualified(c, scope) =
          IF found = {} THEN Error("unknown qualifier")
          ELSE IF \A table \in found : table = Absent \/ HasColumn(table, c.name)
          THEN Absent ELSE Error("unknown column")
    BY <1>2, Zenon DEF ValidateQualified
  <1>8. ValidateQualified(c, scope) = Absent <=> t = Absent \/ HasColumn(t, c.name)
    BY <1>3, <1>5, <1>7, VerdictValues
  <1> QED BY <1>1, <1>5, <1>6, <1>8 DEF Resolved

\* A column that is named without a table is accepted where it is an output
\* name, where one table has it, where a table is opaque or none is known.
LEMMA UnqualifiedColumn ==
  ASSUME schema \in Schemas, NEW q \in Queries, ~SharesNames(q), ~NamesASchema(q),
         NEW ctes, NEW c, c.qualifier = Absent,
         NEW tables, tables = TableExprs(q),
         NEW scope, scope = BuildScope(q, schema, ctes),
         NEW offering,
         offering = {i \in DOMAIN tables : Offers(tables[i], schema, ctes, c.name)}
  PROVE  ValidateColumn(c, scope) = Absent <=>
           \/ c.name \in scope.aliases \/ Cardinality(offering) = 1
           \/ scope.opaque \/ KnownTables(scope) = {}
  <1>1. PICK matching : matching = {t \in KnownTables(scope) : HasColumn(t, c.name)}
    OBVIOUS
  <1>2. Cardinality(matching) = 1 <=> Cardinality(offering) = 1
    BY <1>1, MatchingTables
  <1>3. ValidateColumn(c, scope) = ValidateUnqualified(c, scope)
    BY DEF ValidateColumn
  <1>4. ValidateUnqualified(c, scope) =
          IF \/ c.name \in scope.aliases \/ Cardinality(matching) = 1
             \/ scope.opaque \/ KnownTables(scope) = {}
          THEN Absent
          ELSE Error(IF matching = {} THEN "unknown column" ELSE "ambiguous column")
    BY <1>1, Zenon DEF ValidateUnqualified
  <1>5. PICK b \in BOOLEAN : b <=> \/ c.name \in scope.aliases \/ Cardinality(offering) = 1
                                  \/ scope.opaque \/ KnownTables(scope) = {}
    OBVIOUS
  <1>6. CASE b
    BY <1>2, <1>3, <1>4, <1>5, <1>6, Zenon
  <1>7. CASE ~b
    <2>1. ValidateUnqualified(c, scope) =
            Error(IF matching = {} THEN "unknown column" ELSE "ambiguous column")
      BY <1>2, <1>4, <1>5, <1>7, Zenon
    <2>2. ValidateUnqualified(c, scope) # Absent
      BY <2>1, VerdictValues
    <2> QED BY <1>3, <1>5, <1>7, <2>2, Zenon
  <1> QED BY <1>6, <1>7

-----------------------------------------------------------------------------
(* What is accepted resolves. *)

\* Where no two tables share a name, at most one of them is called by it.
LEMMA VisibleNamesDiffer ==
  ASSUME NEW q \in Queries, ~SharesNames(q)
  PROVE  \A i, j \in DOMAIN TableExprs(q) :
           VisibleName(TableExprs(q)[j]) \in NamesOf(TableExprs(q)[i]) => i = j
  <1>1. TableExprs(q) \in Seq(TableRefs)
    BY TablesOfQuery
  <1>2. PICK tables \in Seq(TableRefs) : tables = TableExprs(q)
    BY <1>1
  <1>3. SUFFICES ASSUME NEW i \in DOMAIN tables, NEW j \in DOMAIN tables,
                        VisibleName(tables[j]) \in NamesOf(tables[i])
                 PROVE  i = j
    BY <1>2
  <1>4. tables[j] \in TableRefs
    OBVIOUS
  <1>5. VisibleName(tables[j]) \in NamesOf(tables[j])
    BY <1>4, NamesOfTable
  <1> QED BY <1>2, <1>3, <1>5 DEF SharesNames

\* The tables of a query that calls none by its schema.
LEMMA PlainTables ==
  ASSUME schema \in Schemas, NEW q \in Queries, ~NamesASchema(q),
         NEW i \in DOMAIN TableExprs(q)
  PROVE  /\ TableExprs(q)[i] \in TableRefs /\ TableExprs(q)[i].schema = Absent
         /\ TableExprs(q)[i] \in ToSet(TableExprs(q))
  <1>1. TableExprs(q) \in Seq(TableRefs)
    BY TablesOfQuery
  <1>2. PICK tables \in Seq(TableRefs) : tables = TableExprs(q)
    BY <1>1
  <1>3. tables[i] \in TableRefs /\ tables[i] \in ToSet(tables)
    BY <1>2 DEF ToSet
  <1> QED BY <1>2, <1>3 DEF NamesASchema

\* A column may be one of a table's, and the table has it.
MayBeOf(t, names, c) ==
  c.qualifier \in {Absent, VisibleName(t)} /\ Offers(t, schema, names, c.name)

\* A column that one table has resolves.
LEMMA OneTableHasIt ==
  ASSUME NEW tables, NEW names, NEW c, NEW i \in DOMAIN tables,
         \A j \in DOMAIN tables : MayBeOf(tables[j], names, c) <=> j = i
  PROVE  ColumnResolves(c, tables, schema, names)
  <1>1. PICK called : called = {j \in DOMAIN tables :
                                  c.qualifier \in {Absent, VisibleName(tables[j])}}
    OBVIOUS
  <1>2. PICK holders : holders = {j \in called : Offers(tables[j], schema, names, c.name)}
    OBVIOUS
  <1>3. holders = {i}
    <2>1. \A j : j \in holders <=> j \in DOMAIN tables /\ MayBeOf(tables[j], names, c)
      BY <1>1, <1>2, Zenon DEF MayBeOf
    <2> QED BY <2>1
  <1>4. Cardinality(holders) = 1
    BY <1>3, FS_Singleton
  <1> QED BY <1>1, <1>2, <1>4, Zenon DEF ColumnResolves

\* The tables a join condition sees are the first ones; the others are joined
\* later.
LEMMA TablesSoFar ==
  ASSUME NEW q \in Queries, NEW j \in DOMAIN q.joins
  PROVE  /\ \A i \in DOMAIN SeenByJoin(q, j) :
              i \in DOMAIN TableExprs(q) /\ SeenByJoin(q, j)[i] = TableExprs(q)[i]
         /\ \A i \in DOMAIN TableExprs(q) : i \notin DOMAIN SeenByJoin(q, j) =>
              \E k \in DOMAIN q.joins : j < k /\ TableExprs(q)[i] = q.joins[k].table
  <1>1. PICK R : R = [table : TableRefs, on : Seq(Exprs)]
    OBVIOUS
  <1>2. q.joins \in Seq(R) /\ q.from \in Seq(TableRefs)
    BY <1>1 DEF Queries
  <1>3. PICK s \in Seq(R), from \in Seq(TableRefs) : s = q.joins /\ from = q.from
    BY <1>2
  <1>4. PICK n \in Nat, m \in Nat : DOMAIN s = 1 .. n /\ m = Len(from)
    OBVIOUS
  <1>5. PICK f : f = [i \in DOMAIN s |-> s[i].table]
    OBVIOUS
  <1>6. f \in Seq(TableRefs) /\ Len(f) = n
    <2>1. ASSUME NEW i \in 1 .. n PROVE s[i].table \in TableRefs
      <3>1. s[i] \in R
        BY <1>4
      <3> QED BY <1>1, <3>1
    <2>2. f \in [1 .. n -> TableRefs]
      BY <1>4, <1>5, <2>1
    <2> QED BY <2>2
  <1>7. PICK tables \in Seq(TableRefs) : tables = from \o f
    BY <1>6, ConcatProperties
  <1>8. TableExprs(q) = tables
    BY <1>3, <1>5, <1>7 DEF TableExprs
  <1>9. Len(tables) = m + n /\ \A i \in 1 .. m + n : i > m => tables[i] = f[i - m]
    <2>1. /\ Len(from \o f) = Len(from) + Len(f)
          /\ \A i \in 1 .. Len(from) + Len(f) :
               (from \o f)[i] = IF i <= Len(from) THEN from[i] ELSE f[i - Len(from)]
      BY <1>6, ConcatProperties
    <2>2. \A i \in 1 .. m + n : i > m => ~(i <= m)
      OBVIOUS
    <2> QED BY <1>4, <1>6, <1>7, <2>1, <2>2
  <1>10. j \in 1 .. n /\ m + j \in Nat /\ m + j <= m + n
    BY <1>3, <1>4
  <1>11. PICK seen : seen = SubSeq(tables, 1, m + j)
    OBVIOUS
  <1>12. seen = SeenByJoin(q, j)
    BY <1>3, <1>4, <1>8, <1>11 DEF SeenByJoin
  <1>13. DOMAIN seen = 1 .. m + j /\ \A i \in 1 .. m + j : seen[i] = tables[i]
    <2>1. seen = [i \in 1 .. m + j |-> tables[i]]
      BY <1>9, <1>10, <1>11
    <2> QED BY <2>1
  <1>14. DOMAIN tables = 1 .. m + n
    BY <1>9
  <1>15. \A i \in DOMAIN seen : i \in DOMAIN tables /\ seen[i] = tables[i]
    BY <1>10, <1>13, <1>14
  <1>16. ASSUME NEW i \in DOMAIN tables, i \notin DOMAIN seen
         PROVE  \E k \in DOMAIN s : j < k /\ tables[i] = s[k].table
    <2>1. PICK k \in 1 .. n : k = i - m /\ j < k
      BY <1>10, <1>13, <1>14, <1>16
    <2>2. tables[i] = f[k]
      BY <1>9, <1>10, <1>14, <2>1
    <2> QED BY <1>4, <1>5, <2>1, <2>2
  <1> QED BY <1>3, <1>8, <1>12, <1>15, <1>16, Zenon

\* A column of a join condition may be none of a later table's.
LEMMA NoneAhead ==
  ASSUME NEW q \in Queries, NEW names, ~NamesAhead(q, names),
         NEW j \in DOMAIN q.joins, NEW c \in ToSet(CollectColumns(q.joins[j].on)),
         NEW i \in DOMAIN TableExprs(q), MayBeOf(TableExprs(q)[i], names, c)
  PROVE  i \in DOMAIN SeenByJoin(q, j)
  <1>1. SUFFICES ASSUME i \notin DOMAIN SeenByJoin(q, j) PROVE FALSE
    OBVIOUS
  <1>2. PICK k \in DOMAIN q.joins : j < k /\ TableExprs(q)[i] = q.joins[k].table
    BY <1>1, TablesSoFar
  <1> QED BY <1>2 DEF MayBeOf, NamesAhead

\* One of a query's tables has the column.
OfOneTable(q, names, c) ==
  \E i \in DOMAIN TableExprs(q) : \A j \in DOMAIN TableExprs(q) :
    MayBeOf(TableExprs(q)[j], names, c) <=> j = i

\* A column of an accepted query is that of one of its tables.
LEMMA AcceptedColumnIsOfOne ==
  ASSUME schema \in Schemas, NEW q \in Queries, NEW ctes, NEW outer,
         VerifyQuery(q, schema, ctes) = Absent, ~MoreIsAccepted(q, outer \cup ctes),
         NEW c \in ToSet(CollectStatementColumns(q))
  PROVE  OfOneTable(q, outer \cup ctes, c)
  <1>1. PICK tables, scope, names :
          /\ tables = TableExprs(q) /\ scope = BuildScope(q, schema, ctes)
          /\ names = outer \cup ctes
    OBVIOUS
  <1> SUFFICES \E i \in DOMAIN tables : \A j \in DOMAIN tables :
                 MayBeOf(tables[j], names, c) <=> j = i
    BY <1>1 DEF OfOneTable
  <1>2. ~SharesNames(q) /\ ~NamesASchema(q) /\ ~ReadsFromCommonTable(q, names)
    BY <1>1 DEF MoreIsAccepted
  <1>3. \A i \in DOMAIN tables : tables[i] \in TableRefs /\ tables[i].schema = Absent
                                /\ tables[i] \in ToSet(tables)
    BY <1>1, <1>2, PlainTables
  <1> DEFINE Found(i) == IndexTable(schema, tables[i].object)
  <1>4. \A i \in DOMAIN tables : tables[i].object \in ctes \/ Found(i) # Absent
    BY <1>1, <1>3, QueryVerdict DEF UnknownTable
  <1>5. \A i \in DOMAIN tables : \A s :
          Offers(tables[i], schema, s, c.name) <=>
            tables[i].object \notin s /\ Found(i) # Absent /\ HasColumn(Found(i), c.name)
    <2>1. ASSUME NEW i \in DOMAIN tables, NEW s
          PROVE  Offers(tables[i], schema, s, c.name) <=>
                      /\ tables[i].object \notin s
                      /\ Found(i) # Absent /\ HasColumn(Found(i), c.name)
      BY <1>3, UnqualifiedTable
    <2> QED BY <2>1
  <1>6. \A i \in DOMAIN tables :
          c.qualifier \in {Absent, VisibleName(tables[i])} => tables[i].object \notin names
    BY <1>1, <1>2, <1>3 DEF ReadsFromCommonTable
  <1>7. ValidateColumn(c, scope) = Absent
    BY <1>1, QueryVerdict
  <1>8. CASE c.qualifier # Absent
    <2>1. \E r \in scope.relations : r.key = c.qualifier
      <3>1. ValidateQualified(c, scope) = Absent
        BY <1>7, <1>8 DEF ValidateColumn
      <3>2. {r.table : r \in {s \in scope.relations : s.key = c.qualifier}} # {}
        BY <3>1, VerdictValues DEF ValidateQualified
      <3> QED BY <3>2
    <2>2. PICK i \in DOMAIN tables : c.qualifier \in NamesOf(tables[i])
      BY <1>1, <2>1, ScopeHasNames
    <2>3. c.qualifier = VisibleName(tables[i])
      <3>1. ~(tables[i].alias # Absent /\ c.qualifier = tables[i].object)
        BY <1>1, <1>3, <2>2 DEF MoreIsAccepted
      <3> QED BY <2>2, <3>1 DEF NamesOf, VisibleName
    <2>4. \A j \in DOMAIN tables : c.qualifier \in {Absent, VisibleName(tables[j])} => j = i
      BY <1>1, <1>2, <1>8, <2>2, VisibleNamesDiffer
    <2>5. tables[i].object \in ctes \/ HasColumn(Found(i), c.name)
      BY <1>1, <1>2, <1>4, <1>7, <2>2, QualifiedColumn
    <2>6. tables[i].object \notin names
      BY <1>6, <2>3
    <2>7. Offers(tables[i], schema, names, c.name)
      BY <1>1, <1>4, <1>5, <2>5, <2>6
    <2> QED BY <2>3, <2>4, <2>7 DEF MayBeOf
  <1>9. CASE c.qualifier = Absent
    <2>1. \A i \in DOMAIN tables : tables[i].object \notin names /\ Found(i) # Absent
      BY <1>1, <1>4, <1>6, <1>9
    <2>2. PICK offering : offering = {i \in DOMAIN tables :
                                        Offers(tables[i], schema, ctes, c.name)}
      OBVIOUS
    <2>3. \/ c.name \in scope.aliases \/ Cardinality(offering) = 1
          \/ scope.opaque \/ KnownTables(scope) = {}
      BY <1>1, <1>2, <1>7, <1>9, <2>2, UnqualifiedColumn
    <2>4. c.name \notin scope.aliases
      <3>1. \A item \in ToSet(q.projection) : c.name # item.alias
        BY <1>9 DEF MoreIsAccepted
      <3> QED BY <1>1, <3>1, ScopeOfQuery
    <2>5. ~scope.opaque
      <3>1. \A t \in ToSet(tables) : t.object \notin ctes
        BY <1>1, <2>1 DEF ToSet
      <3> QED BY <1>1, <3>1, ScopeOfQuery
    <2>6. KnownTables(scope) # {}
      <3>1. PICK i \in DOMAIN tables : TRUE
        <4>1. tables # << >> /\ tables \in Seq(TableRefs)
          BY <1>1, TablesOfQuery DEF MoreIsAccepted
        <4>2. Len(tables) \in Nat /\ Len(tables) # 0 /\ DOMAIN tables = 1 .. Len(tables)
          BY <4>1
        <4>3. 1 \in DOMAIN tables
          BY <4>2
        <4> QED BY <4>3
      <3>2. PICK name \in NamesOf(tables[i]) : name = tables[i].object
        BY <1>3, NamesOfTable
      <3>3. {r.table : r \in {s \in scope.relations : s.key = name}}
              = {Resolved(tables[i], schema, ctes)}
        BY <1>1, <1>2, OneTableByName
      <3>4. Resolved(tables[i], schema, ctes) # Absent
        BY <1>1, <2>1 DEF Resolved
      <3> QED BY <3>3, <3>4 DEF KnownTables
    <2>7. Cardinality(offering) = 1
      BY <2>3, <2>4, <2>5, <2>6
    <2>8. IsFiniteSet(offering)
      <3>1. tables \in Seq(TableRefs)
        BY <1>1, TablesOfQuery
      <3>2. offering \subseteq 1 .. Len(tables) /\ Len(tables) \in Nat
        BY <2>2, <3>1
      <3>3. IsFiniteSet(1 .. Len(tables))
        BY <3>2, FS_Interval
      <3> QED BY <3>2, <3>3, FS_Subset
    <2>9. PICK i : offering = {i}
      BY <2>7, <2>8, FS_Singleton
    <2>10. i \in DOMAIN tables
      BY <2>2, <2>9
    <2>11. \A j \in DOMAIN tables : Offers(tables[j], schema, names, c.name) <=> j \in offering
      BY <1>1, <1>5, <2>1, <2>2
    <2>12. \A j \in DOMAIN tables : MayBeOf(tables[j], names, c) <=> j = i
      BY <1>9, <2>9, <2>11 DEF MayBeOf
    <2> QED BY <2>10, <2>12
  <1> QED BY <1>8, <1>9

\* An accepted query resolves by the rules of SQL, but for the cases in which
\* more is accepted.
LEMMA AcceptedQueryResolves ==
  ASSUME schema \in Schemas, NEW q \in Queries, NEW ctes, NEW outer,
         VerifyQuery(q, schema, ctes) = Absent, ~MoreIsAccepted(q, outer \cup ctes)
  PROVE  QueryResolves(q, schema, outer \cup ctes)
  <1>1. PICK tables, names : tables = TableExprs(q) /\ names = outer \cup ctes
    OBVIOUS
  <1>2. ~SharesNames(q) /\ ~NamesASchema(q)
    BY DEF MoreIsAccepted
  <1>3. \A t \in ToSet(tables) : TableExists(t, schema, names)
    <2>1. SUFFICES ASSUME NEW t \in ToSet(tables) PROVE TableExists(t, schema, names)
      OBVIOUS
    <2>2. PICK i \in DOMAIN tables : t = tables[i]
      BY DEF ToSet
    <2>3. t \in TableRefs /\ t.schema = Absent
      BY <1>1, <1>2, <2>2, PlainTables
    <2>4. t.object \in ctes \/ IndexTable(schema, t.object) # Absent
      BY <1>1, QueryVerdict DEF UnknownTable
    <2> QED BY <1>1, <2>3, <2>4, UnqualifiedTable
  <1>4. \A i, j \in DOMAIN tables : i # j => VisibleName(tables[i]) # VisibleName(tables[j])
    <2>1. SUFFICES ASSUME NEW i \in DOMAIN tables, NEW j \in DOMAIN tables,
                          VisibleName(tables[i]) = VisibleName(tables[j])
                   PROVE  i = j
      OBVIOUS
    <2>2. VisibleName(tables[i]) \in NamesOf(tables[i])
      BY <1>1, <1>2, PlainTables, NamesOfTable
    <2> QED BY <1>1, <1>2, <2>1, <2>2, VisibleNamesDiffer
  <1>5. ASSUME NEW c \in ToSet(CollectStatementColumns(q))
        PROVE  \E i \in DOMAIN tables : \A j \in DOMAIN tables :
                 MayBeOf(tables[j], names, c) <=> j = i
    <2>1. OfOneTable(q, outer \cup ctes, c)
      BY AcceptedColumnIsOfOne
    <2> QED BY <1>1, <2>1 DEF OfOneTable
  <1>6. \A c \in ToSet(CollectStatementColumns(q)) : ColumnResolves(c, tables, schema, names)
    BY <1>5, OneTableHasIt
  <1>7. /\ ToSet(CollectColumns(Projected(q) \o q.filter \o q.having))
             \subseteq ToSet(CollectStatementColumns(q))
        /\ ToSet(CollectColumns(q.groupBy \o q.orderBy)) \subseteq
             ToSet(CollectStatementColumns(q))
        /\ ToSet(CollectColumns(JoinConditions(q))) \subseteq
             ToSet(CollectStatementColumns(q))
    BY StatementColumns
  <1>8. ASSUME NEW j \in DOMAIN q.joins, NEW c \in ToSet(CollectColumns(q.joins[j].on))
        PROVE  ColumnResolves(c, SeenByJoin(q, j), schema, names)
    <2>1. PICK seen : seen = SeenByJoin(q, j)
      OBVIOUS
    <2>2. c \in ToSet(CollectStatementColumns(q))
      BY <1>7, <1>8, JoinColumns
    <2>3. PICK i \in DOMAIN tables : \A k \in DOMAIN tables :
            MayBeOf(tables[k], names, c) <=> k = i
      BY <1>5, <2>2
    <2>4. ~NamesAhead(q, names)
      BY <1>1 DEF MoreIsAccepted
    <2>5. i \in DOMAIN seen
      BY <1>1, <2>1, <2>3, <2>4, NoneAhead
    <2>6. \A k \in DOMAIN seen : k \in DOMAIN tables /\ seen[k] = tables[k]
      BY <1>1, <2>1, TablesSoFar
    <2>7. \A k \in DOMAIN seen : MayBeOf(seen[k], names, c) <=> k = i
      BY <2>3, <2>6
    <2> QED BY <2>1, <2>5, <2>7, OneTableHasIt
  <1> QED BY <1>1, <1>3, <1>4, <1>6, <1>7, <1>8, Zenon DEF QueryResolves

-----------------------------------------------------------------------------
(* What resolves is accepted. *)

\* A column that resolves is accepted, but in the cases in which less is.
LEMMA ResolvedColumnIsAccepted ==
  ASSUME schema \in Schemas, NEW q \in Queries, NEW ctes, NEW outer,
         ~LessIsAccepted(q, outer, outer \cup ctes),
         NEW c, ColumnResolves(c, TableExprs(q), schema, outer \cup ctes)
  PROVE  ValidateColumn(c, BuildScope(q, schema, ctes)) = Absent
  <1>1. PICK tables, scope, names :
          /\ tables = TableExprs(q) /\ scope = BuildScope(q, schema, ctes)
          /\ names = outer \cup ctes
    OBVIOUS
  <1>2. ~SharesNames(q) /\ ~NamesASchema(q) /\ ~ReadsCommonTable(q, outer)
    BY DEF LessIsAccepted
  <1>3. \A i \in DOMAIN tables : tables[i] \in TableRefs /\ tables[i].schema = Absent
                                /\ tables[i] \in ToSet(tables)
    BY <1>1, <1>2, PlainTables
  <1>4. \A i \in DOMAIN tables : tables[i].object \in names <=> tables[i].object \in ctes
    BY <1>1, <1>2, <1>3 DEF ReadsCommonTable
  <1> DEFINE Found(i) == IndexTable(schema, tables[i].object)
  <1>5. \A i \in DOMAIN tables : \A s :
          /\ IsCommon(tables[i], s) <=> tables[i].object \in s
          /\ Offers(tables[i], schema, s, c.name) <=>
               tables[i].object \notin s /\ Found(i) # Absent /\ HasColumn(Found(i), c.name)
    <2>1. ASSUME NEW i \in DOMAIN tables, NEW s
          PROVE  /\ IsCommon(tables[i], s) <=> tables[i].object \in s
                 /\ Offers(tables[i], schema, s, c.name) <=>
                      /\ tables[i].object \notin s
                      /\ Found(i) # Absent /\ HasColumn(Found(i), c.name)
      BY <1>3, UnqualifiedTable
    <2> QED BY <2>1
  <1>6. PICK called : called = {i \in DOMAIN tables :
                                  c.qualifier \in {Absent, VisibleName(tables[i])}}
    OBVIOUS
  <1>7. PICK holders : holders = {i \in called : Offers(tables[i], schema, names, c.name)}
    OBVIOUS
  <1>8. \/ Cardinality(holders) = 1
        \/ \E i \in called : IsCommon(tables[i], names)
    <2>1. \/ Cardinality(holders) = 1
          \/ holders = {} /\ \E i \in called : IsCommon(tables[i], names)
      BY <1>1, <1>6, <1>7, Zenon DEF ColumnResolves
    <2> QED BY <2>1
  <1>9. CASE c.qualifier # Absent
    <2>1. PICK i \in called : IsCommon(tables[i], names) \/ i \in holders
      <3>1. CASE Cardinality(holders) = 1
        <4>1. holders # {}
          BY <3>1, FS_EmptySet
        <4> QED BY <1>7, <4>1
      <3> QED BY <1>8, <3>1
    <2>2. i \in DOMAIN tables /\ c.qualifier = VisibleName(tables[i])
      BY <1>6, <1>9
    <2>3. c.qualifier \in NamesOf(tables[i])
      BY <1>3, <2>2, NamesOfTable
    <2>4. tables[i].object \in ctes \/ HasColumn(Found(i), c.name)
      BY <1>4, <1>5, <1>7, <2>1, <2>2
    <2> QED BY <1>1, <1>2, <2>2, <2>3, <2>4, QualifiedColumn
  <1>10. CASE c.qualifier = Absent
    <2>1. called = DOMAIN tables
      BY <1>6, <1>10
    <2>2. PICK offering : offering = {i \in DOMAIN tables :
                                        Offers(tables[i], schema, ctes, c.name)}
      OBVIOUS
    <2>3. \A i \in DOMAIN tables : Offers(tables[i], schema, names, c.name) <=>
                                   Offers(tables[i], schema, ctes, c.name)
      BY <1>4, <1>5
    <2>4. holders = offering
      BY <1>7, <2>1, <2>2, <2>3
    <2>5. CASE Cardinality(holders) = 1
      BY <1>1, <1>2, <1>10, <2>2, <2>4, <2>5, UnqualifiedColumn
    <2>6. CASE \E i \in called : IsCommon(tables[i], names)
      <3>1. PICK i \in DOMAIN tables : tables[i].object \in ctes
        BY <1>4, <1>5, <2>1, <2>6
      <3>2. scope.opaque
        BY <1>1, <1>3, <3>1, ScopeOfQuery
      <3> QED BY <1>1, <1>2, <1>10, <3>2, UnqualifiedColumn
    <2> QED BY <1>8, <2>5, <2>6
  <1> QED BY <1>9, <1>10

\* A column of a join condition that resolves there does so among all tables.
LEMMA ConditionResolves ==
  ASSUME NEW q \in Queries, NEW names, ~NamesAhead(q, names),
         NEW j \in DOMAIN q.joins, NEW c \in ToSet(CollectColumns(q.joins[j].on)),
         ColumnResolves(c, SeenByJoin(q, j), schema, names)
  PROVE  ColumnResolves(c, TableExprs(q), schema, names)
  <1>1. PICK tables, seen : tables = TableExprs(q) /\ seen = SeenByJoin(q, j)
    OBVIOUS
  <1>2. \A i \in DOMAIN seen : i \in DOMAIN tables /\ seen[i] = tables[i]
    BY <1>1, TablesSoFar
  <1>3. PICK before, called :
          /\ before = {i \in DOMAIN seen : c.qualifier \in {Absent, VisibleName(seen[i])}}
          /\ called = {i \in DOMAIN tables : c.qualifier \in {Absent, VisibleName(tables[i])}}
    OBVIOUS
  <1>4. PICK having, holders :
          /\ having = {i \in before : Offers(seen[i], schema, names, c.name)}
          /\ holders = {i \in called : Offers(tables[i], schema, names, c.name)}
    OBVIOUS
  <1>5. \/ Cardinality(having) = 1
        \/ having = {} /\ \E i \in before : IsCommon(seen[i], names)
    BY <1>1, <1>3, <1>4, Zenon DEF ColumnResolves
  <1>6. before \subseteq called /\ having \subseteq holders
    BY <1>2, <1>3, <1>4
  <1>7. holders \subseteq having
    <2>1. SUFFICES ASSUME NEW i \in holders PROVE i \in having
      OBVIOUS
    <2>2. i \in DOMAIN tables /\ MayBeOf(tables[i], names, c)
      BY <1>3, <1>4 DEF MayBeOf
    <2>3. i \in DOMAIN seen
      BY <1>1, <2>2, NoneAhead
    <2> QED BY <1>2, <1>3, <1>4, <2>2, <2>3 DEF MayBeOf
  <1>8. holders = having
    BY <1>6, <1>7
  <1>9. \/ Cardinality(holders) = 1
        \/ holders = {} /\ \E i \in called : IsCommon(tables[i], names)
    BY <1>2, <1>3, <1>5, <1>6, <1>8
  <1> QED BY <1>1, <1>3, <1>4, <1>9, Zenon DEF ColumnResolves

\* A column that stands alone is one of the columns of its expression.
LEMMA LoneColumn ==
  ASSUME NEW e \in Exprs, Len(e) = 1, e[1].kind = "column"
  PROVE  e[1].column \in Columns /\ ToSet(WalkColumns(e, FALSE)) = {e[1].column}
  <1>1. DOMAIN e = 1 .. 1
    BY DEF Exprs
  <1>2. PICK f : f = [i \in DOMAIN e |->
                        If(e[i].kind = "column" /\ ~(FALSE /\ InAggregate(e, i)),
                           <<e[i].column>>)]
    OBVIOUS
  <1>3. e[1].column \in Columns
    <2>1. e[1] \in Nodes
      BY <1>1 DEF Exprs
    <2> QED BY <2>1 DEF Nodes
  <1>4. PICK x \in Columns : x = e[1].column
    BY <1>3
  <1>5. f[1] = <<x>> /\ DOMAIN f = 1 .. 1
    BY <1>1, <1>2, <1>4 DEF If
  <1>6. <<x>> \in Seq(Columns) /\ ToSet(<<x>>) = {x}
    BY DEF ToSet
  <1>7. PICK y \in Seq(Columns) : y = <<x>> /\ ToSet(y) = {x}
    BY <1>6
  <1>8. f = [i \in 1 .. 1 |-> y]
    <2>1. f = [i \in DOMAIN e |-> f[i]]
      BY <1>2
    <2>2. \A i \in DOMAIN e : i = 1
      BY <1>1
    <2> QED BY <1>1, <1>5, <1>7, <2>1, <2>2
  <1>9. PICK C : C = Seq(Columns) /\ y \in C
    OBVIOUS
  <1>10. [i \in 1 .. 1 |-> y] \in Seq(C) /\ Len([i \in 1 .. 1 |-> y]) = 1
    BY <1>9
  <1>11. f \in Seq(Seq(Columns)) /\ Len(f) = 1
    BY <1>8, <1>9, <1>10
  <1>12. WalkColumns(e, FALSE) = FlattenSeq(f)
    BY <1>2, Zenon DEF WalkColumns
  <1>13. ToSet(FlattenSeq(f)) = UNION {ToSet(f[i]) : i \in 1 .. Len(f)}
    BY <1>11, FlattenElements
  <1>14. 1 .. Len(f) = {1} /\ ToSet(f[1]) = {x}
    BY <1>5, <1>7, <1>11
  <1>15. ToSet(FlattenSeq(f)) = {x}
    BY <1>13, <1>14
  <1> QED BY <1>4, <1>12, <1>15

\* What is grouped by the rules of SQL passes the check of the groups.
LEMMA GroupedIsAccepted ==
  ASSUME NEW q \in Queries, NEW outer, NEW names, Grouped(q),
         ~LessIsAccepted(q, outer, names)
  PROVE  ValidateGroupBy(q) = Absent
  <1>1. PICK grouped : grouped = {c.name : c \in ToSet(CollectColumns(q.groupBy))}
    OBVIOUS
  <1>2. PICK bare : bare = UNION {ToSet(WalkColumns(e, TRUE)) : e \in ToSet(Projected(q))}
    OBVIOUS
  <1>3. SUFFICES ASSUME \E e \in ToSet(Projected(q)) : ContainsAggregate(e),
                        NEW c \in bare
                 PROVE  c.name \in grouped
    BY <1>1, <1>2, Zenon DEF ValidateGroupBy
  <1>4. PICK e \in ToSet(Projected(q)) : c \in ToSet(WalkColumns(e, TRUE))
    BY <1>2
  <1>5. PICK item \in ToSet(q.projection) : e = item.expr
    BY <1>4 DEF Projected, ToSet
  <1>6. \/ \E g \in ToSet(q.groupBy) :
             /\ Len(g) = 1 /\ g[1].kind = "column"
             /\ g[1].column.qualifier = Absent /\ g[1].column.name = item.alias
        \/ ToSet(WalkColumns(item.expr, TRUE)) \subseteq ToSet(CollectColumns(q.groupBy))
    BY <1>3, <1>5, Zenon DEF Grouped
  <1>7. CASE ToSet(WalkColumns(item.expr, TRUE)) \subseteq ToSet(CollectColumns(q.groupBy))
    BY <1>1, <1>4, <1>5, <1>7
  <1>8. ASSUME NEW g \in ToSet(q.groupBy), Len(g) = 1, g[1].kind = "column",
               g[1].column.name = item.alias
        PROVE  FALSE
    <2>1. q.groupBy \in Seq(Exprs)
      BY DEF Queries
    <2>2. g \in Exprs
      BY <2>1 DEF ToSet
    <2>3. g[1].column \in ToSet(WalkColumns(g, FALSE))
      BY <1>8, <2>2, LoneColumn
    <2>4. g[1].column \in ToSet(CollectColumns(q.groupBy))
      BY <2>1, <2>3, ColumnsOfExprs
    <2> QED BY <1>5, <1>8, <2>4 DEF LessIsAccepted
  <1> QED BY <1>6, <1>7, <1>8

\* A query that resolves and is grouped is accepted, but in those cases.
LEMMA ResolvedQueryIsAccepted ==
  ASSUME schema \in Schemas, NEW q \in Queries, NEW ctes, NEW outer,
         QueryResolves(q, schema, outer \cup ctes), Grouped(q),
         ~LessIsAccepted(q, outer, outer \cup ctes)
  PROVE  VerifyQuery(q, schema, ctes) = Absent
  <1>1. PICK tables, scope, names :
          /\ tables = TableExprs(q) /\ scope = BuildScope(q, schema, ctes)
          /\ names = outer \cup ctes
    OBVIOUS
  <1>2. ~SharesNames(q) /\ ~NamesASchema(q) /\ ~ReadsCommonTable(q, outer)
    BY DEF LessIsAccepted
  <1>3. /\ \A t \in ToSet(tables) : TableExists(t, schema, names)
        /\ \A c \in ToSet(CollectColumns(Projected(q) \o q.filter \o q.having)) :
             ColumnResolves(c, tables, schema, names)
        /\ \A j \in DOMAIN q.joins : \A c \in ToSet(CollectColumns(q.joins[j].on)) :
             ColumnResolves(c, SeenByJoin(q, j), schema, names)
        /\ \A c \in ToSet(CollectColumns(q.groupBy \o q.orderBy)) :
             \/ /\ c.qualifier = Absent
                /\ c.name \in {item.alias : item \in ToSet(q.projection)} \ {Absent}
             \/ ColumnResolves(c, tables, schema, names)
    BY <1>1, Zenon DEF QueryResolves
  <1>4. ~UnknownTable(q, schema, ctes)
    <2>1. SUFFICES ASSUME NEW t \in ToSet(tables), t.object \notin ctes
                   PROVE  IndexTable(schema, t.object) # Absent
      BY <1>1 DEF UnknownTable
    <2>2. PICK i \in DOMAIN tables : t = tables[i]
      BY DEF ToSet
    <2>3. t \in TableRefs /\ t.schema = Absent
      BY <1>1, <1>2, <2>2, PlainTables
    <2>4. t.object \in names \/ IndexTable(schema, t.object) # Absent
      BY <1>3, <2>3, UnqualifiedTable
    <2>5. t.object \notin outer
      BY <1>1, <1>2 DEF ReadsCommonTable
    <2> QED BY <1>1, <2>1, <2>4, <2>5
  <1>5. \A c \in ToSet(CollectColumns(JoinConditions(q))) :
          ColumnResolves(c, tables, schema, names)
    <2>1. ~NamesAhead(q, names)
      BY <1>1 DEF LessIsAccepted
    <2> QED BY <1>1, <1>3, <2>1, JoinColumns, ConditionResolves
  <1>6. ASSUME NEW c \in ToSet(CollectStatementColumns(q))
        PROVE  ValidateColumn(c, scope) = Absent
    <2>1. \/ c.qualifier = Absent /\ c.name \in scope.aliases
          \/ ColumnResolves(c, tables, schema, names)
      BY <1>1, <1>3, <1>5, StatementColumns, ScopeOfQuery
    <2>2. CASE c.qualifier = Absent /\ c.name \in scope.aliases
      BY <1>1, <1>2, <2>2, UnqualifiedColumn
    <2>3. CASE ColumnResolves(c, tables, schema, names)
      BY <1>1, <2>3, ResolvedColumnIsAccepted
    <2> QED BY <2>1, <2>2, <2>3
  <1>7. ValidateGroupBy(q) = Absent
    BY GroupedIsAccepted
  <1> QED BY <1>1, <1>4, <1>6, <1>7, QueryVerdict

-----------------------------------------------------------------------------
(* The verdict on a statement. *)

\* A statement is accepted when each of its queries is.
LEMMA StatementVerdict ==
  ASSUME NEW stmt \in Seq(Queries), NEW sch
  PROVE  /\ VerifyStatement(stmt, sch) \in Errors \cup {Absent}
         /\ VerifyStatement(stmt, sch) = Absent <=>
              \A i \in DOMAIN stmt : VerifyQuery(stmt[i], sch, CommonNames(stmt, i)) = Absent
  <1>1. PICK n \in Nat : DOMAIN stmt = 1 .. n
    OBVIOUS
  <1>2. PICK e : e = [i \in DOMAIN stmt |-> VerifyQuery(stmt[i], sch, CommonNames(stmt, i))]
    OBVIOUS
  <1>3. DOMAIN e = 1 .. n
    BY <1>1, <1>2
  <1>4. /\ FirstError(e) = Absent <=> \A i \in 1 .. n : e[i] = Absent
        /\ FirstError(e) = Absent \/ \E i \in 1 .. n : FirstError(e) = e[i]
    BY <1>3, NoError
  <1>5. \A i \in 1 .. n : e[i] = VerifyQuery(stmt[i], sch, CommonNames(stmt, i))
    BY <1>1, <1>2
  <1>6. \A i \in 1 .. n : e[i] \in Errors \cup {Absent}
    <2>1. ASSUME NEW i \in 1 .. n PROVE e[i] \in Errors \cup {Absent}
      <3>1. stmt[i] \in Queries
        BY <1>1
      <3> QED BY <1>5, <3>1, QueryVerdict
    <2> QED BY <2>1
  <1>7. VerifyStatement(stmt, sch) = FirstError(e)
    BY <1>2, Zenon DEF VerifyStatement
  <1>8. FirstError(e) \in Errors \cup {Absent}
    BY <1>4, <1>6
  <1>9. FirstError(e) = Absent <=>
          \A i \in DOMAIN stmt : VerifyQuery(stmt[i], sch, CommonNames(stmt, i)) = Absent
    BY <1>1, <1>4, <1>5
  <1> QED BY <1>7, <1>8, <1>9

\* The queries of an accepted statement resolve, but for the cases in which
\* more is accepted.
LEMMA AcceptedStatementResolves ==
  ASSUME schema \in Schemas, NEW stmt \in Seq(Queries),
         VerifyStatement(stmt, schema) = Absent,
         NEW i \in DOMAIN stmt, ~RepeatsCommonName(stmt, i),
         ~MoreIsAccepted(stmt[i], NamesSeen(stmt, i))
  PROVE  Resolves(stmt, i, schema)
  <1>1. stmt[i] \in Queries
    OBVIOUS
  <1>2. VerifyQuery(stmt[i], schema, CommonNames(stmt, i)) = Absent
    BY StatementVerdict
  <1>3. QueryResolves(stmt[i], schema, OuterNames(stmt, i) \cup CommonNames(stmt, i))
    BY <1>1, <1>2, AcceptedQueryResolves DEF NamesSeen
  <1> QED BY <1>3 DEF Resolves, NamesSeen

\* A statement that resolves is accepted, but for those in which less is.
LEMMA ResolvedStatementIsAccepted ==
  ASSUME schema \in Schemas, NEW stmt \in Seq(Queries),
         \A i \in DOMAIN stmt :
           /\ Resolves(stmt, i, schema) /\ Grouped(stmt[i])
           /\ ~LessIsAccepted(stmt[i], OuterNames(stmt, i), NamesSeen(stmt, i))
  PROVE  VerifyStatement(stmt, schema) = Absent
  <1>1. ASSUME NEW i \in DOMAIN stmt
        PROVE  VerifyQuery(stmt[i], schema, CommonNames(stmt, i)) = Absent
    <2>1. stmt[i] \in Queries
      OBVIOUS
    <2>2. QueryResolves(stmt[i], schema, OuterNames(stmt, i) \cup CommonNames(stmt, i))
      BY DEF Resolves, NamesSeen
    <2>3. ~LessIsAccepted(stmt[i], OuterNames(stmt, i),
                          OuterNames(stmt, i) \cup CommonNames(stmt, i))
      BY DEF NamesSeen
    <2> QED BY <2>1, <2>2, <2>3, ResolvedQueryIsAccepted
  <1> QED BY <1>1, StatementVerdict

-----------------------------------------------------------------------------
\* The attempts: what was verified last is what the outcome was decided by.
GenerateInv ==
  /\ schema \in Schemas /\ words \in Questions
  /\ lastError \in Errors \cup {Absent}
  /\ answer \in Answers \cup {Absent}
  /\ \/ outcome \in Errors \cup {Absent}
     \/ answer # Absent /\ outcome = [sql |-> answer]
  /\ answer # Absent => (VerifyStatement(answer, schema) = Absent <=> Accepted)

\* An error is not a statement.
LEMMA ErrorIsNoAnswer ==
  ASSUME NEW e \in Errors
  PROVE  "sql" \notin DOMAIN e
  <1>1. PICK what : e = [rejected |-> what]
    BY DEF Errors, Error
  <1>2. DOMAIN e = {"rejected"}
    BY <1>1
  <1> QED BY <1>2

\* No attempt has been made.
LEMMA GenerateInvInit == GenerateInit => GenerateInv
  BY DEF GenerateInit, GenerateInv

\* An answer is verified in the step it arrives in.
LEMMA GenerateInvNext == GenerateInv /\ [GenerateNext]_generateVars => GenerateInv'
  <1> SUFFICES ASSUME GenerateInv, [GenerateNext]_generateVars
               PROVE  GenerateInv'
    OBVIOUS
  <1>1. ASSUME NEW statement \in Statements(words, lastError), NEW wrapping \in Wrappings,
               Complete(statement, wrapping)
        PROVE  GenerateInv'
    <2>1. statement \in Answers
      BY DEF GenerateInv, Answers
    <2>2. answer' \in Answers \cup {Absent}
      BY <1>1, <2>1 DEF Complete, SanitizeOutput
    <2>3. schema' = schema /\ words' = words
      BY <1>1 DEF Complete, request
    <2>4. outcome = Absent
      BY <1>1 DEF Complete, MayAsk
    <2>5. PICK error : error = Verify(answer')
      OBVIOUS
    <2>6. \/ error = Absent /\ outcome' = [sql |-> answer'] /\ lastError' = lastError
          \/ error # Absent /\ lastError' = error /\ outcome' = outcome
      BY <1>1, <2>5 DEF Complete
    <2>7. CASE answer' = Absent
      <3>1. error = Error("not parsed") /\ error \in Errors /\ error # Absent
        BY <2>5, <2>7, SchemaAssumption DEF Verify, Errors
      <3> QED BY <2>2, <2>3, <2>4, <2>6, <2>7, <3>1 DEF GenerateInv
    <2>8. CASE answer' # Absent
      <3>1. answer' \in Seq(Queries) /\ Absent # [sql |-> answer']
        BY <2>2, <2>8, AnswerAssumption
      <3>2. error = VerifyStatement(answer', schema')
        BY <2>3, <2>5, <2>8 DEF Verify
      <3>3. error \in Errors \cup {Absent}
        BY <3>1, <3>2, StatementVerdict
      <3>4. CASE error = Absent
        <4>1. outcome' = [sql |-> answer'] /\ lastError' = lastError
          BY <2>6, <3>4
        <4>2. Accepted'
          BY <3>1, <4>1 DEF Accepted
        <4> QED BY <2>2, <2>3, <2>8, <3>2, <3>4, <4>1, <4>2 DEF GenerateInv
      <3>5. CASE error # Absent
        <4>1. lastError' = error /\ outcome' = Absent
          BY <2>4, <2>6, <3>5
        <4>2. ~Accepted'
          BY <4>1 DEF Accepted
        <4> QED BY <2>2, <2>3, <3>2, <3>3, <3>5, <4>1, <4>2 DEF GenerateInv
      <3> QED BY <3>4, <3>5
    <2> QED BY <2>7, <2>8
  <1>2. ASSUME outcome = Absent, outcome' \in Errors \cup {Absent},
               UNCHANGED <<request, asked, answer, lastError>>
        PROVE  GenerateInv'
    <2>1. ~Accepted /\ ~Accepted'
      BY <1>2, ErrorIsNoAnswer DEF Accepted
    <2> QED BY <1>2, <2>1 DEF GenerateInv, request
  <1>3. CASE ModelFails
    <2>1. Error("model") \in Errors
      BY DEF Errors
    <2> QED BY <1>2, <1>3, <2>1 DEF ModelFails, MayAsk
  <1>4. CASE GiveUp
    <2>1. lastError \in Errors \cup {Absent}
      BY DEF GenerateInv
    <2> QED BY <1>2, <1>4, <2>1 DEF GiveUp
  <1>5. CASE UNCHANGED generateVars
    BY <1>5 DEF GenerateInv, Accepted, generateVars, request
  <1> QED BY <1>1, <1>3, <1>4, <1>5 DEF GenerateNext

\* What the loop knows of its last answer is what the verification says of it.
LEMMA GenerateInvHolds == GenerateSpec => []GenerateInv
  BY GenerateInvInit, GenerateInvNext, PTL DEF GenerateSpec

\* The verdict on a statement is the one on the answer it was given to.
LEMMA VerdictFollows == GenerateInv => VerdictIsTheDatabases
  <1> SUFFICES ASSUME GenerateInv, answer # Absent
               PROVE  VerdictIsTheDatabases
    BY DEF VerdictIsTheDatabases
  <1>1. answer \in Seq(Queries) /\ schema \in Schemas
    BY AnswerAssumption DEF GenerateInv
  <1>2. CASE Accepted
    <2>1. VerifyStatement(answer, schema) = Absent
      BY <1>2 DEF GenerateInv
    <2>2. ASSUME NEW i \in DOMAIN answer
          PROVE  \/ Resolves(answer, i, schema) \/ RepeatsCommonName(answer, i)
                 \/ MoreIsAccepted(answer[i], NamesSeen(answer, i))
      BY <1>1, <2>1, AcceptedStatementResolves
    <2> QED BY <1>2, <2>2, Zenon DEF VerdictIsTheDatabases
  <1>3. CASE ~Accepted
    <2>1. VerifyStatement(answer, schema) # Absent
      BY <1>3 DEF GenerateInv
    <2>2. \E i \in DOMAIN answer :
            \/ ~Resolves(answer, i, schema) \/ ~Grouped(answer[i])
            \/ LessIsAccepted(answer[i], OuterNames(answer, i), NamesSeen(answer, i))
      BY <1>1, <2>1, ResolvedStatementIsAccepted
    <2> QED BY <1>3, <2>2, Zenon DEF VerdictIsTheDatabases
  <1> QED BY <1>2, <1>3

\* An accepted SELECT resolves by the rules of SQL, and a rejected one does not
\* or selects what it does not group (verify.rs), but for the listed cases.
THEOREM VerdictIsAlwaysTheDatabases == GenerateSpec => []VerdictIsTheDatabases
  BY GenerateInvHolds, VerdictFollows, PTL

-----------------------------------------------------------------------------
(* The planned tables. *)

\* The tables a question mentions are tables of the schema.
LEMMA SelectedTables ==
  ASSUME NEW sch \in Schemas, NEW question
  PROVE  question \in Questions => SelectTables(question, sch) \in Seq(ToSet(sch))
  <1>1. SUFFICES ASSUME question \in Questions
                 PROVE  SelectTables(question, sch) \in Seq(ToSet(sch))
    OBVIOUS
  <1>2. PICK S, W : S = ToSet(sch) /\ W = Seq(S)
    OBVIOUS
  <1>3. PICK n \in Nat : DOMAIN sch = 1 .. n
    <2>1. sch \in Seq(Tables)
      BY SchemaAssumption
    <2> QED BY <2>1
  <1>4. PICK m \in Nat : DOMAIN question = 1 .. m
    <2>1. question \in Seq(DOMAIN NamedBy)
      BY <1>1, AliasAssumption
    <2> QED BY <2>1
  <1> DEFINE First(i, w) == /\ w \in Mentions(question, sch[i].name)
                            /\ w = Min(Mentions(question, sch[i].name))
             Mentioned(w) == [i \in DOMAIN sch |-> If(First(i, w), <<sch[i]>>)]
  <1>5. ASSUME NEW w PROVE FlattenSeq(Mentioned(w)) \in W
    <2>1. ASSUME NEW i \in 1 .. n PROVE Mentioned(w)[i] \in W
      <3>1. sch[i] \in S
        BY <1>2, <1>3 DEF ToSet
      <3>2. <<sch[i]>> \in Seq(S) /\ << >> \in Seq(S)
        BY <3>1
      <3> QED BY <1>2, <1>3, <3>2 DEF If
    <2>2. Mentioned(w) \in [1 .. n -> W]
      BY <1>3, <2>1
    <2>3. Mentioned(w) \in Seq(W)
      <3>1. PICK g \in [1 .. n -> W] : g = Mentioned(w)
        BY <2>2
      <3>2. g \in Seq(W)
        OBVIOUS
      <3> QED BY <3>1, <3>2
    <2>4. Mentioned(w) \in Seq(Seq(S))
      BY <1>2, <2>3
    <2> QED BY <1>2, <2>4, FlattenType
  <1>6. PICK f : f = [w \in DOMAIN question |-> FlattenSeq(Mentioned(w))]
    OBVIOUS
  <1>7. f \in [1 .. m -> W]
    BY <1>4, <1>5, <1>6
  <1>8. f \in Seq(W)
    BY <1>7
  <1>9. f \in Seq(Seq(S))
    BY <1>2, <1>8
  <1>10. SelectTables(question, sch) = FlattenSeq(f)
    BY <1>6, Zenon DEF SelectTables
  <1> QED BY <1>2, <1>9, <1>10, FlattenType

\* The names of a schema.
NamesIn(sch) == {t.name : t \in ToSet(sch)}

\* A table of the schema has aliases to try.
LEMMA SeedsOfTable ==
  ASSUME NEW sch \in Schemas, NEW name \in NamesIn(sch)
  PROVE  name \in Names /\ Seeds[name] \in Seq(Names)
  <1>1. PICK t \in ToSet(sch) : name = t.name
    BY DEF NamesIn
  <1>2. t \in Tables
    <2>1. sch \in Seq(Tables)
      BY SchemaAssumption
    <2> QED BY <2>1 DEF ToSet
  <1>3. name \in Names
    BY <1>1, <1>2 DEF Tables
  <1>4. name \in DOMAIN Seeds
    BY <1>1, AliasAssumption
  <1> QED BY <1>3, <1>4, AliasAssumption

\* The alias of a table is not taken yet where one of its seeds is not.
LEMMA AliasIsNew ==
  ASSUME NEW sch \in Schemas, NEW name \in NamesIn(sch), NEW used
  PROVE  /\ UniqueAlias(name, used) \in Names \cup {Seeds[name][Min({})]}
         /\ ~(ToSet(Seeds[name]) \subseteq used) =>
              UniqueAlias(name, used) \in Names /\ UniqueAlias(name, used) \notin used
  <1>1. PICK seeds \in Seq(Names) : seeds = Seeds[name]
    BY SeedsOfTable
  <1>2. PICK free : free = {k \in DOMAIN seeds : seeds[k] \notin used}
    OBVIOUS
  <1>3. UniqueAlias(name, used) = seeds[Min(free)]
    BY <1>1, <1>2 DEF UniqueAlias
  <1>4. CASE free = {}
    <2>1. ToSet(seeds) \subseteq used
      BY <1>2, <1>4 DEF ToSet
    <2> QED BY <1>1, <1>3, <1>4, <2>1
  <1>5. CASE free # {}
    <2>1. free \in SUBSET (1 .. Len(seeds)) /\ Len(seeds) \in Nat
      BY <1>2
    <2>2. Min(free) \in free
      BY <1>5, <2>1, MinIsThere
    <2>3. PICK k \in free : k = Min(free)
      BY <2>2
    <2>4. seeds[k] \in Names /\ seeds[k] \notin used
      BY <1>2, <2>3
    <2> QED BY <1>3, <2>3, <2>4
  <1> QED BY <1>4, <1>5

\* The planned tables are put together one by one.
LEMMA PlannedRun ==
  ASSUME NEW sch \in Schemas, NEW selected \in Seq(ToSet(sch)),
         NEW n \in Nat, DOMAIN selected = 1 .. n
  PROVE  \E run : /\ run[0] = << >>
                  /\ FoldLeft(AddPlanned, << >>, selected) = run[n]
                  /\ \A i \in 1 .. n : run[i] = AddPlanned(run[i - 1], selected[i])
  <1> DEFINE IsIter(it) ==
        it = [s \in SUBSET (DOMAIN selected) |->
                IF s = {} THEN << >> ELSE AddPlanned(it[s \ {Max(s)}], selected[Max(s)])]
      iter == CHOOSE it : IsIter(it)
  <1>1. FoldLeft(AddPlanned, << >>, selected) = iter[DOMAIN selected]
    BY DEF FoldLeft, MapThenFoldSet
  <1>2. PICK A : A = Names \cup {Seeds[name][Min({})] : name \in NamesIn(sch)}
    OBVIOUS
  <1>3. PICK P : P = [name : NamesIn(sch), alias : A]
    OBVIOUS
  <1>4. PICK X : X = Seq(P)
    OBVIOUS
  <1>5. PICK none \in X : none = << >>
    <2>1. << >> \in Seq(P)
      OBVIOUS
    <2> QED BY <1>4, <2>1
  <1>6. ASSUME NEW i \in 1 .. n, NEW planned \in X
        PROVE  AddPlanned(planned, selected[i]) \in X
    <2>1. selected[i] \in ToSet(sch)
      OBVIOUS
    <2>2. PICK name \in NamesIn(sch) : name = selected[i].name
      BY <2>1 DEF NamesIn
    <2>3. PICK alias : alias = UniqueAlias(name, Aliases(planned))
      OBVIOUS
    <2>4. alias \in A
      BY <1>2, <2>3, AliasIsNew
    <2>5. [name |-> name, alias |-> alias] \in P
      BY <1>3, <2>4
    <2>6. PICK p \in P : p = [name |-> name, alias |-> alias]
      BY <2>5
    <2>7. AddPlanned(planned, selected[i]) = Append(planned, p)
      BY <2>2, <2>3, <2>6 DEF AddPlanned
    <2>8. planned \in Seq(P)
      BY <1>4
    <2>9. Append(planned, p) \in Seq(P)
      BY <2>8
    <2> QED BY <1>4, <2>7, <2>9
  <1> DEFINE G == [i \in 1 .. n |-> [planned \in X |-> AddPlanned(planned, selected[i])]]
  <1>7. G \in [1 .. n -> [X -> X]]
    BY <1>6
  <1>8. \A i \in 1 .. n : \A planned \in X : G[i][planned] = AddPlanned(planned, selected[i])
    OBVIOUS
  <1> HIDE DEF G
  <1>9. \E it : IsIter(it)
    <2>1. PICK it : IsFold(it, X, none, G, n)
      BY <1>7, FoldIsDefined
    <2>2. ASSUME NEW s \in SUBSET (1 .. n)
          PROVE  it[s] = IF s = {} THEN << >>
                         ELSE AddPlanned(it[s \ {Max(s)}], selected[Max(s)])
      <3>1. CASE s = {}
        BY <1>5, <2>1, <3>1 DEF IsFold
      <3>2. CASE s # {}
        <4>1. it[s] = G[Max(s)][it[s \ {Max(s)}]] /\ it[s \ {Max(s)}] \in X
          BY <2>1, <3>2 DEF IsFold
        <4>2. PICK i \in 1 .. n : i = Max(s)
          BY <3>2, MaxIsThere
        <4>3. it[s] = AddPlanned(it[s \ {Max(s)}], selected[i])
          BY <1>8, <4>1, <4>2
        <4> QED BY <3>2, <4>2, <4>3
      <3> QED BY <3>1, <3>2
    <2>3. it = [s \in SUBSET (1 .. n) |-> it[s]]
      BY <2>1 DEF IsFold
    <2>4. IsIter(it)
      BY <2>2, <2>3
    <2> QED BY <2>4
  <1>10. PICK f : f = iter /\ IsIter(f)
    BY <1>9
  <1> HIDE DEF iter
  <1>11. f[{}] = none
    BY <1>5, <1>10
  <1>12. ASSUME NEW i \in 1 .. n, f[1 .. i - 1] \in X
         PROVE  f[1 .. i] = G[i][f[1 .. i - 1]]
    <2>1. i \in Nat \ {0} /\ 1 .. i \in SUBSET (1 .. n)
      OBVIOUS
    <2>2. Max(1 .. i) = i /\ (1 .. i) \ {i} = 1 .. i - 1 /\ 1 .. i # {}
      BY <2>1, MaxOfPrefix
    <2>3. f[1 .. i] = IF 1 .. i = {} THEN << >>
                      ELSE AddPlanned(f[(1 .. i) \ {Max(1 .. i)}], selected[Max(1 .. i)])
      BY <1>10, <2>1
    <2>4. f[1 .. i] = AddPlanned(f[1 .. i - 1], selected[i])
      BY <2>2, <2>3
    <2> QED BY <1>8, <1>12, <2>4
  <1> HIDE DEF IsIter
  <1>13. PICK run : IsRun(run, X, none, G, n) /\ run[n] = f[1 .. n]
    <2>1. FoldsBy(f, X, none, G, n)
      BY <1>11, <1>12 DEF FoldsBy
    <2> QED BY <1>7, <2>1, FoldRuns
  <1>14. ASSUME NEW i \in 1 .. n PROVE run[i] = AddPlanned(run[i - 1], selected[i])
    <2>1. run[i] = G[i][run[i - 1]] /\ run[i - 1] \in X
      <3>1. i - 1 \in 0 .. n
        OBVIOUS
      <3> QED BY <1>13, <3>1 DEF IsRun
    <2> QED BY <1>8, <2>1
  <1>15. run[0] = << >>
    BY <1>5, <1>13 DEF IsRun
  <1>16. FoldLeft(AddPlanned, << >>, selected) = run[n]
    BY <1>1, <1>10, <1>13
  <1> QED BY <1>14, <1>15, <1>16

\* A planned table is one of the schema under an alias of its own.
Planning(sch) == Seq([name : NamesIn(sch), alias : Names])

ArePlanned(planned, sch) ==
  /\ planned \in Planning(sch)
  /\ \A i, j \in DOMAIN planned : planned[i].alias = planned[j].alias => i = j

\* There are no more aliases than planned tables.
LEMMA FewAliases ==
  ASSUME NEW S, NEW planned \in Seq(S)
  PROVE  IsFiniteSet(Aliases(planned)) /\ Cardinality(Aliases(planned)) <= Len(planned)
  <1>1. PICK n \in Nat : n = Len(planned) /\ DOMAIN planned = 1 .. n
    OBVIOUS
  <1>2. PICK f : f = [i \in 1 .. n |-> planned[i].alias]
    OBVIOUS
  <1>3. Aliases(planned) = {planned[i].alias : i \in 1 .. n}
    BY <1>1 DEF Aliases, ToSet
  <1>4. f \in Surjection(1 .. n, Aliases(planned))
    BY <1>2, <1>3 DEF Surjection
  <1>5. IsFiniteSet(1 .. n) /\ Cardinality(1 .. n) = n
    BY FS_Interval
  <1> QED BY <1>1, <1>4, <1>5, FS_Surjection

\* One more table is planned under an alias that is not taken.
LEMMA AddPlannedIs ==
  ASSUME NEW sch \in Schemas, NEW planned, ArePlanned(planned, sch), NEW t \in ToSet(sch),
         Cardinality(ToSet(Seeds[t.name])) > Len(planned)
  PROVE  /\ ArePlanned(AddPlanned(planned, t), sch)
         /\ Len(AddPlanned(planned, t)) = Len(planned) + 1
  <1>1. PICK P : P = [name : NamesIn(sch), alias : Names]
    OBVIOUS
  <1>2. planned \in Seq(P)
    BY <1>1 DEF ArePlanned, Planning
  <1>3. PICK name \in NamesIn(sch) : name = t.name
    BY DEF NamesIn
  <1>4. ~(ToSet(Seeds[name]) \subseteq Aliases(planned))
    <2>1. SUFFICES ASSUME ToSet(Seeds[name]) \subseteq Aliases(planned) PROVE FALSE
      OBVIOUS
    <2>2. IsFiniteSet(Aliases(planned)) /\ Cardinality(Aliases(planned)) <= Len(planned)
      BY <1>2, FewAliases
    <2>3. Cardinality(ToSet(Seeds[name])) <= Cardinality(Aliases(planned))
          /\ IsFiniteSet(ToSet(Seeds[name]))
      BY <2>1, <2>2, FS_Subset
    <2>4. Cardinality(ToSet(Seeds[name])) \in Nat /\ Cardinality(Aliases(planned)) \in Nat
          /\ Len(planned) \in Nat
      BY <1>2, <2>2, <2>3, FS_CardinalityType
    <2> QED BY <1>3, <2>2, <2>3, <2>4
  <1>5. PICK alias : alias = UniqueAlias(name, Aliases(planned))
    OBVIOUS
  <1>6. alias \in Names /\ alias \notin Aliases(planned)
    BY <1>4, <1>5, AliasIsNew
  <1>7. PICK p \in P : p = [name |-> name, alias |-> alias]
    BY <1>1, <1>6
  <1>8. AddPlanned(planned, t) = Append(planned, p)
    BY <1>3, <1>5, <1>7 DEF AddPlanned
  <1>9. PICK n \in Nat : n = Len(planned)
    BY <1>2
  <1>10. PICK more \in Seq(P) : more = Append(planned, p)
    <2>1. Append(planned, p) \in Seq(P)
      BY <1>2
    <2> QED BY <2>1
  <1>11. /\ DOMAIN more = 1 .. n + 1 /\ DOMAIN planned = 1 .. n /\ Len(more) = n + 1
         /\ more[n + 1] = p /\ \A i \in 1 .. n : more[i] = planned[i]
    BY <1>2, <1>9, <1>10
  <1>12. \A i \in 1 .. n : planned[i].alias # alias
    BY <1>6, <1>11 DEF Aliases, ToSet
  <1>13. ASSUME NEW i \in 1 .. n + 1, NEW j \in 1 .. n + 1, more[i].alias = more[j].alias
         PROVE  i = j
    <2>1. more[n + 1].alias = alias
      BY <1>7, <1>11
    <2>2. (i \in 1 .. n \/ i = n + 1) /\ (j \in 1 .. n \/ j = n + 1)
      OBVIOUS
    <2>3. \A k, l \in 1 .. n : planned[k].alias = planned[l].alias => k = l
      BY <1>11 DEF ArePlanned
    <2> QED BY <1>11, <1>12, <1>13, <2>1, <2>2, <2>3
  <1>14. ArePlanned(more, sch)
    BY <1>1, <1>11, <1>13 DEF ArePlanned, Planning
  <1> QED BY <1>8, <1>9, <1>10, <1>11, <1>14

\* The tables of a plan are tables of the schema under aliases of their own.
LEMMA PlannedTablesAre ==
  ASSUME NEW sch \in Schemas, NEW question \in Questions
  PROVE  ArePlanned(PlannedTables(question, sch), sch)
  <1>1. PICK selected \in Seq(ToSet(sch)) : selected = SelectTables(question, sch)
    BY SelectedTables
  <1>2. PICK n \in Nat : n = Len(selected) /\ DOMAIN selected = 1 .. n
    OBVIOUS
  <1>3. PICK run : /\ run[0] = << >>
                   /\ FoldLeft(AddPlanned, << >>, selected) = run[n]
                   /\ \A i \in 1 .. n : run[i] = AddPlanned(run[i - 1], selected[i])
    BY <1>2, PlannedRun
  <1>4. PlannedTables(question, sch) = run[n]
    BY <1>1, <1>3, Zenon DEF PlannedTables
  <1> DEFINE T == {k \in Nat : k <= n => ArePlanned(run[k], sch) /\ Len(run[k]) = k}
  <1>5. 0 \in T
    <2>1. << >> \in Planning(sch) /\ DOMAIN << >> = {} /\ Len(<< >>) = 0
      BY DEF Planning
    <2>2. ArePlanned(<< >>, sch)
      BY <2>1 DEF ArePlanned
    <2> QED BY <1>3, <2>1, <2>2
  <1>6. ASSUME NEW k \in Nat, k \in T PROVE k + 1 \in T
    <2>1. SUFFICES ASSUME k + 1 <= n
                   PROVE  ArePlanned(run[k + 1], sch) /\ Len(run[k + 1]) = k + 1
      OBVIOUS
    <2>2. ArePlanned(run[k], sch) /\ Len(run[k]) = k
      BY <1>6, <2>1
    <2>3. PICK i \in 1 .. n : i = k + 1 /\ i - 1 = k
      BY <2>1
    <2>4. PICK t \in ToSet(sch) : t = selected[i] /\ t \in ToSet(selected)
      BY <1>2 DEF ToSet
    <2>5. Cardinality(ToSet(Seeds[t.name])) >= n
      BY <1>1, <1>2, <2>4, AliasAssumption
    <2>6. Cardinality(ToSet(Seeds[t.name])) > Len(run[k])
      <3>1. t.name \in NamesIn(sch)
        BY DEF NamesIn
      <3>2. PICK s \in Seq(Names) : s = Seeds[t.name]
        BY <3>1, SeedsOfTable
      <3>3. IsFiniteSet(ToSet(s))
        <4>1. PICK l \in Nat : DOMAIN s = 1 .. l
          OBVIOUS
        <4>2. s \in Surjection(1 .. l, ToSet(s))
          BY <4>1 DEF Surjection, ToSet
        <4>3. IsFiniteSet(1 .. l)
          BY FS_Interval
        <4> QED BY <4>2, <4>3, FS_Surjection
      <3>4. Cardinality(ToSet(s)) \in Nat
        BY <3>3, FS_CardinalityType
      <3> QED BY <2>1, <2>2, <2>5, <3>2, <3>4
    <2>7. PICK planned : planned = run[k]
      OBVIOUS
    <2>8. run[i] = AddPlanned(planned, t)
      BY <1>3, <2>3, <2>4, <2>7
    <2>9. ArePlanned(AddPlanned(planned, t), sch)
          /\ Len(AddPlanned(planned, t)) = Len(planned) + 1
      BY <2>2, <2>6, <2>7, AddPlannedIs
    <2> QED BY <2>2, <2>3, <2>7, <2>8, <2>9
  <1> HIDE DEF T
  <1>7. n \in T
    BY <1>5, <1>6, Induction
  <1> QED BY <1>4, <1>7 DEF T

-----------------------------------------------------------------------------
(* The joins between them. *)

\* Where a name is one table's, planner and verification take the same one.
LEMMA OneOfAName ==
  ASSUME NEW sch \in Schemas, NEW name \in NamesIn(sch), Cardinality(Named(sch, name)) <= 1
  PROVE  /\ ByName(sch, name) = IndexTable(sch, name)
         /\ IndexTable(sch, name) \in ToSet(sch) /\ IndexTable(sch, name) # Absent
         /\ IndexTable(sch, name).name = name
  <1>1. PICK s : s = Named(sch, name)
    OBVIOUS
  <1>2. sch \in Seq(Tables)
    BY SchemaAssumption
  <1>3. PICK n \in Nat : DOMAIN sch = 1 .. n
    BY <1>2
  <1>4. s # {} /\ s \in SUBSET (1 .. n)
    BY <1>1, <1>3 DEF Named, NamesIn, ToSet
  <1>5. IsFiniteSet(s)
    <2>1. IsFiniteSet(1 .. n)
      BY FS_Interval
    <2> QED BY <1>4, <2>1, FS_Subset
  <1>6. Cardinality(s) = 1
    <2>1. Cardinality(s) \in Nat /\ Cardinality(s) # 0
      BY <1>4, <1>5, FS_CardinalityType, FS_EmptySet
    <2> QED BY <1>1, <2>1
  <1>7. PICK i : s = {i}
    BY <1>5, <1>6, FS_Singleton
  <1>8. Max(s) \in s /\ Min(s) \in s
    BY <1>4, MaxIsThere, MinIsThere
  <1>9. ByName(sch, name) = sch[i] /\ IndexTable(sch, name) = sch[i]
    BY <1>1, <1>4, <1>7, <1>8 DEF ByName, IndexTable
  <1>10. i \in DOMAIN sch /\ sch[i].name = name
    BY <1>1, <1>7 DEF Named
  <1>11. sch[i] \in ToSet(sch)
    BY <1>10 DEF ToSet
  <1>12. sch[i] # Absent
    BY <1>11, SchemaAssumption
  <1> QED BY <1>9, <1>10, <1>11, <1>12

\* A column of a planned table, by its alias.
IsColumnOf(c, p, sch) ==
  c.qualifier = p.alias /\ c.name \in ToSet(IndexTable(sch, p.name).columns)

\* Both sides of a predicate are columns of the two tables.
ArePairs(pairs, left, right, sch) ==
  /\ \E n \in Nat : DOMAIN pairs = 1 .. n
  /\ \A i \in DOMAIN pairs :
       /\ DOMAIN pairs[i] = {"left", "right"}
       /\ pairs[i].left \in Columns /\ pairs[i].right \in Columns
       /\ \A side \in {"left", "right"} :
            IsColumnOf(pairs[i][side], left, sch) \/ IsColumnOf(pairs[i][side], right, sch)

\* The predicates of a key pair columns of the two tables.
LEMMA PairsAre ==
  ASSUME NEW sch \in Schemas, NEW a \in [name : NamesIn(sch), alias : Names],
         NEW b \in [name : NamesIn(sch), alias : Names],
         NEW us \in Seq(Names), NEW vs \in Seq(Names),
         ToSet(us) \subseteq ToSet(IndexTable(sch, a.name).columns),
         ToSet(vs) \subseteq ToSet(IndexTable(sch, b.name).columns)
  PROVE  ArePairs(Pairs(a, us, b, vs), a, b, sch) /\ ArePairs(Pairs(a, us, b, vs), b, a, sch)
  <1>1. PICK pairs : pairs = Pairs(a, us, b, vs)
    OBVIOUS
  <1>2. /\ Len(us) \in Nat /\ DOMAIN us = 1 .. Len(us)
        /\ \A i \in 1 .. Len(us) : us[i] \in Names
        /\ Len(vs) \in Nat /\ DOMAIN vs = 1 .. Len(vs)
        /\ \A i \in 1 .. Len(vs) : vs[i] \in Names
    OBVIOUS
  <1>3. PICK l \in Nat : /\ DOMAIN us = 1 .. l
                         /\ \A i \in 1 .. l : us[i] \in Names
    BY <1>2
  <1>4. PICK m \in Nat : /\ DOMAIN vs = 1 .. m
                         /\ \A i \in 1 .. m : vs[i] \in Names
    BY <1>2
  <1>5. DOMAIN pairs = (1 .. l) \cap (1 .. m)
    BY <1>1, <1>3, <1>4 DEF Pairs
  <1>6. \E n \in Nat : DOMAIN pairs = 1 .. n
    <2>1. CASE l <= m
      <3>1. (1 .. l) \cap (1 .. m) = 1 .. l
        BY <2>1
      <3> QED BY <1>5, <3>1
    <2>2. CASE m <= l
      <3>1. (1 .. l) \cap (1 .. m) = 1 .. m
        BY <2>2
      <3> QED BY <1>5, <3>1
    <2> QED BY <2>1, <2>2
  <1>7. ASSUME NEW i \in DOMAIN pairs
        PROVE  /\ DOMAIN pairs[i] = {"left", "right"}
               /\ pairs[i].left \in Columns /\ pairs[i].right \in Columns
               /\ IsColumnOf(pairs[i].left, a, sch) /\ IsColumnOf(pairs[i].right, b, sch)
    <2>1. pairs[i] = [left |-> [qualifier |-> a.alias, name |-> us[i]],
                      right |-> [qualifier |-> b.alias, name |-> vs[i]]]
      BY <1>1, <1>3, <1>4, <1>5 DEF Pairs
    <2>2. /\ us[i] \in Names /\ vs[i] \in Names
          /\ us[i] \in ToSet(us) /\ vs[i] \in ToSet(vs)
      <3>1. i \in 1 .. l /\ i \in 1 .. m
        BY <1>5
      <3>2. us[i] \in Names /\ vs[i] \in Names
        BY <1>3, <1>4, <3>1
      <3>3. us[i] \in ToSet(us) /\ vs[i] \in ToSet(vs)
        BY <1>3, <1>4, <3>1 DEF ToSet
      <3> QED BY <3>2, <3>3
    <2>3. DOMAIN pairs[i] = {"left", "right"}
      BY <2>1
    <2>4. /\ pairs[i].left = [qualifier |-> a.alias, name |-> us[i]]
          /\ pairs[i].right = [qualifier |-> b.alias, name |-> vs[i]]
      BY <2>1
    <2>5. a.alias \in Names /\ b.alias \in Names
      OBVIOUS
    <2>6. pairs[i].left \in Columns /\ pairs[i].right \in Columns
      <3>1. PICK q, x : q = a.alias /\ x = us[i] /\ q \in Names /\ x \in Names
        BY <2>2, <2>5
      <3>2. PICK r, y : r = b.alias /\ y = vs[i] /\ r \in Names /\ y \in Names
        BY <2>2, <2>5
      <3> QED BY <2>4, <3>1, <3>2 DEF Columns
    <2>7. IsColumnOf(pairs[i].left, a, sch) /\ IsColumnOf(pairs[i].right, b, sch)
      BY <2>2, <2>4, SMTT(30) DEF IsColumnOf
    <2> QED BY <2>3, <2>6, <2>7
  <1>8. ASSUME NEW i \in DOMAIN pairs, NEW side \in {"left", "right"}
        PROVE  IsColumnOf(pairs[i][side], a, sch) \/ IsColumnOf(pairs[i][side], b, sch)
    BY <1>7
  <1> QED BY <1>1, <1>6, <1>7, <1>8 DEF ArePairs

\* A key of a table, and its columns in the table it refers to.
LEMMA KeyOfTable ==
  ASSUME NEW sch \in Schemas, NEW t \in ToSet(sch), NEW u \in ToSet(sch),
         Cardinality(Named(sch, u.name)) <= 1
  PROVE  /\ KeysTo(t, u.name) # {} => Min(KeysTo(t, u.name)) \in KeysTo(t, u.name)
         /\ \A i \in KeysTo(t, u.name) :
              /\ t.keys[i].columns \in Seq(Names) /\ t.keys[i].refColumns \in Seq(Names)
              /\ ToSet(t.keys[i].columns) \subseteq ToSet(t.columns)
              /\ ToSet(t.keys[i].refColumns) \subseteq ToSet(u.columns)
  <1>1. t \in Tables
    <2>1. sch \in Seq(Tables)
      BY SchemaAssumption
    <2> QED BY <2>1 DEF ToSet
  <1>2. PICK keys \in Seq(Keys) : keys = t.keys
    BY <1>1 DEF Tables
  <1>3. PICK s : s = KeysTo(t, u.name)
    OBVIOUS
  <1>4. s \in SUBSET (1 .. Len(keys)) /\ Len(keys) \in Nat
    BY <1>2, <1>3 DEF KeysTo
  <1>5. s # {} => Min(s) \in s
    BY <1>4, MinIsThere
  <1>6. ASSUME NEW i \in s
        PROVE  /\ keys[i].columns \in Seq(Names) /\ keys[i].refColumns \in Seq(Names)
               /\ ToSet(keys[i].columns) \subseteq ToSet(t.columns)
               /\ ToSet(keys[i].refColumns) \subseteq ToSet(u.columns)
    <2>1. PICK key \in Keys : key = keys[i]
      BY <1>4
    <2>2. key.refTable = u.name /\ key \in ToSet(t.keys)
      BY <1>2, <1>3, <2>1 DEF KeysTo, ToSet
    <2>3. key.columns \in Seq(Names) /\ key.refColumns \in Seq(Names)
      BY <2>1 DEF Keys
    <2>4. /\ ToSet(key.columns) \subseteq ToSet(t.columns)
          /\ ToSet(key.refColumns) \subseteq ToSet(u.columns)
      BY <2>2, SchemaAssumption
    <2> QED BY <2>1, <2>3, <2>4
  <1> QED BY <1>2, <1>3, <1>5, <1>6

\* Two tables are joined by columns they have.
LEMMA JoinPredicatesAre ==
  ASSUME NEW sch \in Schemas,
         NEW left \in [name : NamesIn(sch), alias : Names],
         NEW right \in [name : NamesIn(sch), alias : Names],
         Cardinality(Named(sch, left.name)) <= 1, Cardinality(Named(sch, right.name)) <= 1,
         JoinPredicates(left, right, sch) # Absent
  PROVE  ArePairs(JoinPredicates(left, right, sch), left, right, sch)
  <1>1. PICK L, R : L = IndexTable(sch, left.name) /\ R = IndexTable(sch, right.name)
    OBVIOUS
  <1>2. /\ ByName(sch, left.name) = L /\ ByName(sch, right.name) = R
        /\ L \in ToSet(sch) /\ R \in ToSet(sch)
        /\ L.name = left.name /\ R.name = right.name
        /\ Cardinality(Named(sch, L.name)) <= 1 /\ Cardinality(Named(sch, R.name)) <= 1
    BY <1>1, OneOfAName
  <1>3. CASE KeysTo(R, left.name) # {}
    <2>1. PICK i \in KeysTo(R, L.name) : i = Min(KeysTo(R, L.name))
      BY <1>2, <1>3, KeyOfTable
    <2>2. PICK key : key = R.keys[i]
      OBVIOUS
    <2>3. /\ key.columns \in Seq(Names) /\ key.refColumns \in Seq(Names)
          /\ ToSet(key.columns) \subseteq ToSet(R.columns)
          /\ ToSet(key.refColumns) \subseteq ToSet(L.columns)
      BY <1>2, <2>1, <2>2, KeyOfTable
    <2>4. JoinPredicates(left, right, sch) = Pairs(right, key.columns, left, key.refColumns)
      BY <1>2, <1>3, <2>1, <2>2 DEF JoinPredicates
    <2> QED BY <1>1, <2>4, <2>3, PairsAre
  <1>4. CASE KeysTo(R, left.name) = {} /\ KeysTo(L, right.name) # {}
    <2>1. PICK i \in KeysTo(L, R.name) : i = Min(KeysTo(L, R.name))
      BY <1>2, <1>4, KeyOfTable
    <2>2. PICK key : key = L.keys[i]
      OBVIOUS
    <2>3. /\ key.columns \in Seq(Names) /\ key.refColumns \in Seq(Names)
          /\ ToSet(key.columns) \subseteq ToSet(L.columns)
          /\ ToSet(key.refColumns) \subseteq ToSet(R.columns)
      BY <1>2, <2>1, <2>2, KeyOfTable
    <2>4. JoinPredicates(left, right, sch) = Pairs(left, key.columns, right, key.refColumns)
      BY <1>2, <1>4, <2>1, <2>2 DEF JoinPredicates
    <2> QED BY <1>1, <2>4, <2>3, PairsAre
  <1>5. CASE KeysTo(R, left.name) = {} /\ KeysTo(L, right.name) = {}
    BY <1>2, <1>5 DEF JoinPredicates
  <1> QED BY <1>3, <1>4, <1>5

\* A join of a plan is of one planned table with another.
IsJoin(j, planned, sch) ==
  /\ DOMAIN j = {"table", "predicates"}
  /\ j.table \in ToSet(planned)
  /\ \E left \in ToSet(planned) : ArePairs(j.predicates, left, j.table, sch)

\* The joins of a plan are joins between its tables.
LEMMA JoinsAre ==
  ASSUME NEW sch \in Schemas, NEW planned \in Planning(sch),
         \A p \in ToSet(planned) : Cardinality(Named(sch, p.name)) <= 1
  PROVE  /\ \E n \in Nat : DOMAIN Joins(planned, sch) = 1 .. n
         /\ \A i \in DOMAIN Joins(planned, sch) : IsJoin(Joins(planned, sch)[i], planned, sch)
  <1> DEFINE Partners(i) == {j \in 1 .. i - 1 :
                               JoinPredicates(planned[j], planned[i], sch) # Absent}
             Join(i) == [table |-> planned[i],
                         predicates |-> JoinPredicates(planned[Min(Partners(i))],
                                                       planned[i], sch)]
  <1>1. PICK n \in Nat : DOMAIN planned = 1 .. n
    BY DEF Planning
  <1>2. PICK J : J = {Join(i) : i \in {k \in 1 .. n : Partners(k) # {}}}
    OBVIOUS
  <1>3. PICK W : W = Seq(J)
    OBVIOUS
  <1>4. ASSUME NEW i \in 1 .. n PROVE If(Partners(i) # {}, <<Join(i)>>) \in W
    <2>1. CASE Partners(i) # {}
      <3>1. Join(i) \in J
        BY <1>2, <2>1
      <3>2. <<Join(i)>> \in Seq(J)
        BY <3>1
      <3> QED BY <1>3, <2>1, <3>2 DEF If
    <2>2. CASE Partners(i) = {}
      <3>1. << >> \in Seq(J)
        OBVIOUS
      <3> QED BY <1>3, <2>2, <3>1 DEF If
    <2> QED BY <2>1, <2>2
  <1>5. PICK f : f = [i \in DOMAIN planned |-> If(Partners(i) # {}, <<Join(i)>>)]
    OBVIOUS
  <1>6. f \in [1 .. n -> W]
    BY <1>1, <1>4, <1>5
  <1>7. f \in Seq(W)
    BY <1>6
  <1>8. f \in Seq(Seq(J))
    BY <1>3, <1>7
  <1>9. PICK joins \in Seq(J) : joins = FlattenSeq(f)
    BY <1>8, FlattenType
  <1>10. Joins(planned, sch) = joins
    BY <1>5, <1>9, Zenon DEF Joins
  <1>11. ASSUME NEW i \in 1 .. n, Partners(i) # {} PROVE IsJoin(Join(i), planned, sch)
    <2>1. PICK k \in Partners(i) : k = Min(Partners(i))
      <3>1. Partners(i) \in SUBSET (1 .. n)
        OBVIOUS
      <3> QED BY <1>11, <3>1, MinIsThere
    <2>2. k \in 1 .. n /\ JoinPredicates(planned[k], planned[i], sch) # Absent
      OBVIOUS
    <2>3. PICK P : P = [name : NamesIn(sch), alias : Names]
      OBVIOUS
    <2>4. planned \in Seq(P)
      BY <2>3 DEF Planning
    <2>5. /\ planned[k] \in P /\ planned[i] \in P
          /\ planned[k] \in ToSet(planned) /\ planned[i] \in ToSet(planned)
      BY <1>1, <2>2, <2>4 DEF ToSet
    <2>6. ArePairs(JoinPredicates(planned[k], planned[i], sch), planned[k], planned[i], sch)
      BY <2>2, <2>3, <2>5, JoinPredicatesAre
    <2>7. Join(i).table = planned[i]
          /\ Join(i).predicates = JoinPredicates(planned[k], planned[i], sch)
          /\ DOMAIN Join(i) = {"table", "predicates"}
      BY <2>1
    <2> HIDE DEF Join
    <2> QED BY <2>5, <2>6, <2>7 DEF IsJoin
  <1> HIDE DEF Join, Partners
  <1>12. \A i \in DOMAIN joins : IsJoin(joins[i], planned, sch)
    <2>1. ASSUME NEW i \in DOMAIN joins PROVE IsJoin(joins[i], planned, sch)
      <3>1. joins[i] \in J
        OBVIOUS
      <3> QED BY <1>2, <1>11, <3>1
    <2> QED BY <2>1
  <1>13. \E m \in Nat : DOMAIN joins = 1 .. m
    OBVIOUS
  <1> QED BY <1>10, <1>12, <1>13

-----------------------------------------------------------------------------
(* The statement of a model that does as it is told. *)

ColumnAlone(c) == <<[kind |-> "column", column |-> c, last |-> 1]>>

\* A column alone is an expression with that column.
LEMMA ColumnAloneIs ==
  ASSUME NEW c \in Columns
  PROVE  /\ ColumnAlone(c) \in Exprs
         /\ ToSet(WalkColumns(ColumnAlone(c), FALSE)) = {c}
         /\ ~ContainsAggregate(ColumnAlone(c))
  <1>1. PICK node : node = [kind |-> "column", column |-> c, last |-> 1]
    OBVIOUS
  <1>2. node \in Nodes
    BY <1>1 DEF Nodes
  <1>3. PICK e : e = <<node>>
    OBVIOUS
  <1>4. e \in Seq(Nodes) /\ Len(e) = 1 /\ e[1] = node /\ DOMAIN e = 1 .. 1
    BY <1>2, <1>3
  <1>5. e \in Exprs
    BY <1>4 DEF Exprs
  <1>6. node.kind = "column" /\ node.column = c
    BY <1>1
  <1>7. ToSet(WalkColumns(e, FALSE)) = {c}
    BY <1>4, <1>5, <1>6, LoneColumn
  <1>8. ~ContainsAggregate(e)
    <2>1. \A i \in DOMAIN e : e[i].kind # "aggregate"
      BY <1>4, <1>6
    <2> QED BY <2>1 DEF ContainsAggregate
  <1> QED BY <1>1, <1>3, <1>5, <1>7, <1>8 DEF ColumnAlone

\* The columns of expressions that are columns alone are these columns.
LEMMA ColumnsAlone ==
  ASSUME NEW C \in SUBSET Columns, NEW exprs \in Seq({ColumnAlone(c) : c \in C})
  PROVE  /\ exprs \in Seq(Exprs)
         /\ ToSet(CollectColumns(exprs)) \subseteq C
         /\ \A e \in ToSet(exprs) : ~ContainsAggregate(e)
  <1>1. PICK E : E = {ColumnAlone(c) : c \in C}
    OBVIOUS
  <1>2. exprs \in Seq(E)
    BY <1>1
  <1>3. E \subseteq Exprs
    BY <1>1, ColumnAloneIs
  <1>4. PICK n \in Nat : n = Len(exprs) /\ DOMAIN exprs = 1 .. n
    BY <1>2
  <1>5. \A i \in 1 .. n : exprs[i] \in E
    BY <1>2, <1>4
  <1>6. exprs \in Seq(Exprs)
    BY <1>2, <1>3
  <1>7. \A e \in ToSet(exprs) : \E c \in C : e = ColumnAlone(c)
    BY <1>1, <1>4, <1>5 DEF ToSet
  <1>8. ASSUME NEW c \in ToSet(CollectColumns(exprs)) PROVE c \in C
    <2>1. PICK e \in ToSet(exprs) : c \in ToSet(WalkColumns(e, FALSE))
      BY <1>6, ColumnsOfExprs
    <2>2. PICK d \in C : e = ColumnAlone(d)
      BY <1>7
    <2>3. ToSet(WalkColumns(e, FALSE)) = {d}
      BY <2>2, ColumnAloneIs
    <2> QED BY <2>1, <2>3
  <1>9. ASSUME NEW e \in ToSet(exprs) PROVE ~ContainsAggregate(e)
    <2>1. PICK d \in C : e = ColumnAlone(d)
      BY <1>7
    <2> QED BY <2>1, ColumnAloneIs
  <1> QED BY <1>6, <1>8, <1>9

\* The table expression of a planned table.
TableOf(p) == [schema |-> Absent, object |-> p.name, alias |-> p.alias]

\* A table is qualified by its alias, whatever the other tables are called.
LEMMA PlannedColumnIsAccepted ==
  ASSUME schema \in Schemas, NEW q \in Queries, NEW P, NEW planned,
         P \subseteq ToSet(planned), ArePlanned(planned, schema),
         ToSet(TableExprs(q)) = {TableOf(p) : p \in P},
         \A p, r \in P : p # r => p.alias # r.name,
         NEW p \in P, NEW c, IsColumnOf(c, p, schema)
  PROVE  ValidateColumn(c, BuildScope(q, schema, {})) = Absent
  <1>1. PICK tables, scope, relations :
          tables = TableExprs(q) /\ scope = BuildScope(q, schema, {})
          /\ relations = scope.relations
    OBVIOUS
  <1>2. PICK table : table = IndexTable(schema, p.name)
    OBVIOUS
  <1>3. \A i \in DOMAIN tables : \E r \in P : tables[i] = TableOf(r)
    BY <1>1 DEF ToSet
  <1>4. PICK i \in DOMAIN tables : tables[i] = TableOf(p)
    BY <1>1 DEF ToSet
  <1>5. p.alias # Absent /\ p.alias \in Names
    <2>1. PICK R : R = [name : NamesIn(schema), alias : Names]
      OBVIOUS
    <2>2. planned \in Seq(R)
      BY <2>1 DEF ArePlanned, Planning
    <2>3. p \in R
      BY <2>2 DEF ToSet
    <2> QED BY <2>1, <2>3, SchemaAssumption
  <1>6. \E r \in relations : r.key = p.alias
    <2>1. p.alias \in NamesOf(tables[i])
      BY <1>4, <1>5 DEF NamesOf, TableOf
    <2> QED BY <1>1, <2>1, ScopeHasNames
  <1>7. ASSUME NEW r \in relations, r.key = p.alias PROVE r.table = table
    <2>1. PICK j \in DOMAIN tables :
            r.key \in NamesOf(tables[j]) /\ r.table = Resolved(tables[j], schema, {})
      BY <1>1, ScopeHasNames
    <2>2. PICK u \in P : tables[j] = TableOf(u)
      BY <1>3
    <2>3. p.alias = u.name \/ p.alias = u.alias
      BY <1>7, <2>1, <2>2 DEF NamesOf, TableOf
    <2>4. p = u
      <3>1. p.alias = u.alias => p = u
        BY DEF ArePlanned, ToSet
      <3> QED BY <2>3, <3>1
    <2> QED BY <1>2, <2>1, <2>2, <2>4 DEF Resolved, TableOf
  <1>8. {r.table : r \in {s \in relations : s.key = c.qualifier}} = {table}
    <2>1. c.qualifier = p.alias
      BY DEF IsColumnOf
    <2> QED BY <1>6, <1>7, <2>1
  <1>9. HasColumn(table, c.name)
    BY <1>2 DEF IsColumnOf, HasColumn
  <1>10. ValidateQualified(c, scope) =
           IF {r.table : r \in {s \in relations : s.key = c.qualifier}} = {}
           THEN Error("unknown qualifier")
           ELSE IF \A t \in {r.table : r \in {s \in relations : s.key = c.qualifier}} :
                     t = Absent \/ HasColumn(t, c.name)
           THEN Absent ELSE Error("unknown column")
    BY <1>1, Zenon DEF ValidateQualified
  <1>11. ValidateQualified(c, scope) = Absent
    BY <1>8, <1>9, <1>10
  <1>12. c.qualifier # Absent
    BY <1>5 DEF IsColumnOf
  <1> QED BY <1>1, <1>11, <1>12 DEF ValidateColumn

\* A query of planned tables and their columns alone is accepted.
LEMMA PlannedQueryIsAccepted ==
  ASSUME schema \in Schemas, NEW q \in Queries, NEW P, NEW planned,
         P \subseteq ToSet(planned), ArePlanned(planned, schema),
         \A p \in P : Cardinality(Named(schema, p.name)) <= 1,
         ToSet(TableExprs(q)) = {TableOf(p) : p \in P},
         \A p, r \in P : p # r => p.alias # r.name,
         NEW C, C = {c \in Columns : \E p \in P : IsColumnOf(c, p, schema)},
         Projected(q) \in Seq({ColumnAlone(c) : c \in C}),
         JoinConditions(q) \in Seq({ColumnAlone(c) : c \in C}),
         q.filter = << >>, q.groupBy = << >>, q.having = << >>, q.orderBy = << >>
  PROVE  VerifyQuery(q, schema, {}) = Absent
  <1>1. C \in SUBSET Columns
    OBVIOUS
  <1>2. ~UnknownTable(q, schema, {})
    <2>1. SUFFICES ASSUME NEW p \in P
                   PROVE  IndexTable(schema, TableOf(p).object) # Absent
      BY DEF UnknownTable
    <2>2. PICK R : R = [name : NamesIn(schema), alias : Names]
      OBVIOUS
    <2>3. planned \in Seq(R)
      BY <2>2 DEF ArePlanned, Planning
    <2>4. p \in R
      BY <2>3 DEF ToSet
    <2>5. p.name \in NamesIn(schema)
      BY <2>2, <2>4
    <2>6. IndexTable(schema, p.name) # Absent
      BY <2>5, OneOfAName
    <2> QED BY <2>6 DEF TableOf
  <1>3. ToSet(CollectColumns(<< >>)) = {}
    <2>1. << >> \in Seq(Exprs) /\ ToSet(<< >>) = {}
      BY DEF ToSet
    <2> QED BY <2>1, ColumnsOfExprs
  <1>4. PICK p, o : p = Projected(q) /\ o = JoinConditions(q)
    OBVIOUS
  <1>5. /\ ToSet(CollectColumns(p)) \subseteq C /\ ToSet(CollectColumns(o)) \subseteq C
        /\ \A e \in ToSet(p) : ~ContainsAggregate(e)
    BY <1>1, <1>4, ColumnsAlone
  <1>6. ASSUME NEW c \in ToSet(CollectStatementColumns(q))
        PROVE  ValidateColumn(c, BuildScope(q, schema, {})) = Absent
    <2>1. c \in C
      <3>1. \/ c \in ToSet(CollectColumns(p)) \/ c \in ToSet(CollectColumns(o))
            \/ \E e \in {q.filter, q.groupBy, q.having, q.orderBy} :
                 c \in ToSet(CollectColumns(e))
        BY <1>4, StatementColumns
      <3> QED BY <1>3, <1>5, <3>1
    <2>2. PICK r \in P : IsColumnOf(c, r, schema)
      BY <2>1
    <2> QED BY <2>2, PlannedColumnIsAccepted
  <1>7. ValidateGroupBy(q) = Absent
    BY <1>4, <1>5 DEF ValidateGroupBy
  <1> QED BY <1>2, <1>6, <1>7, QueryVerdict

\* What a join of the plan becomes, and what is selected.
OnOf(predicates) ==
  FlattenSeq([i \in DOMAIN predicates |->
    <<ColumnAlone(predicates[i].left), ColumnAlone(predicates[i].right)>>])

JoinOf(j) == [table |-> TableOf(j.table), on |-> OnOf(j.predicates)]

ItemOf(c) == [expr |-> ColumnAlone(c), alias |-> Absent]

QueryOf(from, joins, projection) ==
  [parent |-> 0, name |-> Absent, from |-> <<from>>, joins |-> joins,
   projection |-> projection,
   filter |-> << >>, groupBy |-> << >>, having |-> << >>, orderBy |-> << >>]

\* The statement of the plan is one query.
LEMMA AsPlannedIs ==
  ASSUME NEW plan, NEW columns, columns = BuildPrompt(plan, schema).tables[1].columns
  PROVE  AsPlanned(plan) =
           <<QueryOf(TableOf(plan.tables[1]),
                     [i \in DOMAIN plan.joins |-> JoinOf(plan.joins[i])],
                     [i \in DOMAIN columns |->
                        ItemOf([qualifier |-> plan.tables[1].alias, name |-> columns[i]])])>>
  BY Zenon DEF AsPlanned, QueryOf, TableOf, JoinOf, OnOf, ItemOf, ColumnAlone

AreJoins(joins, E) ==
  \E J : /\ joins \in Seq(J)
         /\ \A x \in J : \E t \in TableRefs, s \in Seq(E) : x = [table |-> t, on |-> s]

AreItems(items, E) ==
  \E I : /\ items \in Seq(I)
         /\ \A x \in I : \E e \in E : x = [expr |-> e, alias |-> Absent]

IsTheQuery(q, from, joins, E) ==
  /\ q \in Queries
  /\ ToSet(TableExprs(q)) = {from} \cup {joins[i].table : i \in DOMAIN joins}
  /\ Projected(q) \in Seq(E) /\ JoinConditions(q) \in Seq(E)
  /\ q.filter = << >> /\ q.groupBy = << >> /\ q.having = << >> /\ q.orderBy = << >>

\* The tables, conditions and columns of such a query.
LEMMA QueryOfIs ==
  ASSUME NEW from \in TableRefs, NEW E, E \subseteq Exprs,
         NEW joins, AreJoins(joins, E), NEW projection, AreItems(projection, E),
         NEW q, q = QueryOf(from, joins, projection)
  PROVE  IsTheQuery(q, from, joins, E)
  <1>1. /\ q.parent = 0 /\ q.name = Absent /\ q.from = <<from>>
        /\ q.joins = joins /\ q.projection = projection
        /\ q.filter = << >> /\ q.groupBy = << >> /\ q.having = << >> /\ q.orderBy = << >>
    BY DEF QueryOf
  <1>2. PICK J, I : /\ J = [table : TableRefs, on : Seq(Exprs)]
                    /\ I = [expr : Exprs, alias : Names \cup {Absent}]
    OBVIOUS
  <1>3. PICK Joined : /\ joins \in Seq(Joined)
                       /\ \A x \in Joined : \E t \in TableRefs, s \in Seq(E) :
                            x = [table |-> t, on |-> s]
    BY DEF AreJoins
  <1>4. PICK Items : /\ projection \in Seq(Items)
                      /\ \A x \in Items : \E e \in E : x = [expr |-> e, alias |-> Absent]
    BY DEF AreItems
  <1>5. PICK n \in Nat, m \in Nat : DOMAIN joins = 1 .. n /\ DOMAIN projection = 1 .. m
    BY <1>3, <1>4
  <1>6. ASSUME NEW i \in 1 .. n
        PROVE  joins[i] \in J /\ joins[i].table \in TableRefs /\ joins[i].on \in Seq(E)
    <2>1. joins[i] \in Joined
      BY <1>5, <1>3
    <2>2. PICK t \in TableRefs, s \in Seq(E) : joins[i] = [table |-> t, on |-> s]
      BY <1>3, <2>1
    <2>3. joins[i].table = t /\ joins[i].on = s
      BY <2>2
    <2>4. s \in Seq(Exprs)
      OBVIOUS
    <2>5. PICK X : X = Seq(Exprs)
      OBVIOUS
    <2>6. joins[i] \in [table : TableRefs, on : X]
      BY <2>2, <2>4, <2>5
    <2>7. joins[i] \in J
      BY <1>2, <2>5, <2>6
    <2> QED BY <2>3, <2>7
  <1>7. ASSUME NEW i \in 1 .. m
        PROVE  projection[i] \in I /\ projection[i].expr \in E
    <2>1. projection[i] \in Items
      BY <1>5, <1>4
    <2>2. PICK e \in E : projection[i] = [expr |-> e, alias |-> Absent]
      BY <1>4, <2>1
    <2>3. e \in Exprs /\ Absent \in Names \cup {Absent}
      OBVIOUS
    <2>4. PICK X : X = Exprs
      OBVIOUS
    <2>5. projection[i] \in [expr : X, alias : Names \cup {Absent}]
      BY <2>2, <2>3, <2>4
    <2>6. projection[i] \in I
      BY <1>2, <2>4, <2>5
    <2> QED BY <2>2, <2>6
  <1>8. q \in Queries
    <2>1. PICK F, X : F = Seq(TableRefs) /\ X = Seq(Exprs)
      OBVIOUS
    <2>2. <<from>> \in F
      <3>1. <<from>> \in Seq(TableRefs)
        OBVIOUS
      <3> QED BY <2>1, <3>1
    <2>3. << >> \in X
      <3>1. << >> \in Seq(Exprs)
        OBVIOUS
      <3> QED BY <2>1, <3>1
    <2>4. PICK JJ, II : JJ = Seq(J) /\ II = Seq(I)
      OBVIOUS
    <2>5. joins \in JJ
      <3>1. joins \in [1 .. n -> J]
        <4>1. joins = [i \in 1 .. n |-> joins[i]]
          BY <1>5, <1>3
        <4> QED BY <1>6, <4>1
      <3>2. joins \in Seq(J)
        BY <3>1
      <3> QED BY <2>4, <3>2
    <2>6. projection \in II
      <3>1. projection \in [1 .. m -> I]
        <4>1. projection = [i \in 1 .. m |-> projection[i]]
          BY <1>5, <1>4
        <4> QED BY <1>7, <4>1
      <3>2. projection \in Seq(I)
        BY <3>1
      <3> QED BY <2>4, <3>2
    <2>7. q \in [parent : Nat, name : Names \cup {Absent}, from : F, joins : JJ,
                 projection : II, filter : X, groupBy : X, having : X, orderBy : X]
      BY <2>2, <2>3, <2>5, <2>6 DEF QueryOf
    <2> QED BY <1>2, <2>1, <2>4, <2>7 DEF Queries
  <1>9. ToSet(TableExprs(q)) = {from} \cup {joins[i].table : i \in 1 .. n}
    <2>1. PICK g : g = [i \in DOMAIN joins |-> joins[i].table]
      OBVIOUS
    <2>2. g \in [1 .. n -> TableRefs]
      BY <1>5, <1>6, <2>1
    <2>3. g \in Seq(TableRefs) /\ DOMAIN g = 1 .. n
      BY <2>2
    <2>4. PICK one \in Seq(TableRefs) : one = <<from>>
      <3>1. <<from>> \in Seq(TableRefs)
        OBVIOUS
      <3> QED BY <3>1
    <2>5. TableExprs(q) = one \o g
      BY <1>1, <2>1, <2>4 DEF TableExprs
    <2>6. ToSet(one) = {from}
      BY <2>4 DEF ToSet
    <2>7. ToSet(g) = {joins[i].table : i \in 1 .. n}
      BY <1>5, <2>1, <2>3 DEF ToSet
    <2>8. ToSet(one \o g) = ToSet(one) \cup ToSet(g)
      BY <2>3, ConcatElements
    <2> QED BY <2>5, <2>6, <2>7, <2>8
  <1>10. Projected(q) \in Seq(E)
    <2>1. PICK p : p = [i \in DOMAIN projection |-> projection[i].expr]
      OBVIOUS
    <2>2. p \in [1 .. m -> E]
      BY <1>5, <1>7, <2>1
    <2>3. p \in Seq(E)
      BY <2>2
    <2> QED BY <1>1, <2>1, <2>3 DEF Projected
  <1>11. JoinConditions(q) \in Seq(E)
    <2>1. PICK W : W = Seq(E)
      OBVIOUS
    <2>2. PICK f : f = [i \in DOMAIN joins |-> joins[i].on]
      OBVIOUS
    <2>3. f \in [1 .. n -> W]
      BY <1>5, <1>6, <2>1, <2>2
    <2>4. f \in Seq(W)
      BY <2>3
    <2>5. f \in Seq(Seq(E))
      BY <2>1, <2>4
    <2>6. JoinConditions(q) = FlattenSeq(f)
      BY <1>1, <2>2 DEF JoinConditions
    <2> QED BY <2>5, <2>6, FlattenType
  <1> QED BY <1>1, <1>5, <1>8, <1>9, <1>10, <1>11 DEF IsTheQuery

\* The conditions of a join are its columns alone.
LEMMA OnOfIs ==
  ASSUME NEW E, NEW n \in Nat, NEW predicates, DOMAIN predicates = 1 .. n,
         \A i \in 1 .. n : /\ ColumnAlone(predicates[i].left) \in E
                           /\ ColumnAlone(predicates[i].right) \in E
  PROVE  OnOf(predicates) \in Seq(E)
  <1>1. PICK W : W = Seq(E)
    OBVIOUS
  <1>2. PICK f : f = [i \in DOMAIN predicates |->
               <<ColumnAlone(predicates[i].left), ColumnAlone(predicates[i].right)>>]
    OBVIOUS
  <1>3. ASSUME NEW i \in 1 .. n PROVE f[i] \in W
    <2>1. PICK a \in E, b \in E :
            a = ColumnAlone(predicates[i].left) /\ b = ColumnAlone(predicates[i].right)
      OBVIOUS
    <2>2. <<a, b>> \in Seq(E)
      OBVIOUS
    <2> QED BY <1>1, <1>2, <2>1, <2>2
  <1>4. f \in [1 .. n -> W]
    BY <1>2, <1>3
  <1>5. f \in Seq(W)
    BY <1>4
  <1>6. f \in Seq(Seq(E))
    BY <1>1, <1>5
  <1>7. OnOf(predicates) = FlattenSeq(f)
    BY <1>2, Zenon DEF OnOf
  <1> QED BY <1>6, <1>7, FlattenType

\* The statement is accepted.
LEMMA AsPlannedIsAccepted ==
  ASSUME schema \in Schemas, NEW planned, ArePlanned(planned, schema), planned # << >>,
         \A p \in ToSet(planned) : Cardinality(Named(schema, p.name)) <= 1,
         \A p, r \in ToSet(planned) : p # r => p.alias # r.name,
         NEW plan, plan = [tables |-> planned, joins |-> Joins(planned, schema)],
         ~LeavesAGap(plan)
  PROVE  VerifyStatement(AsPlanned(plan), schema) = Absent
  <1>1. PICK joins : joins = Joins(planned, schema)
    OBVIOUS
  <1>2. plan.tables = planned /\ plan.joins = joins
    BY <1>1
  <1>3. PICK R : R = [name : NamesIn(schema), alias : Names]
    OBVIOUS
  <1>4. planned \in Seq(R)
    BY <1>3 DEF ArePlanned, Planning
  <1>5. PICK n \in Nat : DOMAIN joins = 1 .. n
    BY <1>1, JoinsAre DEF ArePlanned
  <1>6. \A i \in 1 .. n : IsJoin(joins[i], planned, schema)
    BY <1>1, <1>5, JoinsAre DEF ArePlanned
  <1>7. PICK first : first = planned[1]
    OBVIOUS
  <1>8. first \in ToSet(planned) /\ 1 \in DOMAIN planned
    <2>1. 1 \in DOMAIN planned
      BY <1>4
    <2> QED BY <1>7, <2>1 DEF ToSet
  <1>9. \A p \in ToSet(planned) : p \in R /\ p.name \in NamesIn(schema) /\ p.alias \in Names
    <2>1. \A p \in ToSet(planned) : p \in R
      BY <1>4 DEF ToSet
    <2> QED BY <1>3, <2>1
  <1>10. \A p \in ToSet(planned) : TableOf(p) \in TableRefs
    BY <1>9, SeedsOfTable DEF TableOf, TableRefs
  <1>11. PICK P : P = {first} \cup {joins[i].table : i \in 1 .. n}
    OBVIOUS
  <1>12. P \subseteq ToSet(planned)
    BY <1>6, <1>8, <1>11 DEF IsJoin
  <1>13. PICK C : C = {c \in Columns : \E p \in P : IsColumnOf(c, p, schema)}
    OBVIOUS
  <1>14. PICK E : E = {ColumnAlone(c) : c \in C}
    OBVIOUS
  <1>15. E \subseteq Exprs
    BY <1>13, <1>14, ColumnAloneIs
  <1>16. ASSUME NEW i \in 1 .. n
         PROVE  OnOf(joins[i].predicates) \in Seq(E)
    <2>1. PICK preds : preds = joins[i].predicates
      OBVIOUS
    <2>2. PICK left \in ToSet(planned) : ArePairs(preds, left, joins[i].table, schema)
      BY <1>6, <2>1 DEF IsJoin
    <2>3. joins[i].table \in P
      BY <1>11
    <2>4. joins[i] \in ToSet(joins)
      BY <1>5 DEF ToSet
    <2>5. PICK k \in Nat : DOMAIN preds = 1 .. k
      BY <2>2 DEF ArePairs
    <2>6. ASSUME NEW x \in 1 .. k, NEW side \in {"left", "right"},
                 preds[x][side] \in Columns
          PROVE  preds[x][side] \in C
      <3>1. PICK c : c = preds[x][side]
        OBVIOUS
      <3>2. IsColumnOf(c, left, schema) \/ IsColumnOf(c, joins[i].table, schema)
        BY <2>2, <2>5, <3>1 DEF ArePairs
      <3>3. CASE IsColumnOf(c, joins[i].table, schema)
        BY <1>13, <2>3, <2>6, <3>1, <3>3
      <3>4. CASE IsColumnOf(c, left, schema)
        <4>1. preds[x] \in ToSet(preds)
          BY <2>5 DEF ToSet
        <4>2. c.qualifier \in {first.alias} \cup {j.table.alias : j \in ToSet(joins)}
          BY <1>2, <1>7, <2>1, <2>4, <3>1, <4>1 DEF LeavesAGap
        <4>3. PICK p \in P : c.qualifier = p.alias
          <5>1. CASE c.qualifier = first.alias
            BY <1>11, <5>1
          <5>2. CASE c.qualifier \in {j.table.alias : j \in ToSet(joins)}
            <6>1. PICK j \in ToSet(joins) : c.qualifier = j.table.alias
              BY <5>2
            <6>2. PICK y \in 1 .. n : j = joins[y]
              BY <1>5 DEF ToSet
            <6> QED BY <1>11, <6>1, <6>2
          <5> QED BY <4>2, <5>1, <5>2
        <4>4. left.alias = p.alias
          BY <3>4, <4>3 DEF IsColumnOf
        <4>5. left = p
          <5>1. left \in ToSet(planned) /\ p \in ToSet(planned)
            BY <1>12
          <5> QED BY <4>4, <5>1 DEF ArePlanned, ToSet
        <4> QED BY <1>13, <2>6, <3>1, <3>4, <4>5
      <3> QED BY <3>2, <3>3, <3>4
    <2>7. ASSUME NEW x \in 1 .. k
          PROVE  ColumnAlone(preds[x].left) \in E /\ ColumnAlone(preds[x].right) \in E
      <3>1. preds[x].left \in Columns /\ preds[x].right \in Columns
        BY <2>2, <2>5 DEF ArePairs
      <3>2. preds[x].left \in C /\ preds[x].right \in C
        BY <2>6, <3>1
      <3> QED BY <1>14, <3>2
    <2> QED BY <2>1, <2>5, <2>7, OnOfIs
  <1>17. PICK columns \in Seq(Names) :
           /\ columns = BuildPrompt(plan, schema).tables[1].columns
           /\ ToSet(columns) = ToSet(IndexTable(schema, first.name).columns)
    <2>1. BuildPrompt(plan, schema).tables[1] = ByName(schema, first.name)
      BY <1>2, <1>7, <1>8 DEF BuildPrompt, ContextTables
    <2>2. /\ ByName(schema, first.name) = IndexTable(schema, first.name)
          /\ IndexTable(schema, first.name) \in ToSet(schema)
      BY <1>8, <1>9, OneOfAName
    <2>3. IndexTable(schema, first.name) \in Tables
      <3>1. schema \in Seq(Tables)
        BY SchemaAssumption
      <3> QED BY <2>2, <3>1 DEF ToSet
    <2>4. IndexTable(schema, first.name).columns \in Seq(Names)
      BY <2>3 DEF Tables
    <2> QED BY <2>1, <2>2, <2>4
  <1>18. PICK m \in Nat : DOMAIN columns = 1 .. m
    OBVIOUS
  <1>19. PICK projection :
           projection = [i \in DOMAIN columns |->
                           ItemOf([qualifier |-> first.alias, name |-> columns[i]])]
    OBVIOUS
  <1>20. ASSUME NEW i \in 1 .. m
         PROVE  projection[i] \in [expr : E, alias : {Absent}]
    <2>1. PICK c : c = [qualifier |-> first.alias, name |-> columns[i]]
      OBVIOUS
    <2>2. columns[i] \in Names /\ columns[i] \in ToSet(columns)
      BY <1>18 DEF ToSet
    <2>3. first.alias \in Names
      BY <1>8, <1>9
    <2>4. c \in Columns
      BY <2>1, <2>2, <2>3 DEF Columns
    <2>5. IsColumnOf(c, first, schema)
      BY <1>17, <2>1, <2>2 DEF IsColumnOf
    <2>6. c \in C
      BY <1>11, <1>13, <2>4, <2>5
    <2>7. PICK e : e = ColumnAlone(c)
      OBVIOUS
    <2>8. projection[i] = [expr |-> e, alias |-> Absent]
      BY <1>18, <1>19, <2>1, <2>7 DEF ItemOf
    <2>9. e \in E
      BY <1>14, <2>6, <2>7
    <2> QED BY <2>8, <2>9
  <1>21. PICK js : js = [i \in DOMAIN joins |-> JoinOf(joins[i])]
    OBVIOUS
  <1>22. ASSUME NEW i \in 1 .. n
         PROVE  /\ js[i] \in [table : TableRefs, on : Seq(E)]
                /\ js[i].table = TableOf(joins[i].table)
    <2>1. js[i] = [table |-> TableOf(joins[i].table), on |-> OnOf(joins[i].predicates)]
      BY <1>5, <1>21 DEF JoinOf
    <2>2. PICK t, on : t = TableOf(joins[i].table) /\ on = OnOf(joins[i].predicates)
      OBVIOUS
    <2>3. js[i] = [table |-> t, on |-> on]
      BY <2>1, <2>2
    <2>4. t \in TableRefs
      BY <1>6, <1>10, <2>2 DEF IsJoin
    <2>5. PICK S : S = Seq(E)
      OBVIOUS
    <2>6. on \in S
      BY <1>16, <2>2, <2>5
    <2>7. js[i] \in [table : TableRefs, on : S]
      BY <2>3, <2>4, <2>6
    <2> QED BY <2>2, <2>3, <2>5, <2>7
  <1>23. PICK q : q = QueryOf(TableOf(first), js, projection)
    OBVIOUS
  <1>24. /\ q \in Queries
         /\ ToSet(TableExprs(q)) = {TableOf(first)} \cup {js[i].table : i \in DOMAIN js}
         /\ Projected(q) \in Seq(E) /\ JoinConditions(q) \in Seq(E)
         /\ q.filter = << >> /\ q.groupBy = << >> /\ q.having = << >> /\ q.orderBy = << >>
    <2>1. PICK from \in TableRefs : from = TableOf(first)
      BY <1>8, <1>10
    <2>2. PICK J, I : J = [table : TableRefs, on : Seq(E)] /\ I = [expr : E, alias : {Absent}]
      OBVIOUS
    <2>3. js \in Seq(J)
      <3>1. js \in [1 .. n -> J]
        <4>1. \A i \in 1 .. n : js[i] \in J
          BY <1>22, <2>2
        <4>2. js = [i \in 1 .. n |-> js[i]]
          BY <1>5, <1>21
        <4> QED BY <4>1, <4>2
      <3> QED BY <3>1
    <2>4. projection \in Seq(I)
      <3>1. projection \in [1 .. m -> I]
        <4>1. \A i \in 1 .. m : projection[i] \in I
          BY <1>20, <2>2
        <4>2. projection = [i \in 1 .. m |-> projection[i]]
          BY <1>18, <1>19
        <4> QED BY <4>1, <4>2
      <3> QED BY <3>1
    <2>5. q = QueryOf(from, js, projection)
      BY <1>23, <2>1
    <2>6. IsTheQuery(q, from, js, E)
      <3>1. \A x \in J : \E t \in TableRefs, s \in Seq(E) : x = [table |-> t, on |-> s]
        <4>1. PICK S : S = Seq(E)
          OBVIOUS
        <4>2. J = [table : TableRefs, on : S]
          BY <2>2, <4>1
        <4>3. \A x \in J : \E t \in TableRefs, s \in S : x = [table |-> t, on |-> s]
          BY <4>2
        <4> QED BY <4>1, <4>3
      <3>2. \A x \in I : \E e \in E : x = [expr |-> e, alias |-> Absent]
        BY <2>2
      <3>3. AreJoins(js, E)
        BY <2>3, <3>1 DEF AreJoins
      <3>4. AreItems(projection, E)
        BY <2>4, <3>2 DEF AreItems
      <3> QED BY <1>15, <2>5, <3>3, <3>4, QueryOfIs
    <2> QED BY <2>1, <2>6 DEF IsTheQuery
  <1>25. ToSet(TableExprs(q)) = {TableOf(p) : p \in P}
    <2>1. DOMAIN js = 1 .. n
      BY <1>5, <1>21
    <2>2. \A i \in 1 .. n : js[i].table = TableOf(joins[i].table)
      BY <1>22
    <2>3. ToSet(TableExprs(q)) \subseteq {TableOf(p) : p \in P}
      BY <1>11, <1>24, <2>1, <2>2
    <2>4. ASSUME NEW p \in P PROVE TableOf(p) \in ToSet(TableExprs(q))
      <3>1. CASE p = first
        BY <1>24, <3>1
      <3>2. CASE p \in {joins[i].table : i \in 1 .. n}
        <4>1. PICK i \in 1 .. n : p = joins[i].table
          BY <3>2
        <4>2. js[i].table = TableOf(p)
          BY <2>2, <4>1
        <4> QED BY <1>24, <2>1, <4>2
      <3> QED BY <1>11, <3>1, <3>2
    <2> QED BY <2>3, <2>4
  <1>26. VerifyQuery(q, schema, {}) = Absent
    <2>1. \A p, r \in P : p # r => p.alias # r.name
      BY <1>12
    <2>2. \A p \in P : Cardinality(Named(schema, p.name)) <= 1
      BY <1>12
    <2> QED BY <1>12, <1>13, <1>14, <1>24, <1>25, <2>1, <2>2, PlannedQueryIsAccepted
  <1>27. AsPlanned(plan) = <<q>>
    BY <1>2, <1>7, <1>17, <1>19, <1>21, <1>23, AsPlannedIs
  <1>28. PICK stmt \in Seq(Queries) : stmt = <<q>> /\ DOMAIN stmt = {1} /\ stmt[1] = q
    <2>1. <<q>> \in Seq(Queries)
      BY <1>24
    <2>2. DOMAIN <<q>> = {1} /\ <<q>>[1] = q
      OBVIOUS
    <2> QED BY <2>1, <2>2
  <1>29. CommonNames(stmt, 1) = {}
    <2>1. q.parent = 0
      BY <1>23 DEF QueryOf
    <2> QED BY <1>28, <2>1 DEF CommonNames
  <1>30. \A i \in DOMAIN stmt : VerifyQuery(stmt[i], schema, CommonNames(stmt, i)) = Absent
    BY <1>26, <1>28, <1>29
  <1>31. VerifyStatement(stmt, schema) = Absent
    BY <1>30, StatementVerdict
  <1> QED BY <1>27, <1>28, <1>31

-----------------------------------------------------------------------------
\* The names of a plan are in the grammar.
LEMMA PlannedNamesAreInGrammar ==
  ASSUME NEW sch \in Schemas, NEW plan, plan.tables \in Planning(sch), plan.tables # << >>
  PROVE  PlannedNames(plan) \subseteq {t.name : t \in GrammarSchema(plan, sch)}
  <1>1. PICK R, planned : R = [name : NamesIn(sch), alias : Names] /\ planned = plan.tables
    OBVIOUS
  <1>2. planned \in Seq(R) /\ planned # << >>
    BY <1>1 DEF Planning
  <1>3. \A p \in ToSet(planned) : p.name \in NamesIn(sch)
    <2>1. \A p \in ToSet(planned) : p \in R
      BY <1>2 DEF ToSet
    <2> QED BY <1>1, <2>1
  <1>4. PICK names : names = PlannedNames(plan)
    OBVIOUS
  <1>5. names \subseteq NamesIn(sch) /\ names # {}
    <2>1. planned[1] \in ToSet(planned)
      BY <1>2 DEF ToSet
    <2> QED BY <1>1, <1>3, <1>4, <2>1 DEF PlannedNames
  <1>6. names \subseteq RelevantTables(plan, sch)
    BY <1>4, <1>5 DEF RelevantTables, NamesIn
  <1>7. SUFFICES ASSUME NEW name \in names
                 PROVE  \E t \in GrammarSchema(plan, sch) : name = t.name
    BY <1>4
  <1>8. PICK t \in ToSet(sch) : name = t.name
    BY <1>5 DEF NamesIn
  <1>9. t.name \in RelevantTables(plan, sch)
    BY <1>6, <1>8
  <1>10. t \in GrammarSchema(plan, sch)
    BY <1>8, <1>9 DEF GrammarSchema
  <1> QED BY <1>8, <1>10

\* A plan of the question and its statement, in every state of the loop.
LEMMA PlanFollows == GenerateInv => PlanIsAccepted
  <1>1. SUFFICES ASSUME GenerateInv, ToSet(CurrentPlan.tables) # {},
                        ~LeavesAGap(CurrentPlan),
                        \A p \in ToSet(CurrentPlan.tables) :
                          ~(Cardinality(Named(schema, p.name)) > 1),
                        \A p, q \in ToSet(CurrentPlan.tables) : p # q => p.alias # q.name
                 PROVE  /\ VerifyStatement(AsPlanned(CurrentPlan), schema) = Absent
                        /\ PlannedNames(CurrentPlan) \subseteq
                             {t.name : t \in GrammarSchema(CurrentPlan, schema)}
    BY Zenon DEF PlanIsAccepted
  <1>2. schema \in Schemas /\ words \in Questions
    BY <1>1 DEF GenerateInv
  <1>3. PICK plan, planned : plan = CurrentPlan /\ planned = PlannedTables(words, schema)
    OBVIOUS
  <1>4. ArePlanned(planned, schema)
    BY <1>2, <1>3, PlannedTablesAre
  <1>5. plan = [tables |-> planned, joins |-> Joins(planned, schema)] /\ plan.tables = planned
    BY <1>3 DEF CurrentPlan, Plan
  <1>6. planned # << >>
    BY <1>1, <1>3, <1>5 DEF ToSet
  <1>7. \A p \in ToSet(planned) : Cardinality(Named(schema, p.name)) <= 1
    <2>1. SUFFICES ASSUME NEW p \in ToSet(planned)
                   PROVE  Cardinality(Named(schema, p.name)) <= 1
      OBVIOUS
    <2>2. PICK s : s = Named(schema, p.name)
      OBVIOUS
    <2>3. schema \in Seq(Tables)
      BY <1>2, SchemaAssumption
    <2>4. IsFiniteSet(1 .. Len(schema)) /\ s \subseteq 1 .. Len(schema)
      <3>1. s \subseteq 1 .. Len(schema) /\ Len(schema) \in Nat
        BY <2>2, <2>3 DEF Named
      <3> QED BY <3>1, FS_Interval
    <2>5. Cardinality(s) \in Nat
      BY <2>4, FS_Subset, FS_CardinalityType
    <2>6. ~(Cardinality(s) > 1)
      BY <1>1, <1>3, <1>5, <2>2
    <2> QED BY <2>2, <2>5, <2>6
  <1>8. VerifyStatement(AsPlanned(plan), schema) = Absent
    BY <1>1, <1>2, <1>3, <1>4, <1>5, <1>6, <1>7, AsPlannedIsAccepted
  <1>9. PlannedNames(plan) \subseteq {t.name : t \in GrammarSchema(plan, schema)}
    BY <1>2, <1>4, <1>5, <1>6, PlannedNamesAreInGrammar DEF ArePlanned
  <1> QED BY <1>3, <1>8, <1>9

\* The statement that does as the prompt says - the planned tables under their
\* aliases, joined as known (plan.rs) - passes the verification (verify.rs), and
\* its tables are in the grammar (project.rs), but for the listed cases.
THEOREM PlanIsAlwaysAccepted == GenerateSpec => []PlanIsAccepted
  BY GenerateInvHolds, PlanFollows, PTL

-----------------------------------------------------------------------------
(* ModelCommand. *)

\* What was written to an output pipe is in it or was read; only a chat that returns
\* its child's failure may have dropped what it read from stderr.
Conserved ==
  /\ childOut = text + outPipe
  /\ childErr = errText + errPipe \/ (mode = "chat" /\ result = "childError")

\* Which ends are open, and what is left to do, at which step of the two processes.
Ends ==
  /\ pc # "done" => result = "none"
  /\ inOpen => pc = "writeStdin"
  /\ pc \in {"readStdout", "drain", "wait"} => unwritten = 0
  /\ pc = "readStdout" => mode = "chat"
  /\ pc = "drain" => mode = "complete"
  /\ (mode = "chat" /\ result = "none") => errText = 0
  /\ pc = "wait" => outPipe = 0 /\ outClosed
  /\ (pc = "wait" /\ mode = "complete") => Exited
  /\ outClosed => child # "writeOut"
  /\ Exited => outClosed /\ inClosed
  /\ child = "writeOut" => childOut < MaxOut
  /\ child = "writeErr" => childErr < MaxErr

IInv == TypeOK /\ Conserved /\ Ends /\ OkIsWholeAnswer /\ ErrorCarriesStderr

LEMMA InitInv == Init => IInv
  <1> SUFFICES ASSUME Init PROVE IInv
    OBVIOUS
  <1>1. unwritten \in 0 .. Prompt
    BY ModelCommandAssumption DEF Init
  <1>2. TypeOK
    <2>1. 0 \in 0 .. MaxOut /\ 0 \in 0 .. MaxErr /\ 0 \in 0 .. PipeCap
      BY ModelCommandAssumption
    <2>2. inOpen \in BOOLEAN /\ inClosed \in BOOLEAN /\ outClosed \in BOOLEAN /\ sawEof \in BOOLEAN
      BY ZenonT(20) DEF Init
    <2>3. QED BY <1>1, <2>1, <2>2 DEF Init, TypeOK
  <1>3. Conserved /\ Ends /\ OkIsWholeAnswer /\ ErrorCarriesStderr
    BY DEF Init, Conserved, Ends, OkIsWholeAnswer, ErrorCarriesStderr, Exited
  <1>4. QED BY <1>2, <1>3 DEF IInv

LEMMA ParentInv ==
  ASSUME IInv, Parent
  PROVE  IInv'
  <1> USE ModelCommandAssumption
      DEF IInv, TypeOK, Conserved, Ends, OkIsWholeAnswer, ErrorCarriesStderr, Exited, childVars
  <1>1. CASE Spawn
    <2>1. TypeOK'
      BY <1>1 DEF Spawn, UsesStdin, AfterPrompt
    <2>2. Conserved'
      BY <1>1 DEF Spawn, UsesStdin, AfterPrompt
    <2>3. Ends'
      BY <1>1 DEF Spawn, UsesStdin, AfterPrompt
    <2>4. (OkIsWholeAnswer /\ ErrorCarriesStderr)'
      BY <1>1 DEF Spawn, UsesStdin, AfterPrompt
    <2>5. QED BY ZenonT(30), <2>1, <2>2, <2>3, <2>4
  <1>2. CASE SpawnFails
    BY ZenonT(30), <1>2 DEF SpawnFails, Return
  <1>3. CASE WritePrompt
    BY <1>3 DEF WritePrompt
  <1>4. CASE PromptRefused
    BY ZenonT(30), <1>4 DEF PromptRefused, Return
  <1>5. CASE CloseStdin
    <2>1. TypeOK'
      BY <1>5 DEF CloseStdin, AfterPrompt
    <2>2. Conserved'
      BY <1>5 DEF CloseStdin, AfterPrompt
    <2>3. Ends'
      BY <1>5 DEF CloseStdin, AfterPrompt
    <2>4. (OkIsWholeAnswer /\ ErrorCarriesStderr)'
      BY <1>5 DEF CloseStdin, AfterPrompt
    <2>5. QED BY ZenonT(30), <2>1, <2>2, <2>3, <2>4
  <1>6. CASE ReadLine
    <2>1. TypeOK'
      BY <1>6 DEF ReadLine, TakeOut
    <2>2. Conserved'
      BY <1>6 DEF ReadLine, TakeOut
    <2>3. Ends'
      BY <1>6 DEF ReadLine, TakeOut
    <2>4. (OkIsWholeAnswer /\ ErrorCarriesStderr)'
      BY <1>6 DEF ReadLine, TakeOut
    <2>5. QED BY ZenonT(30), <2>1, <2>2, <2>3, <2>4
  <1>7. CASE BadLine
    BY ZenonT(30), <1>7 DEF BadLine, Return
  <1>8. CASE StdoutEnds
    BY <1>8 DEF StdoutEnds, OutEof
  <1>9. CASE Drain
    <2>1. TypeOK'
      BY <1>9 DEF Drain, TakeOut, TakeErr
    <2>2. Conserved'
      BY <1>9 DEF Drain, TakeOut, TakeErr
    <2>3. Ends'
      BY <1>9 DEF Drain, TakeOut, TakeErr
    <2>4. (OkIsWholeAnswer /\ ErrorCarriesStderr)'
      BY <1>9 DEF Drain, TakeOut, TakeErr
    <2>5. QED BY ZenonT(30), <2>1, <2>2, <2>3, <2>4
  <1>10. CASE Drained
    <2>1. TypeOK'
      BY <1>10 DEF Drained, OutEof, ErrEof
    <2>2. Conserved'
      BY <1>10 DEF Drained, OutEof, ErrEof
    <2>3. Ends'
      BY <1>10 DEF Drained, OutEof, ErrEof
    <2>4. (OkIsWholeAnswer /\ ErrorCarriesStderr)'
      BY <1>10 DEF Drained, OutEof, ErrEof
    <2>5. QED BY ZenonT(30), <2>1, <2>2, <2>3, <2>4
  <1>11. CASE Wait
    <2>1. TypeOK'
      BY <1>11 DEF Wait, Return
    <2>2. Conserved'
      BY <1>11 DEF Wait, Return
    <2>3. Ends'
      BY <1>11 DEF Wait, Return
    <2>4. (OkIsWholeAnswer /\ ErrorCarriesStderr)'
      BY <1>11 DEF Wait, Return
    <2>5. QED BY ZenonT(30), <2>1, <2>2, <2>3, <2>4
  <1>12. QED
    BY <1>1, <1>2, <1>3, <1>4, <1>5, <1>6, <1>7, <1>8, <1>9, <1>10, <1>11 DEF Parent

LEMMA ChildInv ==
  ASSUME IInv, Child
  PROVE  IInv'
  <1> USE ModelCommandAssumption
      DEF IInv, TypeOK, Conserved, Ends, OkIsWholeAnswer, ErrorCarriesStderr, Exited, parentVars
  <1>1. CASE Choose
    BY <1>1 DEF Choose
  <1>2. CASE ReadIn
    <2>1. TypeOK'
      <3>1. CASE inPipe > 0 /\ inPipe' = inPipe - 1 /\ UNCHANGED sawEof
        BY <1>2, <3>1 DEF ReadIn
      <3>2. CASE sawEof' = TRUE /\ UNCHANGED inPipe
        BY <1>2, <3>2 DEF ReadIn
      <3>3. QED BY <1>2, <3>1, <3>2 DEF ReadIn
    <2>2. Conserved'
      BY <1>2 DEF ReadIn
    <2>3. Ends'
      BY <1>2 DEF ReadIn
    <2>4. (OkIsWholeAnswer /\ ErrorCarriesStderr)'
      BY <1>2 DEF ReadIn
    <2>5. QED BY ZenonT(30), <2>1, <2>2, <2>3, <2>4
  <1>3. CASE WriteOut
    <2>1. TypeOK'
      BY <1>3 DEF WriteOut, Abandoned
    <2>2. Conserved'
      BY <1>3 DEF WriteOut, Abandoned
    <2>3. Ends'
      BY <1>3 DEF WriteOut, Abandoned
    <2>4. (OkIsWholeAnswer /\ ErrorCarriesStderr)'
      BY <1>3 DEF WriteOut, Abandoned
    <2>5. QED BY ZenonT(30), <2>1, <2>2, <2>3, <2>4
  <1>4. CASE WriteErr
    <2>1. TypeOK'
      BY <1>4 DEF WriteErr, Abandoned
    <2>2. Conserved'
      BY <1>4 DEF WriteErr, Abandoned
    <2>3. Ends'
      BY <1>4 DEF WriteErr, Abandoned
    <2>4. (OkIsWholeAnswer /\ ErrorCarriesStderr)'
      BY <1>4 DEF WriteErr, Abandoned
    <2>5. QED BY ZenonT(30), <2>1, <2>2, <2>3, <2>4
  <1>5. CASE CloseIn
    BY <1>5 DEF CloseIn
  <1>6. CASE CloseOut
    BY <1>6 DEF CloseOut
  <1>7. CASE Exit
    <2>1. TypeOK'
      BY <1>7 DEF Exit
    <2>2. Conserved'
      BY <1>7 DEF Exit
    <2>3. Ends'
      BY <1>7 DEF Exit
    <2>4. (OkIsWholeAnswer /\ ErrorCarriesStderr)'
      BY <1>7 DEF Exit
    <2>5. QED BY ZenonT(30), <2>1, <2>2, <2>3, <2>4
  <1>8. QED
    BY <1>1, <1>2, <1>3, <1>4, <1>5, <1>6, <1>7 DEF Child

LEMMA NextInv ==
  ASSUME IInv, [Next]_vars
  PROVE  IInv'
  <1>1. CASE UNCHANGED vars
    BY <1>1 DEF vars, parentVars, childVars, IInv, TypeOK, Conserved, Ends, OkIsWholeAnswer,
                ErrorCarriesStderr, Exited
  <1>2. QED BY <1>1, ParentInv, ChildInv DEF Next

THEOREM Invariance == Spec => []IInv
  BY InitInv, NextInv, PTL DEF Spec

\* Every variable keeps its type: no pipe overflows and nothing is read twice.
THEOREM TypeCorrect == Spec => []TypeOK
  <1>1. IInv => TypeOK
    BY DEF IInv
  <1>2. QED BY <1>1, Invariance, PTL

\* A success is the whole answer of a child that ended well.
THEOREM WholeAnswer == Spec => []OkIsWholeAnswer
  <1>1. IInv => OkIsWholeAnswer
    BY DEF IInv
  <1>2. QED BY <1>1, Invariance, PTL

\* An error that names the child's failure carries its whole stderr, whatever that is
\* from complete and if it is UTF-8 from chat; from chat it is the whole or nothing.
THEOREM WholeStderr == Spec => []ErrorCarriesStderr
  <1>1. IInv => ErrorCarriesStderr
    BY DEF IInv
  <1>2. QED BY <1>1, Invariance, PTL

\* Parent and child block each other in the two named cases only.
THEOREM OnlyTwoWaysToGetStuck == Spec => []StuckOnlyOnOutput
  <1>1. IInv => StuckOnlyOnOutput
    BY ModelCommandAssumption
       DEF IInv, TypeOK, Ends, Exited, StuckOnlyOnOutput, ParentBlocked, ChildBlocked
  <1>2. QED BY <1>1, Invariance, PTL
=============================================================================
