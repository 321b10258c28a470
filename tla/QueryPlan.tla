----------------------------- MODULE QueryPlan -----------------------------
(***************************************************************************)
(* The planning of a query before a model is asked (irodori-generate/src/  *)
(* plan.rs, project.rs, schema.rs): the tables a question mentions, their  *)
(* aliases, the joins between them, and what the grammar exposes.          *)
(*                                                                         *)
(* A name stands for all its spellings: it is only compared without regard *)
(* to case.  A schema is a sequence of tables, a foreign key pairs its     *)
(* columns with columns of the table it refers to.                         *)
(***************************************************************************)
EXTENDS Integers, SequencesExt

CONSTANTS NamedBy,          \* by word: the table names it matches
          Seeds,            \* by table name: the aliases to try, in order
          MaxRelevant,      \* MAX_RELEVANT_TABLES
          ScopeThreshold,   \* GRAMMAR_SCOPE_THRESHOLD
          MaxContext,       \* MAX_CONTEXT_TABLES
          Absent

\* A part of a sequence that is there only under a condition.
If(condition, s) == IF condition THEN s ELSE << >>

Named(schema, name) == {i \in DOMAIN schema : schema[i].name = name}

-----------------------------------------------------------------------------
\* The index of verification: of tables of one name the first.
IndexTable(schema, name) ==
  IF Named(schema, name) = {} THEN Absent
  ELSE schema[Min(Named(schema, name))]

\* The map of the planner: of tables of one name the last.
ByName(schema, name) == schema[Max(Named(schema, name))]

HasColumn(table, column) == column \in ToSet(table.columns)

-----------------------------------------------------------------------------
Mentions(words, name) == {i \in DOMAIN words : name \in NamedBy[words[i]]}

\* In the order of their first mention: by the word, then by the schema.
SelectTables(words, schema) ==
  LET First(i, w) == /\ w \in Mentions(words, schema[i].name)
                     /\ w = Min(Mentions(words, schema[i].name))
      MentionedFirst(w) ==
        FlattenSeq([i \in DOMAIN schema |-> If(First(i, w), <<schema[i]>>)])
  IN FlattenSeq([w \in DOMAIN words |-> MentionedFirst(w)])

UniqueAlias(name, used) ==
  Seeds[name][Min({k \in DOMAIN Seeds[name] : Seeds[name][k] \notin used})]

Aliases(planned) == {p.alias : p \in ToSet(planned)}

AddPlanned(planned, table) ==
  Append(planned, [name |-> table.name, alias |-> UniqueAlias(table.name, Aliases(planned))])

PlannedTables(words, schema) == FoldLeft(AddPlanned, << >>, SelectTables(words, schema))

Pairs(a, as, b, bs) ==
  [i \in DOMAIN as \cap DOMAIN bs |->
     [left  |-> [qualifier |-> a.alias, name |-> as[i]],
      right |-> [qualifier |-> b.alias, name |-> bs[i]]]]

KeysTo(table, name) == {i \in DOMAIN table.keys : table.keys[i].refTable = name}

\* Slip: a key of the left table is read as one of the right table.
JoinFromTheRight(left, right, schema) ==
  LET L == ByName(schema, left.name)  R == ByName(schema, right.name) IN
  IF KeysTo(R, left.name) # {} THEN
    LET key == R.keys[Min(KeysTo(R, left.name))]
    IN Pairs(right, key.columns, left, key.refColumns)
  ELSE IF KeysTo(L, right.name) # {} THEN
    LET key == L.keys[Min(KeysTo(L, right.name))]
    IN Pairs(right, key.columns, left, key.refColumns)
  ELSE Absent
JoinPredicates(left, right, schema) ==
  LET L == ByName(schema, left.name)  R == ByName(schema, right.name) IN
  IF KeysTo(R, left.name) # {} THEN
    LET key == R.keys[Min(KeysTo(R, left.name))]
    IN Pairs(right, key.columns, left, key.refColumns)
  ELSE IF KeysTo(L, right.name) # {} THEN
    LET key == L.keys[Min(KeysTo(L, right.name))]
    IN Pairs(left, key.columns, right, key.refColumns)
  ELSE Absent

\* Each table joins the first of those before it that it has a key to or from.
Joins(planned, schema) ==
  LET Partners(i) == {j \in 1 .. i - 1 :
                        JoinPredicates(planned[j], planned[i], schema) # Absent}
      Join(i) == [table |-> planned[i],
                  predicates |-> JoinPredicates(planned[Min(Partners(i))],
                                                planned[i], schema)]
  IN FlattenSeq([i \in DOMAIN planned |-> If(Partners(i) # {}, <<Join(i)>>)])

Plan(words, schema) ==
  LET planned == PlannedTables(words, schema)
  IN [tables |-> planned, joins |-> Joins(planned, schema)]

-----------------------------------------------------------------------------
PlannedNames(plan) == {p.name : p \in ToSet(plan.tables)}

\* The planned tables and those one key away, unless they are too many.
RelevantTables(plan, schema) ==
  LET planned == PlannedNames(plan)
      pointedAt == UNION {{k.refTable : k \in ToSet(ByName(schema, n).keys)} :
                            n \in planned}
      pointing == {t.name : t \in {t \in ToSet(schema) :
                     \E n \in planned : KeysTo(t, n) # {}}}
      keep == planned \cup pointedAt \cup pointing
  IN IF planned = {} THEN {}
     ELSE IF Cardinality(keep) > MaxRelevant THEN planned
     ELSE keep \cap {t.name : t \in ToSet(schema)}

\* The tables whose names the grammar has.
GrammarSchema(plan, schema) ==
  LET relevant == RelevantTables(plan, schema) IN
  IF relevant = {} \/ Len(schema) <= ScopeThreshold THEN ToSet(schema)
  ELSE {t \in ToSet(schema) : t.name \in relevant}

\* The tables the prompt describes.
ContextTables(plan, schema) ==
  IF plan.tables = << >>
  THEN SubSeq(schema, 1, IF Len(schema) < MaxContext THEN Len(schema) ELSE MaxContext)
  ELSE [i \in DOMAIN plan.tables |-> ByName(schema, plan.tables[i].name)]

BuildPrompt(plan, schema) ==
  [tables |-> ContextTables(plan, schema), joins |-> plan.joins]
=============================================================================
