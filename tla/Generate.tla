------------------------------ MODULE Generate ------------------------------
(***************************************************************************)
(* The generation of a SELECT (irodori-generate/src/lib.rs): a question is *)
(* planned, a model is asked, its answer is verified, and a rejected       *)
(* answer is asked for again with the reason.                              *)
(*                                                                         *)
(* External: the model, which writes anything whatever it was told (only   *)
(* some of the backends obey a grammar) or fails, and the parser.  An      *)
(* answer is a statement with what is wrapped around it.  Token counts and *)
(* the rendering of an accepted statement are left out.                    *)
(***************************************************************************)
EXTENDS SqlVerify

CONSTANTS Names,          \* of schemas, tables and columns
          Schemas,
          Questions,      \* sequences of words
          MaxAttempts,    \* what max_attempts may be
          Statements(_, _),  \* what a model may write about a question when it
                             \* is told why it was rejected
          Wrappings       \* around a statement

Keys == [columns : Seq(Names), refTable : Names, refColumns : Seq(Names)]
Tables == [schema : Names \cup {Absent}, name : Names, columns : Seq(Names),
           keys : Seq(Keys)]

Columns == [qualifier : Names \cup {Absent}, name : Names]
Nodes == [kind : {"column"}, column : Columns, last : Nat]
         \cup [kind : {"leaf", "aggregate", "compound"}, column : {Absent}, last : Nat]
Exprs == Seq(Nodes)
TableRefs == [schema : Names \cup {Absent}, object : Names, alias : Names \cup {Absent}]
Queries == [parent : Nat, name : Names \cup {Absent}, from : Seq(TableRefs),
            joins : Seq([table : TableRefs, on : Seq(Exprs)]),
            projection : Seq([expr : Exprs, alias : Names \cup {Absent}]),
            filter : Seq(Exprs), groupBy : Seq(Exprs), having : Seq(Exprs),
            orderBy : Seq(Exprs)]

Errors == {Error(what) : what \in
            {"not parsed", "unknown table", "unknown qualifier", "unknown column",
             "ambiguous column", "not grouped", "model"}}

Answers == UNION {Statements(q, e) : q \in Questions, e \in Errors \cup {Absent}}

\* A schema is a sequence of tables, a foreign key names columns there are: its
\* own, and those of the table it refers to where only one has that name.
ASSUME SchemaAssumption ==
  /\ Absent \notin Names /\ Absent \notin Errors
  /\ \A schema \in Schemas :
       /\ schema \in Seq(Tables)
       /\ \A t \in ToSet(schema) : t # Absent
       /\ \A t, u \in ToSet(schema) : \A key \in ToSet(t.keys) :
            /\ ToSet(key.columns) \subseteq ToSet(t.columns)
            /\ (key.refTable = u.name /\ Cardinality(Named(schema, u.name)) <= 1) =>
                 ToSet(key.refColumns) \subseteq ToSet(u.columns)

\* unique_alias counts on until it finds a name that is not taken: there is one
\* for each table of a question, whatever the tables before it are called.
ASSUME AliasAssumption ==
  /\ \A name \in DOMAIN Seeds : Seeds[name] \in Seq(Names)
  /\ \A schema \in Schemas : \A t \in ToSet(schema) : t.name \in DOMAIN Seeds
  /\ \A word \in DOMAIN NamedBy : NamedBy[word] \subseteq Names
  /\ \A question \in Questions : question \in Seq(DOMAIN NamedBy)
  /\ \A schema \in Schemas, question \in Questions :
       \A table \in ToSet(SelectTables(question, schema)) :
         Cardinality(ToSet(Seeds[table.name])) >= Len(SelectTables(question, schema))

\* What the parser returns: a statement is none of the other values.
ASSUME AnswerAssumption ==
  \A statement \in Answers :
    /\ statement \in Seq(Queries) /\ statement # Absent
    /\ Absent # [sql |-> statement]

VARIABLES schema, words, attempts,   \* the request
          asked,       \* the attempts made
          answer,      \* the statement of the last answer, Absent: none
          lastError,   \* last_error
          outcome      \* Absent while the loop runs

request      == <<schema, words, attempts>>
generateVars == <<request, asked, answer, lastError, outcome>>

CurrentPlan == Plan(words, schema)

\* What the model is told next.
ModelPrompt == [base |-> BuildPrompt(CurrentPlan, schema), rejected |-> lastError]

\* A fence that names no language or SQL is taken off; anything else stays.
SanitizeOutput(statement, wrapping) ==
  IF wrapping \in {"none", "fence", "sql fence"} THEN statement ELSE Absent

Verify(statement) ==
  IF statement = Absent THEN Error("not parsed")
  ELSE VerifyStatement(statement, schema)

-----------------------------------------------------------------------------
GenerateInit ==
  /\ schema \in Schemas /\ words \in Questions /\ attempts \in MaxAttempts
  /\ asked = 0
  /\ answer = Absent /\ lastError = Absent /\ outcome = Absent

MayAsk == /\ outcome = Absent
          /\ asked < (IF attempts < 1 THEN 1 ELSE attempts)

\* The model is asked, and what it wrote is verified.
Complete(statement, wrapping) ==
  /\ MayAsk
  /\ asked' = asked + 1
  /\ answer' = SanitizeOutput(statement, wrapping)
  /\ LET error == Verify(answer') IN
     \/ /\ error = Absent
        /\ outcome' = [sql |-> answer']
        /\ UNCHANGED lastError
     \/ /\ error # Absent
        /\ lastError' = error
        /\ UNCHANGED outcome
  /\ UNCHANGED request

\* An error of the model is returned at once, whatever attempts are left.
ModelFails ==
  /\ MayAsk
  /\ outcome' = Error("model")
  /\ UNCHANGED <<request, asked, answer, lastError>>

GiveUp ==
  /\ outcome = Absent /\ ~MayAsk
  /\ outcome' = lastError
  /\ UNCHANGED <<request, asked, answer, lastError>>

GenerateNext ==
  \/ \E statement \in Statements(words, lastError), wrapping \in Wrappings :
       Complete(statement, wrapping)
  \/ ModelFails \/ GiveUp

GenerateSpec == GenerateInit /\ [][GenerateNext]_generateVars

-----------------------------------------------------------------------------
NamesOf(t) == {t.object, t.alias} \ {Absent}

\* Two tables of a FROM share a name: their own or an alias.
SharesNames(q) ==
  LET tables == TableExprs(q) IN
  \E i, j \in DOMAIN tables :
    i # j /\ NamesOf(tables[i]) \cap NamesOf(tables[j]) # {}

NamesASchema(q) == \E t \in ToSet(TableExprs(q)) : t.schema # Absent

ReadsCommonTable(q, names) == \E t \in ToSet(TableExprs(q)) : t.object \in names

\* A column that is, for all that is known, one of a common table's.
ReadsFromCommonTable(q, names) ==
  \E c \in ToSet(CollectStatementColumns(q)), t \in ToSet(TableExprs(q)) :
    t.object \in names /\ c.qualifier \in {Absent, VisibleName(t)}

\* A join condition names a column of a table that is joined after it.
NamesAhead(q, names) ==
  \E j, k \in DOMAIN q.joins : \E c \in ToSet(CollectColumns(q.joins[j].on)) :
    LET t == q.joins[k].table IN
    /\ j < k
    /\ c.qualifier \in {Absent, VisibleName(t)} /\ Offers(t, schema, names, c.name)

\* Where the verification accepts more than a database does: a table that is
\* called by its own name although it has an alias, an output name outside
\* GROUP BY and ORDER BY, a column that a common table has or has not, one of
\* a table that is only joined later, columns of no table at all.
MoreIsAccepted(q, names) ==
  \/ SharesNames(q) \/ NamesASchema(q)
  \/ \E c \in ToSet(CollectStatementColumns(q)), t \in ToSet(TableExprs(q)) :
       t.alias # Absent /\ c.qualifier = t.object
  \/ \E c \in ToSet(CollectStatementColumns(q)), item \in ToSet(q.projection) :
       c.qualifier = Absent /\ c.name = item.alias
  \/ ReadsFromCommonTable(q, names) \/ NamesAhead(q, names)
  \/ TableExprs(q) = << >>

\* Where it accepts less: a common table that reads another one, a column of a
\* join condition that a later table has too, a group that is called by its
\* output name.
LessIsAccepted(q, outer, names) ==
  \/ SharesNames(q) \/ NamesASchema(q)
  \/ ReadsCommonTable(q, outer) \/ NamesAhead(q, names)
  \/ \E c \in ToSet(CollectColumns(q.groupBy)), item \in ToSet(q.projection) :
       c.name = item.alias

Accepted == outcome # Absent /\ "sql" \in DOMAIN outcome

\* The verdict on an answer is the one the names of SQL give: each query of
\* what is returned has one meaning for the database, and an attempt is used up
\* only by a statement the database would refuse or that does not group what
\* it selects - but for the cases above and two common tables of one name,
\* which the comments of verify.rs admit in part.
VerdictIsTheDatabases ==
  answer # Absent =>
    IF Accepted
    THEN \A i \in DOMAIN answer :
           \/ Resolves(answer, i, schema)
           \/ RepeatsCommonName(answer, i)
           \/ MoreIsAccepted(answer[i], NamesSeen(answer, i))
    ELSE \E i \in DOMAIN answer :
           \/ ~Resolves(answer, i, schema)
           \/ ~Grouped(answer[i])
           \/ LessIsAccepted(answer[i], OuterNames(answer, i), NamesSeen(answer, i))

\* The statement a model writes that does as the prompt says: the planned
\* tables under their aliases, joined as known.
AsPlanned(plan) ==
  LET Table(p)    == [schema |-> Absent, object |-> p.name, alias |-> p.alias]
      ColumnOf(c) == <<[kind |-> "column", column |-> c, last |-> 1]>>
      Joined(j)   == [table |-> Table(j.table),
                      on |-> FlattenSeq([i \in DOMAIN j.predicates |->
                               <<ColumnOf(j.predicates[i].left),
                                 ColumnOf(j.predicates[i].right)>>])]
      columns     == BuildPrompt(plan, schema).tables[1].columns
      Selected(c) == [expr |-> ColumnOf([qualifier |-> plan.tables[1].alias, name |-> c]),
                      alias |-> Absent]
  IN <<[parent |-> 0, name |-> Absent, from |-> <<Table(plan.tables[1])>>,
        joins |-> [i \in DOMAIN plan.joins |-> Joined(plan.joins[i])],
        projection |-> [i \in DOMAIN columns |-> Selected(columns[i])],
        filter |-> << >>, groupBy |-> << >>, having |-> << >>, orderBy |-> << >>]>>

\* A table is joined to one that is itself neither the first nor joined.
LeavesAGap(plan) ==
  \E j \in ToSet(plan.joins) : \E p \in ToSet(j.predicates), side \in {"left", "right"} :
    p[side].qualifier \notin {plan.tables[1].alias}
                             \cup {k.table.alias : k \in ToSet(plan.joins)}

\* A model that does as it is told is accepted: the tables, columns and joins
\* of the prompt make a statement of the grammar that passes.  The exceptions
\* are two tables of one name, of which planner and index take different ones,
\* a join to a table that nothing joins, and an alias that is the name of a
\* table planned before.
PlanIsAccepted ==
  LET plan == CurrentPlan  planned == ToSet(plan.tables) IN
  planned # {} =>
    \/ /\ VerifyStatement(AsPlanned(plan), schema) = Absent
       /\ PlannedNames(plan) \subseteq {t.name : t \in GrammarSchema(plan, schema)}
    \/ \E p \in planned : Cardinality(Named(schema, p.name)) > 1
    \/ LeavesAGap(plan)
    \/ \E p, q \in planned : p # q /\ p.alias = q.name
=============================================================================
