----------------------------- MODULE MCGenerate -----------------------------
(***************************************************************************)
(* An instance of Generate for TLC: a shop, a shop with two tables of one  *)
(* name, one larger than the bounds of the planner; statements over one or *)
(* two tables with a column anywhere, and statements with common tables    *)
(* and aggregates.                                                         *)
(***************************************************************************)
EXTENDS Generate

Key(cs, t, rs) == [columns |-> cs, refTable |-> t, refColumns |-> rs]
Table(s, n, cs, ks) == [schema |-> s, name |-> n, columns |-> cs, keys |-> ks]

Customers == Table("public", "customers", <<"id", "name">>, << >>)
Orders == Table("public", "orders", <<"id", "customer_id", "total">>,
                <<Key(<<"customer_id">>, "customers", <<"id">>)>>)
OldOrders == Table("archive", "orders", <<"id", "name", "total">>, << >>)
Items == Table("public", "items", <<"order_id", "it_a", "it_b">>,
               <<Key(<<"order_id">>, "orders", <<"id">>),
                 Key(<<"it_a", "it_b">>, "it", <<"a", "b">>)>>)
It == Table("public", "it", <<"a", "b">>, << >>)

MCSchemas == {<<Customers, Orders>>, <<Orders, OldOrders, Customers>>,
              <<It, Customers, Orders, Items>>}

\* "customer" matches the plural, "the" nothing.
MCNamedBy == [the |-> {}, customer |-> {"customers"}, orders |-> {"orders"},
              items |-> {"items"}, its |-> {"it"}]
MCQuestions == {q \in SeqOf(DOMAIN MCNamedBy, 3) :
                  \A i, j \in DOMAIN q : i # j => q[i] # q[j]}

MCSeeds == [customers |-> <<"c", "cu", "customers", "c2">>,
            orders |-> <<"o", "or", "orders", "o2">>,
            items |-> <<"i", "it", "items", "i2">>,
            it |-> <<"i", "it", "it", "i2">>]

MCNames == {"public", "archive", "customers", "orders", "items", "it", "sales",
            "recent", "rest", "inner", "id", "name", "total", "customer_id", "order_id",
            "it_a", "it_b", "a", "b", "n", "t", "c", "cu", "c2", "o", "or", "o2", "i", "i2"}

-----------------------------------------------------------------------------
Node(kind, c, last) == [kind |-> kind, column |-> c, last |-> last]
Ref(q, n) == <<Node("column", [qualifier |-> q, name |-> n], 1)>>
Star == <<Node("leaf", Absent, 1)>>

\* A call of one part, and one of two.
Below(e, n) == [i \in DOMAIN e |-> [e[i] EXCEPT !.last = @ + n]]
Call(kind, e) == <<Node(kind, Absent, Len(e) + 1)>> \o Below(e, 1)
Both(e, f) == <<Node("compound", Absent, Len(e) + Len(f) + 1)>> \o Below(e, 1)
                \o Below(f, Len(e) + 1)
Item(e, a) == [expr |-> e, alias |-> a]
From(s, o, a) == [schema |-> s, object |-> o, alias |-> a]

Select == [parent |-> 0, name |-> Absent, from |-> << >>, joins |-> << >>,
           projection |-> <<Item(Star, Absent)>>, filter |-> << >>,
           groupBy |-> << >>, having |-> << >>, orderBy |-> << >>]

Froms == {From(Absent, o, a) : o \in {"orders", "customers", "sales"},
                               a \in {Absent, "o", "orders"}}
         \cup {From("archive", "orders", Absent)}

Refs == {Ref(q, n) : q \in {Absent, "o", "orders"}, n \in {"id", "name", "total"}}

WithRef(stmt, r) ==
  {[stmt EXCEPT !.projection = <<Item(r, Absent)>>],
   [stmt EXCEPT !.filter = <<Call("compound", r)>>],
   [stmt EXCEPT !.projection = <<Item(Star, "total")>>, !.orderBy = <<r>>],
   [stmt EXCEPT !.projection = <<Item(Star, "total")>>, !.having = <<r>>]}

OverTables ==
  LET froms == {[Select EXCEPT !.from = f] : f \in SeqOf(Froms, 1)}
      joins == {[Select EXCEPT !.from = <<f>>,
                   !.joins = <<[table |-> g, on |-> << >>]>>] : f, g \in Froms}
  IN {<<q>> : q \in UNION {WithRef(s, r) : s \in froms \cup joins, r \in Refs}}

Groups ==
  {<<[Select EXCEPT !.from = <<From(Absent, "orders", Absent)>>,
        !.projection = <<Item(Call("aggregate", Ref(Absent, "total")), Absent),
                         Item(e, "n")>>,
        !.groupBy = g]>> :
     e \in {Ref(Absent, "id"), Call("compound", Ref("orders", "id")),
            Call("compound", Call("aggregate", Ref(Absent, "id"))),
            Both(Call("aggregate", Ref(Absent, "total")), Ref(Absent, "id"))},
     g \in {<< >>, <<Ref(Absent, "id")>>, <<Ref("orders", "id")>>, <<Ref(Absent, "n")>>,
            <<Both(Ref(Absent, "id"), Ref(Absent, "n"))>>}}

Reads(t, c) == [Select EXCEPT !.from = <<From(Absent, t, Absent)>>,
                              !.projection = <<Item(Ref(Absent, c), Absent)>>]
As(n, parent, q) == [q EXCEPT !.name = n, !.parent = parent]

\* Two common tables of the statement, or one of the other.
Common ==
  LET Joined(q) == [q EXCEPT !.joins = <<[table |-> From(Absent, "customers", "o"),
                                          on |-> <<Ref("o", "id")>>]>>]
      tables == {"orders", "sales"}  all == {"orders", "recent", "rest"}
      Mains(v, d) == {Reads(v, d), Joined(Reads(v, d))}
  IN UNION {
       {<<As("recent", p, Reads(t, c)), As("rest", 3, Reads(u, "id")), main>> :
          main \in Mains(v, d)} :
       p \in {2, 3}, t \in tables, c \in {"id", "name"}, u \in {"orders", "recent"},
       v \in all, d \in {"id", "name"}}

\* A column without a table, two of the schema that have it or not, and a
\* common table; two common tables of one name.
Ambiguous ==
  {<<As("recent", 2, Reads("orders", "id")),
     [Reads("orders", c) EXCEPT !.joins =
        <<[table |-> From(Absent, "customers", Absent), on |-> << >>],
          [table |-> From(Absent, "recent", Absent), on |-> << >>]>>]>> :
     c \in {"id", "total"}}
  \cup {<<As("recent", 3, Reads("orders", "id")), As(n, 3, Reads("customers", "name")),
          Reads("orders", "total")>> : n \in {"recent", "rest"}}

\* Conditions of the first of two joins, on columns of any of the tables.
Ahead ==
  {<<[Reads("orders", "total") EXCEPT !.joins =
        <<[table |-> From(Absent, "customers", "c"), on |-> <<Both(Ref("c", "id"), r)>>],
          [table |-> From(Absent, t, "i"), on |-> <<s>>]>>]>> :
     t \in {"items", "it"}, s \in {Ref("i", "order_id"), Ref("c", "id")},
     r \in {Ref("i", "order_id"), Ref(Absent, "order_id"), Ref(Absent, "customer_id"),
            Ref("orders", "customer_id")}}
  \cup {<<[Reads("items", "order_id") EXCEPT !.joins =
              <<[table |-> From(Absent, "it", "t"), on |-> <<r>>],
                [table |-> From(Absent, "customers", "c"), on |-> <<s>>],
                [table |-> From(Absent, "orders", "o"), on |-> <<Ref(Absent, "total")>>]>>]>> :
           r \in {Ref("t", "a"), Ref("c", "id")}, s \in {Ref(Absent, "id"), Ref("c", "id")}}

\* A common table within one reads what its outer one sees.
Deep ==
  {<<As("recent", 4, Reads("orders", "id")), As("inner", 3, Reads(t, "id")),
     As("rest", 4, Reads("inner", "id")), Reads(v, "id")>> :
     t \in {"orders", "recent"}, v \in {"inner", "rest"}}

\* All of them are first answers to one question, the groups second ones.
MCStatements(question, rejected) ==
  IF question # <<"the">> THEN {<<Select>>}
  ELSE Groups \cup (IF rejected # Absent THEN {}
                    ELSE OverTables \cup Common \cup Ambiguous \cup Ahead \cup Deep)
MCWrappings == {"sql fence", "other fence"}
=============================================================================
