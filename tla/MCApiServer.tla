---------------------------- MODULE MCApiServer ----------------------------
(***************************************************************************)
(* An instance of ApiServer for TLC: a writable and a read-only source, a  *)
(* token of each scope, and the requests that the guards and the shared    *)
(* transaction tell apart.                                                 *)
(***************************************************************************)
EXTENDS ApiServer

Query(t, s, q) == [token |-> t, route |-> "query", source |-> s, stmt |-> q]

MCSources     == {"db", "archive"}
MCReadOnly    == {"archive"}
MCTokens      == {"writer", "reader"}
MCWriteTokens == {"writer"}

MCRequests ==
  {Query("writer", "db", q) : q \in {"insert", "begin", "commit", "rollback"}}
  \cup {Query("reader", "db", q) : q \in {"select", "insert", "several"}}
  \cup {Query("writer", "archive", "insert"), Query("stranger", "db", "select")}
  \cup {[token |-> "reader", route |-> r, source |-> "archive", stmt |-> "select"] :
          r \in {"objects", "health"}}
=============================================================================
