-------------------------- MODULE MCMetadataCache --------------------------
(***************************************************************************)
(* An instance of MetadataCache for TLC: a table in one schema and a       *)
(* routine of the same name in another, two loads under way.               *)
(***************************************************************************)
EXTENDS MetadataCache

Entry(n, kind) == [name |-> n, kind |-> kind, version |-> 0]

MCDatabases ==
  {[c \in Connections |-> "public" :> {Entry("t", "object")}
                           @@ "other" :> {Entry("t", "routine")}]}

MCManual == {Connection(c) : c \in Connections}
=============================================================================
