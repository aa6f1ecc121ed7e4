--------------------------- MODULE SchemaHistory ---------------------------
(***************************************************************************)
(* What starting replicas may do to the schema, at the promise of Migrate  *)
(* (datastore/postgres.go): the migrations are applied in the order of     *)
(* their names, each of them once, together with its row in                *)
(* schema_migrations.                                                      *)
(***************************************************************************)
EXTENDS Naturals

CONSTANT Files            \* the migrations are 1..Files, in order of name
VARIABLES applied,        \* rows of schema_migrations
          effect          \* effect[f]: how often the SQL of f took effect

HistoryInit == applied = {} /\ effect = [f \in 1..Files |-> 0]

Apply(f) ==
  /\ f \notin applied /\ 1..(f - 1) \subseteq applied
  /\ applied' = applied \cup {f}
  /\ effect' = [effect EXCEPT ![f] = @ + 1]

HistorySpec == HistoryInit /\ [][\E f \in 1..Files : Apply(f)]_<<applied, effect>>
=============================================================================
