--------------------------- MODULE MCSchemaRegistry ---------------------------
(***************************************************************************)
(* Instances of SchemaRegistry: a base and a type schema; a body is plain, *)
(* or composes both of them, which makes circles.                          *)
(***************************************************************************)
EXTENDS SchemaRegistry, TLC

MCSchemas == {"base", "type"}
MCBodies  == {"plain", "composed"}
MCComposes == [b \in MCBodies |-> IF b = "plain" THEN {} ELSE MCSchemas]

Symmetry == Permutations(Procs)
=============================================================================
