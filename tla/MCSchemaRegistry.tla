-------------------------- MODULE MCSchemaRegistry --------------------------
(* Instances of SchemaRegistry, of one module, for TLC. *)
EXTENDS SchemaRegistry

OneModule == <<"events">>
TextDef == <<{"live", "deprecated", "plain"}, {"live"}>>
=============================================================================
