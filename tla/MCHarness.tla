---------------------------- MODULE MCHarness -----------------------------
(* Instances of Harness for TLC: a zone that is occupied or vacant. *)
EXTENDS Harness

Presence == {"occupied", "vacant"}
=============================================================================
