---------------------------- MODULE MCFieldLock ----------------------------
(* Instances of FieldLock for TLC.  The reserved tags are small, so that    *)
(* sequential numbering has to step over them.                              *)
EXTENDS FieldLock

Decl(n, s) == [name |-> n, shape |-> s]

(* One message, every shape fixed. *)
OneMessage == <<"m1">>
OneFile == <<{"m1"}>>
FixedDecls == {Decl("source", "wire"), Decl("a", "plain"), Decl("b", "plain")}

(* Two messages in two files, one of them with a wire-source container. *)
TwoMessages == <<"m1", "m2">>
TwoFiles == <<{"m2"}, {"m1"}>>
WireDecls == {Decl("source", "wire"), Decl("a", "plain")}
=============================================================================
