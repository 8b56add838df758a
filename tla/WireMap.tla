------------------------------ MODULE WireMap ------------------------------
(***************************************************************************)
(* What the field-number lock promises: a map from the fields of every     *)
(* message to wire tags that only ever grows.  A tag, once given, stays    *)
(* with its field for good, so no other field of that message can ever be  *)
(* decoded in its place.                                                   *)
(***************************************************************************)
EXTENDS Naturals

CONSTANTS Message,   \* proto messages, by lock key
          Field      \* proto field names

VARIABLE wire        \* wire[m][f] is the tag of field f, or NoTag

NoTag == 0

OneTagPerField(w) ==
  \A m \in Message : \A f, g \in Field :
     w[m][f] # NoTag /\ w[m][f] = w[m][g] => f = g

Extends(w, v) ==
  \A m \in Message : \A f \in Field : v[m][f] # NoTag => w[m][f] = v[m][f]

Init == wire = [m \in Message |-> [f \in Field |-> NoTag]]

(* One release of the wire contract: some fields get their first tag. *)
Append ==
  /\ wire' \in [Message -> [Field -> Nat]]
  /\ Extends(wire', wire)
  /\ OneTagPerField(wire')

Spec == Init /\ [][Append]_wire
=============================================================================
