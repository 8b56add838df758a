----------------------------- MODULE MCMainLine -----------------------------
(* Instance of MainLine for TLC. *)
EXTENDS MainLine, TLC

(* A violation is listed in the commit that makes it, or not; a change of  *)
(* more parts takes more commits.                                          *)
CommitParts == {{"ledger", "bad"}, {"ledger", "used"}, {"docs"}, {"revs"}, {"wire"},
                {"changelog", "manifest"}}

(* Two fields of one message, which two branches give one tag. *)
OneTag == [f \in Item |-> Item]

Symmetry == Permutations(PR) \cup Permutations(Text) \cup Permutations(Item)
=============================================================================
