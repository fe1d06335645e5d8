--------------------------- MODULE MCProjectMembers ---------------------------
(* Instance of ProjectMembers: three users, three calls. *)
EXTENDS ProjectMembers, TLC

\* Calls and users occur only as indices, and no property is a liveness property.
Symmetry == Permutations(Calls) \cup Permutations(Users)
=============================================================================
