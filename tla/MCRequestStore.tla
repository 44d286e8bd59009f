--------------------------- MODULE MCRequestStore ---------------------------
(***************************************************************************)
(* Model of RequestStore for TLC.  Requests and row identities are         *)
(* interchangeable, so both are symmetric.                                 *)
(***************************************************************************)
EXTENDS RequestStore, TLC

Symmetry == Permutations(Ids) \cup Permutations(Objs)
=============================================================================
