--------------------------- MODULE MCRequestFetch ---------------------------
(***************************************************************************)
(* RequestFetch for TLC.  Requests, zones and items are interchangeable.   *)
(***************************************************************************)
EXTENDS RequestFetch, TLC

Symmetry == Permutations(Ids) \cup Permutations(Zones) \cup Permutations(Items)
=============================================================================
