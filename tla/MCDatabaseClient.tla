-------------------------- MODULE MCDatabaseClient --------------------------
(***************************************************************************)
(* Model of DatabaseClient for TLC.                                        *)
(***************************************************************************)
EXTENDS DatabaseClient, TLC

NoNode == {<<>>}
AtZero == {<<0>>}
MissingOrAtZero == {<<>>, <<0>>}

Symmetry == Permutations(Txns)
=============================================================================
