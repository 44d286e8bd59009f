---------------------------- MODULE MCPostRequest ---------------------------
(***************************************************************************)
(* Model of PostRequest for TLC.                                           *)
(***************************************************************************)
EXTENDS PostRequest
=============================================================================
