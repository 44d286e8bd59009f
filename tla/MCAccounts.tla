----------------------------- MODULE MCAccounts -----------------------------
(***************************************************************************)
(* Accounts for TLC: an elderly user, an account of another role and one   *)
(* without a role.                                                         *)
(***************************************************************************)
EXTENDS Accounts, TLC

CONSTANTS ann, sam, nil

MCUsers == {ann, sam, nil}
MCRole == ann :> "elderly" @@ sam :> "staff" @@ nil :> "missing"
=============================================================================
