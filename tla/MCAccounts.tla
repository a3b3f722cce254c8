------------------------------ MODULE MCAccounts ------------------------------
(***************************************************************************)
(* Instances of Accounts for TLC.  One of the properties is a liveness     *)
(* property, so that requests and instances are not permuted.              *)
(***************************************************************************)
EXTENDS Accounts, TLC
=============================================================================
