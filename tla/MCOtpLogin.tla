------------------------------ MODULE MCOtpLogin ------------------------------
(***************************************************************************)
(* Instances of OtpLogin for TLC.  Liveness is checked: no symmetry.       *)
(***************************************************************************)
EXTENDS OtpLogin
=============================================================================
