-------------------------- MODULE MCLeaseActivation --------------------------
(***************************************************************************)
(* Instances of LeaseActivation for TLC.  The identifiers of rows are      *)
(* interchangeable, and so are the users who only are tenants.             *)
(***************************************************************************)
EXTENDS LeaseActivation, TLC

RowSymmetry ==
    Permutations(Visits) \cup Permutations(Agreements) \cup Permutations(Payments)
    \cup Permutations(Tenants \ {Owner})
=============================================================================
