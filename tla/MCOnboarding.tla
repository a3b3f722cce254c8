---------------------------- MODULE MCOnboarding ----------------------------
(***************************************************************************)
(* Instances of Onboarding for TLC.  The identifiers of rows are           *)
(* interchangeable, and so are the users who only are tenants.             *)
(***************************************************************************)
EXTENDS Onboarding, TLC

RowSymmetry ==
    Permutations(Visits) \cup Permutations(Proposals) \cup Permutations(Agreements)
    \cup Permutations(Payments) \cup Permutations(Slots)
    \cup Permutations(Tenants \ (Managers \cup SuperAdmins \cup Assignable \cup {Owner}))
=============================================================================
