----------------------------- MODULE MCPermissions -----------------------------
(***************************************************************************)
(* Instances of Permissions for TLC.  Requests, roles and codes are        *)
(* interchangeable.                                                        *)
(***************************************************************************)
EXTENDS Permissions, TLC

PermissionSymmetry ==
    Permutations(Requests) \cup Permutations(Roles) \cup Permutations(Codes)
=============================================================================
