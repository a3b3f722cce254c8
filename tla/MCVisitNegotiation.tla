------------------------- MODULE MCVisitNegotiation -------------------------
(***************************************************************************)
(* Instances of VisitNegotiation for TLC.  The identifiers of rows and     *)
(* the slots are interchangeable, and so are the users who hold the tenant *)
(* role and no other; the rest of the users are not, since the sets they   *)
(* belong to differ.                                                       *)
(***************************************************************************)
EXTENDS VisitNegotiation, TLC

OnlyTenants == Tenants \ (Managers \cup SuperAdmins \cup Assignable \cup {Owner})

RowSymmetry ==
    Permutations(Visits) \cup Permutations(Proposals) \cup Permutations(Agreements)
    \cup Permutations(Slots) \cup Permutations(OnlyTenants)
=============================================================================
