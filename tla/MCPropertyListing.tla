--------------------------- MODULE MCPropertyListing ---------------------------
(***************************************************************************)
(* Instances of PropertyListing for TLC.  Requests, tenants and the        *)
(* details of a listing are interchangeable.                               *)
(***************************************************************************)
EXTENDS PropertyListing, TLC

ListingSymmetry ==
    Permutations(Requests) \cup Permutations(Tenants) \cup Permutations(Fields)
=============================================================================
