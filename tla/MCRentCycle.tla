----------------------------- MODULE MCRentCycle -----------------------------
(***************************************************************************)
(* Instances of RentCycle for TLC.  Runs, tenants and the agreements of a  *)
(* tenant are interchangeable.                                             *)
(***************************************************************************)
EXTENDS RentCycle, TLC

RentSymmetry ==
    Permutations(Requests) \cup Permutations(Tenants) \cup Permutations(Copies)
=============================================================================
