---------------------------- MODULE MCTokenRotation ----------------------------
(***************************************************************************)
(* Instances of TokenRotation for TLC.  Requests are interchangeable, and  *)
(* so are token pairs.                                                     *)
(***************************************************************************)
EXTENDS TokenRotation, TLC

TokenSymmetry == Permutations(Requests) \cup Permutations(Tokens)
=============================================================================
