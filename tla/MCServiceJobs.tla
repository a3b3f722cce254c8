----------------------------- MODULE MCServiceJobs -----------------------------
(***************************************************************************)
(* Instances of ServiceJobs for TLC.  Requests and providers are           *)
(* interchangeable.                                                        *)
(***************************************************************************)
EXTENDS ServiceJobs, TLC

JobSymmetry == Permutations(Requests) \cup Permutations(Providers)
=============================================================================
