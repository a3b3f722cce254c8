-------------------------------- MODULE Rows --------------------------------
(***************************************************************************)
(* What every table model shares: the value of a column without a value,   *)
(* and of an identifier no row has been inserted under.                    *)
(***************************************************************************)
CONSTANT NULL
=============================================================================
