----------------------------- MODULE OpenRequests -----------------------------
(***************************************************************************)
(* Requests that are open at once.  Each has its own database session: it  *)
(* reads, others commit, and when it commits itself it writes the columns  *)
(* whose value it has changed from the one it read (app/database.py).      *)
(***************************************************************************)
EXTENDS Rows

CONSTANT Requests   \* how many requests can be open at once

VARIABLE request    \* what each open request has read and is about to write

Idle == [at |-> "IDLE"]

\* What a request writes of a column it has read as old and set to new ...
Changed(old, new) == IF new = old THEN "KEPT" ELSE new

\* ... and what that makes of the value the column has by then.
Merge(old, new) == IF new = "KEPT" THEN old ELSE new
=============================================================================
