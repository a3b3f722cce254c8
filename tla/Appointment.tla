------------------------------ MODULE Appointment ------------------------------
(***************************************************************************)
(* What visit requests promise a tenant and the staff of a property,       *)
(* whoever acts for either side and however the rows keep it: the two take *)
(* turns in offering slots, a meeting is the slot one side has offered and *)
(* the other has agreed to, and what was rejected or took place does not   *)
(* come back.  VisitNegotiation implements it.                             *)
(*                                                                         *)
(* Cancelling is not final, as the code has it: an offer still open then   *)
(* can be agreed to afterwards, by either side.                            *)
(***************************************************************************)
EXTENDS Rows

CONSTANTS Visits, Slots

VARIABLES
    phase,   \* of each visit; NULL before it is requested
    offer,   \* the slot on the table and the side that has put it there, or NULL
    meeting  \* the slot agreed upon, the sides that offered and agreed, or NULL

vars == <<phase, offer, meeting>>

Side == {"TENANT", "STAFF"}

Init ==
    /\ phase = [v \in Visits |-> NULL]
    /\ offer = [v \in Visits |-> NULL]
    /\ meeting = [v \in Visits |-> NULL]

\* A tenant requests a visit with a first offer, the side that has the turn
\* makes a counter-offer, and either one reopens what was agreed.
Offer(v, side, s) ==
    /\ \/ phase[v] = NULL /\ side = "TENANT"
       \/ phase[v] = "NEGOTIATING" /\ offer[v].by # side
       \/ phase[v] = "CONFIRMED"
    /\ phase' = [phase EXCEPT ![v] = "NEGOTIATING"]
    /\ offer' = [offer EXCEPT ![v] = [slot |-> s, by |-> side]]
    /\ meeting' = [meeting EXCEPT ![v] = NULL]

Agree(v, side) ==
    /\ offer[v] # NULL
    /\ \/ phase[v] = "NEGOTIATING" /\ offer[v].by # side
       \/ phase[v] = "CANCELLED"
    /\ phase' = [phase EXCEPT ![v] = "CONFIRMED"]
    /\ offer' = [offer EXCEPT ![v] = NULL]
    /\ meeting' = [meeting EXCEPT ![v] =
                    [slot |-> offer[v].slot, offered |-> offer[v].by, agreed |-> side]]

Reject(v) ==
    /\ phase[v] # NULL
    /\ phase' = [phase EXCEPT ![v] = "REJECTED"]
    /\ offer' = [offer EXCEPT ![v] = NULL]
    /\ meeting' = [meeting EXCEPT ![v] = NULL]

Cancel(v) ==
    /\ phase[v] \in {"NEGOTIATING", "CONFIRMED"}
    /\ phase' = [phase EXCEPT ![v] = "CANCELLED"]
    /\ meeting' = [meeting EXCEPT ![v] = NULL]
    /\ UNCHANGED offer

TakePlace(v) ==
    /\ phase[v] = "CONFIRMED"
    /\ phase' = [phase EXCEPT ![v] = "COMPLETED"]
    /\ UNCHANGED <<offer, meeting>>

Next ==
    \E v \in Visits :
        \/ \E side \in Side, s \in Slots : Offer(v, side, s)
        \/ \E side \in Side : Agree(v, side)
        \/ Reject(v) \/ Cancel(v) \/ TakePlace(v)

Spec == Init /\ [][Next]_vars
=============================================================================
