------------------------------ MODULE RentCycle ------------------------------
(***************************************************************************)
(* The monthly rent run: generate_monthly_rent_records of app/services/    *)
(* rent_cycle_service.py, triggered by staff (api/v1/payments.py) as often *)
(* as they like, for the active agreements of one property.                *)
(*                                                                         *)
(* A run reads the list of active agreements, looks for each whether the   *)
(* tenant has a rent record for the month, and commits the missing ones    *)
(* together or not at all.  No constraint keeps two runs from inserting    *)
(* the same record, and records are never deleted.  An agreement, once     *)
(* active, stays so: no code ends one.                                     *)
(***************************************************************************)
EXTENDS Naturals, FiniteSets

CONSTANTS Requests,    \* how many runs can be open at once
          Tenants,
          Copies,      \* tells apart the agreements of one tenant
          Months       \* 1..Months are the months there are

ASSUME RentConstants ==
    /\ IsFiniteSet(Requests)
    /\ Months \in Nat \ {0}

Agreements == Tenants \X Copies
TenantOf(g) == g[1]

VARIABLES
    month,    \* the current one
    active,   \* agreements with status ACTIVE
    billed,   \* how many rent records a tenant has for a month
    run       \* the open runs

vars == <<month, active, billed, run>>

\* listed is what the run has read, todo what is left of it, bills are the
\* tenants it has added a record for.
RunState ==
         [at: {"IDLE"}]
    \cup [at: {"RUNNING"}, label: 1..Months, listed: SUBSET Agreements,
          todo: SUBSET Agreements, bills: SUBSET Tenants]

Idle == [at |-> "IDLE"]

Going(label, listed, todo, bills) ==
    [at |-> "RUNNING", label |-> label, listed |-> listed, todo |-> todo, bills |-> bills]

Running(r) == run[r].at = "RUNNING"

TypeOK ==
    /\ month \in 1..Months
    /\ active \subseteq Agreements
    /\ billed \in [Tenants -> [1..Months -> Nat]]
    /\ run \in [Requests -> RunState]

-----------------------------------------------------------------------------
Own(r, t) == IF t \in run[r].bills THEN 1 ELSE 0

\* The records a run sees: those committed, and its own.
Existing(r, t) == billed[t][run[r].label] + Own(r, t)

(***************************************************************************)
(* Mutations a careless edit could introduce.                              *)
(***************************************************************************)

\* The check is given up.
NobodySeen(r, t) == 0

\* The label is compared without its month.
ExistingEver(r, t) == billed[t][1] + billed[t][run[r].label] + Own(r, t)

-----------------------------------------------------------------------------
\* Confirming an advance makes an agreement active (LeaseActivation).
Activate(g) ==
    /\ active' = active \cup {g}
    /\ UNCHANGED <<month, billed, run>>

Start(r) ==
    /\ run[r] = Idle
    /\ run' = [run EXCEPT ![r] = Going(month, active, active, {})]
    /\ UNCHANGED <<month, active, billed>>

\* The number of records found; the lookup raises when there are two.
Found(r, t) == Existing(r, t)

\* The next agreement on the list; the order is the database's.
Bill(r, g) ==
    /\ Running(r) /\ g \in run[r].todo
    /\ Found(r, TenantOf(g)) <= 1
    /\ run' = [run EXCEPT ![r] =
                Going(run[r].label, run[r].listed, run[r].todo \ {g},
                      run[r].bills \cup {t \in {TenantOf(g)} : Found(r, t) = 0})]
    /\ UNCHANGED <<month, active, billed>>

Commit(r) ==
    /\ Running(r) /\ run[r].todo = {}
    /\ billed' = [t \in Tenants |->
                    [billed[t] EXCEPT ![run[r].label] = @ + Own(r, t)]]
    /\ run' = [run EXCEPT ![r] = Idle]
    /\ UNCHANGED <<month, active>>

\* The lookup raises, or any call fails: nothing of the run stays.
Fail(r) ==
    /\ Running(r)
    /\ run' = [run EXCEPT ![r] = Idle]
    /\ UNCHANGED <<month, active, billed>>

NextMonth ==
    /\ month < Months
    /\ month' = month + 1
    /\ UNCHANGED <<active, billed, run>>

Init ==
    /\ month = 1
    /\ active = {}
    /\ billed = [t \in Tenants |-> [m \in 1..Months |-> 0]]
    /\ run = [r \in Requests |-> Idle]

Next ==
    \/ \E g \in Agreements : Activate(g)
    \/ \E r \in Requests :
         \/ Start(r) \/ Commit(r) \/ Fail(r)
         \/ \E g \in Agreements : Bill(r, g)
    \/ NextMonth

Spec == Init /\ [][Next]_vars

-----------------------------------------------------------------------------
(***************************************************************************)
(* Properties.                                                             *)
(***************************************************************************)

\* A tenant is billed twice for a month only by runs that overlap, once by each
\* at most: the second record makes every later lookup raise, so that it is the
\* last ("Check if rent record already exists for this agreement and month").
BilledByOverlapOnly ==
    \A t \in Tenants, m \in 1..Months : billed[t][m] <= Cardinality(Requests)

\* What that comment is there for; TLC refutes it as soon as two runs overlap.
BilledOnce == \A t \in Tenants, m \in 1..Months : billed[t][m] <= 1

\* A run that comes to the end of its list has or makes a record of the month for
\* everybody on it, whichever other runs came and went meanwhile and whatever was
\* billed in other months (docstring, "Scan all active agreements and create rent
\* payment records for the current month").  It says nothing of a run that does not
\* come to the end: where overlapping runs have billed somebody twice, every later
\* run of the month raises there and bills none of those it has yet to come to.
NobodyIsForgotten ==
    \A r \in Requests :
        Running(r) /\ run[r].todo = {}
            => \A g \in run[r].listed : Existing(r, TenantOf(g)) > 0
=============================================================================
