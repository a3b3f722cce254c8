---------------------------- MODULE PropertyListing ----------------------------
(***************************************************************************)
(* One property as a listing: draft, published or archived, which of the   *)
(* details needed for publishing it has, who lives there and whether it is *)
(* shown as vacant (app/services/property_service.py).                     *)
(*                                                                         *)
(* A request loads the row, decides, and writes the columns whose value it *)
(* has changed: two actions, with other requests committing in between.    *)
(* Who may do so is left out (see VisitNegotiation for the staff); agree-  *)
(* ments and the occupancy history are those of LeaseActivation.           *)
(***************************************************************************)
EXTENDS OpenRequests, FiniteSets

CONSTANTS Fields,     \* the details a listing must have to be published
          Tenants

ASSUME ListingConstants == NULL \notin Tenants /\ "KEPT" \notin Tenants \cup {NULL}

VARIABLES
    row,        \* the row of properties; NULL when there is none
    linked,     \* agreements, payments, jobs or inspections refer to it
    overruled   \* history: the last write of occupancy or tenant changed one of
                \*   the two only, against what the other one said

vars == <<row, linked, request, overruled>>

Status == {"DRAFT", "ACTIVE", "ARCHIVED"}
Occupancy == {"OCCUPIED", "VACANT"}

Property == [status: Status, filled: SUBSET Fields, occupancy: Occupancy,
             tenant_id: Tenants \cup {NULL}]

ASSUME NullIsNoRow == NULL \notin Property

\* What a request is about to write: for each column the value, or KEPT.
Changes == [status: Status \cup {"KEPT"}, filled: SUBSET Fields,
            occupancy: Occupancy \cup {"KEPT"},
            tenant_id: Tenants \cup {NULL, "KEPT"}]

RequestState ==
         [at: {"IDLE"}]
    \cup [at: {"WRITING"}, changes: Changes, overtaken: BOOLEAN]
    \cup [at: {"DELETING"}, overtaken: BOOLEAN]

TypeOK ==
    /\ row \in Property \cup {NULL}
    /\ linked \in BOOLEAN
    /\ request \in [Requests -> RequestState]
    /\ overruled \in BOOLEAN

-----------------------------------------------------------------------------
(***************************************************************************)
(* create.  A listing is published at once only when it is complete (a     *)
(* validator of PropertyCreate); vacancy is the default of the column.     *)
(***************************************************************************)
Complete(filled) == filled = Fields

Create(status, filled) ==
    /\ row = NULL
    /\ status = "ACTIVE" => Complete(filled)
    /\ \A r \in Requests : request[r] = Idle
    /\ row' = [status |-> status, filled |-> filled, occupancy |-> "VACANT",
               tenant_id |-> NULL]
    /\ overruled' = FALSE
    /\ UNCHANGED <<linked, request>>

(***************************************************************************)
(* Loading: what each operation would change of the row it finds.          *)
(***************************************************************************)
\* The changes that turn the row into one with these values.
To(status, filled, occupancy, tenant) ==
    [status |-> Changed(row.status, status), filled |-> filled \ row.filled,
     occupancy |-> Changed(row.occupancy, occupancy),
     tenant_id |-> Changed(row.tenant_id, tenant)]

Loads(r, changes) ==
    /\ row # NULL
    /\ request[r] = Idle
    /\ request' = [request EXCEPT ![r] =
                    [at |-> "WRITING", changes |-> changes, overtaken |-> FALSE]]
    /\ UNCHANGED <<row, linked, overruled>>

\* Mutation: only what the request brings along is looked at.
MayBecomeAny(status, filled) == TRUE

\* Publishing needs every detail, those of the request included.
MayBecome(status, filled) == status = "ACTIVE" => Complete(filled)

\* update: values given are applied, those not given are left.
UpdateLoad(r, status, fill, occupancy) ==
    /\ row # NULL
    /\ status = row.status \/ MayBecome(status, row.filled \cup fill)
    /\ Loads(r, To(status, row.filled \cup fill, occupancy, row.tenant_id))

\* Mutation: the tenant alone is set.
OccupiedByNew == row.occupancy

\* What assigning and activating make of the occupancy.
OccupiedBy == "OCCUPIED"

\* assign_tenant
AssignLoad(r, t) ==
    /\ row # NULL
    /\ row.tenant_id = NULL
    /\ Loads(r, To(row.status, row.filled, OccupiedBy, t))

\* remove_tenant
RemoveLoad(r) ==
    /\ row # NULL
    /\ row.tenant_id # NULL
    /\ Loads(r, To(row.status, row.filled, "VACANT", NULL))

\* An agreement of the property becomes active, whoever lives there.
ActivateLoad(r, t) ==
    /\ row # NULL
    /\ linked
    /\ Loads(r, To(row.status, row.filled, OccupiedBy, t))

\* Mutation: they are deleted along, as managers and history are.
DeleteLoadCascading(r) ==
    /\ row # NULL
    /\ request[r] = Idle
    /\ request' = [request EXCEPT ![r] = [at |-> "DELETING", overtaken |-> FALSE]]
    /\ UNCHANGED <<row, linked, overruled>>

\* delete: agreements, payments, jobs and inspections found are first detached
\* from the property, which their property_id does not allow.
DeleteLoad(r) ==
    /\ row # NULL
    /\ ~ linked
    /\ request[r] = Idle
    /\ request' = [request EXCEPT ![r] = [at |-> "DELETING", overtaken |-> FALSE]]
    /\ UNCHANGED <<row, linked, overruled>>

-----------------------------------------------------------------------------
(***************************************************************************)
(* Committing.                                                             *)
(***************************************************************************)
Merged(c) == [status |-> Merge(row.status, c.status),
              filled |-> row.filled \cup c.filled,
              occupancy |-> Merge(row.occupancy, c.occupancy),
              tenant_id |-> Merge(row.tenant_id, c.tenant_id)]

Tenancy(c) == c.occupancy # "KEPT" \/ c.tenant_id # "KEPT"

\* One of the two columns is written and leaves the other as it is.  It may not go
\* with it when an update declares a home vacant somebody lives in, or when the
\* request has looked at a row that another one has changed since.
Overrules(c, overtaken) ==
    \/ c.tenant_id = "KEPT" /\ c.occupancy = "VACANT" /\ row.tenant_id # NULL
    \/ c.tenant_id # "KEPT" /\ c.occupancy = "KEPT" /\ overtaken

\* The requests of one kind that are open are overtaken.
Overtake(kind, req) ==
    IF req.at = kind THEN [req EXCEPT !.overtaken = TRUE] ELSE req

Write(r) ==
    LET mine == request[r]  c == mine.changes IN
    /\ mine.at = "WRITING"
    /\ row # NULL
    /\ row' = Merged(c)
    /\ request' = [q \in Requests |->
                    IF q = r THEN Idle
                    ELSE IF Tenancy(c) THEN Overtake("WRITING", request[q]) ELSE request[q]]
    /\ overruled' = IF Tenancy(c) THEN Overrules(c, mine.overtaken) ELSE overruled
    /\ UNCHANGED linked

\* Rows that came to refer to the property meanwhile go with it.
Delete(r) ==
    /\ request[r].at = "DELETING"
    /\ row # NULL
    /\ row' = NULL
    /\ linked' = FALSE
    /\ overruled' = FALSE
    /\ request' = [request EXCEPT ![r] = Idle]

\* The request fails, or the row is gone: it is rolled back.
Fail(r) ==
    /\ request[r] # Idle
    /\ request' = [request EXCEPT ![r] = Idle]
    /\ UNCHANGED <<row, linked, overruled>>

\* An agreement, payment, job or inspection of the property is inserted.
Link ==
    /\ row # NULL
    /\ ~ linked
    /\ linked' = TRUE
    /\ request' = [r \in Requests |-> Overtake("DELETING", request[r])]
    /\ UNCHANGED <<row, overruled>>

Init ==
    /\ row = NULL
    /\ linked = FALSE
    /\ request = [r \in Requests |-> Idle]
    /\ overruled = FALSE

Next ==
    \/ \E status \in {"DRAFT", "ACTIVE"}, filled \in SUBSET Fields :
         Create(status, filled)
    \/ \E r \in Requests :
         \/ \E status \in Status, fill \in SUBSET Fields, occupancy \in Occupancy :
              UpdateLoad(r, status, fill, occupancy)
         \/ \E t \in Tenants : AssignLoad(r, t) \/ ActivateLoad(r, t)
         \/ RemoveLoad(r) \/ DeleteLoad(r)
         \/ Write(r) \/ Delete(r) \/ Fail(r)
    \/ Link

Spec == Init /\ [][Next]_vars

-----------------------------------------------------------------------------
(***************************************************************************)
(* Properties.                                                             *)
(***************************************************************************)

\* Whatever requests overlap, a published listing has every detail: no operation
\* takes one away that another has found (PropertyResponse, "They are guaranteed
\* non-null only once the property reaches ACTIVE status").
PublishedIsComplete ==
    row # NULL /\ row.status = "ACTIVE" => Complete(row.filled)

\* What search shows to tenants: "only published, vacant listings".
Found == row # NULL /\ row.status = "ACTIVE" /\ row.occupancy = "VACANT"

\* A home tenants find is nobody's home, unless a single one of the two columns was
\* written last, by an update that declared a let home vacant or by an overtaken
\* request: occupancy follows the tenant through assigning, removing and activating,
\* which write both, in any order and however they overlap.
FoundIsVacant == Found => row.tenant_id = NULL \/ overruled

\* What the endpoint says of its search: it "can never accidentally surface occupied
\* or draft homes" (list_properties).  TLC refutes it: update sets the occupancy it is
\* given without a look at the tenant.
NeverSurfacesOccupied == Found => row.tenant_id = NULL

\* Deleting a property takes agreements and payments along only when they were
\* made while it was being deleted ("Soft-delete a property" is a hard one; what
\* keeps a let home from disappearing are the rows that refer to it).
PaidForIsKept ==
    [][row # NULL /\ row' = NULL /\ linked
        => \E r \in Requests : request[r].at = "DELETING" /\ request[r].overtaken]_vars
=============================================================================
