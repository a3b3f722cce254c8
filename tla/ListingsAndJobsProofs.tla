------------------------- MODULE ListingsAndJobsProofs -------------------------
(***************************************************************************)
(* Proofs about a property as a listing (PropertyListing) and about the    *)
(* repair jobs and disputes of one (ServiceJobs), for any details,         *)
(* tenants, providers and number of overlapping requests.  The two modules *)
(* are separate systems: a theorem is about the one whose specification it *)
(* names.                                                                  *)
(***************************************************************************)
EXTENDS PropertyListing, ServiceJobs, TLAPS

USE DEF Idle

-----------------------------------------------------------------------------
(***************************************************************************)
(* Types.                                                                  *)
(***************************************************************************)
RowTyped ==
    /\ row \in Property \cup {NULL}
    /\ linked \in BOOLEAN
    /\ overruled \in BOOLEAN

RequestTyped == request \in [Requests -> RequestState]

LEMMA TypeParts == TypeOK <=> RowTyped /\ RequestTyped
BY DEF TypeOK, RowTyped, RequestTyped

LEMMA WritingFields ==
    ASSUME RequestTyped, NEW r \in Requests, request[r].at = "WRITING"
    PROVE  /\ request[r].changes \in Changes
           /\ request[r].overtaken \in BOOLEAN
BY DEF RequestTyped, RequestState

\* To keeps what is as it was, and otherwise carries the new value.
LEMMA ToTyped ==
    ASSUME RowTyped, row # NULL,
           NEW status \in Status, NEW filled \in SUBSET Fields,
           NEW occupancy \in Occupancy, NEW tenant \in Tenants \cup {NULL}
    PROVE  To(status, filled, occupancy, tenant) \in Changes
BY DEF To, Changed, Changes, RowTyped, Property

\* Overtaking touches one field of one kind of request.
LEMMA OvertakeFields ==
    ASSUME RequestTyped, NEW r \in Requests, NEW kind \in {"WRITING", "DELETING"}
    PROVE  LET new == Overtake(kind, request[r]) IN
           /\ new \in RequestState
           /\ new.at = request[r].at
           /\ new.at = "WRITING" => new.changes = request[r].changes
           /\ new.at = kind => new.overtaken = TRUE
           /\ new.at # kind => new = request[r]
<1>1. CASE request[r].at = "WRITING"
  <2>1. /\ request[r] = [at |-> "WRITING", changes |-> request[r].changes,
                         overtaken |-> request[r].overtaken]
        /\ request[r].changes \in Changes
    BY <1>1 DEF RequestTyped, RequestState
  <2>2. QED
    BY <1>1, <2>1 DEF Overtake, RequestState, RequestTyped
<1>2. CASE request[r].at = "DELETING"
  BY <1>2 DEF Overtake, RequestState, RequestTyped
<1>3. CASE request[r].at \notin {"WRITING", "DELETING"}
  BY <1>3 DEF Overtake, RequestTyped
<1>4. QED
  BY <1>1, <1>2, <1>3

\* What loading leaves: the request writes these changes.
LEMMA LoadsTyped ==
    ASSUME RequestTyped, NEW r \in Requests, NEW changes \in Changes, Loads(r, changes)
    PROVE  RequestTyped'
<1>1. [at |-> "WRITING", changes |-> changes, overtaken |-> FALSE] \in RequestState
  BY DEF RequestState
<1>2. QED
  BY <1>1 DEF Loads, RequestTyped

LEMMA MergedTyped ==
    ASSUME RowTyped, row # NULL, NEW c \in Changes
    PROVE  Merged(c) \in Property
BY DEF RowTyped, Merged, Merge, Property, Changes

LEMMA IdleTyped == Idle \in RequestState
BY DEF RequestState

LEMMA InitType == Init => TypeOK
BY IdleTyped DEF Init, TypeOK

LEMMA NextType == TypeOK /\ [Next]_vars => TypeOK'
<1> SUFFICES ASSUME TypeOK, [Next]_vars PROVE RowTyped' /\ RequestTyped'
  BY DEF TypeOK, RowTyped, RequestTyped
<1>0. RowTyped /\ RequestTyped
  BY TypeParts
<1>1. ASSUME NEW status \in {"DRAFT", "ACTIVE"}, NEW filled \in SUBSET Fields,
             Create(status, filled)
      PROVE  RowTyped' /\ RequestTyped'
  BY <1>0, <1>1 DEF Create, RowTyped, RequestTyped, Property, Status, Occupancy
<1>2. ASSUME NEW r \in Requests, NEW status \in Status, NEW fill \in SUBSET Fields,
             NEW occupancy \in Occupancy, UpdateLoad(r, status, fill, occupancy)
      PROVE  RowTyped' /\ RequestTyped'
  <2>1. To(status, row.filled \cup fill, occupancy, row.tenant_id) \in Changes
    BY <1>0, <1>2, ToTyped DEF UpdateLoad, RowTyped, Property
  <2>2. RequestTyped'
    BY <1>0, <1>2, <2>1, LoadsTyped DEF UpdateLoad
  <2>3. QED
    BY <1>0, <1>2, <2>2 DEF UpdateLoad, Loads, RowTyped
<1>3. ASSUME NEW r \in Requests, NEW t \in Tenants, AssignLoad(r, t) \/ ActivateLoad(r, t)
      PROVE  RowTyped' /\ RequestTyped'
  <2>1. To(row.status, row.filled, OccupiedBy, t) \in Changes
    BY <1>0, <1>3, ToTyped
       DEF AssignLoad, ActivateLoad, RowTyped, Property, OccupiedBy, Occupancy
  <2>2. RequestTyped'
    BY <1>0, <1>3, <2>1, LoadsTyped DEF AssignLoad, ActivateLoad
  <2>3. QED
    BY <1>0, <1>3, <2>2 DEF AssignLoad, ActivateLoad, Loads, RowTyped
<1>4. ASSUME NEW r \in Requests, RemoveLoad(r) PROVE RowTyped' /\ RequestTyped'
  <2>1. To(row.status, row.filled, "VACANT", NULL) \in Changes
    BY <1>0, <1>4, ToTyped DEF RemoveLoad, RowTyped, Property, Occupancy
  <2>2. RequestTyped'
    BY <1>0, <1>4, <2>1, LoadsTyped DEF RemoveLoad
  <2>3. QED
    BY <1>0, <1>4, <2>2 DEF RemoveLoad, Loads, RowTyped
<1>5. ASSUME NEW r \in Requests, DeleteLoad(r) PROVE RowTyped' /\ RequestTyped'
  BY <1>0, <1>5 DEF DeleteLoad, RowTyped, RequestTyped, RequestState
<1>6. ASSUME NEW r \in Requests, Write(r) PROVE RowTyped' /\ RequestTyped'
  <2>1. request[r].changes \in Changes /\ request[r].overtaken \in BOOLEAN
    BY <1>0, <1>6, WritingFields DEF Write
  <2>2. row' \in Property
    BY <1>0, <1>6, <2>1, MergedTyped DEF Write
  <2>3. overruled' \in BOOLEAN
    BY <1>0, <1>6, <2>1 DEF Write, RowTyped, Overrules
  <2>4. \A q \in Requests : Overtake("WRITING", request[q]) \in RequestState
    BY <1>0, OvertakeFields
  <2>5. RequestTyped'
    BY <1>0, <1>6, <2>4 DEF Write, RequestTyped, RequestState
  <2>6. QED
    BY <1>0, <1>6, <2>2, <2>3, <2>5 DEF Write, RowTyped
<1>7. ASSUME NEW r \in Requests, Delete(r) \/ Fail(r) PROVE RowTyped' /\ RequestTyped'
  BY <1>0, <1>7, IdleTyped DEF Delete, Fail, RowTyped, RequestTyped
<1>8. CASE Link
  <2>1. \A q \in Requests : Overtake("DELETING", request[q]) \in RequestState
    BY <1>0, OvertakeFields
  <2>2. QED
    BY <1>0, <1>8, <2>1 DEF Link, RowTyped, RequestTyped
<1>9. CASE UNCHANGED vars
  BY <1>0, <1>9 DEF vars, RowTyped, RequestTyped
<1>10. QED
  BY <1>1, <1>2, <1>3, <1>4, <1>5, <1>6, <1>7, <1>8, <1>9 DEF Next

\* The row, what refers to it and the open requests keep their types.
THEOREM TypeCorrect == Spec => []TypeOK
BY InitType, NextType, PTL DEF Spec

-----------------------------------------------------------------------------
(***************************************************************************)
(* The strengthening.  A request is judged by the row as it is now, not as *)
(* it was loaded: what it has checked has to have stayed true, or it has   *)
(* been overtaken.                                                         *)
(***************************************************************************)

\* One that publishes brings along whatever detail the row still lacks; one
\* that sets a tenant occupies the home, or finds it occupied, and never vacates it.
WriteHolds(req) ==
    /\ req.changes.status = "ACTIVE" => Complete(row.filled \cup req.changes.filled)
    /\ req.changes.tenant_id \in Tenants /\ ~ req.overtaken =>
         \/ req.changes.occupancy = "OCCUPIED"
         \/ req.changes.occupancy = "KEPT" /\ row.occupancy = "OCCUPIED"
    /\ req.changes.tenant_id \in Tenants => req.changes.occupancy # "VACANT"

\* One that deletes has found nothing that refers to the row.
RequestHolds(req) ==
    /\ row # NULL /\ req.at = "WRITING" => WriteHolds(req)
    /\ linked /\ req.at = "DELETING" => req.overtaken

\* FoundIsVacant needs the status not at all.
VacantMeansFree ==
    row # NULL /\ row.occupancy = "VACANT" => row.tenant_id = NULL \/ overruled

ListingInv ==
    /\ TypeOK
    /\ PublishedIsComplete
    /\ VacantMeansFree
    /\ \A r \in Requests : RequestHolds(request[r])

LEMMA InitInv == Init => ListingInv
<1>1. Init => TypeOK
  BY InitType
<1>2. QED
  BY <1>1 DEF Init, ListingInv, PublishedIsComplete, VacantMeansFree, RequestHolds

\* Loading leaves the row, so that only the new request has to be judged.
LEMMA LoadHolds ==
    ASSUME ListingInv, NEW r \in Requests, NEW changes, Loads(r, changes),
           changes.status = "ACTIVE" => Complete(row.filled \cup changes.filled),
           changes.tenant_id \in Tenants =>
               \/ changes.occupancy = "OCCUPIED"
               \/ changes.occupancy = "KEPT" /\ row.occupancy = "OCCUPIED"
    PROVE  /\ PublishedIsComplete' /\ VacantMeansFree'
           /\ \A q \in Requests : RequestHolds(request[q])'
<1>1. UNCHANGED <<row, linked, overruled>>
  BY DEF Loads
<1>2. PublishedIsComplete' /\ VacantMeansFree'
  BY <1>1 DEF ListingInv, PublishedIsComplete, VacantMeansFree, Complete
<1>3. ASSUME NEW q \in Requests PROVE RequestHolds(request[q])'
  <2>1. request'[q] = IF q = r THEN [at |-> "WRITING", changes |-> changes, overtaken |-> FALSE]
                      ELSE request[q]
    BY DEF Loads, ListingInv, TypeOK
  <2>2. CASE q = r
    BY <1>1, <2>1, <2>2 DEF RequestHolds, WriteHolds, Complete
  <2>3. CASE q # r
    BY <1>1, <2>1, <2>3 DEF RequestHolds, WriteHolds, Complete, ListingInv
  <2>4. QED
    BY <2>2, <2>3
<1>4. QED
  BY <1>2, <1>3

\* What is complete stays so as details are added.
LEMMA Grown ==
    ASSUME NEW old \in SUBSET Fields, NEW new \in SUBSET Fields, old \subseteq new,
           NEW more \in SUBSET Fields, Complete(old \cup more)
    PROVE  Complete(new \cup more)
BY DEF Complete

\* Committing judges the requests that stay open anew: the details only grow,
\* and a tenancy that changes overtakes them.
LEMMA WriteInv ==
    ASSUME ListingInv, NEW r \in Requests, Write(r)
    PROVE  /\ PublishedIsComplete' /\ VacantMeansFree'
           /\ \A q \in Requests : RequestHolds(request[q])'
<1> DEFINE c == request[r].changes
<1>1. /\ request[r].at = "WRITING"
      /\ row # NULL /\ row \in Property
      /\ c \in Changes
      /\ request[r].overtaken \in BOOLEAN
  BY TypeParts, WritingFields DEF Write, ListingInv, RowTyped
<1>2. row' = Merged(c) /\ linked' = linked
  BY DEF Write
<1>3. /\ row.filled \subseteq row'.filled
      /\ row.filled \subseteq Fields /\ c.filled \subseteq Fields
      /\ row'.filled \subseteq Fields
  BY <1>1, <1>2 DEF Merged, Property, Changes
<1>4. PublishedIsComplete'
  <2>1. CASE c.status = "KEPT"
    BY <1>1, <1>2, <1>3, <2>1 DEF ListingInv, PublishedIsComplete, Merged, Merge, Complete
  <2>2. CASE c.status # "KEPT"
    BY <1>1, <1>2, <2>2 DEF ListingInv, PublishedIsComplete, Merged, Merge, RequestHolds,
       WriteHolds, Property, Write
  <2>3. QED
    BY <2>1, <2>2
<1>5. VacantMeansFree'
  <2>1. CASE ~ Tenancy(c)
    BY <1>1, <1>2, <2>1 DEF Write, Tenancy, Merged, Merge, ListingInv, VacantMeansFree
  <2>2. CASE Tenancy(c)
    <3>1. overruled' = Overrules(c, request[r].overtaken)
      BY <2>2 DEF Write
    <3>2. CASE c.tenant_id \in Tenants
      <4>1. /\ c.occupancy # "VACANT"
            /\ \/ request[r].overtaken
               \/ c.occupancy = "OCCUPIED"
               \/ c.occupancy = "KEPT" /\ row.occupancy = "OCCUPIED"
        BY <1>1, <3>2 DEF ListingInv, RequestHolds, WriteHolds
      <4>2. c.occupancy = "KEPT" \/ c.occupancy = "OCCUPIED"
        BY <1>1, <4>1 DEF Changes, Occupancy
      <4>3. c.tenant_id # "KEPT"
        BY <3>2, ListingConstants
      <4>4. QED
        BY <1>2, <3>1, <4>1, <4>2, <4>3 DEF VacantMeansFree, Merged, Merge, Overrules
    <3>3. CASE c.tenant_id = NULL
      BY <1>2, <3>3, ListingConstants DEF VacantMeansFree, Merged, Merge
    <3>4. CASE c.tenant_id = "KEPT"
      <4>1. c.occupancy # "KEPT"
        BY <2>2, <3>4 DEF Tenancy
      <4>2. QED
        BY <1>2, <3>1, <3>4, <4>1 DEF VacantMeansFree, Merged, Merge, Overrules
    <3>5. QED
      BY <1>1, <3>2, <3>3, <3>4 DEF Changes
  <2>3. QED
    BY <2>1, <2>2
<1>6. ASSUME NEW q \in Requests PROVE RequestHolds(request[q])'
  <2>1. RequestHolds(request[q])
    BY DEF ListingInv
  <2>2. request'[q] = IF q = r THEN Idle
                      ELSE IF Tenancy(c) THEN Overtake("WRITING", request[q]) ELSE request[q]
    BY DEF Write
  <2>3. CASE q = r
    BY <2>2, <2>3 DEF RequestHolds
  <2>4. CASE q # r /\ Tenancy(c)
    <3>1. LET new == Overtake("WRITING", request[q]) IN
          /\ new.at = request[q].at
          /\ new.at = "WRITING" => new.changes = request[q].changes
          /\ new.at = "WRITING" => new.overtaken = TRUE
          /\ new.at # "WRITING" => new = request[q]
      BY OvertakeFields, TypeParts DEF ListingInv
    <3>2. request[q].at = "WRITING" => request[q].changes \in Changes
      BY WritingFields, TypeParts DEF ListingInv
    <3>3. request[q].at = "WRITING" /\ request[q].changes.status = "ACTIVE"
              => Complete(row'.filled \cup request[q].changes.filled)
      BY <1>1, <1>3, <2>1, <3>2, Grown DEF RequestHolds, WriteHolds, Changes
    <3>4. request[q].at = "WRITING" /\ request[q].changes.tenant_id \in Tenants
              => request[q].changes.occupancy # "VACANT"
      BY <1>1, <2>1 DEF RequestHolds, WriteHolds
    <3>5. PICK new : new = Overtake("WRITING", request[q])
      OBVIOUS
    <3>6. request'[q] = new /\ linked' = linked
      BY <1>2, <2>2, <2>4, <3>5
    <3>7. QED
      BY <2>1, <3>1, <3>3, <3>4, <3>5, <3>6 DEF RequestHolds, WriteHolds
  <2>5. CASE q # r /\ ~ Tenancy(c)
    <3>1. request'[q] = request[q] /\ row'.occupancy = row.occupancy
      BY <1>2, <2>2, <2>5 DEF Tenancy, Merged, Merge
    <3>2. request[q].at = "WRITING" => request[q].changes \in Changes
      BY WritingFields, TypeParts DEF ListingInv
    <3>3. request[q].at = "WRITING" /\ request[q].changes.status = "ACTIVE"
              => Complete(row'.filled \cup request[q].changes.filled)
      BY <1>1, <1>3, <2>1, <3>2, Grown DEF RequestHolds, WriteHolds, Changes
    <3>4. QED
      BY <1>1, <1>2, <2>1, <3>1, <3>3 DEF RequestHolds, WriteHolds
  <2>6. QED
    BY <2>3, <2>4, <2>5
<1>7. QED
  BY <1>4, <1>5, <1>6

LEMMA NextInv == ListingInv /\ [Next]_vars => ListingInv'
<1> SUFFICES ASSUME ListingInv, [Next]_vars
             PROVE  /\ PublishedIsComplete' /\ VacantMeansFree'
                    /\ \A q \in Requests : RequestHolds(request[q])'
  BY NextType DEF ListingInv
<1> USE DEF ListingInv
<1>0. RowTyped /\ RequestTyped
  BY TypeParts
<1>1. ASSUME NEW status \in {"DRAFT", "ACTIVE"}, NEW filled \in SUBSET Fields,
             Create(status, filled)
      PROVE  /\ PublishedIsComplete' /\ VacantMeansFree'
             /\ \A q \in Requests : RequestHolds(request[q])'
  BY <1>1 DEF Create, PublishedIsComplete, VacantMeansFree, Complete, RequestHolds
<1>2. ASSUME NEW r \in Requests, NEW status \in Status, NEW fill \in SUBSET Fields,
             NEW occupancy \in Occupancy, UpdateLoad(r, status, fill, occupancy)
      PROVE  /\ PublishedIsComplete' /\ VacantMeansFree'
             /\ \A q \in Requests : RequestHolds(request[q])'
  <2> DEFINE changes == To(status, row.filled \cup fill, occupancy, row.tenant_id)
  <2>1. row # NULL /\ row \in Property /\ Loads(r, changes)
    BY <1>0, <1>2 DEF UpdateLoad, RowTyped
  <2>2. changes.tenant_id = "KEPT" /\ changes.filled = (row.filled \cup fill) \ row.filled
    BY DEF To, Changed
  <2>3. changes.status = "ACTIVE" => Complete(row.filled \cup fill)
    BY <1>2 DEF UpdateLoad, MayBecome, To, Changed
  <2>4. row.filled \cup changes.filled = row.filled \cup fill
    BY <2>2
  <2>5. changes.tenant_id \notin Tenants
    BY <2>2, ListingConstants
  <2>6. QED
    BY <2>1, <2>3, <2>4, <2>5, LoadHolds
<1>3. ASSUME NEW r \in Requests, NEW t \in Tenants, AssignLoad(r, t) \/ ActivateLoad(r, t)
      PROVE  /\ PublishedIsComplete' /\ VacantMeansFree'
             /\ \A q \in Requests : RequestHolds(request[q])'
  <2> DEFINE changes == To(row.status, row.filled, "OCCUPIED", t)
  <2>1. Loads(r, changes)
    BY <1>3 DEF AssignLoad, ActivateLoad, OccupiedBy
  <2>2. changes.status = "KEPT"
    BY DEF To, Changed
  <2>3. \/ changes.occupancy = "OCCUPIED"
        \/ changes.occupancy = "KEPT" /\ row.occupancy = "OCCUPIED"
    BY DEF To, Changed
  <2>4. QED
    BY <2>1, <2>2, <2>3, LoadHolds
<1>4. ASSUME NEW r \in Requests, RemoveLoad(r)
      PROVE  /\ PublishedIsComplete' /\ VacantMeansFree'
             /\ \A q \in Requests : RequestHolds(request[q])'
  <2> DEFINE changes == To(row.status, row.filled, "VACANT", NULL)
  <2>1. Loads(r, changes) /\ row.tenant_id # NULL
    BY <1>4 DEF RemoveLoad
  <2>2. changes.status = "KEPT" /\ changes.tenant_id = NULL
    BY <2>1 DEF To, Changed
  <2>3. QED
    BY <2>1, <2>2, LoadHolds, ListingConstants
<1>5. ASSUME NEW r \in Requests, DeleteLoad(r) \/ Fail(r)
      PROVE  /\ PublishedIsComplete' /\ VacantMeansFree'
             /\ \A q \in Requests : RequestHolds(request[q])'
  <2>1. UNCHANGED <<row, linked, overruled>>
    BY <1>5 DEF DeleteLoad, Fail
  <2>2. ASSUME NEW q \in Requests
        PROVE  \/ request'[q] = request[q]
               \/ request'[q] = Idle
               \/ ~ linked /\ request'[q].at = "DELETING"
    <3>1. CASE DeleteLoad(r)
      BY <1>0, <3>1 DEF DeleteLoad, RequestTyped
    <3>2. CASE Fail(r)
      BY <1>0, <3>2 DEF Fail, RequestTyped
    <3>3. QED
      BY <1>5, <3>1, <3>2
  <2>3. QED
    BY <2>1, <2>2
       DEF PublishedIsComplete, VacantMeansFree, Complete, RequestHolds, WriteHolds
<1>6. ASSUME NEW r \in Requests, Write(r)
      PROVE  /\ PublishedIsComplete' /\ VacantMeansFree'
             /\ \A q \in Requests : RequestHolds(request[q])'
  BY <1>6, WriteInv
<1>7. ASSUME NEW r \in Requests, Delete(r)
      PROVE  /\ PublishedIsComplete' /\ VacantMeansFree'
             /\ \A q \in Requests : RequestHolds(request[q])'
  BY <1>7 DEF Delete, PublishedIsComplete, VacantMeansFree, RequestHolds
<1>8. ASSUME Link
      PROVE  /\ PublishedIsComplete' /\ VacantMeansFree'
             /\ \A q \in Requests : RequestHolds(request[q])'
  <2>1. UNCHANGED <<row, overruled>>
    BY <1>8 DEF Link
  <2>2. PublishedIsComplete' /\ VacantMeansFree'
    BY <2>1 DEF PublishedIsComplete, VacantMeansFree, Complete
  <2>3. ASSUME NEW q \in Requests PROVE RequestHolds(request[q])'
    <3>1. request'[q] = Overtake("DELETING", request[q]) /\ RequestHolds(request[q])
      BY <1>8 DEF Link
    <3>2. /\ request'[q].at = request[q].at
          /\ request'[q].at = "DELETING" => request'[q].overtaken = TRUE
          /\ request'[q].at # "DELETING" => request'[q] = request[q]
      BY <1>0, <3>1, OvertakeFields
    <3>3. CASE request[q].at = "DELETING"
      BY <3>2, <3>3 DEF RequestHolds
    <3>4. CASE request[q].at # "DELETING"
      <4>1. request'[q] = request[q]
        BY <3>2, <3>4
      <4>2. QED
        BY <2>1, <3>1, <3>4, <4>1 DEF RequestHolds, WriteHolds, Complete
    <3>5. QED
      BY <3>3, <3>4
  <2>4. QED
    BY <2>2, <2>3
<1>9. ASSUME UNCHANGED vars
      PROVE  /\ PublishedIsComplete' /\ VacantMeansFree'
             /\ \A q \in Requests : RequestHolds(request[q])'
  BY <1>9 DEF vars, PublishedIsComplete, VacantMeansFree, Complete, RequestHolds, WriteHolds
<1>10. QED
  BY <1>1, <1>2, <1>3, <1>4, <1>5, <1>6, <1>7, <1>8, <1>9 DEF Next

LEMMA InvHolds == Spec => []ListingInv
BY InitInv, NextInv, PTL DEF Spec

-----------------------------------------------------------------------------
(***************************************************************************)
(* The theorems.                                                           *)
(***************************************************************************)

\* However updates overlap, a published listing has every detail: update checks
\* the row it loaded, and no operation takes a detail away.
THEOREM PublishedCorrect == Spec => []PublishedIsComplete
<1>1. ListingInv => PublishedIsComplete
  BY DEF ListingInv
<1>2. QED
  BY <1>1, InvHolds, PTL

\* What tenants find is nobody's home, unless the last write changed one of the two
\* columns only, against the other: assigning, removing and activating write both.
THEOREM FoundCorrect == Spec => []FoundIsVacant
<1>1. ListingInv => FoundIsVacant
  BY DEF ListingInv, VacantMeansFree, FoundIsVacant, Found
<1>2. QED
  BY <1>1, InvHolds, PTL

\* Deleting a property takes agreements and payments along only when they came
\* while it was being deleted.
THEOREM PaidForCorrect == Spec => PaidForIsKept
<1>1. ListingInv /\ [Next]_vars =>
        [row # NULL /\ row' = NULL /\ linked
            => \E r \in Requests : request[r].at = "DELETING" /\ request[r].overtaken]_vars
  <2> SUFFICES ASSUME ListingInv, Next, row # NULL, row' = NULL, linked
               PROVE  \E r \in Requests : request[r].at = "DELETING" /\ request[r].overtaken
    OBVIOUS
  <2>1. ASSUME NEW r \in Requests, Delete(r)
        PROVE  request[r].at = "DELETING" /\ request[r].overtaken
    BY <2>1 DEF Delete, ListingInv, RequestHolds
  <2>2. ASSUME NEW r \in Requests, Write(r) PROVE row' # NULL
    <3>1. row' \in Property
      BY <2>2, TypeParts, WritingFields, MergedTyped DEF Write, ListingInv
    <3>2. QED
      BY <3>1, NullIsNoRow
  <2>3. QED
    BY <2>1, <2>2 DEF Next, Create, UpdateLoad, AssignLoad, ActivateLoad, RemoveLoad, Loads,
       DeleteLoad, Fail, Link
<1>2. QED
  BY <1>1, InvHolds, PTL DEF Spec, PaidForIsKept

-----------------------------------------------------------------------------
(***************************************************************************)
(* Jobs and disputes: types.  A request that writes what it leaves out of  *)
(* the row as KEPT has found a row to begin with, and rows are never       *)
(* deleted: the type is inductive together with that.                      *)
(***************************************************************************)
JobTyped == job \in Job \cup {NULL} /\ dispute \in Dispute \cup {NULL}

JobOpenTyped == request \in [Requests -> JobRequest]

LEMMA JobParts == JobTypeOK <=> JobTyped /\ JobOpenTyped
BY DEF JobTypeOK, JobTyped, JobOpenTyped

LEMMA JobFields ==
    ASSUME JobOpenTyped, NEW r \in Requests, request[r].at = "JOB"
    PROVE  /\ request[r].status \in JobStatus \cup {"KEPT"}
           /\ request[r].provider_id \in Providers \cup {"KEPT"}
           /\ request[r].completed_at \in BOOLEAN
           /\ request[r].work_report \in Providers \cup {NULL}
           /\ request[r].overtaken \in BOOLEAN
BY DEF JobOpenTyped, JobRequest

LEMMA DisputeFields ==
    ASSUME JobOpenTyped, NEW r \in Requests, request[r].at = "DISPUTE"
    PROVE  /\ request[r].status \in DisputeStatus \cup {"KEPT"}
           /\ request[r].resolved_at \in BOOLEAN
BY DEF JobOpenTyped, JobRequest

LEMMA JobIdleTyped == Idle \in JobRequest
BY DEF JobRequest

LEMMA DatedTyped == ASSUME NEW status PROVE Dated(status) \in BOOLEAN
BY DEF Dated

\* What another commit that assigns a provider leaves of a request.
LEMMA OvertakeJobFields ==
    ASSUME JobOpenTyped, NEW s \in Requests
    PROVE  LET late == OvertakeJob(request[s]) IN
           /\ late \in JobRequest
           /\ late.at = request[s].at
           /\ late.at # "JOB" => late = request[s]
           /\ late.at = "JOB" => /\ late.status = request[s].status
                                 /\ late.provider_id = request[s].provider_id
                                 /\ late.completed_at = request[s].completed_at
                                 /\ late.work_report = request[s].work_report
                                 /\ late.overtaken = TRUE
<1>1. CASE request[s].at = "JOB"
  <2>1. request[s] = [at |-> "JOB", status |-> request[s].status,
                      provider_id |-> request[s].provider_id,
                      completed_at |-> request[s].completed_at,
                      work_report |-> request[s].work_report,
                      overtaken |-> request[s].overtaken]
    BY <1>1 DEF JobOpenTyped, JobRequest
  <2>2. OvertakeJob(request[s]) =
            [at |-> "JOB", status |-> request[s].status,
             provider_id |-> request[s].provider_id,
             completed_at |-> request[s].completed_at,
             work_report |-> request[s].work_report, overtaken |-> TRUE]
    <3>1. PICK yes : yes = TRUE
      OBVIOUS
    <3>2. OvertakeJob(request[s]) = [request[s] EXCEPT !.overtaken = yes]
      BY <1>1, <3>1 DEF OvertakeJob
    <3>3. [request[s] EXCEPT !.overtaken = yes] =
            [at |-> "JOB", status |-> request[s].status,
             provider_id |-> request[s].provider_id,
             completed_at |-> request[s].completed_at,
             work_report |-> request[s].work_report, overtaken |-> yes]
      BY <2>1
    <3>4. QED
      BY <3>1, <3>2, <3>3
  <2>3. QED
    BY <1>1, <2>2, JobFields DEF JobRequest
<1>2. CASE request[s].at # "JOB"
  BY <1>2 DEF OvertakeJob, JobOpenTyped
<1>3. QED
  BY <1>1, <1>2

\* The request that has loaded the job and is about to write it.
Writing(status, provider, completed, report) ==
    [at |-> "JOB", status |-> Changed(job.status, status),
     provider_id |-> Changed(job.provider_id, provider),
     completed_at |-> completed, work_report |-> report, overtaken |-> FALSE]

LEMMA WritingTyped ==
    ASSUME JobTyped, job # NULL, NEW status \in JobStatus,
           NEW provider, provider \in Providers \/ provider = job.provider_id,
           NEW completed \in BOOLEAN, NEW report \in Providers \cup {NULL}
    PROVE  LET new == Writing(status, provider, completed, report) IN
           /\ new \in JobRequest
           /\ new.at = "JOB" /\ new.status = Changed(job.status, status)
           /\ new.provider_id = Changed(job.provider_id, provider)
           /\ new.completed_at = completed /\ new.work_report = report
<1>1. Changed(job.status, status) \in JobStatus \cup {"KEPT"}
  BY DEF Changed
<1>2. Changed(job.provider_id, provider) \in Providers \cup {"KEPT"}
  BY DEF Changed
<1>3. QED
  BY <1>1, <1>2 DEF Writing, JobRequest

\* Those that found no job are not writing one.
RowsFound ==
    \A r \in Requests : /\ request[r].at = "JOB" => job # NULL
                        /\ request[r].at = "DISPUTE" => dispute # NULL

\* Status and time agree: in the rows, and in what is about to be written.
DatesTrue ==
    \A r \in Requests :
        /\ request[r].at = "JOB" /\ request[r].status = "COMPLETED"
            => request[r].completed_at
        /\ request[r].at = "DISPUTE" /\ request[r].status = "resolved"
            => request[r].resolved_at

\* Who is about to report assigns nobody, and is the assignee unless the job
\* was given to another one in the meantime.
ReportersTrue ==
    \A r \in Requests :
        request[r].at = "JOB" /\ request[r].work_report # NULL
            => /\ request[r].provider_id = "KEPT"
               /\ request[r].overtaken \/ job.provider_id = request[r].work_report

WritesTrue == RowsFound /\ DatesTrue /\ ReportersTrue

JobInv == JobTypeOK /\ WritesTrue /\ ClosedIsDated

\* One request changes, and what it has become is true; the rows stay.
LEMMA OneJobRequest ==
    ASSUME JobInv, NEW r \in Requests, NEW new \in JobRequest,
           request' = [request EXCEPT ![r] = new], UNCHANGED <<job, dispute>>,
           new.at = "JOB" =>
                /\ job # NULL
                /\ new.status = "COMPLETED" => new.completed_at
                /\ new.work_report # NULL => /\ new.provider_id = "KEPT"
                                             /\ job.provider_id = new.work_report,
           new.at = "DISPUTE" =>
                /\ dispute # NULL
                /\ new.status = "resolved" => new.resolved_at
    PROVE  JobInv'
<1>0. JobTyped /\ JobOpenTyped
  BY JobParts DEF JobInv
<1>1. request'[r] = new /\ \A s \in Requests \ {r} : request'[s] = request[s]
  BY <1>0 DEF JobOpenTyped
<1>2. JobTypeOK'
  BY <1>0 DEF JobTypeOK, JobTyped, JobOpenTyped
<1>3. RowsFound'
  BY <1>1 DEF JobInv, WritesTrue, RowsFound
<1>4. DatesTrue'
  BY <1>1 DEF JobInv, WritesTrue, DatesTrue
<1>5. ReportersTrue'
  BY <1>1 DEF JobInv, WritesTrue, ReportersTrue
<1>6. QED
  BY <1>2, <1>3, <1>4, <1>5 DEF JobInv, WritesTrue, ClosedIsDated

LEMMA IdleInv ==
    ASSUME JobInv, NEW r \in Requests, request' = [request EXCEPT ![r] = Idle],
           UNCHANGED <<job, dispute>>
    PROVE  JobInv'
BY JobIdleTyped, OneJobRequest

\* Loading the job.
LEMMA LoadsInv ==
    ASSUME JobInv, NEW r \in Requests, NEW status \in JobStatus,
           NEW provider, provider \in Providers \/ provider = job.provider_id,
           NEW completed \in BOOLEAN, NEW report \in Providers \cup {NULL},
           LoadsJob(r, status, provider, completed, report),
           status = "COMPLETED" => completed,
           report # NULL => provider = job.provider_id /\ job.provider_id = report
    PROVE  JobInv'
<1> DEFINE new == Writing(status, provider, completed, report)
<1>0. JobTyped
  BY JobParts DEF JobInv
<1>1. job # NULL /\ request' = [request EXCEPT ![r] = new] /\ UNCHANGED <<job, dispute>>
  BY DEF LoadsJob, Writing
<1>2. /\ new \in JobRequest
      /\ new.at = "JOB" /\ new.status = Changed(job.status, status)
      /\ new.provider_id = Changed(job.provider_id, provider)
      /\ new.completed_at = completed /\ new.work_report = report
  BY <1>0, <1>1, WritingTyped
<1> HIDE DEF new
<1>3. new.status = "COMPLETED" => new.completed_at
  BY <1>2 DEF Changed
<1>4. new.work_report # NULL => /\ new.provider_id = "KEPT"
                               /\ job.provider_id = new.work_report
  BY <1>2 DEF Changed
<1>5. QED
  BY <1>1, <1>2, <1>3, <1>4, OneJobRequest

LEMMA InitJob == JobInit => JobInv
<1> SUFFICES ASSUME JobInit PROVE JobInv
  OBVIOUS
<1>1. JobTypeOK
  BY JobIdleTyped DEF JobInit, JobTypeOK
<1>2. \A r \in Requests : request[r].at = "IDLE"
  BY DEF JobInit
<1>3. WritesTrue
  BY <1>2 DEF WritesTrue, RowsFound, DatesTrue, ReportersTrue
<1>4. ClosedIsDated
  BY DEF JobInit, ClosedIsDated
<1>5. QED
  BY <1>1, <1>3, <1>4 DEF JobInv

\* What the commit of a request makes of the job.
LEMMA WrittenJob ==
    ASSUME JobInv, NEW r \in Requests, WriteJob(r)
    PROVE  /\ job \in Job /\ job' \in Job /\ job # NULL /\ job' # NULL
           /\ job'.status = Merge(job.status, request[r].status)
           /\ job'.provider_id = Merge(job.provider_id, request[r].provider_id)
           /\ job'.completed_at = (job.completed_at \/ request[r].completed_at)
           /\ job'.work_report = IF request[r].work_report = NULL THEN job.work_report
                                 ELSE request[r].work_report
<1> DEFINE report == IF request[r].work_report = NULL THEN job.work_report
                     ELSE request[r].work_report
           status == Merge(job.status, request[r].status)
           provider == Merge(job.provider_id, request[r].provider_id)
           completed == job.completed_at \/ request[r].completed_at
<1>0. JobTyped /\ JobOpenTyped
  BY JobParts DEF JobInv
<1>1. /\ request[r].at = "JOB"
      /\ job' = [status |-> status, provider_id |-> provider, completed_at |-> completed,
                 work_report |-> report]
  BY DEF WriteJob
<1>2. job # NULL
  BY <1>1 DEF JobInv, WritesTrue, RowsFound
<1>3. job \in Job
  BY <1>0, <1>2 DEF JobTyped
<1>4. status \in JobStatus
  BY <1>0, <1>1, <1>3, JobFields DEF Merge, Job
<1>5. provider \in Providers \cup {NULL}
  BY <1>0, <1>1, <1>3, JobFields DEF Merge, Job
<1>6. report \in Providers \cup {NULL}
  BY <1>0, <1>1, <1>3, JobFields DEF Job
<1>7. completed \in BOOLEAN
  OBVIOUS
<1> HIDE DEF report, status, provider, completed
<1>8. job' \in Job
  BY <1>1, <1>4, <1>5, <1>6, <1>7 DEF Job
<1>9. job' # NULL
  BY <1>8, JobConstants
<1>10. job'.status = status /\ job'.provider_id = provider
       /\ job'.completed_at = completed /\ job'.work_report = report
  BY <1>1
<1>11. QED
  BY <1>2, <1>3, <1>8, <1>9, <1>10 DEF report, status, provider, completed

\* ... and of the other requests: a job that has been assigned has overtaken them.
LEMMA WrittenOthers ==
    ASSUME JobOpenTyped, NEW r \in Requests, WriteJob(r), NEW s \in Requests
    PROVE  /\ request'[s] \in JobRequest
           /\ request'[s].at \in {"IDLE", request[s].at}
           /\ request'[s].at # "JOB" => request'[s] \in {Idle, request[s]}
           /\ request'[s].at = "JOB" =>
                /\ request'[s].status = request[s].status
                /\ request'[s].provider_id = request[s].provider_id
                /\ request'[s].completed_at = request[s].completed_at
                /\ request'[s].work_report = request[s].work_report
                /\ \/ request'[s].overtaken = TRUE
                   \/ request'[s] = request[s] /\ request[r].provider_id = "KEPT"
<1>1. request'[s] = IF s = r THEN Idle
                   ELSE IF request[r].provider_id = "KEPT" THEN request[s]
                   ELSE OvertakeJob(request[s])
  BY DEF WriteJob
<1>2. CASE s = r
  BY <1>1, <1>2, JobIdleTyped
<1>3. CASE s # r /\ request[r].provider_id = "KEPT"
  BY <1>1, <1>3 DEF JobOpenTyped
<1>4. CASE s # r /\ request[r].provider_id # "KEPT"
  BY <1>1, <1>4, OvertakeJobFields
<1>5. QED
  BY <1>2, <1>3, <1>4

LEMMA WriteJobInv ==
    ASSUME JobInv, NEW r \in Requests, WriteJob(r)
    PROVE  JobInv'
<1>0. JobTyped /\ JobOpenTyped
  BY JobParts DEF JobInv
<1>1. request[r].at = "JOB" /\ dispute' = dispute
      /\ request' = [s \in Requests |-> request'[s]]
  BY DEF WriteJob
<1>2. job' # NULL /\ job # NULL
  BY WrittenJob
<1>3. JobTypeOK'
  BY <1>0, <1>1, WrittenJob, WrittenOthers DEF JobTypeOK, JobTyped
<1>4. RowsFound'
  BY <1>0, <1>1, <1>2, WrittenOthers DEF JobInv, WritesTrue, RowsFound
<1>5. DatesTrue'
  <2>1. ASSUME NEW s \in Requests, request'[s].at = "JOB", request'[s].status = "COMPLETED"
        PROVE  request'[s].completed_at
    <3>1. request[s].at = "JOB" /\ request[s].status = "COMPLETED"
          /\ request'[s].completed_at = request[s].completed_at
      BY <1>0, <2>1, WrittenOthers
    <3>2. QED
      BY <3>1 DEF JobInv, WritesTrue, DatesTrue
  <2>2. ASSUME NEW s \in Requests, request'[s].at = "DISPUTE", request'[s].status = "resolved"
        PROVE  request'[s].resolved_at
    <3>1. request'[s] = request[s]
      <4>1. request'[s].at # "JOB" /\ request'[s] # Idle
        BY <2>2
      <4>2. QED
        BY <1>0, <4>1, WrittenOthers
    <3>2. QED
      BY <2>2, <3>1 DEF JobInv, WritesTrue, DatesTrue
  <2>3. QED
    BY <2>1, <2>2 DEF DatesTrue
<1>6. ReportersTrue'
  <2> SUFFICES ASSUME NEW s \in Requests, request'[s].at = "JOB", request'[s].work_report # NULL
               PROVE  /\ request'[s].provider_id = "KEPT"
                      /\ request'[s].overtaken \/ job'.provider_id = request'[s].work_report
    BY DEF ReportersTrue
  <2>1. /\ request[s].at = "JOB"
        /\ request'[s].provider_id = request[s].provider_id
        /\ request'[s].work_report = request[s].work_report
        /\ \/ request'[s].overtaken = TRUE
           \/ request'[s] = request[s] /\ request[r].provider_id = "KEPT"
    BY <1>0, WrittenOthers
  <2>2. /\ request[s].provider_id = "KEPT"
        /\ request[s].overtaken \/ job.provider_id = request[s].work_report
    BY <2>1 DEF JobInv, WritesTrue, ReportersTrue
  <2>3. request[r].provider_id = "KEPT" => job'.provider_id = job.provider_id
    BY WrittenJob DEF Merge
  <2>4. QED
    BY <2>1, <2>2, <2>3
<1>7. ClosedIsDated'
  <2>1. ASSUME job'.status = "COMPLETED" PROVE job'.completed_at
    <3>1. \/ job.status = "COMPLETED"
          \/ request[r].status = "COMPLETED"
      BY <2>1, WrittenJob DEF Merge
    <3>2. job.completed_at \/ request[r].completed_at
      BY <1>1, <1>2, <3>1 DEF JobInv, WritesTrue, DatesTrue, ClosedIsDated
    <3>3. QED
      BY <3>2, WrittenJob
  <2>2. QED
    BY <1>1, <2>1 DEF JobInv, ClosedIsDated
<1>8. QED
  BY <1>3, <1>4, <1>5, <1>6, <1>7 DEF JobInv, WritesTrue

LEMMA WriteDisputeInv ==
    ASSUME JobInv, NEW r \in Requests, WriteDispute(r)
    PROVE  JobInv'
<1> DEFINE status == Merge(dispute.status, request[r].status)
           resolved == dispute.resolved_at \/ request[r].resolved_at
<1>0. JobTyped /\ JobOpenTyped
  BY JobParts DEF JobInv
<1>1. /\ request[r].at = "DISPUTE" /\ job' = job
      /\ dispute' = [status |-> status, resolved_at |-> resolved]
      /\ request' = [request EXCEPT ![r] = Idle]
  BY DEF WriteDispute
<1>2. dispute \in Dispute /\ dispute # NULL
  BY <1>0, <1>1 DEF JobInv, WritesTrue, RowsFound, JobTyped
<1>3. status \in DisputeStatus /\ resolved \in BOOLEAN
  BY <1>0, <1>1, <1>2, DisputeFields DEF Merge, Dispute
<1>4. status = "resolved" => resolved
  BY <1>1, <1>2 DEF JobInv, WritesTrue, DatesTrue, ClosedIsDated, Merge
<1> HIDE DEF status, resolved
<1>5. dispute' \in Dispute /\ dispute'.status = status /\ dispute'.resolved_at = resolved
  BY <1>1, <1>3 DEF Dispute
<1>6. dispute' # NULL
  BY <1>5, JobConstants
<1>7. \A s \in Requests : request'[s] \in {Idle, request[s]}
  BY <1>0, <1>1 DEF JobOpenTyped
<1>8. JobTypeOK'
  BY <1>0, <1>1, <1>5, JobIdleTyped DEF JobTypeOK, JobTyped, JobOpenTyped
<1>9. WritesTrue'
  BY <1>1, <1>6, <1>7 DEF JobInv, WritesTrue, RowsFound, DatesTrue, ReportersTrue
<1>10. ClosedIsDated'
  BY <1>1, <1>4, <1>5 DEF JobInv, ClosedIsDated
<1>11. QED
  BY <1>8, <1>9, <1>10 DEF JobInv

LEMMA UpdateDisputeInv ==
    ASSUME JobInv, NEW r \in Requests, NEW status \in DisputeStatus, UpdateDispute(r, status)
    PROVE  JobInv'
<1> DEFINE dated == Dated(status)
           written == Changed(dispute.status, status)
           new == [at |-> "DISPUTE", status |-> written, resolved_at |-> dated]
<1>1. dispute # NULL /\ request' = [request EXCEPT ![r] = new] /\ UNCHANGED <<job, dispute>>
  BY DEF UpdateDispute
<1>2. written \in DisputeStatus \cup {"KEPT"} /\ dated \in BOOLEAN
  BY DatedTyped DEF Changed
<1>3. written = "resolved" => dated
  BY DEF Changed, Dated
<1> HIDE DEF dated, written
<1>4. new \in JobRequest /\ new.at = "DISPUTE" /\ new.status = written /\ new.resolved_at = dated
  BY <1>2 DEF JobRequest
<1> HIDE DEF new
<1>5. QED
  BY <1>1, <1>3, <1>4, OneJobRequest

LEMMA NextJob == JobInv /\ [JobNext]_jobVars => JobInv'
<1> SUFFICES ASSUME JobInv, [JobNext]_jobVars PROVE JobInv'
  OBVIOUS
<1>0. JobTyped /\ JobOpenTyped
  BY JobParts DEF JobInv
<1>1. CASE RequestJob
  <2> DEFINE new == [status |-> "SCHEDULED", provider_id |-> NULL,
                     completed_at |-> FALSE, work_report |-> NULL]
  <2>1. job = NULL /\ job' = new /\ UNCHANGED <<dispute, request>>
    BY <1>1 DEF RequestJob
  <2>2. new \in Job /\ new.status = "SCHEDULED"
    BY DEF Job, JobStatus
  <2> HIDE DEF new
  <2>3. JobTypeOK'
    BY <1>0, <2>1, <2>2 DEF JobTypeOK, JobTyped, JobOpenTyped
  <2>4. WritesTrue'
    BY <2>1 DEF JobInv, WritesTrue, RowsFound, DatesTrue, ReportersTrue
  <2>5. ClosedIsDated'
    BY <2>1, <2>2 DEF JobInv, ClosedIsDated
  <2>6. QED
    BY <2>3, <2>4, <2>5 DEF JobInv
<1>2. CASE CreateDispute
  <2> DEFINE new == [status |-> "open", resolved_at |-> FALSE]
  <2>1. dispute = NULL /\ dispute' = new /\ UNCHANGED <<job, request>>
    BY <1>2 DEF CreateDispute
  <2>2. new \in Dispute /\ new.status = "open"
    BY DEF Dispute, DisputeStatus
  <2> HIDE DEF new
  <2>3. JobTypeOK'
    BY <1>0, <2>1, <2>2 DEF JobTypeOK, JobTyped, JobOpenTyped
  <2>4. WritesTrue'
    BY <2>1 DEF JobInv, WritesTrue, RowsFound, DatesTrue, ReportersTrue
  <2>5. ClosedIsDated'
    BY <2>1, <2>2 DEF JobInv, ClosedIsDated
  <2>6. QED
    BY <2>3, <2>4, <2>5 DEF JobInv
<1>3. ASSUME NEW r \in Requests, NEW status \in JobStatus, UpdateStatus(r, status)
      PROVE  JobInv'
  <2>1. LoadsJob(r, status, job.provider_id, Dated(status), NULL)
    BY <1>3 DEF UpdateStatus
  <2>2. status = "COMPLETED" => Dated(status)
    BY DEF Dated
  <2>3. QED
    BY <2>1, <2>2, DatedTyped, LoadsInv
<1>4. ASSUME NEW r \in Requests, NEW p \in Providers, AssignProvider(r, p) PROVE JobInv'
  <2>1. PICK no : no = FALSE
    OBVIOUS
  <2>2. LoadsJob(r, "ACTIVE", p, no, NULL)
    BY <1>4, <2>1 DEF AssignProvider
  <2>3. "ACTIVE" \in JobStatus /\ no \in BOOLEAN
    BY <2>1 DEF JobStatus
  <2>4. QED
    BY <2>2, <2>3, LoadsInv
<1>5. ASSUME NEW r \in Requests, NEW p \in Providers, SubmitWorkReport(r, p) PROVE JobInv'
  <2>1. LoadsJob(r, "COMPLETED", job.provider_id, Dated("COMPLETED"), p)
        /\ job.provider_id = p
    BY <1>5 DEF SubmitWorkReport, MayReport
  <2>2. "COMPLETED" \in JobStatus /\ Dated("COMPLETED")
    BY DEF JobStatus, Dated
  <2>3. QED
    BY <2>1, <2>2, DatedTyped, LoadsInv
<1>6. ASSUME NEW r \in Requests, NEW status \in DisputeStatus, UpdateDispute(r, status)
      PROVE  JobInv'
  BY <1>6, UpdateDisputeInv
<1>7. ASSUME NEW r \in Requests, WriteJob(r) PROVE JobInv'
  BY <1>7, WriteJobInv
<1>8. ASSUME NEW r \in Requests, WriteDispute(r) PROVE JobInv'
  BY <1>8, WriteDisputeInv
<1>9. ASSUME NEW r \in Requests, FailRequest(r) PROVE JobInv'
  BY <1>9, IdleInv DEF FailRequest
<1>10. CASE UNCHANGED jobVars
  BY <1>0, <1>10
     DEF jobVars, JobInv, JobTypeOK, WritesTrue, RowsFound, DatesTrue, ReportersTrue,
         ClosedIsDated
<1>11. QED
  BY <1>1, <1>2, <1>3, <1>4, <1>5, <1>6, <1>7, <1>8, <1>9, <1>10 DEF JobNext

LEMMA JobInvHolds == JobSpec => []JobInv
BY InitJob, NextJob, PTL DEF JobSpec

\* The job, its dispute and the open requests are what they are said to be.
THEOREM JobTypeCorrect == JobSpec => []JobTypeOK
<1>1. JobInv => JobTypeOK
  BY DEF JobInv
<1>2. QED
  BY <1>1, JobInvHolds, PTL

\* A completed job and a resolved dispute have their time, whatever overlaps.
THEOREM ClosedCorrect == JobSpec => []ClosedIsDated
<1>1. JobInv => ClosedIsDated
  BY DEF JobInv
<1>2. QED
  BY <1>1, JobInvHolds, PTL

\* Only the assignee's report arrives, unless the job was given to another one
\* between the request's read and its write.
THEOREM ReportsCorrect == JobSpec => ReportIsAssignees
<1>1. JobInv /\ [JobNext]_jobVars
        => [job # NULL /\ job' # NULL /\ job'.work_report # job.work_report
            => \/ job.provider_id = job'.work_report
               \/ \E r \in Requests : /\ request[r] # Idle /\ request'[r] = Idle
                                     /\ request[r].at = "JOB" /\ request[r].overtaken]_jobVars
  <2> SUFFICES ASSUME JobInv, JobNext, job # NULL, job' # NULL,
                      job'.work_report # job.work_report
               PROVE  \/ job.provider_id = job'.work_report
                      \/ \E r \in Requests :
                            /\ request[r] # Idle /\ request'[r] = Idle
                            /\ request[r].at = "JOB" /\ request[r].overtaken
    OBVIOUS
  <2>1. PICK r \in Requests : WriteJob(r)
    BY DEF JobNext, RequestJob, CreateDispute, UpdateStatus, AssignProvider,
           SubmitWorkReport, LoadsJob, UpdateDispute, WriteDispute, FailRequest
  <2>2. request[r].at = "JOB" /\ request[r] # Idle /\ request'[r] = Idle
    BY <2>1 DEF WriteJob
  <2>3. request[r].work_report # NULL /\ job'.work_report = request[r].work_report
    BY <2>1, WrittenJob
  <2>4. request[r].overtaken \/ job.provider_id = request[r].work_report
    BY <2>2, <2>3 DEF JobInv, WritesTrue, ReportersTrue
  <2>5. QED
    BY <2>2, <2>3, <2>4
<1>2. QED
  BY <1>1, JobInvHolds, PTL DEF JobSpec, ReportIsAssignees
=============================================================================
