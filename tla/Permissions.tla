----------------------------- MODULE Permissions -----------------------------
(***************************************************************************)
(* The permission table and what each role is granted, kept by             *)
(* super-admins (app/services/rbac_service.py, app/api/v1/rbac.py,         *)
(* app/models/rbac.py).                                                    *)
(*                                                                         *)
(* A request that reads before it writes is two actions: others may commit *)
(* in between, and what it finds then is what the constraints of the       *)
(* tables say.  Fail is the rollback of a request that runs into one of    *)
(* them or fails for another reason.                                       *)
(*                                                                         *)
(* Roles are fixed: there is a row for each role of the enumeration,       *)
(* create_role refuses a second one and delete_role refuses them all.      *)
(* Description, entity and action of a permission are left out.            *)
(***************************************************************************)
EXTENDS OpenRequests, Naturals

CONSTANTS Roles,     \* roles.id
          Codes,     \* permissions.code
          MaxId      \* how many permissions are ever created

ASSUME PermissionConstants ==
    /\ MaxId \in Nat
    /\ NULL \notin Codes

VARIABLES
    code,     \* permissions: the code of each row there is
    nextId,   \* the sequence behind permissions.id, which never goes back
    grants,   \* role_permissions: the permission ids each role is granted
    wanted,   \* history: what the last set_role_permissions asked for,
              \*          or the migration has granted
    asked     \* history: what it and those before it asked for that another
              \*          one of the same role has overtaken

vars == <<code, nextId, grants, request, wanted, asked>>

Ids == 1..MaxId

RequestState ==
         [at: {"IDLE"}]
    \cup [at: {"CREATING"}, code: Codes]
    \cup [at: {"RENAMING"}, id: Ids, code: Codes]
    \cup [at: {"SETTING"}, role: Roles, ids: SUBSET Ids, deleting: SUBSET Ids,
          overtaken: BOOLEAN]

TypeOK ==
    /\ code \in [Ids -> Codes \cup {NULL}]
    /\ nextId \in 1 .. (MaxId + 1)
    /\ grants \in [Roles -> SUBSET Ids]
    /\ request \in [Requests -> RequestState]
    /\ wanted \in [Roles -> SUBSET Ids]
    /\ asked \in [Roles -> SUBSET Ids]

Setting(q, ids, deleting, overtaken) ==
    [at |-> "SETTING", role |-> q, ids |-> ids, deleting |-> deleting,
     overtaken |-> overtaken]

Existing == {p \in Ids : code[p] # NULL}

Taken(c) == \E p \in Ids : code[p] = c

\* The migration that makes the tables fills them: permissions of different
\* codes, some of them granted to each role.
Init ==
    /\ nextId \in 1 .. (MaxId + 1)
    /\ code \in [Ids -> Codes \cup {NULL}]
    /\ \A p \in Ids : code[p] # NULL <=> p < nextId
    /\ \A p, q \in Existing : code[p] = code[q] => p = q
    /\ grants \in [Roles -> SUBSET Existing]
    /\ request = [r \in Requests |-> Idle]
    /\ wanted = grants
    /\ asked = grants

-----------------------------------------------------------------------------
(***************************************************************************)
(* Permissions                                                             *)
(***************************************************************************)

\* create_permission: the code must be new ...
CreateCheck(r, c) ==
    /\ request[r] = Idle
    /\ ~ Taken(c)
    /\ request' = [request EXCEPT ![r] = [at |-> "CREATING", code |-> c]]
    /\ UNCHANGED <<code, nextId, grants, wanted, asked>>

\* ... and still is, or the unique index refuses the row.
CreateInsert(r) ==
    /\ request[r].at = "CREATING"
    /\ nextId \in Ids
    /\ ~ Taken(request[r].code)
    /\ code' = [code EXCEPT ![nextId] = request[r].code]
    /\ nextId' = nextId + 1
    /\ request' = [request EXCEPT ![r] = Idle]
    /\ UNCHANGED <<grants, wanted, asked>>

\* update_permission with another code: likewise.
RenameCheck(r, p, c) ==
    /\ request[r] = Idle
    /\ code[p] # NULL
    /\ ~ Taken(c)
    /\ request' = [request EXCEPT ![r] = [at |-> "RENAMING", id |-> p, code |-> c]]
    /\ UNCHANGED <<code, nextId, grants, wanted, asked>>

\* The update of a row that is gone matches none, which fails the request.
RenameWrite(r) ==
    /\ request[r].at = "RENAMING"
    /\ code[request[r].id] # NULL
    /\ \A p \in Ids \ {request[r].id} : code[p] # request[r].code
    /\ code' = [code EXCEPT ![request[r].id] = request[r].code]
    /\ request' = [request EXCEPT ![r] = Idle]
    /\ UNCHANGED <<nextId, grants, wanted, asked>>

\* delete_permission: the grants of the permission go with it.
DeletePermission(p) ==
    /\ code[p] # NULL
    /\ code' = [code EXCEPT ![p] = NULL]
    /\ grants' = [q \in Roles |-> grants[q] \ {p}]
    /\ UNCHANGED <<nextId, request, wanted, asked>>

-----------------------------------------------------------------------------
(***************************************************************************)
(* Grants                                                                  *)
(***************************************************************************)

\* set_role_permissions: all ids must exist; what is granted now is deleted.
SetDelete(r, q, ids) ==
    /\ request[r] = Idle
    /\ ids \subseteq Existing
    /\ request' = [request EXCEPT ![r] = Setting(q, ids, grants[q], FALSE)]
    /\ UNCHANGED <<code, nextId, grants, wanted, asked>>

\* What the commit of req means to other, an open request: the rows both were
\* deleting are gone, those req has inserted are not among them.
After(req, other) ==
    IF other.at = "SETTING" /\ other.role = req.role
    THEN Setting(other.role, other.ids, other.deleting \ req.deleting, TRUE)
    ELSE other

\* Mutation: what was granted is not deleted.
AddedTo(now, deleting, ids) == now \cup ids

\* What stays of the grants there are now, and what is added.
Granted(now, deleting, ids) == (now \ deleting) \cup ids

\* The ids are inserted: the foreign key wants them to exist still, the primary
\* key refuses a grant that another request has inserted meanwhile.
SetInsert(r) ==
    LET mine == request[r] IN
    /\ mine.at = "SETTING"
    /\ mine.ids \subseteq Existing
    /\ (grants[mine.role] \ mine.deleting) \cap mine.ids = {}
    /\ grants' = [grants EXCEPT ![mine.role] = Granted(@, mine.deleting, mine.ids)]
    /\ wanted' = [wanted EXCEPT ![mine.role] = mine.ids]
    /\ asked' = [asked EXCEPT ![mine.role] =
                    IF mine.overtaken THEN @ \cup mine.ids ELSE mine.ids]
    /\ request' = [s \in Requests |->
                    IF s = r THEN Idle ELSE After(mine, request[s])]
    /\ UNCHANGED <<code, nextId>>

Fail(r) ==
    /\ request[r] # Idle
    /\ request' = [request EXCEPT ![r] = Idle]
    /\ UNCHANGED <<code, nextId, grants, wanted, asked>>

Next ==
    \/ \E r \in Requests :
         \/ \E c \in Codes : CreateCheck(r, c)
         \/ \E p \in Ids, c \in Codes : RenameCheck(r, p, c)
         \/ \E q \in Roles, ids \in SUBSET Ids : SetDelete(r, q, ids)
         \/ CreateInsert(r) \/ RenameWrite(r) \/ SetInsert(r) \/ Fail(r)
    \/ \E p \in Ids : DeletePermission(p)

Spec == Init /\ [][Next]_vars

-----------------------------------------------------------------------------
(***************************************************************************)
(* What the service answers.                                               *)
(***************************************************************************)

\* get_matrix and list_roles: the codes a role is shown to hold.
Shown(q) == {code[p] : p \in Existing \cap grants[q]}

\* get_my_permission_codes, from the roles of a user: user_permissions_view
\* joins the grants with the permissions.
MyPermissionCodes(roles) == UNION {Shown(q) : q \in roles}

-----------------------------------------------------------------------------
(***************************************************************************)
(* Properties.                                                             *)
(***************************************************************************)

CodesOf(ids) == {code[p] : p \in Existing \cap ids}

\* The users of some roles hold all that the last set_role_permissions of each has
\* asked for, as far as it has not been deleted, under the codes these permissions
\* have now: neither renames, nor a code that is deleted and created again, nor
\* requests that come to nothing change that.  They hold no more, except what was
\* asked for by the replacements of the same role that overlapped with it: two that
\* overlap delete what both saw, and leave the union of what they insert.
RoleHoldsWhatWasSet ==
    \A roles \in SUBSET Roles :
        /\ CodesOf(UNION {wanted[q] : q \in roles}) \subseteq MyPermissionCodes(roles)
        /\ MyPermissionCodes(roles) \subseteq CodesOf(UNION {asked[q] : q \in roles})
=============================================================================
