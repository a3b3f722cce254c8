------------------------------- MODULE Accounts -------------------------------
(***************************************************************************)
(* One user's account: its status, first password, active role and         *)
(* assigned roles (app/services/user_service.py, rbac_service.py,          *)
(* set_password_first_login of auth_service.py), and the copies of the row *)
(* that get_current_user (app/dependencies.py) keeps in the memory of each *)
(* instance to authenticate reads.                                         *)
(*                                                                         *)
(* Requests that read before they write are two actions, since others may  *)
(* commit in between; a write touches the columns the request has changed  *)
(* from what it loaded.  A request that fails is rolled back.              *)
(*                                                                         *)
(* RoleIds are the ids of the rows of roles.  PENDING and AWAITING_REVIEW  *)
(* are treated as VERIFIED is.  All roles exist: delete_role refuses every *)
(* role there can be.                                                      *)
(***************************************************************************)
EXTENDS OpenRequests, Naturals, FiniteSets

CONSTANTS Instances,   \* running instances of the service
          RoleIds,     \* roles.id of the five roles, or some of them
          OwnerRole,   \* the one of OWNER
          CacheTtl     \* AUTH_USER_CACHE_TTL_SECONDS, in ticks

ASSUME AccountConstants ==
    /\ RoleIds \subseteq Nat
    /\ OwnerRole \in RoleIds
    /\ CacheTtl \in Nat \ {0}
    /\ NULL \notin Requests

VARIABLES
    user,       \* the row of users
    heldRoles,  \* user_roles: the roles assigned
    cache,      \* _auth_user_cache of each instance: the entry of the user
    raced       \* history: the active role was last written on a stale read

accountVars == <<user, heldRoles, cache, request, raced>>

UserRow == [status: {"VERIFIED", "SUSPENDED"}, must_reset_password: BOOLEAN,
            onboarding_status: {"CREATED", "ENROLLED"}, active_role: RoleIds]

\* An entry with the time left.  loader is the request whose session loaded the
\* object and is still open: its rollback would expire the object.
CacheEntry == [row: UserRow, ttl: 1..CacheTtl, loader: Requests \cup {NULL}]

AccountRequest ==
         [at: {"IDLE"}]
    \cup [at: {"LOADED"}, instance: Instances, row: UserRow]
    \cup [at: {"READING"}, instance: Instances]
    \cup [at: {"SWITCHING"}, role: RoleIds, overtaken: BOOLEAN]
    \cup [at: {"ASSIGNING"}, roles: SUBSET RoleIds, deleting: SUBSET RoleIds,
          loaded: RoleIds, overtaken: BOOLEAN]

AccountTypeOK ==
    /\ user \in UserRow
    /\ heldRoles \subseteq RoleIds
    /\ cache \in [Instances -> {NULL} \cup CacheEntry]
    /\ request \in [Requests -> AccountRequest]
    /\ raced \in BOOLEAN

\* "first by id"
First(roles) == CHOOSE q \in roles : \A p \in roles : q <= p

-----------------------------------------------------------------------------
(***************************************************************************)
(* How accounts come to be.                                                *)
(***************************************************************************)

\* invite_owner
InvitedOwner ==
    /\ user = [status |-> "VERIFIED", must_reset_password |-> TRUE,
               onboarding_status |-> "CREATED", active_role |-> OwnerRole]
    /\ heldRoles = {OwnerRole}

\* create_user: a password that was not given is made up and must be reset.
CreatedByAdmin ==
    /\ user \in [status: {"VERIFIED", "SUSPENDED"}, must_reset_password: BOOLEAN,
                 onboarding_status: {"ENROLLED"}, active_role: RoleIds]
    /\ heldRoles \in SUBSET RoleIds
    /\ user.active_role \in heldRoles

\* register, and verify_otp of an unknown phone
SignedUp ==
    /\ user \in [status: {"VERIFIED"}, must_reset_password: {FALSE},
                 onboarding_status: {"ENROLLED"}, active_role: RoleIds]
    /\ heldRoles = {user.active_role}

AccountInit ==
    /\ InvitedOwner \/ CreatedByAdmin \/ SignedUp
    /\ cache = [i \in Instances |-> NULL]
    /\ request = [r \in Requests |-> Idle]
    /\ raced = FALSE

-----------------------------------------------------------------------------
(***************************************************************************)
(* get_current_user                                                        *)
(***************************************************************************)

\* Who passes: every path but set-password-first-login and logout.
Admits(row) == row.status # "SUSPENDED" /\ ~ row.must_reset_password

\* _write_cached_user: the expiry starts anew, whatever the row's age.
Put(i, row, loader) ==
    cache' = [cache EXCEPT ![i] = [row |-> row, ttl |-> CacheTtl, loader |-> loader]]

\* A read that finds an entry is authenticated by it, and renews it.
ReadCached(r, i) ==
    /\ request[r] = Idle
    /\ cache[i] # NULL
    /\ Admits(cache[i].row)
    /\ Put(i, cache[i].row, cache[i].loader)
    /\ request' = [request EXCEPT ![r] = [at |-> "READING", instance |-> i]]
    /\ UNCHANGED <<user, heldRoles, raced>>

\* Mutation: nobody looks at the row before it is cached.
ReadAdmitAnyone(r) ==
    /\ request[r].at = "LOADED"
    /\ Put(request[r].instance, request[r].row, r)
    /\ request' = [request EXCEPT ![r] = [at |-> "READING", instance |-> @.instance]]
    /\ UNCHANGED <<user, heldRoles, raced>>

\* A read that finds none loads the row; by the time the row is there it may
\* have changed in the database.
ReadLoad(r, i) ==
    /\ request[r] = Idle
    /\ cache[i] = NULL
    /\ request' = [request EXCEPT ![r] =
                    [at |-> "LOADED", instance |-> i, row |-> user]]
    /\ UNCHANGED <<user, heldRoles, cache, raced>>

ReadAdmit(r) ==
    /\ request[r].at = "LOADED"
    /\ Admits(request[r].row)
    /\ Put(request[r].instance, request[r].row, r)
    /\ request' = [request EXCEPT ![r] = [at |-> "READING", instance |-> @.instance]]
    /\ UNCHANGED <<user, heldRoles, raced>>

\* The handler succeeds: its session is closed, the object detached.
ReadDone(r) ==
    /\ request[r].at = "READING"
    /\ request' = [request EXCEPT ![r] = Idle]
    /\ cache' = [i \in Instances |->
                    IF cache[i] # NULL /\ cache[i].loader = r
                    THEN [cache[i] EXCEPT !.loader = NULL] ELSE cache[i]]
    /\ UNCHANGED <<user, heldRoles, raced>>

\* It is refused or fails: a rollback expires the object it has loaded, and
\* _user_cached_attrs_intact sees to it that nobody uses it.
ReadFailed(r) ==
    /\ request[r].at \in {"LOADED", "READING"}
    /\ request' = [request EXCEPT ![r] = Idle]
    /\ cache' = [i \in Instances |->
                    IF cache[i] # NULL /\ cache[i].loader = r THEN NULL ELSE cache[i]]
    /\ UNCHANGED <<user, heldRoles, raced>>

-----------------------------------------------------------------------------
(***************************************************************************)
(* Writes.  The user is always loaded from the database.                   *)
(***************************************************************************)

\* What a commit of roles or of the active role means to other open requests.
Overtake(req) == IF req.at \in {"SWITCHING", "ASSIGNING"}
                 THEN [req EXCEPT !.overtaken = TRUE] ELSE req

\* Mutation: any role will do.
SwitchReadUnassigned(r, q) ==
    /\ request[r] = Idle
    /\ Admits(user)
    /\ q # user.active_role
    /\ request' = [request EXCEPT ![r] =
                    [at |-> "SWITCHING", role |-> q, overtaken |-> FALSE]]
    /\ UNCHANGED <<user, heldRoles, cache, raced>>

\* switch_role: the role has to be one of those assigned ...
SwitchRead(r, q) ==
    /\ request[r] = Idle
    /\ Admits(user)
    /\ q \in heldRoles \ {user.active_role}
    /\ request' = [request EXCEPT ![r] =
                    [at |-> "SWITCHING", role |-> q, overtaken |-> FALSE]]
    /\ UNCHANGED <<user, heldRoles, cache, raced>>

\* ... when the request looked.
SwitchCommit(r) ==
    /\ request[r].at = "SWITCHING"
    /\ user' = [user EXCEPT !.active_role = request[r].role]
    /\ raced' = request[r].overtaken
    /\ request' = [q \in Requests |->
                    IF q = r THEN Idle ELSE Overtake(request[q])]
    /\ UNCHANGED <<heldRoles, cache>>

\* set_user_roles, by a super-admin: load the user, delete the assignments
\* there are, insert the new ones.
AssignRead(r, roles) ==
    /\ request[r] = Idle
    /\ roles # {}
    /\ request' = [request EXCEPT ![r] =
                    [at |-> "ASSIGNING", roles |-> roles, deleting |-> heldRoles,
                     loaded |-> user.active_role, overtaken |-> FALSE]]
    /\ UNCHANGED <<user, heldRoles, cache, raced>>

\* The active role that goes with the new roles.
ActiveAmong(roles, loaded, now) == IF loaded \in roles THEN now ELSE First(roles)

\* Mutation: all assignments are deleted, those that were not there are inserted.
AssignCommitNewOnly(r) ==
    LET mine == request[r] IN
    /\ mine.at = "ASSIGNING"
    /\ (heldRoles \ mine.deleting) \cap mine.roles = {}
    /\ heldRoles' = (heldRoles \ mine.deleting) \cup (mine.roles \ mine.deleting)
    /\ user' = [user EXCEPT !.active_role =
                    ActiveAmong(mine.roles, mine.loaded, user.active_role)]
    /\ raced' = mine.overtaken
    /\ request' = [request EXCEPT ![r] = Idle]
    /\ UNCHANGED cache

\* Two that overlap: each deletes what it saw, and neither sees what the other
\* inserts; the same assignment twice is refused by the primary key.
AssignCommit(r) ==
    LET mine == request[r] IN
    /\ mine.at = "ASSIGNING"
    /\ (heldRoles \ mine.deleting) \cap mine.roles = {}
    /\ heldRoles' = (heldRoles \ mine.deleting) \cup mine.roles
    /\ user' = [user EXCEPT !.active_role =
                    ActiveAmong(mine.roles, mine.loaded, user.active_role)]
    /\ raced' = mine.overtaken
    /\ request' = [q \in Requests |->
                    IF q = r THEN Idle
                    ELSE IF request[q].at = "ASSIGNING"
                    THEN [Overtake(request[q]) EXCEPT !.deleting = @ \ mine.deleting]
                    ELSE Overtake(request[q])]
    /\ UNCHANGED cache

WriteFailed(r) ==
    /\ request[r].at \in {"SWITCHING", "ASSIGNING"}
    /\ request' = [request EXCEPT ![r] = Idle]
    /\ UNCHANGED <<user, heldRoles, cache, raced>>

\* update_status
UpdateStatus(status) ==
    /\ user' = [user EXCEPT !.status = status]
    /\ UNCHANGED <<heldRoles, cache, request, raced>>

\* set_password_first_login
SetFirstPassword ==
    /\ user.status # "SUSPENDED"
    /\ user.must_reset_password
    /\ user' = [user EXCEPT !.must_reset_password = FALSE,
                    !.onboarding_status =
                        IF user.active_role = OwnerRole THEN "ENROLLED" ELSE @]
    /\ UNCHANGED <<heldRoles, cache, request, raced>>

-----------------------------------------------------------------------------
\* Mutation: an entry that has no time left is kept.
TickNotDropping ==
    /\ cache' = [i \in Instances |->
                    IF cache[i] = NULL \/ cache[i].ttl = 1 THEN cache[i]
                    ELSE [cache[i] EXCEPT !.ttl = @ - 1]]
    /\ UNCHANGED <<user, heldRoles, request, raced>>

Tick ==
    /\ cache' = [i \in Instances |->
                    IF cache[i] = NULL \/ cache[i].ttl = 1 THEN NULL
                    ELSE [cache[i] EXCEPT !.ttl = @ - 1]]
    /\ UNCHANGED <<user, heldRoles, request, raced>>

\* An instance is stopped or replaced: its memory is lost.
Restart(i) ==
    /\ cache' = [cache EXCEPT ![i] = NULL]
    /\ request' = [r \in Requests |->
                    IF request[r].at \in {"LOADED", "READING"} /\ request[r].instance = i
                    THEN Idle ELSE request[r]]
    /\ UNCHANGED <<user, heldRoles, raced>>

AccountNext ==
    \/ \E r \in Requests :
         \/ \E i \in Instances : ReadCached(r, i) \/ ReadLoad(r, i)
         \/ ReadAdmit(r) \/ ReadDone(r) \/ ReadFailed(r)
         \/ \E q \in RoleIds : SwitchRead(r, q)
         \/ SwitchCommit(r)
         \/ \E roles \in SUBSET RoleIds : AssignRead(r, roles)
         \/ AssignCommit(r) \/ WriteFailed(r)
    \/ \E status \in {"VERIFIED", "SUSPENDED"} : UpdateStatus(status)
    \/ SetFirstPassword
    \/ Tick
    \/ \E i \in Instances : Restart(i)

\* The monotonic clock advances; nobody has to send a request or to answer it.
AccountSpec == AccountInit /\ [][AccountNext]_accountVars /\ WF_accountVars(Tick)

-----------------------------------------------------------------------------
(***************************************************************************)
(* Properties.                                                             *)
(***************************************************************************)

\* The active role is one that is assigned, unless it was last written by a
\* request that another one overtook: switch_role and set_user_roles both read
\* one of the two tables and write the other ("The new role must be assigned in
\* user_roles").  The next request of either kind that is not overtaken mends it.
ActiveRoleHeld == user.active_role \in heldRoles \/ raced

\* At least one role stays assigned, although set_user_roles deletes them all
\* first and two may overlap ("At least one role must be assigned").
SomeRoleHeld == heldRoles # {}

\* The instances that answer reads of the user, or are about to: they hold an
\* entry, or a request there has loaded a row that passes.
Serving ==
    {i \in Instances : cache[i] # NULL}
    \cup {request[r].instance : r \in {q \in Requests : request[q].at = "LOADED"
                                                     /\ Admits(request[q].row)}}

\* While a user is suspended no instance takes up answering reads of the user: an
\* entry is renewed where it is but never spreads, and a row loaded after the
\* suspension is refused (get_current_user).  An instance that answers already may
\* go on: see SuspensionTakesEffect.
SuspendedNotTakenUp ==
    [][user.status = "SUSPENDED" => Serving' \subseteq Serving]_accountVars

\* A user who stays suspended is forgotten by every instance for good, unless reads
\* of the user found an entry there again and again: only reads that never pause
\* for AUTH_USER_CACHE_TTL_SECONDS keep a suspended user served, and they do so for
\* ever (_write_cached_user renews the expiry on each hit).
SuspensionTakesEffect ==
    \A i \in Instances :
        <>[](user.status = "SUSPENDED")
        => \/ <>[](cache[i] = NULL)
           \/ []<><<\E r \in Requests : ReadCached(r, i)>>_accountVars
=============================================================================
