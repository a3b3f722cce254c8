------------------------------ MODULE RolesProofs ------------------------------
(***************************************************************************)
(* Proofs about roles: what they permit (Permissions) and who holds them   *)
(* (Accounts), for any roles, codes, instances and number of overlapping   *)
(* requests.  The two modules are separate systems: a theorem is about the *)
(* one whose specification it names.                                       *)
(***************************************************************************)
EXTENDS Permissions, Accounts, WellFoundedInduction, TLAPS

USE DEF Idle, Ids

-----------------------------------------------------------------------------
(***************************************************************************)
(* Types.                                                                  *)
(***************************************************************************)
TablesTyped ==
    /\ code \in [Ids -> Codes \cup {NULL}]
    /\ nextId \in 1 .. (MaxId + 1)
    /\ grants \in [Roles -> SUBSET Ids]
    /\ wanted \in [Roles -> SUBSET Ids]
    /\ asked \in [Roles -> SUBSET Ids]

RequestTyped == request \in [Requests -> RequestState]

LEMMA TypeParts == TypeOK <=> TablesTyped /\ RequestTyped
BY DEF TypeOK, TablesTyped, RequestTyped

LEMMA CreatingFields ==
    ASSUME RequestTyped, NEW r \in Requests, request[r].at = "CREATING"
    PROVE  request[r].code \in Codes
BY DEF RequestTyped, RequestState

LEMMA RenamingFields ==
    ASSUME RequestTyped, NEW r \in Requests, request[r].at = "RENAMING"
    PROVE  request[r].id \in Ids /\ request[r].code \in Codes
BY DEF RequestTyped, RequestState

LEMMA SettingFields ==
    ASSUME RequestTyped, NEW r \in Requests, request[r].at = "SETTING"
    PROVE  /\ request[r].role \in Roles
           /\ request[r].ids \subseteq Ids
           /\ request[r].deleting \subseteq Ids
           /\ request[r].overtaken \in BOOLEAN
BY DEF RequestTyped, RequestState

LEMMA SettingTyped ==
    ASSUME NEW q \in Roles, NEW ids \in SUBSET Ids, NEW deleting \in SUBSET Ids,
           NEW overtaken \in BOOLEAN
    PROVE  LET new == Setting(q, ids, deleting, overtaken) IN
           /\ new \in RequestState
           /\ new.at = "SETTING" /\ new.role = q /\ new.ids = ids
           /\ new.deleting = deleting /\ new.overtaken = overtaken
BY DEF Setting, RequestState

\* What a commit of req leaves of another request.
LEMMA AfterFields ==
    ASSUME RequestTyped, NEW r \in Requests, NEW s \in Requests,
           request[r].at = "SETTING"
    PROVE  LET new == After(request[r], request[s]) IN
           /\ new \in RequestState
           /\ new.at = request[s].at
           /\ \/ new = request[s] /\ (new.at = "SETTING" => new.role # request[r].role)
              \/ new.at = "SETTING" /\ new.overtaken = TRUE
<1>1. CASE request[s].at = "SETTING" /\ request[s].role = request[r].role
  <2>1. /\ request[s].role \in Roles /\ request[s].ids \in SUBSET Ids
        /\ request[s].deleting \ request[r].deleting \in SUBSET Ids
    BY <1>1, SettingFields
  <2>2. After(request[r], request[s]) =
            Setting(request[s].role, request[s].ids,
                    request[s].deleting \ request[r].deleting, TRUE)
    BY <1>1 DEF After
  <2>3. QED
    BY <1>1, <2>1, <2>2 DEF Setting, RequestState
<1>2. CASE ~ (request[s].at = "SETTING" /\ request[s].role = request[r].role)
  BY <1>2 DEF After, RequestTyped
<1>3. QED
  BY <1>1, <1>2

LEMMA InitType == Init => TypeOK
BY DEF Init, TypeOK, RequestState, Existing

LEMMA NextRequest == TypeOK /\ [Next]_vars => RequestTyped'
<1> SUFFICES ASSUME TypeOK, [Next]_vars PROVE RequestTyped'
  OBVIOUS
<1>0. RequestTyped /\ TablesTyped
  BY TypeParts
<1>1. ASSUME NEW r \in Requests, NEW c \in Codes, CreateCheck(r, c) PROVE RequestTyped'
  <2>1. [at |-> "CREATING", code |-> c] \in RequestState
    BY DEF RequestState
  <2>2. QED
    BY <1>0, <1>1, <2>1 DEF CreateCheck, RequestTyped
<1>2. ASSUME NEW r \in Requests, NEW p \in Ids, NEW c \in Codes, RenameCheck(r, p, c)
      PROVE  RequestTyped'
  <2>1. [at |-> "RENAMING", id |-> p, code |-> c] \in RequestState
    BY DEF RequestState
  <2>2. QED
    BY <1>0, <1>2, <2>1 DEF RenameCheck, RequestTyped
<1>3. ASSUME NEW r \in Requests, NEW q \in Roles, NEW ids \in SUBSET Ids, SetDelete(r, q, ids)
      PROVE  RequestTyped'
  <2>1. Setting(q, ids, grants[q], FALSE) \in RequestState
    BY <1>0, SettingTyped DEF TablesTyped
  <2>2. QED
    BY <1>0, <1>3, <2>1 DEF SetDelete, RequestTyped
<1>4. ASSUME NEW r \in Requests, request' = [request EXCEPT ![r] = Idle] PROVE RequestTyped'
  BY <1>0, <1>4 DEF RequestTyped, RequestState
<1>5. ASSUME NEW r \in Requests, SetInsert(r) PROVE RequestTyped'
  <2>1. request[r].at = "SETTING"
        /\ request' = [s \in Requests |-> IF s = r THEN Idle ELSE After(request[r], request[s])]
    BY <1>5 DEF SetInsert
  <2>2. Idle \in RequestState
    BY DEF RequestState
  <2>3. \A s \in Requests : After(request[r], request[s]) \in RequestState
    BY <1>0, <2>1, AfterFields
  <2>4. QED
    BY <2>1, <2>2, <2>3 DEF RequestTyped
<1>6. ASSUME UNCHANGED request PROVE RequestTyped'
  BY <1>0, <1>6 DEF RequestTyped
<1>7. QED
  BY <1>1, <1>2, <1>3, <1>4, <1>5, <1>6
     DEF Next, vars, CreateInsert, RenameWrite, Fail, DeletePermission

LEMMA NextTables == TypeOK /\ [Next]_vars => TablesTyped'
<1> SUFFICES ASSUME TypeOK, [Next]_vars PROVE TablesTyped'
  OBVIOUS
<1>0. RequestTyped /\ TablesTyped
  BY TypeParts
<1>1. ASSUME NEW r \in Requests, CreateInsert(r) PROVE TablesTyped'
  <2>1. request[r].code \in Codes
    BY <1>0, <1>1, CreatingFields DEF CreateInsert
  <2>2. nextId + 1 \in 1 .. (MaxId + 1)
    BY <1>1, PermissionConstants DEF CreateInsert
  <2>3. QED
    BY <1>0, <1>1, <2>1, <2>2 DEF CreateInsert, TablesTyped
<1>2. ASSUME NEW r \in Requests, RenameWrite(r) PROVE TablesTyped'
  <2>1. request[r].id \in Ids /\ request[r].code \in Codes
    BY <1>0, <1>2, RenamingFields DEF RenameWrite
  <2>2. QED
    BY <1>0, <1>2, <2>1 DEF RenameWrite, TablesTyped
<1>3. ASSUME NEW p \in Ids, DeletePermission(p) PROVE TablesTyped'
  BY <1>0, <1>3 DEF DeletePermission, TablesTyped
<1>4. ASSUME NEW r \in Requests, SetInsert(r) PROVE TablesTyped'
  <2> DEFINE mine == request[r]
  <2>1. mine.role \in Roles /\ mine.ids \subseteq Ids /\ mine.overtaken \in BOOLEAN
    BY <1>0, <1>4, SettingFields DEF SetInsert
  <2>2. grants' = [grants EXCEPT ![mine.role] = Granted(grants[mine.role], mine.deleting, mine.ids)]
        /\ wanted' = [wanted EXCEPT ![mine.role] = mine.ids]
        /\ asked' = [asked EXCEPT ![mine.role] =
                        IF mine.overtaken THEN asked[mine.role] \cup mine.ids ELSE mine.ids]
        /\ UNCHANGED <<code, nextId>>
    BY <1>4 DEF SetInsert
  <2>3. Granted(grants[mine.role], mine.deleting, mine.ids) \in SUBSET Ids
    BY <1>0, <2>1 DEF Granted, TablesTyped
  <2> HIDE DEF mine
  <2>4. QED
    BY <1>0, <2>1, <2>2, <2>3 DEF TablesTyped
<1>5. ASSUME UNCHANGED <<code, nextId, grants, wanted, asked>> PROVE TablesTyped'
  BY <1>0, <1>5 DEF TablesTyped
<1>6. QED
  BY <1>1, <1>2, <1>3, <1>4, <1>5
     DEF Next, vars, CreateCheck, RenameCheck, SetDelete, Fail

\* Tables, requests and history are what they are said to be.
THEOREM TypeCorrect == Spec => []TypeOK
<1>1. TypeOK' <=> TablesTyped' /\ RequestTyped'
  BY DEF TypeOK, TablesTyped, RequestTyped
<1>2. TypeOK /\ [Next]_vars => TypeOK'
  BY <1>1, NextRequest, NextTables
<1>3. QED
  BY InitType, <1>2, PTL DEF Spec

-----------------------------------------------------------------------------
(***************************************************************************)
(* Grants.  An id that is not given yet is wanted by nobody, so that a new *)
(* permission is never missing from what an old request meant; what a      *)
(* request that nobody has overtaken is deleting is all there is.          *)
(***************************************************************************)
FreshIds ==
    \A p \in Ids : p >= nextId => code[p] = NULL /\ \A q \in Roles : p \notin wanted[q]

GrantsExist == \A q \in Roles : grants[q] \subseteq Existing

WantedIsGranted == \A q \in Roles : Existing \cap wanted[q] \subseteq grants[q]

GrantedWasAsked == \A q \in Roles : grants[q] \subseteq asked[q]

DeletesAll ==
    \A r \in Requests :
        request[r].at = "SETTING" /\ ~ request[r].overtaken
            => grants[request[r].role] \subseteq request[r].deleting

GrantsInv ==
    FreshIds /\ GrantsExist /\ WantedIsGranted /\ GrantedWasAsked /\ DeletesAll

\* With fewer grants, and other rows as they were, whoever deleted all still does.
LEMMA DeletesAllKept ==
    ASSUME TypeOK, DeletesAll, \A q \in Roles : grants'[q] \subseteq grants[q],
           \A r \in Requests : request'[r].at = "SETTING" => request'[r] = request[r]
    PROVE  DeletesAll'
BY TypeParts, SettingFields DEF DeletesAll

LEMMA InitGrants == Init => GrantsInv
<1> SUFFICES ASSUME Init PROVE GrantsInv
  OBVIOUS
<1>1. FreshIds
  BY PermissionConstants DEF Init, FreshIds, Existing
<1>2. GrantsExist /\ WantedIsGranted /\ GrantedWasAsked
  BY DEF Init, GrantsExist, WantedIsGranted, GrantedWasAsked
<1>3. DeletesAll
  BY DEF Init, DeletesAll
<1>4. QED
  BY <1>1, <1>2, <1>3 DEF GrantsInv

\* The commit of a replacement.
LEMMA InsertGrants ==
    ASSUME TypeOK, TypeOK', GrantsInv, NEW r \in Requests, SetInsert(r)
    PROVE  GrantsInv'
<1> DEFINE q == request[r].role
           ids == request[r].ids
           deleting == request[r].deleting
<1>0. RequestTyped /\ TablesTyped
  BY TypeParts
<1>1. /\ request[r].at = "SETTING" /\ ids \subseteq Existing
      /\ grants' = [grants EXCEPT ![q] = (grants[q] \ deleting) \cup ids]
      /\ wanted' = [wanted EXCEPT ![q] = ids]
      /\ asked' = [asked EXCEPT ![q] =
                        IF request[r].overtaken THEN asked[q] \cup ids ELSE ids]
      /\ code' = code /\ nextId' = nextId
  BY DEF SetInsert, Granted
<1>2. request' = [s \in Requests |-> IF s = r THEN Idle ELSE After(request[r], request[s])]
  BY DEF SetInsert
<1>3. q \in Roles
  BY <1>0, <1>1, SettingFields
<1>4. ~ request[r].overtaken => grants[q] \subseteq deleting
  BY <1>1 DEF GrantsInv, DeletesAll
<1> HIDE DEF q, ids, deleting
<1>5. Existing' = Existing
  BY <1>1 DEF Existing
<1>6. /\ grants'[q] = (grants[q] \ deleting) \cup ids
      /\ wanted'[q] = ids
      /\ asked'[q] = IF request[r].overtaken THEN asked[q] \cup ids ELSE ids
      /\ \A s \in Roles \ {q} : /\ grants'[s] = grants[s]
                                /\ wanted'[s] = wanted[s]
                                /\ asked'[s] = asked[s]
  BY <1>0, <1>1, <1>3 DEF TablesTyped
<1>7. FreshIds'
  <2> SUFFICES ASSUME NEW p \in Ids, p >= nextId, NEW s \in Roles
               PROVE  code'[p] = NULL /\ p \notin wanted'[s]
    BY <1>1, <1>3 DEF FreshIds
  <2>1. code[p] = NULL /\ p \notin wanted[s]
    BY DEF GrantsInv, FreshIds
  <2>2. p \notin ids
    BY <1>1, <2>1 DEF Existing
  <2>3. QED
    BY <1>1, <1>6, <2>1, <2>2
<1>8. GrantsExist'
  BY <1>1, <1>5, <1>6 DEF GrantsInv, GrantsExist
<1>9. WantedIsGranted' /\ GrantedWasAsked'
  <2> SUFFICES ASSUME NEW s \in Roles
               PROVE  Existing \cap wanted'[s] \subseteq grants'[s] /\ grants'[s] \subseteq asked'[s]
    BY <1>5 DEF WantedIsGranted, GrantedWasAsked
  <2>1. grants[s] \subseteq asked[s] /\ Existing \cap wanted[s] \subseteq grants[s]
    BY DEF GrantsInv, WantedIsGranted, GrantedWasAsked
  <2>2. CASE s = q
    BY <1>4, <1>6, <2>1, <2>2
  <2>3. CASE s # q
    BY <1>6, <2>1, <2>3
  <2>4. QED
    BY <2>2, <2>3
<1>10. DeletesAll'
  <2> SUFFICES ASSUME NEW s \in Requests, request'[s].at = "SETTING", ~ request'[s].overtaken
               PROVE  grants'[request'[s].role] \subseteq request'[s].deleting
    BY DEF DeletesAll
  <2>1. s # r /\ request'[s] = After(request[r], request[s])
    BY <1>2
  <2>2. request'[s] = request[s] /\ request[s].role # request[r].role
    BY <1>0, <1>1, <2>1, AfterFields
  <2>3. request[s].role \in Roles /\ request[s].role # q
    BY <1>0, <2>2, SettingFields DEF q
  <2>4. QED
    BY <1>6, <2>2, <2>3 DEF GrantsInv, DeletesAll
<1>11. QED
  BY <1>7, <1>8, <1>9, <1>10 DEF GrantsInv

LEMMA NextGrants == TypeOK /\ TypeOK' /\ GrantsInv /\ [Next]_vars => GrantsInv'
<1> SUFFICES ASSUME TypeOK, TypeOK', GrantsInv, [Next]_vars PROVE GrantsInv'
  OBVIOUS
<1>0. RequestTyped /\ TablesTyped
  BY TypeParts
\* Requests that touch no table.
<1>1. ASSUME UNCHANGED <<code, nextId, grants, wanted, asked>>, DeletesAll'
      PROVE  GrantsInv'
  BY <1>1 DEF GrantsInv, FreshIds, GrantsExist, WantedIsGranted, GrantedWasAsked, Existing
<1>2. ASSUME UNCHANGED <<code, nextId, grants, wanted, asked>>,
             \A r \in Requests : request'[r].at = "SETTING" => request'[r] = request[r]
      PROVE  GrantsInv'
  BY <1>1, <1>2, DeletesAllKept DEF GrantsInv
<1>3. ASSUME NEW r \in Requests, NEW new, new.at # "SETTING",
             request' = [request EXCEPT ![r] = new]
      PROVE  \A s \in Requests : request'[s].at = "SETTING" => request'[s] = request[s]
  BY <1>0, <1>3 DEF RequestTyped
<1>4. ASSUME NEW r \in Requests, NEW c \in Codes, CreateCheck(r, c) PROVE GrantsInv'
  BY <1>2, <1>3, <1>4 DEF CreateCheck
<1>5. ASSUME NEW r \in Requests, NEW p \in Ids, NEW c \in Codes, RenameCheck(r, p, c)
      PROVE  GrantsInv'
  BY <1>2, <1>3, <1>5 DEF RenameCheck
<1>6. ASSUME NEW r \in Requests, Fail(r) PROVE GrantsInv'
  BY <1>2, <1>3, <1>6 DEF Fail
<1>7. ASSUME NEW r \in Requests, NEW q \in Roles, NEW ids \in SUBSET Ids, SetDelete(r, q, ids)
      PROVE  GrantsInv'
  <2>1. UNCHANGED <<code, nextId, grants, wanted, asked>>
        /\ request' = [request EXCEPT ![r] = Setting(q, ids, grants[q], FALSE)]
    BY <1>7 DEF SetDelete
  <2>2. grants[q] \in SUBSET Ids
    BY <1>0 DEF TablesTyped
  <2>3. ASSUME NEW s \in Requests, request'[s].at = "SETTING", ~ request'[s].overtaken
        PROVE  grants'[request'[s].role] \subseteq request'[s].deleting
    <3>1. CASE s = r
      <4>1. request'[s] = Setting(q, ids, grants[q], FALSE)
        BY <1>0, <2>1, <3>1 DEF RequestTyped
      <4>2. request'[s].role = q /\ request'[s].deleting = grants[q]
        BY <4>1 DEF Setting
      <4>3. QED
        BY <2>1, <4>2
    <3>2. CASE s # r
      BY <1>0, <2>1, <2>3, <3>2 DEF RequestTyped, GrantsInv, DeletesAll
    <3>3. QED
      BY <3>1, <3>2
  <2>4. QED
    BY <1>1, <2>1, <2>3 DEF DeletesAll
<1>8. ASSUME NEW r \in Requests, CreateInsert(r) PROVE GrantsInv'
  <2>1. /\ code' = [code EXCEPT ![nextId] = request[r].code]
        /\ nextId \in Ids /\ nextId' = nextId + 1
        /\ UNCHANGED <<grants, wanted, asked>>
    BY <1>8 DEF CreateInsert
  <2>2. request[r].code # NULL
    BY <1>0, <1>8, CreatingFields, PermissionConstants DEF CreateInsert
  <2>3. Existing' = Existing \cup {nextId}
    BY <1>0, <2>1, <2>2 DEF Existing, TablesTyped
  <2>4. \A q \in Roles : nextId \notin wanted[q]
    BY <2>1 DEF GrantsInv, FreshIds
  <2>5. FreshIds'
    BY <1>0, <2>1 DEF GrantsInv, FreshIds, TablesTyped
  <2>6. GrantsExist' /\ WantedIsGranted' /\ GrantedWasAsked'
    BY <2>1, <2>3, <2>4 DEF GrantsInv, GrantsExist, WantedIsGranted, GrantedWasAsked
  <2>7. DeletesAll'
    <3>1. request' = [request EXCEPT ![r] = Idle]
      BY <1>8 DEF CreateInsert
    <3>2. QED
      BY <1>3, <2>1, <3>1, DeletesAllKept DEF GrantsInv
  <2>8. QED
    BY <2>5, <2>6, <2>7 DEF GrantsInv
<1>9. ASSUME NEW r \in Requests, RenameWrite(r) PROVE GrantsInv'
  <2>1. /\ code' = [code EXCEPT ![request[r].id] = request[r].code]
        /\ code[request[r].id] # NULL
        /\ UNCHANGED <<nextId, grants, wanted, asked>>
    BY <1>9 DEF RenameWrite
  <2>2. request[r].id \in Ids /\ request[r].code # NULL
    BY <1>0, <1>9, RenamingFields, PermissionConstants DEF RenameWrite
  <2>3. Existing' = Existing
    BY <1>0, <2>1, <2>2 DEF Existing, TablesTyped
  <2>4. FreshIds'
    BY <1>0, <2>1, <2>2 DEF GrantsInv, FreshIds, TablesTyped
  <2>5. GrantsExist' /\ WantedIsGranted' /\ GrantedWasAsked'
    BY <2>1, <2>3 DEF GrantsInv, GrantsExist, WantedIsGranted, GrantedWasAsked
  <2>6. DeletesAll'
    <3>1. request' = [request EXCEPT ![r] = Idle]
      BY <1>9 DEF RenameWrite
    <3>2. QED
      BY <1>3, <2>1, <3>1, DeletesAllKept DEF GrantsInv
  <2>7. QED
    BY <2>4, <2>5, <2>6 DEF GrantsInv
<1>10. ASSUME NEW p \in Ids, DeletePermission(p) PROVE GrantsInv'
  <2>1. /\ code' = [code EXCEPT ![p] = NULL]
        /\ grants' = [q \in Roles |-> grants[q] \ {p}]
        /\ UNCHANGED <<nextId, request, wanted, asked>>
    BY <1>10 DEF DeletePermission
  <2>2. Existing' = Existing \ {p}
    BY <1>0, <2>1 DEF Existing, TablesTyped
  <2>3. FreshIds'
    BY <1>0, <2>1 DEF GrantsInv, FreshIds, TablesTyped
  <2>4. GrantsExist' /\ WantedIsGranted' /\ GrantedWasAsked'
    BY <2>1, <2>2 DEF GrantsInv, GrantsExist, WantedIsGranted, GrantedWasAsked
  <2>5. DeletesAll'
    BY <2>1, DeletesAllKept DEF GrantsInv
  <2>6. QED
    BY <2>3, <2>4, <2>5 DEF GrantsInv
<1>11. CASE UNCHANGED vars
  BY <1>2, <1>11 DEF vars
<1>12. QED
  BY <1>4, <1>5, <1>6, <1>7, <1>8, <1>9, <1>10, <1>11, InsertGrants DEF Next

LEMMA PermissionCodes ==
    ASSUME NEW roles \in SUBSET Roles, NEW c
    PROVE  c \in MyPermissionCodes(roles) <=>
                \E q \in roles : \E p \in Existing \cap grants[q] : c = code[p]
BY DEF MyPermissionCodes, Shown

\* Users hold what was last set for their roles, whatever is renamed, deleted and
\* created anew, and nothing but what replacements that overlapped asked for.
THEOREM GrantsCorrect == Spec => []RoleHoldsWhatWasSet
<1>1. GrantsInv => RoleHoldsWhatWasSet
  <2> SUFFICES ASSUME GrantsInv, NEW roles \in SUBSET Roles, NEW c
               PROVE  /\ c \in CodesOf(UNION {wanted[q] : q \in roles})
                            => c \in MyPermissionCodes(roles)
                      /\ c \in MyPermissionCodes(roles)
                            => c \in CodesOf(UNION {asked[q] : q \in roles})
    BY DEF RoleHoldsWhatWasSet
  <2>1. \A q \in roles : /\ Existing \cap wanted[q] \subseteq grants[q]
                         /\ grants[q] \subseteq asked[q]
    BY DEF GrantsInv, WantedIsGranted, GrantedWasAsked
  <2>2. c \in CodesOf(UNION {wanted[q] : q \in roles})
            => \E q \in roles : \E p \in Existing \cap wanted[q] : c = code[p]
    BY DEF CodesOf
  <2>3. (\E q \in roles : \E p \in Existing \cap asked[q] : c = code[p])
            => c \in CodesOf(UNION {asked[q] : q \in roles})
    BY DEF CodesOf
  <2>4. QED
    BY <2>1, <2>2, <2>3, PermissionCodes
<1>2. QED
  BY <1>1, TypeCorrect, InitGrants, NextGrants, PTL DEF Spec

-----------------------------------------------------------------------------
(***************************************************************************)
(* Accounts: types.                                                        *)
(***************************************************************************)
LEMMA FirstIsOne == ASSUME NEW roles \in SUBSET RoleIds, roles # {} PROVE First(roles) \in roles
<1> DEFINE less == OpToRel(<, Nat)
<1>1. roles \subseteq Nat
  BY AccountConstants
<1>2. PICK q \in roles : \A p \in roles : <<p, q>> \notin less
  <2> HIDE DEF less
  <2> QED BY <1>1, NatLessThanWellFounded, WFMin DEF less
<1>3. \A p \in roles : q <= p
  <2> SUFFICES ASSUME NEW p \in roles, ~ (q <= p) PROVE FALSE
    OBVIOUS
  <2>1. <<p, q>> \in Nat \X Nat /\ p < q
    BY <1>1
  <2>2. QED
    BY <1>2, <2>1 DEF OpToRel
<1>4. QED
  BY <1>3 DEF First

AccountTablesTyped ==
    /\ user \in UserRow
    /\ heldRoles \in SUBSET RoleIds
    /\ raced \in BOOLEAN

CacheTyped == cache \in [Instances -> {NULL} \cup CacheEntry]

OpenTyped == request \in [Requests -> AccountRequest]

LEMMA AccountParts == AccountTypeOK <=> AccountTablesTyped /\ CacheTyped /\ OpenTyped
BY DEF AccountTypeOK, AccountTablesTyped, CacheTyped, OpenTyped

LEMMA IdleOpen == Idle \in AccountRequest
BY DEF AccountRequest

LEMMA LoadedFields ==
    ASSUME OpenTyped, NEW r \in Requests, request[r].at = "LOADED"
    PROVE  request[r].instance \in Instances /\ request[r].row \in UserRow
BY DEF OpenTyped, AccountRequest

LEMMA SwitchingFields ==
    ASSUME OpenTyped, NEW r \in Requests, request[r].at = "SWITCHING"
    PROVE  request[r].role \in RoleIds /\ request[r].overtaken \in BOOLEAN
BY DEF OpenTyped, AccountRequest

LEMMA AssigningFields ==
    ASSUME OpenTyped, NEW r \in Requests, request[r].at = "ASSIGNING"
    PROVE  /\ request[r].roles \in SUBSET RoleIds
           /\ request[r].deleting \in SUBSET RoleIds
           /\ request[r].loaded \in RoleIds
           /\ request[r].overtaken \in BOOLEAN
BY DEF OpenTyped, AccountRequest

LEMMA SwitchingTyped ==
    ASSUME NEW q \in RoleIds, NEW late \in BOOLEAN
    PROVE  [at |-> "SWITCHING", role |-> q, overtaken |-> late] \in AccountRequest
BY DEF AccountRequest

LEMMA AssigningTyped ==
    ASSUME NEW roles \in SUBSET RoleIds, NEW deleting \in SUBSET RoleIds,
           NEW loaded \in RoleIds, NEW late \in BOOLEAN
    PROVE  [at |-> "ASSIGNING", roles |-> roles, deleting |-> deleting,
            loaded |-> loaded, overtaken |-> late] \in AccountRequest
BY DEF AccountRequest

\* What a commit of roles leaves of a request that was switching or assigning.
LEMMA OvertakeSwitching ==
    ASSUME OpenTyped, NEW s \in Requests, request[s].at = "SWITCHING"
    PROVE  /\ Overtake(request[s]) \in AccountRequest
           /\ Overtake(request[s]).at = "SWITCHING"
           /\ Overtake(request[s]).overtaken = TRUE
<1>1. request[s] = [at |-> "SWITCHING", role |-> request[s].role,
                    overtaken |-> request[s].overtaken]
  BY DEF OpenTyped, AccountRequest
<1>2. Overtake(request[s]) = [at |-> "SWITCHING", role |-> request[s].role,
                              overtaken |-> TRUE]
  BY <1>1 DEF Overtake
<1>3. QED
  BY <1>2, SwitchingFields DEF AccountRequest

LEMMA OvertakeAssigning ==
    ASSUME OpenTyped, NEW s \in Requests, request[s].at = "ASSIGNING",
           NEW gone \in SUBSET RoleIds
    PROVE  LET late == Overtake(request[s])
               less == [late EXCEPT !.deleting = @ \ gone] IN
           /\ late \in AccountRequest /\ less \in AccountRequest
           /\ late.at = "ASSIGNING" /\ less.at = "ASSIGNING"
           /\ late.roles = request[s].roles /\ less.roles = request[s].roles
           /\ late.overtaken = TRUE /\ less.overtaken = TRUE
<1>1. request[s] = [at |-> "ASSIGNING", roles |-> request[s].roles,
                    deleting |-> request[s].deleting, loaded |-> request[s].loaded,
                    overtaken |-> request[s].overtaken]
  BY DEF OpenTyped, AccountRequest
<1>2. Overtake(request[s]) =
        [at |-> "ASSIGNING", roles |-> request[s].roles,
         deleting |-> request[s].deleting, loaded |-> request[s].loaded,
         overtaken |-> TRUE]
  BY <1>1 DEF Overtake
<1>3. [Overtake(request[s]) EXCEPT !.deleting = @ \ gone] =
        [at |-> "ASSIGNING", roles |-> request[s].roles,
         deleting |-> request[s].deleting \ gone, loaded |-> request[s].loaded,
         overtaken |-> TRUE]
  <2> DEFINE late == Overtake(request[s])
             deleting == request[s].deleting
             left == deleting \ gone
  <2>1. late.deleting \ gone = left
    BY <1>2
  <2>2. [late EXCEPT !.deleting = late.deleting \ gone] = [late EXCEPT !.deleting = left]
    BY <2>1
  <2> HIDE DEF left
  <2>3. [late EXCEPT !.deleting = left] =
            [at |-> "ASSIGNING", roles |-> request[s].roles, deleting |-> left,
             loaded |-> request[s].loaded, overtaken |-> TRUE]
    <3>1. ASSUME NEW roles, NEW old, NEW loaded, NEW yes
          PROVE  [[at |-> "ASSIGNING", roles |-> roles, deleting |-> old,
                   loaded |-> loaded, overtaken |-> yes] EXCEPT !.deleting = left]
                 = [at |-> "ASSIGNING", roles |-> roles, deleting |-> left,
                    loaded |-> loaded, overtaken |-> yes]
      OBVIOUS
    <3>2. PICK yes : yes = TRUE
      OBVIOUS
    <3>3. late = [at |-> "ASSIGNING", roles |-> request[s].roles,
                  deleting |-> deleting, loaded |-> request[s].loaded,
                  overtaken |-> yes]
      BY <1>2, <3>2
    <3> HIDE DEF late, deleting
    <3>4. [late EXCEPT !.deleting = left] =
            [at |-> "ASSIGNING", roles |-> request[s].roles, deleting |-> left,
             loaded |-> request[s].loaded, overtaken |-> yes]
      BY <3>1, <3>3
    <3>5. QED
      BY <3>2, <3>4
  <2>4. QED
    BY <2>2, <2>3 DEF left
<1>4. request[s].deleting \ gone \in SUBSET RoleIds
  BY AssigningFields
<1>5. QED
  BY <1>2, <1>3, <1>4, AssigningFields DEF AccountRequest

LEMMA OvertakesAssigning ==
    ASSUME OpenTyped, NEW s \in Requests, request[s].at = "ASSIGNING"
    PROVE  Overtake(request[s]).at = "ASSIGNING"
BY OvertakeAssigning

LEMMA OvertakeOther ==
    ASSUME NEW req, req.at \notin {"SWITCHING", "ASSIGNING"} PROVE Overtake(req) = req
BY DEF Overtake

LEMMA PutTyped ==
    ASSUME CacheTyped, NEW i \in Instances, NEW row \in UserRow,
           NEW loader \in Requests \cup {NULL}, Put(i, row, loader)
    PROVE  CacheTyped'
<1>1. [row |-> row, ttl |-> CacheTtl, loader |-> loader] \in CacheEntry
  BY AccountConstants DEF CacheEntry
<1>2. QED
  BY <1>1 DEF Put, CacheTyped

LEMMA EntryTyped ==
    ASSUME CacheTyped, NEW i \in Instances, cache[i] # NULL
    PROVE  /\ cache[i].row \in UserRow
           /\ cache[i].ttl \in 1 .. CacheTtl
           /\ cache[i].loader \in Requests \cup {NULL}
           /\ cache[i] = [row |-> cache[i].row, ttl |-> cache[i].ttl, loader |-> cache[i].loader]
BY DEF CacheTyped, CacheEntry

LEMMA AccountInitType == AccountInit => AccountTypeOK
<1> SUFFICES ASSUME AccountInit PROVE AccountTypeOK
  OBVIOUS
<1>1. CASE InvitedOwner
  BY <1>1, AccountConstants, IdleOpen
     DEF AccountInit, InvitedOwner, UserRow, AccountTypeOK
<1>2. CASE CreatedByAdmin
  BY <1>2, IdleOpen DEF AccountInit, CreatedByAdmin, UserRow, AccountTypeOK
<1>3. CASE SignedUp
  BY <1>3, IdleOpen DEF AccountInit, SignedUp, UserRow, AccountTypeOK
<1>4. QED
  BY <1>1, <1>2, <1>3 DEF AccountInit

\* What a commit leaves of the other requests is a request.
LEMMA OvertakenTyped ==
    ASSUME OpenTyped, NEW s \in Requests PROVE Overtake(request[s]) \in AccountRequest
<1>1. CASE request[s].at = "SWITCHING"
  BY <1>1, OvertakeSwitching
<1>2. CASE request[s].at = "ASSIGNING"
  BY <1>2, OvertakeAssigning
<1>3. CASE request[s].at \notin {"SWITCHING", "ASSIGNING"}
  BY <1>3, OvertakeOther DEF OpenTyped
<1>4. QED
  BY <1>1, <1>2, <1>3

LEMMA AccountNextOpen == AccountTypeOK /\ [AccountNext]_accountVars => OpenTyped'
<1> SUFFICES ASSUME AccountTypeOK, [AccountNext]_accountVars PROVE OpenTyped'
  OBVIOUS
<1>0. AccountTablesTyped /\ CacheTyped /\ OpenTyped
  BY AccountParts
\* A request that takes its next step.
<1>1. ASSUME NEW r \in Requests, NEW new \in AccountRequest,
             request' = [request EXCEPT ![r] = new]
      PROVE  OpenTyped'
  BY <1>0, <1>1 DEF OpenTyped
<1>2. ASSUME NEW r \in Requests, request' = [request EXCEPT ![r] = Idle] PROVE OpenTyped'
  BY <1>1, <1>2, IdleOpen
<1>3. ASSUME NEW i \in Instances
      PROVE  [at |-> "READING", instance |-> i] \in AccountRequest
  BY DEF AccountRequest
<1>4. ASSUME NEW r \in Requests, NEW i \in Instances, ReadCached(r, i) PROVE OpenTyped'
  BY <1>1, <1>3, <1>4 DEF ReadCached
<1>5. ASSUME NEW r \in Requests, NEW i \in Instances, ReadLoad(r, i) PROVE OpenTyped'
  <2>1. [at |-> "LOADED", instance |-> i, row |-> user] \in AccountRequest
    BY <1>0 DEF AccountTablesTyped, AccountRequest
  <2>2. QED
    BY <1>1, <1>5, <2>1 DEF ReadLoad
<1>6. ASSUME NEW r \in Requests, ReadAdmit(r) PROVE OpenTyped'
  <2>1. request[r].instance \in Instances
    BY <1>0, <1>6, LoadedFields DEF ReadAdmit
  <2>2. request' = [request EXCEPT ![r] = [at |-> "READING", instance |-> request[r].instance]]
    BY <1>6 DEF ReadAdmit
  <2>3. QED
    BY <1>1, <1>3, <2>1, <2>2
<1>7. ASSUME NEW r \in Requests, NEW q \in RoleIds, SwitchRead(r, q) PROVE OpenTyped'
  <2>1. [at |-> "SWITCHING", role |-> q, overtaken |-> FALSE] \in AccountRequest
    BY DEF AccountRequest
  <2>2. QED
    BY <1>1, <1>7, <2>1 DEF SwitchRead
<1>8. ASSUME NEW r \in Requests, NEW roles \in SUBSET RoleIds, AssignRead(r, roles)
      PROVE  OpenTyped'
  <2>1. user.active_role \in RoleIds /\ heldRoles \in SUBSET RoleIds
    BY <1>0 DEF AccountTablesTyped, UserRow
  <2>2. [at |-> "ASSIGNING", roles |-> roles, deleting |-> heldRoles,
         loaded |-> user.active_role, overtaken |-> FALSE] \in AccountRequest
    BY <2>1 DEF AccountRequest
  <2>3. QED
    BY <1>1, <1>8, <2>2 DEF AssignRead
<1>9. ASSUME NEW r \in Requests, SwitchCommit(r) PROVE OpenTyped'
  BY <1>0, <1>9, IdleOpen, OvertakenTyped DEF SwitchCommit, OpenTyped
<1>10. ASSUME NEW r \in Requests, AssignCommit(r) PROVE OpenTyped'
  <2>1. request[r].at = "ASSIGNING"
        /\ request' = [s \in Requests |->
                        IF s = r THEN Idle
                        ELSE IF request[s].at = "ASSIGNING"
                        THEN [Overtake(request[s]) EXCEPT !.deleting = @ \ request[r].deleting]
                        ELSE Overtake(request[s])]
    BY <1>10 DEF AssignCommit
  <2>2. request[r].deleting \in SUBSET RoleIds
    BY <1>0, <2>1, AssigningFields
  <2>3. \A s \in Requests : request[s].at = "ASSIGNING" =>
            [Overtake(request[s]) EXCEPT !.deleting = @ \ request[r].deleting] \in AccountRequest
    BY <1>0, <2>2, OvertakeAssigning
  <2>4. QED
    BY <1>0, <2>1, <2>3, IdleOpen, OvertakenTyped DEF OpenTyped
<1>11. ASSUME NEW i \in Instances, Restart(i) PROVE OpenTyped'
  BY <1>0, <1>11, IdleOpen DEF Restart, OpenTyped
<1>12. CASE UNCHANGED request
  BY <1>0, <1>12 DEF OpenTyped
<1>13. QED
  BY <1>2, <1>4, <1>5, <1>6, <1>7, <1>8, <1>9, <1>10, <1>11, <1>12
     DEF AccountNext, accountVars, ReadDone, ReadFailed, WriteFailed, UpdateStatus,
         SetFirstPassword, Tick

LEMMA AccountNextCache == AccountTypeOK /\ [AccountNext]_accountVars => CacheTyped'
<1> SUFFICES ASSUME AccountTypeOK, [AccountNext]_accountVars PROVE CacheTyped'
  OBVIOUS
<1>0. AccountTablesTyped /\ CacheTyped /\ OpenTyped
  BY AccountParts
<1>1. ASSUME NEW r \in Requests, NEW i \in Instances, ReadCached(r, i) PROVE CacheTyped'
  BY <1>0, <1>1, EntryTyped, PutTyped DEF ReadCached
<1>2. ASSUME NEW r \in Requests, ReadAdmit(r) PROVE CacheTyped'
  BY <1>0, <1>2, LoadedFields, PutTyped DEF ReadAdmit
<1>3. ASSUME NEW r \in Requests, ReadDone(r) PROVE CacheTyped'
  <2>1. ASSUME NEW i \in Instances, cache[i] # NULL
        PROVE  [cache[i] EXCEPT !.loader = NULL] \in CacheEntry
    <3>1. cache[i] \in CacheEntry
      BY <1>0, <2>1 DEF CacheTyped
    <3>2. QED
      BY <3>1 DEF CacheEntry
  <2>2. QED
    BY <1>0, <1>3, <2>1 DEF ReadDone, CacheTyped
<1>4. ASSUME NEW r \in Requests, ReadFailed(r) PROVE CacheTyped'
  BY <1>0, <1>4 DEF ReadFailed, CacheTyped
<1>5. CASE Tick
  <2>1. ASSUME NEW i \in Instances, cache[i] # NULL, cache[i].ttl # 1
        PROVE  [cache[i] EXCEPT !.ttl = @ - 1] \in CacheEntry
    <3>1. cache[i] \in CacheEntry
      BY <1>0, <2>1 DEF CacheTyped
    <3>2. cache[i].ttl \in 1 .. CacheTtl
      BY <3>1 DEF CacheEntry
    <3>3. cache[i].ttl - 1 \in 1 .. CacheTtl
      BY <2>1, <3>2, AccountConstants
    <3>4. QED
      BY <3>1, <3>3 DEF CacheEntry
  <2>2. QED
    BY <1>0, <1>5, <2>1 DEF Tick, CacheTyped
<1>6. ASSUME NEW i \in Instances, Restart(i) PROVE CacheTyped'
  BY <1>0, <1>6 DEF Restart, CacheTyped
<1>7. CASE UNCHANGED cache
  BY <1>0, <1>7 DEF CacheTyped
<1>8. QED
  BY <1>1, <1>2, <1>3, <1>4, <1>5, <1>6, <1>7
     DEF AccountNext, accountVars, ReadLoad, SwitchRead, SwitchCommit, AssignRead,
         AssignCommit, WriteFailed, UpdateStatus, SetFirstPassword

\* Whoever replaces the assignments has at least one role to assign.
RolesChosen == \A r \in Requests : request[r].at = "ASSIGNING" => request[r].roles # {}

LEMMA ActiveAmongTyped ==
    ASSUME NEW roles \in SUBSET RoleIds, roles # {}, NEW loaded, NEW now \in RoleIds
    PROVE  ActiveAmong(roles, loaded, now) \in RoleIds
BY FirstIsOne DEF ActiveAmong

LEMMA AccountNextTables ==
    AccountTypeOK /\ RolesChosen /\ [AccountNext]_accountVars => AccountTablesTyped'
<1> SUFFICES ASSUME AccountTypeOK, RolesChosen, [AccountNext]_accountVars
             PROVE  AccountTablesTyped'
  OBVIOUS
<1>0. AccountTablesTyped /\ OpenTyped
  BY AccountParts
<1>1. ASSUME NEW r \in Requests, SwitchCommit(r) PROVE AccountTablesTyped'
  <2>1. request[r].role \in RoleIds /\ request[r].overtaken \in BOOLEAN
    BY <1>0, <1>1, SwitchingFields DEF SwitchCommit
  <2>2. user' = [user EXCEPT !.active_role = request[r].role]
        /\ raced' = request[r].overtaken /\ heldRoles' = heldRoles
    BY <1>1 DEF SwitchCommit
  <2>3. user' \in UserRow
    BY <1>0, <2>1, <2>2 DEF AccountTablesTyped, UserRow
  <2>4. QED
    BY <1>0, <2>1, <2>2, <2>3 DEF AccountTablesTyped
<1>2. ASSUME NEW r \in Requests, AssignCommit(r) PROVE AccountTablesTyped'
  <2> DEFINE active == ActiveAmong(request[r].roles, request[r].loaded, user.active_role)
  <2>1. request[r].at = "ASSIGNING" /\ request[r].roles # {}
    BY <1>2 DEF AssignCommit, RolesChosen
  <2>2. request[r].roles \in SUBSET RoleIds /\ request[r].overtaken \in BOOLEAN
    BY <1>0, <2>1, AssigningFields
  <2>3. user' = [user EXCEPT !.active_role = active]
        /\ heldRoles' = (heldRoles \ request[r].deleting) \cup request[r].roles
        /\ raced' = request[r].overtaken
    BY <1>2 DEF AssignCommit
  <2>4. active \in RoleIds
    BY <1>0, <2>1, <2>2, ActiveAmongTyped DEF AccountTablesTyped, UserRow
  <2> HIDE DEF active
  <2>5. user' \in UserRow
    BY <1>0, <2>3, <2>4 DEF AccountTablesTyped, UserRow
  <2>6. QED
    BY <1>0, <2>2, <2>3, <2>5 DEF AccountTablesTyped
<1>3. ASSUME NEW status \in {"VERIFIED", "SUSPENDED"}, UpdateStatus(status)
      PROVE  AccountTablesTyped'
  BY <1>0, <1>3 DEF UpdateStatus, AccountTablesTyped, UserRow
<1>4. CASE SetFirstPassword
  BY <1>0, <1>4 DEF SetFirstPassword, AccountTablesTyped, UserRow
<1>5. CASE UNCHANGED <<user, heldRoles, raced>>
  BY <1>0, <1>5 DEF AccountTablesTyped
<1>6. QED
  BY <1>1, <1>2, <1>3, <1>4, <1>5
     DEF AccountNext, accountVars, ReadCached, ReadLoad, ReadAdmit, ReadDone, ReadFailed,
         SwitchRead, AssignRead, WriteFailed, Tick, Restart

-----------------------------------------------------------------------------
(***************************************************************************)
(* Accounts: roles.  A request that nobody has overtaken still knows the   *)
(* truth when it commits: the role it switches to is assigned, what it     *)
(* deletes is all there is and the active role is the one it has loaded.   *)
(***************************************************************************)
SwitchesToHeld ==
    \A r \in Requests :
        request[r].at = "SWITCHING" /\ ~ request[r].overtaken => request[r].role \in heldRoles

AssignsOnTruth ==
    \A r \in Requests :
        request[r].at = "ASSIGNING" /\ ~ request[r].overtaken
            => /\ request[r].deleting = heldRoles
               /\ request[r].loaded = user.active_role

RolesInv == RolesChosen /\ SwitchesToHeld /\ AssignsOnTruth /\ ActiveRoleHeld /\ SomeRoleHeld

\* Requests that commit nothing of roles, and write requests that end.
LEMMA RolesKept ==
    ASSUME RolesInv, UNCHANGED <<heldRoles, raced>>, user'.active_role = user.active_role,
           \A r \in Requests : request'[r].at \in {"SWITCHING", "ASSIGNING"}
                => request'[r] = request[r]
    PROVE  RolesInv'
BY DEF RolesInv, RolesChosen, SwitchesToHeld, AssignsOnTruth, ActiveRoleHeld, SomeRoleHeld

LEMMA InitRoles == AccountInit => RolesInv
<1> SUFFICES ASSUME AccountInit PROVE RolesInv
  OBVIOUS
<1>1. \A r \in Requests : request[r].at = "IDLE"
  BY DEF AccountInit
<1>2. user.active_role \in heldRoles
  <2>1. CASE InvitedOwner
    BY <2>1 DEF InvitedOwner
  <2>2. CASE CreatedByAdmin
    BY <2>2 DEF CreatedByAdmin
  <2>3. CASE SignedUp
    BY <2>3 DEF SignedUp
  <2>4. QED
    BY <2>1, <2>2, <2>3 DEF AccountInit
<1>3. QED
  BY <1>1, <1>2
     DEF RolesInv, RolesChosen, SwitchesToHeld, AssignsOnTruth, ActiveRoleHeld, SomeRoleHeld

\* What another request's commit leaves of one that is about to write.
LEMMA SwitchLeaves ==
    ASSUME OpenTyped, NEW r \in Requests, SwitchCommit(r), NEW s \in Requests
    PROVE  /\ request'[s].at \in {"SWITCHING", "ASSIGNING"} => request'[s].overtaken = TRUE
           /\ request'[s].at = "ASSIGNING" =>
                request[s].at = "ASSIGNING" /\ request'[s].roles = request[s].roles
<1>1. request'[s] = IF s = r THEN Idle ELSE Overtake(request[s])
  BY DEF SwitchCommit
<1>2. CASE s = r
  BY <1>1, <1>2
<1>3. CASE s # r /\ request[s].at = "SWITCHING"
  BY <1>1, <1>3, OvertakeSwitching
<1>4. CASE s # r /\ request[s].at = "ASSIGNING"
  BY <1>1, <1>4, OvertakeAssigning
<1>5. CASE s # r /\ request[s].at \notin {"SWITCHING", "ASSIGNING"}
  BY <1>1, <1>5, OvertakeOther
<1>6. QED
  BY <1>2, <1>3, <1>4, <1>5

LEMMA AssignLeaves ==
    ASSUME OpenTyped, NEW r \in Requests, AssignCommit(r), NEW s \in Requests
    PROVE  /\ request'[s].at \in {"SWITCHING", "ASSIGNING"} => request'[s].overtaken = TRUE
           /\ request'[s].at = "ASSIGNING" =>
                request[s].at = "ASSIGNING" /\ request'[s].roles = request[s].roles
<1> DEFINE gone == request[r].deleting
<1>1. request[r].at = "ASSIGNING"
      /\ request'[s] = IF s = r THEN Idle
                       ELSE IF request[s].at = "ASSIGNING"
                       THEN [Overtake(request[s]) EXCEPT !.deleting = @ \ gone]
                       ELSE Overtake(request[s])
  BY DEF AssignCommit
<1>0. gone \in SUBSET RoleIds
  BY <1>1, AssigningFields
<1> HIDE DEF gone
<1>2. CASE s = r
  BY <1>1, <1>2
<1>3. CASE s # r /\ request[s].at = "SWITCHING"
  BY <1>1, <1>3, OvertakeSwitching
<1>4. CASE s # r /\ request[s].at = "ASSIGNING"
  BY <1>0, <1>1, <1>4, OvertakeAssigning
<1>5. CASE s # r /\ request[s].at \notin {"SWITCHING", "ASSIGNING"}
  BY <1>1, <1>5, OvertakeOther
<1>6. QED
  BY <1>2, <1>3, <1>4, <1>5

LEMMA NextRoles == AccountTypeOK /\ RolesInv /\ [AccountNext]_accountVars => RolesInv'
<1> SUFFICES ASSUME AccountTypeOK, RolesInv, [AccountNext]_accountVars PROVE RolesInv'
  OBVIOUS
<1>0. AccountTablesTyped /\ CacheTyped /\ OpenTyped
  BY AccountParts
\* One request becomes one that writes no roles.
<1>1. ASSUME NEW r \in Requests, NEW new, new.at \notin {"SWITCHING", "ASSIGNING"},
             request' = [request EXCEPT ![r] = new],
             UNCHANGED <<user, heldRoles, raced>>
      PROVE  RolesInv'
  <2>1. \A s \in Requests : request'[s].at \in {"SWITCHING", "ASSIGNING"}
            => request'[s] = request[s]
    BY <1>0, <1>1 DEF OpenTyped
  <2>2. QED
    BY <1>1, <2>1, RolesKept
<1>2. ASSUME UNCHANGED <<heldRoles, request, raced>>, user'.active_role = user.active_role
      PROVE  RolesInv'
  BY <1>2, RolesKept
<1>3. ASSUME NEW r \in Requests, NEW i \in Instances, ReadCached(r, i) PROVE RolesInv'
  BY <1>1, <1>3 DEF ReadCached
<1>4. ASSUME NEW r \in Requests, NEW i \in Instances, ReadLoad(r, i) PROVE RolesInv'
  BY <1>1, <1>4 DEF ReadLoad
<1>5. ASSUME NEW r \in Requests, ReadAdmit(r) PROVE RolesInv'
  BY <1>1, <1>5 DEF ReadAdmit
<1>6. ASSUME NEW r \in Requests, ReadDone(r) \/ ReadFailed(r) \/ WriteFailed(r)
      PROVE  RolesInv'
  BY <1>1, <1>6 DEF ReadDone, ReadFailed, WriteFailed
<1>7. ASSUME NEW r \in Requests, NEW q \in RoleIds, SwitchRead(r, q) PROVE RolesInv'
  <2> DEFINE new == [at |-> "SWITCHING", role |-> q, overtaken |-> FALSE]
  <2>1. request' = [request EXCEPT ![r] = new] /\ q \in heldRoles
        /\ UNCHANGED <<user, heldRoles, raced>>
    BY <1>7 DEF SwitchRead
  <2>2. new.at = "SWITCHING" /\ new.role = q
    OBVIOUS
  <2> HIDE DEF new
  <2>3. request'[r] = new /\ \A s \in Requests \ {r} : request'[s] = request[s]
    BY <1>0, <2>1 DEF OpenTyped
  <2>4. QED
    BY <2>1, <2>2, <2>3
       DEF RolesInv, RolesChosen, SwitchesToHeld, AssignsOnTruth, ActiveRoleHeld, SomeRoleHeld
<1>8. ASSUME NEW r \in Requests, NEW roles \in SUBSET RoleIds, AssignRead(r, roles)
      PROVE  RolesInv'
  <2> DEFINE new == [at |-> "ASSIGNING", roles |-> roles, deleting |-> heldRoles,
                     loaded |-> user.active_role, overtaken |-> FALSE]
  <2>1. request' = [request EXCEPT ![r] = new] /\ roles # {}
        /\ UNCHANGED <<user, heldRoles, raced>>
    BY <1>8 DEF AssignRead
  <2>2. new.at = "ASSIGNING" /\ new.roles = roles /\ new.deleting = heldRoles
        /\ new.loaded = user.active_role
    OBVIOUS
  <2> HIDE DEF new
  <2>3. request'[r] = new /\ \A s \in Requests \ {r} : request'[s] = request[s]
    BY <1>0, <2>1 DEF OpenTyped
  <2>4. QED
    BY <2>1, <2>2, <2>3
       DEF RolesInv, RolesChosen, SwitchesToHeld, AssignsOnTruth, ActiveRoleHeld, SomeRoleHeld
<1>9. ASSUME NEW r \in Requests, SwitchCommit(r) PROVE RolesInv'
  <2>1. /\ request[r].at = "SWITCHING"
        /\ user' = [user EXCEPT !.active_role = request[r].role]
        /\ raced' = request[r].overtaken /\ heldRoles' = heldRoles
    BY <1>9 DEF SwitchCommit
  <2>2. user'.active_role = request[r].role
    BY <1>0, <2>1 DEF AccountTablesTyped, UserRow
  <2>3. ActiveRoleHeld' /\ SomeRoleHeld'
    BY <2>1, <2>2 DEF RolesInv, SwitchesToHeld, ActiveRoleHeld, SomeRoleHeld
  <2>4. RolesChosen' /\ SwitchesToHeld' /\ AssignsOnTruth'
    BY <1>0, <1>9, SwitchLeaves DEF RolesInv, RolesChosen, SwitchesToHeld, AssignsOnTruth
  <2>5. QED
    BY <2>3, <2>4 DEF RolesInv
<1>10. ASSUME NEW r \in Requests, AssignCommit(r) PROVE RolesInv'
  <2> DEFINE roles == request[r].roles
             active == ActiveAmong(roles, request[r].loaded, user.active_role)
  <2>1. /\ request[r].at = "ASSIGNING"
        /\ user' = [user EXCEPT !.active_role = active]
        /\ heldRoles' = (heldRoles \ request[r].deleting) \cup roles
        /\ raced' = request[r].overtaken
    BY <1>10 DEF AssignCommit
  <2>2. roles # {} /\ roles \in SUBSET RoleIds
    BY <1>0, <2>1, AssigningFields DEF RolesInv, RolesChosen
  <2>3. ~ request[r].overtaken => active \in roles
    BY <2>1, <2>2, FirstIsOne DEF RolesInv, AssignsOnTruth, ActiveAmong
  <2> HIDE DEF active, roles
  <2>4. user'.active_role = active
    BY <1>0, <2>1 DEF AccountTablesTyped, UserRow
  <2>5. ActiveRoleHeld' /\ SomeRoleHeld'
    BY <2>1, <2>2, <2>3, <2>4 DEF ActiveRoleHeld, SomeRoleHeld
  <2>6. RolesChosen' /\ SwitchesToHeld' /\ AssignsOnTruth'
    BY <1>0, <1>10, AssignLeaves DEF RolesInv, RolesChosen, SwitchesToHeld, AssignsOnTruth
  <2>7. QED
    BY <2>5, <2>6 DEF RolesInv
<1>11. ASSUME NEW status, UpdateStatus(status) PROVE RolesInv'
  BY <1>0, <1>2, <1>11 DEF UpdateStatus, AccountTablesTyped, UserRow
<1>12. CASE SetFirstPassword
  BY <1>0, <1>2, <1>12 DEF SetFirstPassword, AccountTablesTyped, UserRow
<1>13. CASE Tick \/ UNCHANGED accountVars
  BY <1>2, <1>13 DEF Tick, accountVars
<1>14. ASSUME NEW i \in Instances, Restart(i) PROVE RolesInv'
  <2>1. \A s \in Requests : request'[s].at \in {"SWITCHING", "ASSIGNING"}
            => request'[s] = request[s]
    BY <1>14 DEF Restart
  <2>2. QED
    BY <1>14, <2>1, RolesKept DEF Restart
<1>15. QED
  BY <1>3, <1>4, <1>5, <1>6, <1>7, <1>8, <1>9, <1>10, <1>11, <1>12, <1>13, <1>14
     DEF AccountNext

LEMMA AccountInvHolds == AccountSpec => [](AccountTypeOK /\ RolesInv)
<1>1. AccountTypeOK /\ RolesInv /\ [AccountNext]_accountVars => AccountTypeOK'
  <2>1. AccountTypeOK' <=> AccountTablesTyped' /\ CacheTyped' /\ OpenTyped'
    BY DEF AccountTypeOK, AccountTablesTyped, CacheTyped, OpenTyped
  <2>2. QED
    BY <2>1, AccountNextOpen, AccountNextCache, AccountNextTables DEF RolesInv
<1>2. QED
  BY <1>1, AccountInitType, InitRoles, NextRoles, PTL DEF AccountSpec

\* The account, its roles, the cached rows and the open requests are what they
\* are said to be.
THEOREM AccountTypeCorrect == AccountSpec => []AccountTypeOK
BY AccountInvHolds, PTL

\* The active role is an assigned one, whichever requests overlap, unless the
\* one that wrote it last was overtaken itself.
THEOREM ActiveRoleCorrect == AccountSpec => []ActiveRoleHeld
<1>1. RolesInv => ActiveRoleHeld
  BY DEF RolesInv
<1>2. QED
  BY <1>1, AccountInvHolds, PTL

\* Nobody is ever left without a role, even by two replacements that overlap.
THEOREM RoleKept == AccountSpec => []SomeRoleHeld
<1>1. RolesInv => SomeRoleHeld
  BY DEF RolesInv
<1>2. QED
  BY <1>1, AccountInvHolds, PTL

-----------------------------------------------------------------------------
(***************************************************************************)
(* Accounts: suspension.                                                   *)
(***************************************************************************)
ServesFrom(i) ==
    \/ cache[i] # NULL
    \/ \E r \in Requests : request[r].at = "LOADED" /\ Admits(request[r].row)
                         /\ request[r].instance = i

LEMMA ServingMeans == \A i \in Instances : i \in Serving <=> ServesFrom(i)
BY DEF Serving, ServesFrom

LEMMA ServingIsInstances == AccountTypeOK' => Serving' \subseteq Instances
<1>1. AccountTypeOK' => \A r \in Requests :
            request'[r].at = "LOADED" => request'[r].instance \in Instances
  BY DEF AccountTypeOK, AccountRequest
<1>2. QED
  BY <1>1 DEF Serving

\* An instance that serves after a step did so before, unless it has just read
\* a row that passes from the database.
LEMMA ServesBefore ==
    ASSUME AccountTypeOK, AccountNext, ~ Admits(user), NEW i \in Instances, ServesFrom(i)'
    PROVE  ServesFrom(i)
<1>0. AccountTablesTyped /\ CacheTyped /\ OpenTyped
  BY AccountParts
\* Steps that fill no cache and make no request LOADED.
<1>1. ASSUME cache'[i] # NULL => cache[i] # NULL,
             \A r \in Requests : request'[r].at = "LOADED" => request'[r] = request[r]
      PROVE  ServesFrom(i)
  BY <1>1 DEF ServesFrom, Admits
<1>2. ASSUME NEW r \in Requests, NEW new, new.at # "LOADED",
             request' = [request EXCEPT ![r] = new]
      PROVE  \A s \in Requests : request'[s].at = "LOADED" => request'[s] = request[s]
  BY <1>0, <1>2 DEF OpenTyped
<1>3. ASSUME NEW r \in Requests, NEW j \in Instances, ReadCached(r, j) PROVE ServesFrom(i)
  <2>1. cache'[i] # NULL => cache[i] # NULL
    BY <1>0, <1>3 DEF ReadCached, Put, CacheTyped
  <2>2. QED
    BY <1>1, <1>2, <1>3, <2>1 DEF ReadCached
<1>4. ASSUME NEW r \in Requests, NEW j \in Instances, ReadLoad(r, j) PROVE ServesFrom(i)
  <2> DEFINE new == [at |-> "LOADED", instance |-> j, row |-> user]
  <2>1. request' = [request EXCEPT ![r] = new] /\ cache' = cache
    BY <1>4 DEF ReadLoad
  <2>2. new.row = user
    OBVIOUS
  <2> HIDE DEF new
  <2>3. request'[r] = new /\ \A s \in Requests \ {r} : request'[s] = request[s]
    BY <1>0, <2>1 DEF OpenTyped
  <2>4. QED
    BY <2>1, <2>2, <2>3 DEF ServesFrom, Admits
<1>5. ASSUME NEW r \in Requests, ReadAdmit(r) PROVE ServesFrom(i)
  <2>1. CASE request[r].instance = i
    BY <1>5, <2>1 DEF ReadAdmit, ServesFrom
  <2>2. CASE request[r].instance # i
    <3>1. cache'[i] = cache[i]
      BY <1>0, <1>5, <2>2 DEF ReadAdmit, Put, CacheTyped
    <3>2. request' = [request EXCEPT ![r] = [at |-> "READING", instance |-> request[r].instance]]
      BY <1>5 DEF ReadAdmit
    <3>3. QED
      BY <1>1, <1>2, <3>1, <3>2
  <2>3. QED
    BY <2>1, <2>2
<1>6. ASSUME NEW r \in Requests, ReadDone(r) PROVE ServesFrom(i)
  <2>1. cache'[i] # NULL => cache[i] # NULL
    BY <1>6 DEF ReadDone
  <2>2. QED
    BY <1>1, <1>2, <1>6, <2>1 DEF ReadDone
<1>7. ASSUME NEW r \in Requests, ReadFailed(r) PROVE ServesFrom(i)
  <2>1. cache'[i] # NULL => cache[i] # NULL
    BY <1>7 DEF ReadFailed
  <2>2. QED
    BY <1>1, <1>2, <1>7, <2>1 DEF ReadFailed
<1>8. ASSUME NEW r \in Requests, NEW q \in RoleIds, SwitchRead(r, q) PROVE ServesFrom(i)
  BY <1>1, <1>2, <1>8 DEF SwitchRead
<1>9. ASSUME NEW r \in Requests, NEW roles \in SUBSET RoleIds, AssignRead(r, roles)
      PROVE  ServesFrom(i)
  BY <1>1, <1>2, <1>9 DEF AssignRead
<1>10. ASSUME NEW r \in Requests, SwitchCommit(r) PROVE ServesFrom(i)
  <2>1. ASSUME NEW s \in Requests, request'[s].at = "LOADED"
        PROVE  request'[s] = request[s]
    <3>1. request'[s] = IF s = r THEN Idle ELSE Overtake(request[s])
      BY <1>10 DEF SwitchCommit
    <3>2. s # r
      BY <2>1, <3>1
    <3>3. request[s].at \notin {"SWITCHING", "ASSIGNING"}
      BY <1>0, <2>1, <3>1, <3>2, OvertakeSwitching, OvertakesAssigning
    <3>4. QED
      BY <3>1, <3>2, <3>3, OvertakeOther
  <2>2. QED
    BY <1>1, <1>10, <2>1 DEF SwitchCommit
<1>11. ASSUME NEW r \in Requests, AssignCommit(r) PROVE ServesFrom(i)
  <2> DEFINE gone == request[r].deleting
  <2>1. ASSUME NEW s \in Requests, request'[s].at = "LOADED"
        PROVE  request'[s] = request[s]
    <3>1. request[r].at = "ASSIGNING"
          /\ request'[s] = IF s = r THEN Idle
                           ELSE IF request[s].at = "ASSIGNING"
                           THEN [Overtake(request[s]) EXCEPT !.deleting = @ \ gone]
                           ELSE Overtake(request[s])
      BY <1>11 DEF AssignCommit
    <3>2. gone \in SUBSET RoleIds
      BY <1>0, <3>1, AssigningFields
    <3> HIDE DEF gone
    <3>3. s # r
      BY <2>1, <3>1
    <3>4. request[s].at # "ASSIGNING"
      <4> SUFFICES ASSUME request[s].at = "ASSIGNING" PROVE FALSE
        OBVIOUS
      <4>1. request'[s] = [Overtake(request[s]) EXCEPT !.deleting = @ \ gone]
        BY <3>1, <3>3
      <4>2. [Overtake(request[s]) EXCEPT !.deleting = @ \ gone].at = "ASSIGNING"
        BY <1>0, <3>2, OvertakeAssigning
      <4>3. QED
        BY <2>1, <4>1, <4>2
    <3>5. request'[s] = Overtake(request[s])
      BY <3>1, <3>3, <3>4
    <3>6. QED
      BY <1>0, <2>1, <3>4, <3>5, OvertakeSwitching, OvertakeOther
  <2>2. QED
    BY <1>1, <1>11, <2>1 DEF AssignCommit
<1>12. ASSUME NEW r \in Requests, WriteFailed(r) PROVE ServesFrom(i)
  BY <1>1, <1>2, <1>12 DEF WriteFailed
<1>13. CASE UNCHANGED <<cache, request>>
  BY <1>1, <1>13
<1>14. CASE Tick
  <2>1. cache'[i] # NULL => cache[i] # NULL
    BY <1>14 DEF Tick
  <2>2. QED
    BY <1>1, <1>14, <2>1 DEF Tick
<1>15. ASSUME NEW j \in Instances, Restart(j) PROVE ServesFrom(i)
  <2>1. cache'[i] # NULL => cache[i] # NULL
    BY <1>0, <1>15 DEF Restart, CacheTyped
  <2>2. \A s \in Requests : request'[s].at = "LOADED" => request'[s] = request[s]
    BY <1>15 DEF Restart
  <2>3. QED
    BY <1>1, <2>1, <2>2
<1>16. QED
  BY <1>3, <1>4, <1>5, <1>6, <1>7, <1>8, <1>9, <1>10, <1>11, <1>12, <1>13, <1>14, <1>15
     DEF AccountNext, UpdateStatus, SetFirstPassword

\* While a user is suspended, the instances that still answer the user's reads only
\* become fewer.  Nothing is said here of whether they ever become none.
THEOREM SuspensionSpreadsNot == AccountSpec => SuspendedNotTakenUp
<1>1. AccountTypeOK /\ AccountTypeOK' /\ [AccountNext]_accountVars
        => [user.status = "SUSPENDED" => Serving' \subseteq Serving]_accountVars
  <2> SUFFICES ASSUME AccountTypeOK, AccountTypeOK', AccountNext, user.status = "SUSPENDED"
               PROVE  Serving' \subseteq Serving
    OBVIOUS
  <2>1. ~ Admits(user)
    BY DEF Admits
  <2>2. ASSUME NEW i \in Serving' PROVE i \in Serving
    <3>1. i \in Instances
      BY <2>2, ServingIsInstances
    <3>2. ServesFrom(i)'
      BY <2>2, <3>1 DEF Serving, ServesFrom
    <3>3. QED
      BY <2>1, <3>1, <3>2, ServesBefore, ServingMeans
  <2>3. QED
    BY <2>2
<1>2. QED
  BY <1>1, AccountTypeCorrect, PTL DEF AccountSpec, SuspendedNotTakenUp
=============================================================================
