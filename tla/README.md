# LuxeLife API: verification project

TLA+ models of the LuxeLife property backend (FastAPI, async SQLAlchemy on
PostgreSQL, Redis; `src/app`), the TLC configurations that check them on small
instances, and TLAPS proofs of their main invariants for instances of any size.

## 1. The system

A tenant asks to visit a property, negotiates a time with the property's
managers, is approved, signs an agreement, pays an advance, hands in documents
and moves in; rent is billed monthly. Everything is a row in PostgreSQL that
HTTP requests read and write.

### 1.1 How it runs

* One gunicorn worker per instance, an asyncio loop, up to ten requests at once
  per instance and up to four instances (`Dockerfile`, `deploy-cloudrun.sh`).
* Each request has its own session (`database.py` `get_db`): it commits when the
  handler succeeds and rolls back on any exception. A request either happens as
  a whole or not at all.
* PostgreSQL's default isolation (READ COMMITTED); no `SELECT ... FOR UPDATE`,
  no version columns, no unique constraint on visit requests, tracker rows,
  agreements or rent payments. Two requests can therefore interleave between a
  check and the write that relies on it.
* The ORM writes only the columns whose value a request has changed from the one
  it loaded: two requests on one row mix their columns.
* `scalar_one_or_none()` raises on more than one row: duplicated rows do not
  give wrong answers, they make every later request on them fail.
* Redis keys (codes, counters, revoked tokens) are set and read call by call,
  outside any transaction; a request that fails does not undo them.
* There is no scheduler or retry: every step is a request somebody makes, and
  only keys and cached rows expire by themselves.

### 1.2 Components

| component | state | operations | with whom | hard parts | what makes it correct |
|---|---|---|---|---|---|
| visit negotiation (`visit_request_service`) | `visit_requests`, `visit_request_proposals` | create, propose, accept, reject, reschedule, cancel, complete | marks the tracker, generates agreements, notifies | turns that change hands while managers come and go; users who are tenant and manager; accept and reject never look at the status | turn and open proposal agree; an appointment is one both sides accepted; what is settled stays settled |
| onboarding tracker (`onboarding_workflow_service`) | `property_onboarding_workflows` | marks by visits, agreements and payments; document submission and review; cancel | one row written by six services | marks in any order overwrite one `state` and one agreement link | what it shows is so; the last approval activates |
| agreements (`agreement_service`) | `agreements` | generate, sign, confirm advance | inserts the advance, sets the property's tenant, marks the tracker | repeated approvals and signatures; confirmation after payment | one advance per signed agreement; at most one agreement to sign |
| payments (`payment_service`) | `payments` | upload receipt, verify, reject, mark paid | activates the agreement | verify has no status guard; two ways to activate | active means paid |
| property (`property_service`, `property_scope`) | `properties`, `property_managers`, `property_occupancy_history` | create, update, delete, managers, tenant | counterparty of visits | two writers of the tenant, one of the history; overlapping updates mix columns; a delete that cascades | what is published is complete; occupancy goes with the tenant; what is paid for is kept |
| notifications | `notifications` | create, list, mark read | called by all | recipients are resolved anew each time, the actor is left out | whoever has to act is told |
| users and roles (`user_service`, `rbac_service`) | `users`, `user_roles`, roles and permissions | create, invite, suspend, switch role, set roles, grants | decide who may act | active role and held roles are two tables; grants are replaced by deleting what was seen | the active role is one that is held; a role holds what was set last |
| rent cycle (`rent_cycle_service`) | `payments` | monthly generation | reads active agreements | check, then insert; two runs at once | nobody billed twice by runs that do not overlap; a run that ends has left nobody out |
| authentication (`auth_service`, `dependencies`) | Redis keys, in-process user cache | register, OTP, login, refresh, logout | every request | get then set on Redis; a cache that slides; Redis down | a code and a limit that only overlapping requests can strain; what is revoked stays so while its key lives; suspension takes effect once reads pause |
| jobs, disputes (`job_service`, `api/v1/disputes.py`) | `jobs`, `disputes` | request, assign, status, work report; dispute | notifications | status changes without a check | closed ones are dated; reports come from the assignee |
| calendar (`calendar_service`) | `admin_slots`, block rules | slots, blocks, bookings | its router is not mounted | - | - |
| KYC, inspections, messages | one table each | insert, update status | notifications | - | - |
| storage, PDF, SMS, dashboards, middleware | none | outside calls, reads | - | a failing PDF must not fail a request (caught) | - |

`PROJECT.json` lists the components with their status and, under `hazards`, each
place in the code where something could go wrong that a test would hardly reach.

## 2. The modules

```
Rows                      NULL, an absent value or row
 |- VisitRules            one visit row: who acts, whose turn, what is written
 |- OnboardingRules       one tracker row: every mark, the checklist
 |- LeaseRules            one agreement or payment row
 |- OpenRequests          sessions that are open at once, what a commit writes
Appointment               abstract: what the two sides of a visit are promised
VisitNegotiation          visits, proposals, staff, roles   (extends the rules;
                          implements Appointment)
LeaseActivation           agreements, advances, tracker, tenancy, with the
                          visits abstracted to the marks they leave
Onboarding                both over one tracker and one agreement table;
                          implements Appointment and LeaseActivation
RentCycle                 the monthly run over active agreements
PropertyListing           one property as a listing       (extends OpenRequests)
OtpLogin                  codes, their limit, and the account of one phone
TokenRotation             token pairs, refresh, logout
Accounts                  one account: status, roles, cached copies   (likewise)
Permissions               permissions and the grants of roles         (likewise)
ServiceJobs               one job and its dispute                     (likewise)
MC...                     symmetry sets for TLC
...Proofs                 theorems: VisitNegotiation, LeaseActivation,
                          Onboarding, RentCycle, OtpLogin, TokenRotation,
                          Roles (Permissions and Accounts),
                          ListingsAndJobs (PropertyListing and ServiceJobs)
```

There are two kinds of state machine here. In the modules about visits and leases
an action is one committed request: they are about what *sequences* of requests
lead to. In the others requests overlap: an action is one database or Redis call,
or the reads of a request before its writes, and a variable `request` (`run`) says
where each open request is and what it has read. A request that reads and writes
is then two or more actions, what it writes are the columns it changed from what
it read, and `Fail` is its rollback.

The `Rules` modules have no variables: each operator is what one function does to
the row it loaded. An operator that stands before the one it resembles and is used
nowhere (`...Any`, `...Only`, `...Inclusive` and the like, introduced as a
mutation) is a plausible mistake; `PROJECT.json` pairs each property with a
mutation that breaks it. History variables (`raced`, `overruled`, `wanted`,
`asked`, `redeemed`, `loggedOut`, `exchanged`, the flags `overtaken`) record what the program
does not keep; no guard of an operation reads one.

### 2.1 VisitNegotiation and Appointment

One property. `visit` and `proposal` are the two tables; `workflow` the tracker
rows by tenant; `agreement` the agreements; `managers` the property's managers;
`activeRole` the users' active roles; `notified` the recipients of the
notifications the last request inserted.

| action | code |
|---|---|
| `Create` | `create_visit_request`: duplicate check, visit, first proposal, tracker |
| `Propose` | `propose`: supersedes the open proposal, flips the turn |
| `Accept` | `accept`: needs the turn and an open proposal, not a status; marks the tracker |
| `Reject` | `reject`: needs the turn only |
| `Reschedule`, `Cancel` | the same; neither touches the old proposal |
| `CompleteRejecting` | `complete(approve=False)` |
| `CompleteApproving` | `complete(approve=True)`, an agreement is generated |
| `CompleteApprovingAgain` | `complete(approve=True)` when an agreement exists: the `ValueError` is caught, the visit is approved, the tracker is left |
| `AssignManagers`, `RemoveManager`, `ReplaceManagers` | `property_service`, by a super-admin, an assigned manager, or (replace) the owner; nobody checks that the assigned user is a manager by role (`Assignable`) |
| `SwitchRole` | `user_service.switch_role` |

A date and time slot is one value that `_validate_slot` accepted. Rejected
requests change nothing and are no actions. `PENDING` and
`APPOINTMENT_SCHEDULED` visits are statuses the code tests but never sets
(`StatusReflectsHistory` says so).

`Appointment` is what is left when one forgets rows, roles and notifications: a
`phase`, an `offer` on the table and a `meeting` per visit, with the actions
`Offer`, `Agree`, `Reject`, `Cancel` and `TakePlace`. The refinement mapping reads
the offer from the current proposal while it is open (`OfferOf`) and the meeting
from the accepted one (`MeetingOf`); `AppointmentImplemented` is the refinement.
What it says that no invariant does: a side never agrees to its own offer except
after a cancellation, and what was rejected or took place makes no step any more.

### 2.2 LeaseActivation

One property. `workflow`, `agreement`, `payment` (the advances), `occupant`
(`properties.tenant_id`) and `openStays` (open occupancy records per user).
`SignFirst` / `SignAndOwe` are `sign_agreement` without and with the tenant's
signature; `UploadReceipt`, `VerifyPayment`, `RejectReceipt`, `MarkPaid`,
`ConfirmAdvance` are the payment requests, where `Activate` is what verifying and
confirming share; `Submit`, `Review`, `CancelOnboarding` are the checklist;
`AssignTenant`, `RemoveTenant` the tenancy. A request that would meet two rows
where the code expects one fails (`OneOrNone`). `VisitStep` stands for the visit
service: it may mark the tracker of any tenant as visits do, in any order.

### 2.3 Onboarding

`VisitNegotiation!Next` and `LeaseActivation!LeaseStep` over the same tracker and
agreements. `LeaseImplemented == Lease!Spec` says that it implements
`LeaseActivation`: whatever the negotiation does to the shared rows is a
`VisitStep` or a stutter. The notifications of the lease requests are left out.

### 2.4 RentCycle, PropertyListing, ServiceJobs

`RentCycle`: a run of `generate_monthly_rent_records` reads the active agreements
and the month's label (`Start`), looks for each agreement whether there is a record
and adds one (`Bill`; its own additions are seen, those of open runs are not),
and commits (`Commit`). Two records make `scalar_one_or_none` raise, so that `Bill`
is then not possible and only `Fail` is. Meanwhile agreements become active
(`Activate`) and months pass (`NextMonth`).

`PropertyListing`: `row` is the row of `properties` with its status, the set of
details it has, occupancy and tenant; `linked` says that rows refer to it which a
delete does not take along by itself. `UpdateLoad`, `AssignLoad`, `RemoveLoad`,
`ActivateLoad`, `DeleteLoad` load and decide; `Write` writes the changed columns;
`Delete` deletes. Two requests on one row may therefore leave the occupancy of
one and the tenant of the other, and an update may set the occupancy alone
(`overruled` says that the last write of the two columns did one of these).

`ServiceJobs`: `UpdateStatus`, `AssignProvider`, `SubmitWorkReport` load the job
and decide, `WriteJob` writes; `CreateDispute`, `UpdateDispute`, `WriteDispute`
likewise. No operation looks at the status it finds.

`PropertyListing`, `ServiceJobs`, `Permissions` and `Accounts` share
`OpenRequests`: which requests are open (`request`), and what the ORM writes of a
column (`Changed`, `Merge`). Two of them can be extended side by side, which is why
the operators of `ServiceJobs` and `Accounts` that every specification has carry a
prefix (`JobSpec`, `JobNext`, `AccountSpec`, `AccountNext`, ...).

### 2.5 OtpLogin, TokenRotation, Accounts, Permissions

`OtpLogin`: the keys `otp:<phone>` and `otp_rate:<phone>` with the time they have
left, the number of `accounts` with the phone, and the open requests. `send_otp` is
`SendCheck`, `SendStore`, `SendCount`, `SendText`; `verify_otp` is `VerifyRead`,
`VerifyDelete`, `VerifyLookup` and then `VerifyKnown` or `SignUp`; `register` is
`RegisterCheck` and `SignUp`. Any call may fail (`Fail`), which leaves what is
already in Redis. `Tick` lets keys expire. `redeemed` counts who used each code.

`TokenRotation`: the ticks each access and refresh token has left (the settings
`AccessLife`, `RefreshLife`), the keys
`blacklist:<jti>` and `rt_used:<jti>`, and the open requests. `CheckToken` is the
blacklist check of `get_current_user`, `SkipCheck` the same with Redis failing
(caught: the request goes on), `Logout` sets the key for `BlacklistTtl`, a constant of
the code that is independent of the setting; `CheckUnused`, `MarkUsed`,
`Exchange` are `refresh_tokens`. A jti is used again only when nothing knows of it
any more (`Unknown`), which stands for fresh random ones.

`Accounts`: the row of one user, the roles held, the cached copy of each instance
with its time left. `ReadCached`, `ReadLoad`, `ReadAdmit`, `ReadDone`,
`ReadFailed` are a request through `get_current_user`; `SwitchRead`,
`SwitchCommit` are `switch_role`, `AssignRead`, `AssignCommit` `set_user_roles`;
`UpdateStatus`, `SetFirstPassword`, `Tick` and `Restart` (an instance loses its
memory). It starts as registration, invitation and creation by an admin leave it.
`raced` says whether the request that wrote roles or active role last had been
overtaken by another, and `Serving` which instances answer reads of the user or
have loaded a row with which they will.

`Permissions`: `code` and `grants` are the tables, `nextId` the sequence of the
ids. `CreateCheck`/`CreateInsert`, `RenameCheck`/`RenameWrite`,
`DeletePermission`, and `SetDelete`/`SetInsert` (`set_role_permissions`: delete the
grants the request sees, insert the ones it was given).

## 3. What TLC checks

| run | instance | shows |
|---|---|---|
| `visits` | two visits, three proposals, one slot; `x` tenant and manager, `s1` super-admin who may also be assigned, `o1` owner; any managers, any role switches | `TypeOK`, `TurnIsOtherSides`, `OnlyCurrentIsOpen`, `StatusReflectsHistory`, `TenantNeverActsAsStaff`; steps: `ConfirmedByOtherSide`, `SettledStaysSettled`, `TurnHandedOverIsAnnounced` |
| `lease` | one tenant, two agreements, two advances, both documents, two stays | `TypeOK`, `GateMatchesAgreement`, `TrackerTellsTruth`, `LastApprovalActivates`, `AdvancePerSignedAgreement`, `OneAgreementToSign`; step: `ActivationIsPaid` |
| `onboarding` | two tenants, two visits, two proposals, two slots, two agreements, one advance; nobody assigned directly | `AppointmentIsAccepted`, `TrackerFollowsVisit`, `ApprovedHasAgreement`, `AgreementsFollowApprovals`; `ConfirmNeverRegressesTracker`; refinement: `AppointmentImplemented`, `LeaseImplemented` |
| `otp` | three requests, two codes, limit 2; codes live 1 tick, the counter 2 | `RateBounded`, `RedeemedByOverlapOnly`; liveness: `RateLimitLifts` |
| `tokens` | two requests, three token pairs; access tokens live 2 ticks, refresh tokens 3, the key of a logout 1 | steps: `LoggedOutStaysOut`, `ExchangedStaysUsed` |
| `accounts` | two instances, two requests, two roles; entries live 2 ticks | `ActiveRoleHeld`, `SomeRoleHeld`; step: `SuspendedNotTakenUp`; liveness: `SuspensionTakesEffect` |
| `rent` | two overlapping runs, two tenants with up to two agreements each, two months | `BilledByOverlapOnly`, `NobodyIsForgotten` |
| `property` | two requests, two details, two tenants | `PublishedIsComplete`, `FoundIsVacant`; step: `PaidForIsKept` |
| `jobs` | two requests, two providers | `ClosedIsDated`; step: `ReportIsAssignees` |
| `permissions` | two requests, two roles, two codes, three permissions ever | `RoleHoldsWhatWasSet` |
| `visit_duplicate` | as `visits`, two slots, two managers | `NoDuplicateActiveRequest` is expected to fail, see section 6 |
| `property_found` | as `property` | `NeverSurfacesOccupied` is expected to fail, see section 6 |

Each passing run explores its instance completely.

**Bounds.** Row identifiers of visits, proposals, agreements and payments come from
finite sets, so an instance bounds how many are ever made; when they are used up
the system stops, and these runs (`visits`, `lease`, `onboarding`) do not check
deadlock. All others do. Two visits and three proposals let every operation happen
after every other: propose, counter-propose, accept, reschedule, cancel and accept
again, next to a second visit. `MaxStays` bounds the open occupancy records of a
user, which the code does not; with none (`onboarding`, whose properties are not
about the occupant) nobody is assigned directly while activations still set the
tenant. Two open requests are enough for every pair of reads and writes to cross;
`otp` has three, so that the limit is passed by more than one request. Lifetimes
are kept as the time left and need no clock; they are chosen so that a code expires
before the counter does, a token outlives several requests, and the key of a logout
expires before the token, which is the harder case (with the default of the setting
both live 15 minutes). `lease` has one tenant: tenants of one property share its
`occupant` only, which none of its invariants reads; `onboarding` has two of them, and
the proofs of section 5 any number. `MaxId` bounds the
permissions ever created (the sequence of their ids never goes back), `Months` the
months. The proofs of section 5 have none of these bounds.

**Symmetry.** Row identifiers, slots, requests, instances, codes and users who hold
only the tenant role are permuted; no definition distinguishes them. The runs with a
liveness property (`otp`, `accounts`) use no symmetry. Users who differ in the sets they belong
to are not permuted, and the roles of `accounts` are numbers that the code
orders.

## 4. Fairness and liveness

Two modules have fairness, and two properties need it.

`OtpLogin`: `WF_vars(Tick)`, since Redis lets keys expire whether or not anybody asks,
and `WF_vars(Continue(r))` for each request, since a request once begun is driven by
the event loop to its answer or its failure. Nothing is assumed of the people: that a
request *begins* is not fair. Under these `RateLimitLifts` says that a phone that has
reached its limit becomes free again. It is not obvious: requests that passed the check
before the limit was reached still count afterwards and set the counter's expiry anew
(`auth_service.py:170`), but only as many as are open, and no new one passes.

`Accounts`: `WF_accountVars(Tick)` alone, since the monotonic clock that entries of the
cache are compared with advances by itself. `SuspensionTakesEffect` says that every
instance forgets a user who stays suspended, unless reads find the entry there again
and again. The exception is the code's: a hit writes the entry anew with its full
`AUTH_USER_CACHE_TTL_SECONDS` (`dependencies.py:163`), so that reads less than 30
seconds apart, at one instance, are served for as long as they go on, suspension or
not. `SuspendedNotTakenUp` adds that they do not spread to another instance.

Everywhere else every step is a request that a person may or may not make, and the
repository has no timer, worker or retry that would make one happen: no fairness
condition is justified by the code. That nobody waits unaware is stated as a safety
property instead (`TurnHandedOverIsAnnounced`).

## 5. What is proved

All theorems hold for any sets and bounds that satisfy the assumptions of the module
they are about; TLC evaluates these assumptions in every run. They say that NULL is
no value or row (which TLC's model values make true, and the code's `None` is), that
bounds and lifetimes are numbers, and that sets that are counted are finite.

**`VisitNegotiationProofs`**: `TypeCorrect`, `TurnCorrect` (`TurnIsOtherSides`),
`OneOpenProposal` (`OnlyCurrentIsOpen`), `AppointmentCorrect`
(`AppointmentIsAccepted`), `HistoryCorrect` (`StatusReflectsHistory`), `SidesCorrect`
(`TenantNeverActsAsStaff`), `TrackerCorrect` (`TrackerFollowsVisit`),
`ApprovalCorrect` (`ApprovedHasAgreement`); steps: `SettledForGood`,
`ConfirmationIsMutual`, `TrackerNotMovedBack`, `TurnsAreAnnounced`.

None of these is inductive. Reject and accept look at no status, so that a rejected
visit stays rejected rests on its proposal being answered, and that rests on what
propose, reschedule and cancel leave behind. The inductive invariant `IInv` therefore
ties each visit row to the row of its current proposal (`Consistent`): which responses
the proposal can have in each status, whose turn goes with whose proposal, and what
appointment and result are recorded. It is preserved because a request changes one
visit, its current proposal and at most one fresh proposal (`OneVisitStep`,
`OfOneVisit`, `AnswerStep`), and one lemma per action shows the changed pair consistent
again. `TenantNeverActsAsStaff` is strengthened separately (`SidesInv`), and so are the
properties of the tracker (`TrackInv`: where each row's links point, and that every
visit and agreement has a row that knows of it). The step properties follow from the
invariants in the state before the step.

**`LeaseActivationProofs`**: `TypeCorrect`, `GateCorrect`, `TrackerCorrect`
(`TrackerTellsTruth`), `LastApprovalCorrect`, `AdvancesCorrect`, `OneToSignCorrect`,
`ActivationPaid`. The invariant `TablesTrue` relates the three tables: each state and
gate of a tracker row to the agreement it points at, each status of an agreement to
its signatures and its advance, each advance to the one agreement that owes it. It
takes the tables as parameters, so that a lemma speaks of before and after a step alike.

**`OnboardingProofs`**: `Implements` (`VisitNegotiation` implements `Appointment`, by
one lemma per action: what it does to phase, offer and meeting of one visit, and to
none of the others). For the composition: `LeasesImplemented` and
`AppointmentsImplemented` (it implements both), `AppointmentsKept`, `TrackersFollow`,
`ApprovalsKept`, `ApprovalsFirst` (`AgreementsFollowApprovals`) and
`TrackersNotMovedBack`: every property of the run `onboarding`.

The properties of the parts are properties of the whole as well, which no run
checks: `VisitsKept` (the four invariants of the run `visits`), `SettledKept`,
`ConfirmationsKept`, `AnnouncementsKept`, `LeasesKept` (the invariants of the run
`lease`, as those of the instance `Lease`) and `ActivationsPaid`. What only the
whole can say is `NobodyUnseen`: whoever has an agreement, or the advance gate open,
was approved after a visit.

The invariant `OnboardingInv` is the conjunction of those of the two parts with three
that only the whole has: active roles are held, visits belong to tenants, and nobody
has more agreements than approvals. A visit request is a `VisitStep` (`VisitsRefine`),
so that the lease part is kept by `LeaseActivationProofs`; a lease request keeps the
links of the shared rows (`LeaseLinks`), so that the visit part is. Both modules of
leases are instances of the same definitions (`SameLeases`, `SameLeaseProperties` and
the lemmas before them say so). For the steps, a step of the whole is either one of the
visits or leaves visits and proposals alone (`OnboardingStep`), and a lease request is
a lease step whatever the visits do.

**`RentCycleProofs`**: `BilledCorrect`, `NobodyForgotten` (of runs that reach the end of
their list). The records
of a month and those open runs are still to commit are together no more than the runs
there can be (`BillsBounded`, over the finite set of runs): a run adds one only where it
sees none, hence before anybody has committed one. Whom a run has dealt with has a
record it can see (`DealtWith`).

**`ListingsAndJobsProofs`**: `PublishedCorrect`, `FoundCorrect`, `PaidForCorrect`. The
invariant says of every open request what its pending changes may do to whatever row
they will meet (`RequestHolds`): details are only ever added, and one that publishes has
found them all, and one that sets a tenant occupies the home or finds it occupied
unless it was overtaken. For jobs, `JobTypeCorrect`, `ClosedCorrect` and `ReportsCorrect`.
`ClosedIsDated` is not inductive: a request that finds the job completed and
completes it again writes no status, only a time, and one that reopens a completed job
keeps the time. `JobInv` adds what each open request knows (`WritesTrue`): it has found
its row, it brings the date of what it closes, and, unless overtaken, its report is by
whoever is assigned.

**`OtpLoginProofs`**: `RateCorrect`: the count and the requests that have
passed the check but are not counted yet stay below the limit plus the requests there
can be (`RateInv`). `CodesCorrect`: the uses of a code and the requests that have read
it and are about to use it are together no more than the requests there can be
(`CodesBounded`), since a code that is stored has not been used yet
(`StoredIsFresh`): using it and deleting it are one call.

**`TokenRotationProofs`**: `LogoutHolds`: whatever the settings are, the key of a token
that was logged out lives on until the token has no more left than its life exceeds the
key's (`KeyOutlives`). `LogoutIsFinal`: with a setting that is no longer than the
constant, as is the default, this is the whole life of the token
(`LoggedOutForGood`). `ExchangeHolds`: the mark of an exchanged token outlives it, from
the moment it is set, which is before the exchange (`MarkOutlives`).

**`RolesProofs`**: `GrantsCorrect`: an open replacement that nobody overtook has deleted
all the role was granted (`DeletesAll`), so that what is granted was asked for by it or
by those it overlapped with (`GrantedWasAsked`); what the last one asked for is there
while it exists (`WantedIsGranted`), since ids are never used again. For accounts, `AccountTypeCorrect`, `ActiveRoleCorrect`,
`RoleKept` and `SuspensionSpreadsNot`. That the active role is held does not follow from
itself, since both requests write one table from what they have read of the other.
`RolesInv` says what they rely on: a switch that nobody overtook is to a role held
(`SwitchesToHeld`), a replacement that nobody overtook deletes all there is and has
loaded the active role as it is (`AssignsOnTruth`), and no replacement is by nothing
(`RolesChosen`), whose least element is then one of the new roles (`FirstIsOne`).
`SuspensionSpreadsNot` needs types only, but of every action: each entry of a cache and each
row about to become one comes from what already served.

## 6. Where texts and code disagree

Two runs are expected to fail, and do:

* *"Block duplicate active requests"* (`visit_request_service.py:72`): a cancelled
  request can be accepted, next to a newer one (run `visit_duplicate`).
* *"so the discovery screen can never accidentally surface occupied or draft homes"*
  (`api/v1/properties.py:65-67`): one `PATCH` of a let home with occupancy `vacant`
  leaves its tenant in place and has search offer the home (run `property_found`,
  `NeverSurfacesOccupied`). Drafts are never offered. What the run `property` passes,
  `FoundIsVacant`, excuses such an update, and an overtaken request that writes the
  tenant and not the occupancy; it says that nothing else leads there.

TLC refutes more sentences when the definition is checked in place of the properties
of the run named here; they are kept beside the model for the reader who wants the
trace, and the passing properties state what holds instead:

| sentence | definition, run | what happens | what holds |
|---|---|---|---|
| *"Both sides are now agreed"* (`visit_request_service.py:232`) | `BothSidesAgreed`, `visits` | after a cancellation the proposer can accept the own proposal | `ConfirmedByOtherSide`: no other confirmation is like that |
| *"An active or pending agreement already exists"* (`agreement_service.py:162`) | `NoSecondAgreement`, `onboarding` | an agreement that awaits its advance is not counted | `AgreementsFollowApprovals`, `OneAgreementToSign` |
| *"Remove the current tenant first"* (`property_service.py:262`) | `TenantIsRemovedFirst`, `lease` with a second tenant and no documents | activation replaces the tenant | `ActivationIsPaid` |
| *"close the occupancy history record"* (`property_service.py:305`) | `OneRecordToClose`, likewise | after such a replacement there can be two, and removal fails | - |
| *"Rate-limited to 5 requests per phone per hour"* (`auth_service.py:155`) | `RateLimitKept`, `otp` | the counter is read long before it is incremented: requests that overlap pass the limit together | `RateBounded`: each of them by one; `RateLimitLifts` |
| *"The token remains invalid until it naturally expires"* (`auth_service.py:321`, and `:39` "match access token expiry") | `LoggedOutForGood`, `tokens` | the key lives 900 seconds, a constant, the token `JWT_ACCESS_EXPIRE_MINUTES`, a setting: set to more than 15, a logged-out token passes again when its key is gone | `LoggedOutStaysOut`; with a setting of at most 15 the sentence is true (`LogoutIsFinal`) |
| *"Check if rent record already exists for this agreement and month"* (`rent_cycle_service.py:40`) | `BilledOnce`, `rent` | two runs that overlap both find none and bill the tenant twice; every later run of the month then raises at that tenant and bills none of those after it | `BilledByOverlapOnly`, `NobodyIsForgotten` of runs that reach their end |

What the code allows and a reader might not expect, without a text against it:

* An instance serves the reads of a suspended user for as long as they come less than
  30 seconds apart (`dependencies.py:163`, section 4).
* With Redis failing a logged-out token passes ("Redis is optional in degraded mode",
  `dependencies.py:128`); `LoggedOutStaysOut` speaks of checks that Redis answers.
* One refresh token presented twice at once yields two pairs, and one code used twice at
  once two logins; later requests are refused (`ExchangedStaysUsed`,
  `RedeemedByOverlapOnly`).
* A paid advance can be rejected after it has activated the agreement
  (`payment_service.py:206`); a tenant who signs first leaves the owner no way to sign
  (`agreement_service.py:254`); a booking after activation sets the tracker back to
  `VISIT_REQUESTED` (`onboarding_workflow_service.py:32`).
* `set_user_roles` racing with `switch_role` leaves an active role that is not assigned
  until the next such request (`raced` of `Accounts`); two replacements of a role's
  grants that overlap leave the union (`asked` of `Permissions`).
* A reopened job keeps its completion date; a report overtaken by a reassignment is
  stored for the former assignee.

Seen on the way, without a definition: "blacklist all tokens" (`auth_service.py:290`)
only raises; "Soft-delete" of a property (`property_service.py`) is a hard delete; rent
notifications carry no payment id, which is read before the flush that sets it
(`rent_cycle_service.py:74`).

## 7. Only model-checked

`RateLimitLifts` and `SuspensionTakesEffect`, as liveness is out of the prover's reach
(so is ENABLED, and induction over recursively defined operators, of which no module
has one), and what section 6 says is refuted. Every other property of a passing run is
proved.

## 8. Not modelled

* Two requests that are open on the same visit, tracker or agreement at once: what
  holds there holds of requests that do not cross. The hazards that need it are listed
  with that note.
* The calendar: its router is not mounted, and two of its calls pass arguments the
  callee does not take, so there is no behaviour to model.
* KYC, inspections, messages (independent inserts and updates of single columns),
  storage, PDF and SMS (outside services; that a text message fails is in `OtpLogin`),
  dashboards (reads only), the application shell.
* Contents of messages, documents, agreements and notifications; amounts; filters and
  paging; profile updates; the owner of the property, which does not change here, and
  the roles users hold, which only `Accounts` changes.

## 9. Plan

1. `VisitRace`: two sessions that load, decide and commit separately on one visit, over
   `VisitRules` and `OnboardingRules`: duplicate active visits, duplicate tracker rows,
   a confirmed visit with an open proposal. The same for two signatures at once.
2. Owner change and its effect on who may complete and sign.
3. Further statements about leases, to be checked and then proved: which of two
   advances a replaced tenant still owes, and whether an activated row is reopened by
   anything but a booking.
