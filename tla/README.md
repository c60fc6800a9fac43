# Towerdesk backend: TLA+ models and proofs

Towerdesk is a multi-tenant property-management backend: NestJS handlers over
PostgreSQL through Prisma, an in-process event emitter, and a Socket.IO gateway
for notifications. This directory holds TLA+ modules that model its stateful
parts, TLC configurations that check them on small instances, and TLAPS proofs.
Paths below are relative to the repository root.

Run everything from this directory:

    tlc -config requests.cfg MCMaintenanceRequests
    tlapm MaintenanceRequestsProofs.tla

## 1. Inventory

Every handler is an async function of one Node.js process; several calls (and
several processes) run at once and meet only in the database. Transactions run
at READ COMMITTED, PostgreSQL's default, and Prisma's `update`, `create` and
`findFirst` take no lock on what they read. The one explicit lock in the code is
`SELECT ... FOR UPDATE` on the unit during provisioning.

| Component | State | Operations | Interacts with | Hard part | Correct when |
|---|---|---|---|---|---|
| Building access (`src/common/building-access`, guards) | none of its own; reads assignments, occupancies, permissions | read / write decision, assignment type | every building-scoped controller | several assignments per user; permissions not tied to a building | a caller acts only inside their organisation and role |
| Maintenance requests | request rows, comments, attachments | create, edit, cancel (two sides), assign, status, comment (two sides), attach | building access, occupancies (who may create), events | read-then-update by id, no lock; events after commit | the workflow OPEN, ASSIGNED, IN_PROGRESS, COMPLETED / CANCELED is respected |
| Notifications: dispatch | notification rows | one listener per event, recipient resolution, insert per recipient, publish | request events, assignments, roles | not in the request's transaction; row by row; crash in between | every event reaches the right people once |
| Notifications: inbox | `readAt`, `dismissedAt` | list (keyset pages), mark read, mark all, dismiss, undismiss, count | gateway | concurrent marks; events published after the fact | read state never lost, pages never repeat |
| Notifications: gateway | rooms, connection count | connect, disconnect, publish | auth token validation | disconnect while connecting; initial count against live events | a client converges to the database |
| Occupancies | occupancy rows | create, resident onboarding, provisioning (MOVE) | units, users, requests | three writers, one of which locks the unit | one ACTIVE occupancy per unit |
| User provisioning and accounts | users, roles, assignments | provision, create in org, create org admin, assign to building | roles, occupancies | check-then-insert; several writes without a transaction | one account per email; all or nothing |
| Auth sessions | password and refresh-token hashes | register, login, refresh, change password | users | two refreshes with one token; refresh after a password change | a refresh token is used once |
| Access control | role permissions, user roles, overrides | replace / add sets, effective permissions | permissions guard | concurrent replaces; the effective set is read by three queries | the effective set is roles plus allows minus denies |
| Route guards and routes | none of their own; read account, roles, assignments, occupancies | JWT, organisation, permissions, building and platform guards, as each route declares them | every controller | each guard reads when its turn comes; many declarations and a seed list that nothing compares | nobody is let in without a right, nobody who kept one is refused |
| Units and amenities | units, amenity links | create, update, count vacant | occupancies | amenity set replaced without a lock | the links are one client's list |
| Buildings, unit types, owners, org profile | single rows | create, list, update | - | unique constraints | single-row writes |
| Platform organisations | orgs, first admin | create org, create admin | users, roles | admin creation is two commits | an admin has the admin role |
| Request metrics | bounded bucket of durations | record, flush | interceptor | percentile index, full bucket | the percentile is a recorded value of the newest samples |
| Seed | permissions, roles, an organisation, two accounts, a building | one script of upserts and look-ups | access control, accounts | no transaction, no unique key for organisation and building; re-run on a used database | a run that ends mends what others left; nothing is seeded twice |
| Infrastructure (storage, queue, logger, health, Prisma, config, filters, throttle) | none | I/O | - | - | - |

Hazards of each part, with the line where they bite, are in `PROJECT.json`.

## 2. Modules and the code they model

### Conventions

- A call in flight is a record (`txn[h]`, `call[h]`, `edit[h]`) of a handler `h`; `pc`
  says how far it got. The number of handlers is the number of calls that may overlap.
- A transaction holds what it has locked until it ends: rows, and the entries of unique
  indexes it has written. `Waits(h, g)` says that the next statement of `h` needs what `g`
  holds; deadlocks are circles of it.
- A step is what no other transaction can observe half done: a read with the
  checks on it, a write, a commit. A call the code refuses changes nothing and is
  left out; a call refused after it has taken a lock is a step.
- Users, units, requests, texts are model values. Timestamps are kept only as
  "set or not".
- A definition whose comment says *mutant of X* is a plausible bug of X. No module
  uses it; `PROJECT.json` pairs it with the property that must catch it.
- Every module states its types (`TypeOK`; where one module of proofs is about two
  components, the second has `GatewayTypeOK`, `UnitsTypeOK`, `SeedTypeOK`). Where TLAPS
  proves them the runs do not check them again; in the other modules they document the
  variables, and hold when they are added to the invariants of the run. The same goes for the weaker properties that
  only theorems are about (section 4).

### `BuildingAccess` (no state)

`src/src/common/building-access/building-access.service.ts` as operators over
constant relations: `Assignments` (rows of BuildingAssignment), `Occupied` (buildings
a user has an ACTIVE occupancy in), `Permitted` (effective permissions).
`GetBuildingAssignmentType` keeps the strongest of several assignments;
`CanReadBuildingResource` and `CanWriteBuildingResource` are the two decisions.
The relations are constant because no handler of the API deletes an assignment;
occupancies change only in `Occupancy`.

### `MaintenanceRequests`, `RequestWorkflow`

`src/src/modules/maintenance-requests/maintenance-requests.service.ts`.

| TLA+ | Code |
|---|---|
| `row[r]` | the MaintenanceRequest row: status, building, creator, assignee, whether completedAt / canceledAt are set, title and description |
| `comments[r]`, `attachments[r]` | which side has commented, whether the building attached files |
| `txn[h]` | the call: operation, caller, body, the row as read (`seen`) |
| `Inactive` | the accounts that are switched off: they make no calls and are given no work (`MayWork`) |
| `announced[r]` | the status in the last event subscribers received |
| `history[r]` | every status the row was committed with (auxiliary, read by properties only) |
| `Check...` | the reads and guards of a handler, from its first query to its last `throw` |
| `Commit...`, `UpdateById`, `Insert` | the UPDATE by id alone, or the INSERT, and the commit |
| `EmitEvent`, `Respond` | `emitEvent` after the commit; handlers that emit nothing |
| `Crash` | the process dies: calls vanish, the database stays |

`RequestWorkflow` is what the documentation promises: OPEN, ASSIGNED (with an
assignee), IN_PROGRESS, COMPLETED, or CANCELED from any of the first three, nothing
else. `ImplementsWorkflow` is its specification with status and assignee read off
the rows.

### `Occupancy`

`occupancies.repo.ts`, `residents.service.ts`, the resident grant of
`org-users-provision.service.ts`, and `createResidentRequest` as a reader.

| TLA+ | Code |
|---|---|
| `accounts` | users with a User row (the email is unique) |
| `occupancy[i]` | Occupancy rows: resident, unit, status |
| `lock[n]` | the transaction that holds `SELECT ... FOR UPDATE` on unit n |
| `txn[h].fresh`, `.reuse`, `.ends` | the account is new; `existingForUserUnit`; the rows `updateMany` has matched |
| `FindVacant`, `CreateActive` | the two statements of `createActiveIfVacant` |
| `FindVacant`, `CreateUser`, `Onboard` | the statements of `onboard` |
| `CreateUser`, `LockUnit`, `FindExistingForUnit`, `FindOthers`, `EndOthers`, `CommitProvision` | `provision` with a resident grant, and `applyResidentGrant`, in order |
| `HoldsEmail`, `WaitsForEmail` | the unique index on the email: a second insert waits for the first transaction, then fails |
| `WaitsForUnit`, `WaitsForRows` | the lock on the unit; the rows that two MOVEs of one user both want to end |
| `Abort` | crash, lost connection, Prisma's transaction timeout |

Locking follows PostgreSQL: FOR UPDATE excludes FOR UPDATE, and the KEY SHARE lock
the foreign key of an inserted occupancy or request takes on its unit excludes
FOR UPDATE but not another KEY SHARE. The last insert of a transaction and its
commit are one step, because what is between them is invisible to every other
transaction and anyone who needs a lock it holds waits. A call therefore holds the email
while it waits for the unit, and a MOVE the unit while it waits for rows. Two updates of
the same rows find them in the same order, so the rows of one MOVE are locked in one
step. The role that onboarding gives is one more insert that nothing here reads, and is
left out, as are inactive accounts, to which `create` gives no occupancy.

### `NotificationDispatch`, `Announcement`

`notifications.listener.ts`, `notification-recipient.resolver.ts`, `createForUsers` in
`notifications.service.ts` and its repository.

| TLA+ | Code |
|---|---|
| `status`, `worker` | the request, which moves by the steps of `RequestWorkflow` (`Commit`) |
| `managers`, `admins` | assignments and admin roles, which change between the queries |
| `event[e]` | the payload: the row as the handler saw it, actor, type |
| `pc[e]` | `emitted` before the first query, `fallback` before the second, `writing` while rows are inserted |
| `FindManagers`, `FindOrgAdmins` | the recipients of the building, and those of the organisation if there are none |
| `FinalizeRecipients` | deduplication and the removal of the actor, who is kept if nobody else is left |
| `InsertRow`, `PublishAll` | one INSERT per recipient, each committed on its own; publications after the last |
| `Fail`, `Crash` | a query fails and the listener's `catch` ends it; the process dies |

`Announcement` is what a listener promises, without saying who or how: an event is
opened, stored for people one by one, shown to exactly those, or dropped and shown to
nobody. `ImplementsAnnouncement` maps its three variables to `pc`, `rows` and `shown`.

### `NotificationInbox`, `NotificationPages`

`notifications.service.ts` and `notifications.repo.ts`. A call is the look-up
(`FindByIdForUser`), the UPDATE with its guard (`MarkRead`, `MarkAllRead`,
`MarkDismissed`, `ClearDismissed`) and the publication (`PublishToUser`), with others
in between. `readAt` and `dismissedAt` hold the call that stamped them, which is what
tells two timestamps apart; `hidden` is what the recipient's clients were last told to
hide. `NotificationPages` adds a client that walks through `listForUser` page by page:
the cursor is a time and an id (`EncodeCursor`), a page is the first rows after it
(`AfterCursor`, `Take`), and rows are added and marked meanwhile.

### `RealtimeGateway`

`notifications.gateway.ts`, `notifications-realtime.service.ts` and the token check they
use. `handleConnection` is cut at each await: `FindUser`, `GetRoleKeys`, `Join` (room
and counter), `CountUnread`, `Hello`. `sock[s].data` is `client.data`, by which
`HandleDisconnect` knows whether to count down; `open` is the transport. A client may
leave at any of these points and the handler carries on. Around it notifications are
stored, published or given up, accounts are linked and lose roles, and the process
restarts.

### `AuthSessions`

`auth.service.ts`. An account is its two hashes, modelled by what they are the hash of.
A call reads the row and decides (`Login`, `Refresh`, `ChangePassword`, `Register`),
signs (`IssueTokens`, at the present second), stores the token (`SaveRefreshToken`) and
answers. A refresh token is its subject and its second, as in the code: nothing else
goes into it.

### `Provisioning`

`org-users-provision.service.ts` (whose resident grant is in `Occupancy`),
`users.service.ts`, `platform-orgs.service.ts`, `building-assignments.service.ts`, and
the registration of `auth.service.ts` as it meets them. `org[e]`, `roles[e]` and
`assigned[e]` are the rows of the account with email `e`; `Lower` is the lower-case
form.

| TLA+ | Code |
|---|---|
| `AssertManagerProvisioningAllowed`, `FindTarget`, `LinkUser` or `CreateUser` | `provision` up to its user |
| `ApplyOrgRoles`, `UpsertAssignment` (once for each grant), `EnsureAdminRole`, `Commit` | its grants, in order |
| `CreateOrgAdmin`, `CreateAssignment`, then `GrantRole` | the two calls that commit twice |
| `call[h].locks`, `Needs(h)` | entries of unique indexes that the transaction has written; those its next statement writes |
| `AbortDeadlock` | PostgreSQL ends one of two transactions that wait for each other |
| `first` | history: the rows at the start, and who is inactive |

A role that is there already is skipped by its `createMany` and locks nothing; an
assignment that is there is updated, and locked. Circles of more than two calls are not
broken here: the database would abort one of them too.

### `AccessControl`

`roles.service.ts`, `user-access.service.ts`, `access-control.service.ts` and their
repository. A row is a link and who wrote it, since a row inserted again is another row
to a DELETE that waited. `Begin` takes the snapshot, `DeleteSeen` and `InsertNext` wait
as PostgreSQL does, `Commit` publishes; `ReadRoles`, `ReadRolePermissions` and
`ReadOverrides` are the three queries of `getUserAccess`, and `Overridden` what
`getUserEffectivePermissions` makes of them.

### `RouteTable`, `SeedData`, `RouteAccess`

`RouteTable` is the table of all controllers: method, path, guards in their order,
permissions, building level and flags of every route, as the decorators declare them.
`SeedData` is the permissions and roles of `prisma/seed.ts`. `RouteAccess` runs the
guards of a route one query at a time (`Validate`, `CheckRoleKeys`, `OrgScope`,
`CheckPermissions`, `EnterBuilding`, `CheckAssignment`, `CheckOccupancy`,
`EnterPlatform`, `CheckPlatformPermissions`) while accounts, roles, assignments and homes
change. `seen` and `kept` are history: the rights the caller had at some moment, and at
every moment, since the request came in. What a route ought to require is not taken from its
decorators: `Documented` is the list of `docs/API.md` ("Requires ...", transcribed in
`MCRouteAccess`), and where that says nothing, what is declared. `Unlike` names the two
routes that are declared unlike the documentation, and are in no passing property.

### `UnitAmenities`

`units.service.ts`, `building-amenities.service.ts`. What a call looks up before its
transaction (`GetDefaultAmenityIds`, `AssertAmenityIds`), the write of the unit, which
locks its row and its label if a column is named (`WriteUnit`), the replacement of its
links (`SnapshotLinks`, `DeleteLinks`, `InsertLinks`), the commit; `UpdateAmenity`
switches an amenity meanwhile, and `CountVacant` asks its two queries.

### `RequestMetrics`

`request-metrics.interceptor.ts` and `request-metrics.service.ts`: `samples[r]` is the
bucket, `Recent` the shift at its limit, `Flush` the report with `Percentiles`, which
takes the sorted sample at `Position`. `finished` is the history of durations that the
report is compared with.

### `Seed`

`main` of `prisma/seed.ts`, statement by statement and without a transaction. `rows` are
the rows that have a unique key, `orgs` and `halls` those that are looked for by name.
Between the statements the database is in use: `Revoke`, `Rename`, `ChangePassword`.

## 3. Runs

Each MC module has a variable `scenario`, chosen in the initial state and never
changed, and restricts the steps of its component to that scenario. A property that is
meant for one scenario names it, and is defined in the MC module; every other property
is checked in all scenarios of the run.

Three runs hold two components each, or three, that are about one subject and share no
state: either the one moves or the other.

| Run | Scenarios | Questions |
|---|---|---|
| `requests` | `serial`: one call at a time, 6 users (one inactive) of 2 organisations, 2 buildings, 1 request, documented bodies. `documented`: 2 overlapping calls of 3 users. `any`: the same with any body and crashes | in turn: is the workflow implemented, is the last event current; overlapping: what of progress, stamps, assignees, events survives |
| `occupancy` | `serial`: 3 people, 3 units of 2 buildings, 3 rows. `overlap`: 2 people, 2 units, 3 rows, 2 calls. `locked`: the same, with the calls that lock the unit | in turn: is a request filed from a home; overlapping: is a newcomer housed, who ends whose occupancy, does anybody wait in a circle, does every call end; locked: is a unit exclusive |
| `occupancy_double` | as `occupancy` | is a unit exclusive whoever writes? It is not |
| `occupancy_moves` | the same, MOVEs only | does a MOVE leave one home in the building? Two overlapping ones leave two |
| `notify` | `life`: up to four events of one request, in turn, no faults. `pair`: two events of any kind at once, with failing queries and a crash. `sockets`, the gateway: one socket, two kinds of user, 2 notifications (`rooms`); 3 sockets (`crowd`); 3 sockets that wait for their greeting (`patient`) | who is told, when is the actor, is an event shown to all or none (`Announcement`); does a notification fall between count and room, is the counter right |
| `inbox` | `any`: 3 overlapping calls of 2 users. `noundo`: without undismiss. `serial`: 3 calls in turn. `walk`: pages of 1 or 2 over 3 rows of 2 times while rows are added and marked | does a first reading stand, are clients told what is true, do pages skip anything |
| `auth` | `overlap`: 3 calls within two seconds, a free email too. `serial`: calls in turn over four seconds, no two signing in one second | in turn: is a token used once, does a change need the credentials |
| `provisioning` | `spellings`, `links`, `managers`, `admins`, `opposite`: 3 calls, two at a time (`links`: one at a time; `managers`, `admins`: none fails) | are assignments within the organisation, has an address one account, what do managers pass on, are administrators whole, who waits for whom |
| `provisioning_race` | `links`, with calls that overlap | are assignments within the organisation whoever links? They are not |
| `links` | access control, `overlap`: 3 changes and a check, which may fail. `serial`: in turn, with differing lists. `opposite`: the same rows in opposite orders. Units, `overlap`: 3 calls and the switching of an amenity. `locked`: 3 updates that name a column. `count`: a creation, letting, 2 counts | is what all ask for ever missing, is what all deny ever found, is a change seen whole; are amenities within the building, columns merged, links replaced exactly under the lock |
| `routes` | `all`: every route, 4 roles, 1 change. `kinds`: a route of each kind, 3 roles, 2 changes. `metrics`: 2 requests, 4 samples kept, 5 between reports. `seed`: 3 runs in turn and a renaming, or 2 runs at once | is everybody admitted by a right that is documented, and nobody refused who kept one; are percentiles right; is the seed whole and single |
| `routes_users` | as `routes` | do the routes of `users` require what is documented? Two do not |

Why the bounds are enough. A race needs one call between the read and the write of
another, so two calls show every pairwise race; three are used where a lock queue, or
the winner of a race, meets a further call. Requests, units and accounts other than
those that meet do not interact. Two units of one building and one of another tell
apart every case of MOVE; two organisations every case of tenancy; two times with two
rows in one of them every case of a cursor; two changes are one before and one after
any query of a guard. `Room` in `Occupancy` keeps a free row for every call in flight,
so the bound on rows never blocks a call that has begun.

Bounds with a name: `MaxOverlap` (calls in flight), `MaxEvents`, `MaxInFlight`, `MaxTime`
(the clock), `MaxRestarts`, `MaxChanges` (of the world during the life of a system),
`MaxRenames` with `OrgIds` (ids the database will give), `MaxFinished`, `MayFail` and
`MayCrash`. That TLC finds no state without a successor is checked in `requests` and `routes`
(where the seed, a script, may stop); the other instances stop when
their calls, rows or time are used up. Handlers, runs, and rows are interchangeable:
`requests`, `links` and `routes` use symmetry sets (of handlers, of edits, of runs of the
seed), and the run with a liveness property takes rows in a fixed order instead.

Fairness. `CallsEnd` in `occupancy` assumes strong fairness of the statements of each
call: a Node.js process keeps running its callbacks, and PostgreSQL queues the waiters of a
lock, so a waiter is not passed over for ever. Nothing is assumed of clients, and nothing
of `Abort`: a call that only a timeout or the deadlock breaker could end would not end in
the model. In `provisioning` there are deadlocks, which the database breaks; there the
property is who can be in one (`OnlyOppositesDeadlock`), and no fairness is needed.

### What does not hold

Properties named for a scenario are false outside it: remove the scenario from the
property and TLC finds the behaviour. The code also allows, and the models with it:

- Overlapping calls take a request out of COMPLETED or CANCELED (the transition table and
  docs/API.md say no), leave both timestamps set, edit a request that has just been
  assigned, and let STAFF act on a request just given to another, since a row that was
  read earlier is updated by its id. So `SerialWorkflow` is of calls in turn.
- With bodies beyond the documented ones the status endpoint takes an OPEN request to
  ASSIGNED with nobody assigned (`DocumentedWorkHasAssignee`).
- Writers that do not lock the unit give it two ACTIVE occupancies
  (`occupancy_double`, against Instructions/Phase4.md:66), and two overlapping MOVEs of one
  user leave two homes in one building (`occupancy_moves`, against docs/API.md:153), or, if
  the user lived in both, none.
- A request may be filed for the unit its author has just left: `FiledFromHome` is of calls
  in turn, and its theorem of calls that overlap no MOVE.
- A retry of a provisioning call that comes while the first is in flight is refused, though
  docs/API.md:126 calls provisioning idempotent.
- Two provisioning calls that list one user's assignments in opposite orders, or of which
  one names the role `admin` and the other brings it, may deadlock and lose one of them.
- A notification is not part of the transaction of its request: a crash or a failing
  query between them loses it (`Announcement` allows an event to be dropped); an
  actor who is the only recipient is told of their own action (`ActorOnlyAlone`).
- Two overlapping calls publish a reading with a time that was not stored, and a dismissal and its undoing may be published in the order
  opposite to their writes (`SerialSync`).
- A client that leaves during its handshake is counted for good
  (`PatientCountIsExact`); a notification may be both counted in the greeting and
  published after it.
- Two overlapping refreshes with one token both succeed, and so do two in turn within
  one second (`SerialRotation`); a login under way survives a change of the password
  (`CurrentCredentials`).
- Two organisations that link an unattached account at once both succeed, and the
  assignment of the first stays with a user of the second (`provisioning_race`, against
  Instructions/Phase4.md:11); a failure between the two commits leaves an administrator
  without the role (`AdminsAreWhole`, asked where no call fails; Instructions/Phase2.md:13).
- Two overlapping replacements of one list leave the union of both, or ALLOW where the later
  asked for DENY (`ReplacedExactly` is of updates that lock the unit, against
  Instructions/Amenity.md:68); a check during which two changes commit may mix them; and a
  default amenity that is switched off between two look-ups refuses the creation of a unit.
- GET `/users/me` and GET `/users/:id` declare no permission, where docs/API.md:93 and :102
  require `users.read` (`routes_users`).
- A caller who exchanges one right for another between the queries of a guard may be refused.

The documents of the repository contradict each other about managers. README.md:173-175
lets only a BUILDING_ADMIN write without a permission, README.md:188 wants `residents.write`
of a manager who onboards residents, and README.md:236 `requests.assign` and
`requests.update_status` of one who assigns requests or updates their status. docs/API.md:17
has endpoints on which managers may write, and names them: units (:241), assignments (:341),
residents (:368), the assignment of requests (:423) and their status (:430). The controllers do what
docs/API.md says (`@BuildingWriteAccess(true)`, and `@BuildingReadAccess` for the status), and
so does `RouteTable`: an assignment that a route admits counts as a right in
`AdmittedByRight`, which is therefore not evidence for README.md:173-175, :188 or :236.

## 4. Proofs

Every theorem below is checked by TLAPS for any number of users, buildings, units,
requests, routes and overlapping calls. The assumptions are the ASSUMEs of the modules
(null values are not members of the sets they stand beside, `StatusBodies` is a set
of statuses, ...), and where a theorem says so an assumption of its own: about a constant
(`ASSUME ... PROVE`), or about how calls meet (`[]OneAtATime` beside `Spec`), for a
property the code keeps only then (section 3). So that no such assumption is an empty
one, a last theorem shows that the scenario the run checks satisfies it, and states the
very property of the run; TLC evaluates `ScenariosAreSound` and `ControllersTable`, the
assumptions on constants, on each run.

`MaintenanceRequestsProofs`. `TypeOK` alone is not inductive for anything
interesting: `UpdateById` writes the row whatever its present status is, so each
property needs to know what a handler had read. The invariant `IInv` therefore ties
`txn[h]` to `history`: the status a handler has seen was once committed, and the
status it is about to write is one the table allows from there. From it follow
`TypeCorrect`, `ProgressIsOrdered`, `RequestsAreNeverReopened`,
`ClosedRequestsAreStamped`, `EventsTellTheTruth`, `AssigneesAreStaff` and
`TenantsAreIsolated`, for any set of permissions. With the documented bodies
(`BodiesAreDocumented`) and any overlap `AssigneeIsKept` is inductive too and gives
`WorkIsAssigned`. If handlers do not overlap (`OneAtATime`), what a handler has read is
current when it writes (`ReadIsCurrent`): then the last event tells what the row holds
(`SubscribersAreCurrent`, by `EventsCatchUp`; here no handler crashes), and, with the
documented bodies, each write maps to one step of `RequestWorkflow` (`WriteMapsToMove`,
`SerialImplementsWorkflow`). Of the run: `DocumentedWorkIsAssigned`,
`SerialSubscribersAreCurrent`, `SerialHandlersFollowWorkflow`.

`OccupancyProofs`. `NobodyDeadlocks` puts the waits in one order: who waits for an email
holds no lock yet, who waits for a unit holds at most an email, who waits for rows holds
its unit and is waited for by nobody who has rows. `IInv` says what a writer relies on between two statements:
who holds which lock (`LockInv`), that a unit found vacant under the lock stays so
(`VacantInv`, which holds even against writers that do not lock, because their
insert waits), that the rows a MOVE is about to end are its user's (`EndsInv`), and
that a filed or reused occupancy has a row (`FileInv`). `LockingWritersExclude` assumes
`OnlyLockingWriters`; `occupancy_double` shows why. `RequestsComeFromHome` assumes only
that no MOVE overlaps the request. Of the run: `LockedScenarioIsExclusive`,
`SerialRequestsComeFromHome`.

`NotificationDispatchProofs`. `EventInv` says that the recipients still to be told and
those already told are together what the resolver returned, and that nothing is shown
before the last is told. It gives `TypeCorrect`, `TenantIsolation`, `ActorExcluded`,
`PromisedAreTold` (though managers are looked up later than the event), `AllOrNothing`,
and the step-by-step `Refinement` of `Announcement`, faults included.

`NotificationInboxProofs`. `CallOK` says whose notification a call has looked up. It gives
`TypeCorrect`, `OwnersMark`, `FirstReadingStands` and `FirstDismissalStands` under any
overlap; `ToldWithoutUndo` if nothing is restored (what a call has found read or
dismissed stays so); `SerialCallsSync` and `SerialReadEvents` for calls in turn; and for the
pages `NoDuplicates` and `Completeness`: `WalkInv` says that whatever matched the filters
throughout is on a page already listed or lies after the cursor. Of the run:
`SerialScenarioSyncs`, `ScenarioToldTruly`.

`RouteAccessProofs`. For any table of routes, the invariant collects at each request the
facts that its passed guards have established (`Facts`), what the query under way has
established already (`Pending`), and that the rights of the present are among those of
the history (`Current`). Under `TableIsGuarded` (a route that names permissions has a guard
that reads them, one with a building level the guard of the building) it gives
`OnlyInOwnOrg`, and with `TableIsDocumented` (but for the `Unlike` ones, each declares at least
what is documented) `OnlyByRight`. The converse, `KeepingARightSuffices`, assumes
`TableIsMatched`: a guard looks only for rights that the route asks for.
Its `KeptInv` says that whatever was kept throughout stands at present, and that a guard
that has gone on to its next query has missed nothing kept. The table of the controllers meets both assumptions.

`AccessControlProofs`. The invariant says that two open transactions have no key in
common (`Apart`), and that whatever a replacement has deleted and asks for is among the
rows it has inserted or will insert (`Restored`). It gives `TypeCorrect`, `AgreedKept` and
`DeniedKept`. `WholeInv` says of a check during which at most one change has committed that
what it has read is what was so before, or is so now; it gives `ChangesAreSeenWhole`.

`AuthSessionsProofs`. `SessionTypes`. `StoredTokenIsHeld`, for any overlap: by `Backed`, a
stored token was answered, or is of a call that is yet to answer, or that failed after
signing. For calls in turn `Current` says that what a call read is still in the row, which
gives `SerialChangesAreEntitled`, whatever the clock does. `SerialRefreshesRotate` needs
that no two calls sign within one second besides, for the token is its subject and its
second; `SpentInv` keeps every token that has bought a pair apart from the one
stored. Of the run: `SerialScenarioRotates`, `SerialScenarioIsEntitled`.

`ProvisioningProofs`. Every step is first put in one of a few normal forms (`StepOf`), and
each invariant is then kept form by form. `MailboxesAreLower`: `AllLower`, if all others
who make accounts use lower case (`LowerCaseElsewhere`: `provision` alone lowers its
addresses). `ReachIsKept` has no assumption: `NoReach` says that what a manager's call is
to grant was checked against buildings managed at first. `AdminsBecomeWhole`:
`AdminsInv`, whoever lacks the role of an administrator is owed it by a call between its
two commits, if none fails there (`NoneFailsHalfway`). `AssignmentsStayInOrg`: `ScopedInv`
and `Excluded`, a call that is to grant has found the account in its organisation, or
holds the lock on its row, or is alone, if no two calls race for an unattached account
(`LinksAlone`). Both take rows at the start that satisfy what is to be kept
(`FirstTablesAreSound`). `DeadlocksAreOpposite` has no assumption either: by `Gathering` a call has locked
what it has written so far, user, roles, grants and role `admin` in that order, so two that wait for each other
write two entries in opposite orders, and those are grants that the lists name so, or the
role. Of the run: `ScenariosAreWhole`.

Three of these modules end with a part about a second component, which they extend too:
the gateway beside the dispatch whose publications it delivers, the amenities of units
beside the other links that overlapping transactions replace, the seed beside the guards
that read what it makes. The definitions of that component carry its name
(`GatewaySpec`, `UnitsSpec`, `SeedSpec`).

`NotificationDispatchProofs`, of `RealtimeGateway`. `RoomBeforeCount`, under any overlap:
by `Told`, whoever has joined and been counted was told of each unread notification of
the room by the count or by an event, or its publication is pending or was given up. The
step that matters is `CountUnread`, which comes after the join; nothing is stored
between the two that is not then published to the room. `PatientClientsAreCounted`:
`CountInv`, the counter is the number of members and only members carry a room, as long
as no client leaves before it has joined (`[]Patient`). Of the run:
`PatientScenarioIsCounted`.

`AccessControlProofs`, of `UnitAmenities`. `LinksStayInTheBuilding` and `UpdatesAreMerged`, under
any overlap: `CallWithin` says that whatever a call has checked, and whatever it has
inserted, is of its unit's building; units and amenities never move, so an unlocked
check is enough for that (not for `active`). `LockingUpdatesReplace`
assumes that whoever writes links also names a column (`[]WritersLock`): then no two
transactions hold one unit's row (`RowsAreLocked`), and what an update deletes and
inserts is all there is (`ReplaceInv`). Of the run: `LockedUpdatesReplace`.

`RouteAccessProofs`, of `Seed`. Both for runs that are not at work at once
(`[]OneAtATime`), wherever they fail. `SerialRunsSeedOnce`: `OnceInv`, at most
one organisation has the name, the others number at most the renamings, and a run about
to create an organisation or a building is right that there is none.
`SerialRunsEndWhole`: `RunsInv`, by the statement a run has reached, everything earlier
statements seed is there, unless the run was disturbed; no row is removed and no account
changes its organisation but by a run's own statement or a disturbance. Of the run:
`ScenarioSeedsOnce`, `ScenarioEndsWhole`.

Only model-checked, since beyond the prover: `ReportedPercentiles`, whose subject is a
sorted sequence (induction over data), and `CallsEnd` of `MCOccupancy`, which is liveness
under fairness. Every other property of a passing
run is stated by a theorem.

## 5. Not modelled

Buildings, owners, unit types and the organisation's profile: single-row reads and
writes behind a look-up in the caller's organisation, with nothing in between that
another call could disturb. Listings and details, which change nothing. Infrastructure
(storage, queue, logging, health, configuration, error filter, and the global throttle,
which may refuse any request before its guards). Formatting, and DTO validation beyond
the sets of values it admits. Bodies and texts are model values, timestamps only what
the properties compare. `PROJECT.json` names every component with its status.

## 6. What is left

What remains is outside of this prover's reach (the last paragraph of section 4), or not a
property of the code: the hazards without one are listed in `PROJECT.json` with the
reason. A change of the source to watch for:
a new writer of a seeded row or name is a new disturbance of `Seed`. A writer of amenity
links that names no column breaks `WritersLock` already, which is why the run has a
scenario without one.
