# A verified model of ScreenGoblin

ScreenGoblin manages digital-signage displays. Operators use a console to
register Screens, enroll display devices, approve releases and publish them;
an Android player proves its identity for each request, downloads signed
manifests and plays them, also while the network is down. This directory holds
TLA+ modules that model the program, TLC configurations that check them on
small instances, and TLAPS proofs of the properties that matter most.

Paths below are relative to the repository (`src/` in `PROJECT.json`).
`PROJECT.json` lists the components, runs, mutants, hazards and theorems, and
maps each definition to the lines it models.

## 1. Inventory

### API: device enrollment (`apps/api/src/store/prisma.ts`, `routes/screens.ts`, `routes/devices.ts`)

*State.* `Screen` (credentialGeneration, installationId), `PairingCode` (a
grant: purpose, target Screen, expected generation, issuer with both epochs,
status, expiry), `PairingAttempt` (one device key that answers a code; proved,
cancelled, activated), `DeviceCredential`, `DeviceKeyTombstone`,
`IdempotencyRecord`.

*Operations.* Request of an initial or a replacement grant, pairing challenge,
candidate proof, activation, cancellation, credential revocation, deletion of
the Screen, identity mutations that withdraw an issuer's grants, retention.

*Interactions.* Each operation is one database transaction with row locks in a
fixed order (organization, users and memberships, Screen, grant, attempts) or a
SERIALIZABLE transaction that is retried. Device proofs read the credential;
identity mutations write grants.

*Hard behaviour.* Several operators, several devices, several candidates of
several grants at once; authority that is lost between grant and activation;
repeats of requests weeks later against retention that deletes rows; keys that
return after their revocation.

*Correct when.* One winner for each generation of a Screen; the live key is an
activated candidate's; a key serves once; the old identity is gone before a
replacement can be activated; no usable grant without its issuer's authority;
the candidate limit; replayable requests find their grant.

### API: device proofs (`routes/devices.ts`, `store/prisma.ts`, `device-proof/*`)

*State.* `DeviceAuthChallenge` (random challenge, operation, expiry,
consumedAt), the heartbeat columns of `Screen`.

*Operations.* Issue a challenge, heartbeat, manifest request.

*Interactions.* A handler authenticates without a lock, then consumes the
challenge in a transaction, then (manifest) resolves content without a lock.
Enrollment closes the open challenges of an identity it detaches.

*Hard behaviour.* Identity changes between the steps of a handler, repeated and
lost requests, late answers, the challenge limit.

*Correct when.* A proof acts at most once and only for the live key; the
displayed status is the live key's; nothing a player accepts is older than what it
shows.

### API: users, sessions, roles (`routes/auth.ts`, `plugins/auth.ts`, `store/prisma.ts`, `recovery/`, `prisma/seed.ts`)

*State.* User with authenticationEpoch and disabledAt, Membership with role and
authorizationEpoch, UserSession, AccessGrant, login-failure telemetry, bootstrap
password. *Operations.* Login, logout, rotate password, bootstrap rotation,
disable, change role, remove, recover. *Hard behaviour.* Sessions that outlive
the authority they carry; logins under way while it changes; two owners acting
on each other. *Correct when.* A session is accepted only under the current
epochs; an organization keeps an active owner; a recovered password can do
nothing but replace itself; grants follow roles.

### API: releases (`store/prisma.ts` 5012-6405, `releases/canonical.ts`, `routes/schedules.ts`, `utils/schedule.ts`)

*State.* Media, playlists, immutable releases, release candidates with
submission, approval, expiry and digest, schedules with priority and recurring
windows, emergencies. *Operations.* Create, submit, approve, publish, withdraw, pruning and
compaction, emergency start and end. *Hard behaviour.* Content that changes
between approval and publication; repeated and concurrent requests; time zones,
changes of the clocks and equal priorities. *Correct when.* What is published was approved, by someone
else than the submitter, and still has the approved digest; one release wins.

### API: media delivery, audit, rate limits, shadow authorization

Capabilities for media (`media/delivery.ts`), a hash chain of audit records
(`audit/integrity.ts`), request limits (`utils/rate-limit.ts`), and the
comparison of scoped grants with the enforced roles (`authorization/`), which is
reported and decides nothing.

### Player (`apps/player/src`)

*State.* Active and previous manifest slot, staging queue and state queue,
staging generation, cached assets (`core/manifest.ts`, `core/storage.ts`,
`core/assets.ts`); credentials and credential epoch (`App.tsx`); open manifest
request (`core/api.ts`); heartbeat timer (`core/heartbeat-scheduler.ts`); the
item on the screen (`components/Playback.tsx`); the watch on a signed deadline
(`core/signed-deadline.ts`).
*Operations.* Boot, pair, sync, stage, activate, roll back, emergency expiry,
deprovision, heartbeat, next item. *Hard behaviour.* Every step awaits; downloads stall
while emergencies expire; deprovisioning meets work under way; timers meet
lifecycle events. *Correct when.* Withdrawn or expired content is never shown
again, last known good content stays complete, revoked data is erased and new
credentials survive, a heartbeat is always scheduled, no item stays for ever,
a signed deadline ends what it signs.

### Android (`apps/player/android/.../player/*.java`)

Command journal (one durable command with generation and sequence, written by
SharedPreferences commit), media cache (temporary file, sync, rename, a fair
read-write lock, space reservations), key aliases. *Hard behaviour.* Process
death between the steps, failed commits, two threads. *Correct when.* A command
is applied once and what was answered about it stays true; partial media never
becomes visible; prune and removal end.

### Console and deployment

The console (`apps/console`) is a client of the API: its users are the
unconstrained operators of the models. Scripts, CI and provisioning are outside
the program.

## 2. Modules

| module | contents |
| --- | --- |
| `ScreenCredential` | abstract credential life cycle of Screens, from the in-memory DataStore |
| `DeviceEnrollment` | enrollment as the PostgreSQL DataStore does it; implements `ScreenCredential` |
| `DeviceProof` | challenges, request handlers and the player's open request, over `ScreenCredential` |
| `IdentityDirectory` | abstract users, memberships and sessions, each operation one step, from the in-memory DataStore |
| `ScopedAuthorization` | the role policy and the scoped evaluation that shadows it |
| `Identity` | users, sessions and grants as the PostgreSQL DataStore does it; implements `IdentityDirectory`, uses `ScopedAuthorization` |
| `ReleaseWorkflow` | abstract release workflow, from the in-memory DataStore |
| `ReleaseStore` | the release tables of the PostgreSQL DataStore; implements `ReleaseWorkflow` |
| `ScheduleWindow` | when a schedule is on, until when, and which one comes first |
| `ManifestManager` | the player's slots, queues and asset cache |
| `PlayerSession` | the player application over `ManifestManager`, the key store and the server |
| `HeartbeatScheduler` | the heartbeat timer |
| `Playback` | the item on the screen, its failures, rollbacks and reports |
| `SignedDeadline` | the watch on a signed deadline |
| `CommandJournal` | the Android journal of remote commands |
| `MediaCache` | the Android media cache |
| `DeviceEnrollment_proofs`, `EnrollmentWinner_proofs`, `DeviceProof_proofs`, `Identity_proofs`, `ReleaseStore_proofs`, `PlayerSession_proofs`, `PlayerTelemetry_proofs`, `AndroidPlayer_proofs` | theorems |
| `MCDeviceEnrollment`, `MCDeviceProof`, `MCIdentity`, `MCReleaseStore`, `MCPlayerSession`, `MCPlayerTelemetry`, `MCAndroidPlayer` | instances for TLC |

The three pairs of an abstract and a detailed module follow the program: it has
two stores behind one interface, an in-memory one whose operations are single
synchronous steps and a PostgreSQL one of rows, locks and transactions. The
first is the specification of the second.

### ScreenCredential

`phase`, `generation`, `live` and `spent` are the Screen row, its
credentialGeneration, its unrevoked credentials and the key tombstones.
`Install`, `Fence`, `RemoveScreen` and `CreateScreen` are all that can happen to
them. The in-memory store (`store/memory.ts`) runs each operation as one
synchronous step and is the source.

### DeviceEnrollment

One action is one committed transaction. The transactions lock every row they
decide on (`FOR UPDATE`), or run SERIALIZABLE, and read it again under the lock,
so checks and writes are one step; a transaction that returns a reason or throws
changes nothing. Where the code reads first to learn what to lock (the authority
hint of a claim), only the decision under the lock is modelled.

| variable | columns |
| --- | --- |
| `user` | User.disabledAt, authenticationEpoch; Membership.role, authorizationEpoch |
| `phase`, `generation`, `installation` | Screen |
| `grant`, `status` | PairingCode; `DELETED` is a row that retention removed |
| `age` | how many of the deadlines `Lapsed`, `ReplayLapsed`, `Purgeable` the clock has passed for a grant |
| `attempt`, `timedOut`, `proved`, `cancelled`, `activated` | PairingAttempt |
| `home`, `revoked` | DeviceCredential |
| `tombstone` | DeviceKeyTombstone |
| `createRecord`, `activateRecord` | IdempotencyRecord |

The actions carry the names of the store's operations: `RequestEnrollment`,
`ReplayEnrollmentRequest`, `RequestReenrollment`, `CancelGrant`,
`IssueAttempt`, `ProveCandidate`, `ActivateEnrollment`, `ReplayActivation`,
`ActivateReenrollment`, `RevokeCredential`, `DeleteScreen`, `CreateScreen`, the
identity mutations, and the clock.

What is abstracted, and why it is sound here:

- Codes, challenges and transcripts are the rows they identify; a signature by
  the right key verifies. The properties are about the protocol.
- Time is the order in which deadlines pass. All grants have the same
  lifetimes, so an older grant passes each deadline first. The window in which
  an activation can be replayed ends some time before the retention cutoff of
  its grant; `ReplayActivation` is allowed until that cutoff.
- Retention works in batches of 100; the model has fewer rows than a batch.
  Compaction of old idempotency bodies changes no decision.
- A cancelled bulk update under READ COMMITTED can miss an attempt inserted at
  the same moment. Such an attempt belongs to a grant that is no longer pending,
  and every later step asks for a pending grant, so it changes nothing.
- Only proof-v1 is modelled. Production configuration refuses the development
  bearer mode and the untargeted pairing that goes with it.
- `PUBLISHER` stands for every role without credential authority.

### DeviceProof

A handler is in one of four steps: idle, authenticated, or (manifest) proof
consumed, or content being read with the answer owed. Each step is an action;
handlers interleave with one another, with identity changes, publications and
withdrawals, and may stop at any point (`DropRequest`). `signed` holds the requests the network can deliver any number
of times; `answers` the manifests it can deliver in any order or never.
`awaited` is the player's open manifest request: `PlayerApi.manifest` accepts
only the answer that names the challenge it sent. `telemetry` records which
heartbeat set the Screen's snapshot, `effects` how often a challenge was acted
on; both are what the properties need to see. `CloseIdentity` is what the three
transactions that detach a key do to challenges and snapshot. `release`
counts the publications and withdrawals that changed what the Screen should
play. The manifest handler reads the content in several statements without a
transaction (`ResolveContent` is the first, `AnswerManifest` the last), so an
answer may mix states of the Screen that existed at different times: its
content is the range from the state the first read saw to the state the last
one saw, and `ManifestNeverGoesBack` compares the oldest part of a new manifest
with the youngest part of the one before. The credential is not looked at again
once the proof was consumed: an answer to a key revoked meanwhile is sent.

The old challenge rows that `pruneOldDeviceAuthChallenges` deletes are consumed
or expired, and no transaction acts on them again.

### IdentityDirectory, ScopedAuthorization and Identity

`IdentityDirectory` says of a session only that it lasts from a login to its
logout, its expiry or the next change of what it rests on. `Identity` has the
columns by which the stores know that: epochs of the user and of the
membership, the revocation mark, the marker of a recovered password.

A login reads the user, compares the password, and asks for a session later:
`BeginLogin` and `CreateSession` are two steps, and everything may happen in
between. The operations that may take an owner away (`disableUserAndAudit`,
`changeMembershipRoleAndAudit`, `removeMembershipAndAudit`) run at READ
COMMITTED and are modelled statement by statement: read the memberships
(`BeginDisable`), lock the organizations one after the other in their order
(`LockOrg`), lock the user's rows (`LockRows`), count the other owners
(`CheckOwners`), write (`Commit...`). Every other operation locks the rows of
one user in its first statement and is one step that waits for them.

A role change replaces the grants of the membership; a removal revokes them by
a trigger. `ScopedAuthorization` evaluates grants of every kind of scope, but
the program creates only organization-wide ones.

Notes. `rotateUserPasswordAndAudit` leaves the marker of a recovered password
alone, so a user whose password an operator recovers and the system then
rotates still has to replace it. No route calls the system's identity
mutations; they are the store's operations all the same.

### ReleaseWorkflow and ReleaseStore

`ReleaseWorkflow` has one value per candidate, assignment and record.
`ReleaseStore` has the rows: candidate, targets (with the live reference to
their Screen that a deletion sets to NULL), approval, publication, the chain of
assignments, idempotency records with the response that was committed. One
action is one SERIALIZABLE transaction: create (with the pruning of expired
candidates before it), submit, approve, publish, withdraw, compaction, and the
library, fleet and identity changes they depend on. Media, playlists and
Screens can be deleted only while the foreign keys allow it.

Two things a reader of the code may not expect. In the PostgreSQL store the
deletion of one target Screen ends the delivery of a release to all its Screens
and hides its schedule from the listing, while the in-memory store goes on
delivering to the others; `DeliveredAsPromised` says exactly that. And
`publishScheduleAndAudit` is unreachable: its route answers 410.

### ScheduleWindow

Pure functions (`utils/schedule.ts`), without steps: each state is one case of
a time zone with or without a change of its clocks, a schedule and a rival. The
reference is what the wall clock of the zone shows at each instant. A window
without a daily end has no playback end, although its day filter may take it
off the screen at midnight; the next manifest does that.

### ManifestManager and PlayerSession

`ManifestManager` is `core/manifest.ts` over the transactions of
`core/storage.ts`: the staging queue, the state queue, and the interruptions
between their awaits. The head of a queue is the operation that runs. A rollback
reads both slots, decides, and asks for a swap that decides again in its own
transaction. Collection reads the two slots in two transactions and deletes
later.

`PlayerSession` adds `App.tsx`: boot, the pairing form and its polling, key
rotation, the single flight of `syncManifest` (`sync.step` is the await it
stands at), deprovisioning with two erasures at once, playback errors and
deadlines. `Restart` may happen in every state and keeps what is on disk.
`epoch` is `credentialEpochRef`. The server publishes, refreshes, revokes and
approves at any time.

A manifest names the identity whose request it answers (`owner`). The player
does not look at that: `verifySignedManifest` has the verification key of the
server and the Screen, so a manifest verifies for every identity of the same
Screen (`Verified`, `ScreenOf`), and a slot that a device kept from before it
was enrolled again for the same Screen may be shown. An activation is one
transaction, or, when what is in the slots does not verify, two: the slots are
cleared (`CLEARED`) and then written (`ActivateCleared`), and the process may
die or an erasure come in between. A flight that waits for its two erasures is
over as soon as one of them fails, while the other goes on (`EraseFails`). A
rollback that has no result or throws ends on the fatal screen.

A flight of `syncManifest` may outlive the credentials it began with, and even
the pairing that follows; nothing in the code ends it (finding 3). Such a
straggler deprovisions the device, or erases it, whoever it belongs to by then.
Three history variables, which no action reads, record what it takes: `late`
(the deprovisioning under way was begun by one), `orphaned` (the last credential
one erased) and `stolen` (the assets one erased that were not downloaded
again). `RunningIdentityIsStored` and `SlotsAreComplete` except what they name,
and nothing else: whatever is lost without a straggler violates them.
`CredentialsAreKept` is the first of them without the exception.

### HeartbeatScheduler, Playback and SignedDeadline

`HeartbeatScheduler`: time is relative, in ticks that remain. Events of
connectivity and visibility come in any number and order.
`Playback`: the effects, refs, timers and events of the component; a commit and
its effects are one step; several events may hit a generation before the next
render. Rollbacks and heartbeat reports are the callbacks of `App.tsx`.
`SignedDeadline`: the two timers of `watchSignedDeadline` under a wall clock
that is corrected either way.

### CommandJournal and MediaCache

`CommandJournal`: what is on disk and in memory may differ after a failed
commit, in which case every operation is refused until the process restarts. The
activity may be recreated and the process may die in any state.
`MediaCache`: two threads, each operation in the steps between which another
thread or a crash may come: the queue of the fair lock, the lock of the file,
verification, reservation, download, sync, rename, clean-up.

## 3. Runs

| run | shows |
| --- | --- |
| `enrollment_retention` | `LiveKeyIsActivatedCandidate`, `OneWinnerPerGeneration`, `WinnerNeverCancelled`, `ReplayableGrantIsRetained`, and that `DeviceEnrollment` implements `ScreenCredential` |
| `enrollment_authority` | `PendingGrantHasCurrentIssuer`, `ReplacementFollowsContainment`, `CandidateLimit` |
| `device_proof` | `TelemetryFromLiveKey`, `OpenChallengeHasLiveKey`, `ActedOnOnce`, `LiveChallengeLimit`, `ManifestNeverGoesBack` |
| `identity` | `OwnerRemains`, `NoSessionOutlivesAuthority`, `ScopedAgreesWithRole`, `SomeTransactionGoesOn`, and that `Identity` implements `IdentityDirectory` |
| `release` | `ReplayIsFaithful`, `OnlyApprovedIsDelivered`, `DeliveredAsPromised`, and that `ReleaseStore` implements `ReleaseWorkflow` |
| `player_session` | `ShownForScreen`, `SlotsAreComplete`, `RunningIdentityIsStored`, `WithdrawalIsFinal` |
| `player_telemetry` | `CooldownIsKept`, `HeartbeatsContinue`, `ReportIsCoherent`, `NoBlobLeaks`, `ItemsInOrder`, `LeavesItemWithAlternative`, `DeadlineIsEnforced`, `WindowFollowsWallClock` |
| `android` | `WrittenCanBeRead`, `AnsweredIsDurable`, `JournalOnlyAdvances`, `FinalsAreSynced`, `ReservationsBalance`, `WritersFinish` |
| `one_pending_grant`, `replay_target`, `player_stragglers`, `player_blackout` | findings 1 to 4 |

`player_telemetry` and `android` hold several modules that share no state: a
variable `part` chooses one at the start and only that one moves, so the states
are the sum of the parts and not their product.

*Bounds.*

- `EnrollmentRetention.cfg` has two Screens, keys, grants, attempts and
  idempotency keys with every deadline and one operator without identity changes
  (680 thousand states up to symmetry). `EnrollmentAuthority.cfg` has two
  operators, each with one identity mutation, one Screen and one candidate per
  grant (1.7 million states). Two grants are what superseding, competing and
  replacing take; two attempts what a race for one grant or between two takes;
  two keys a key that returns beside a new one; generation 3 an enrollment, a
  revocation or replacement, and an activation after it. `MaxCandidates` is 4 in
  the code and 1 or 2 here, so that the limit is reached.
- `DeviceProof.cfg` has two handlers, which a race needs, three challenges (an
  abandoned request, its successor and a heartbeat), two keys and three
  generations, a limit of two live challenges (4 in the code), and two
  publications or withdrawals, so that one may come between two reads of an
  answer and one before or after them (2.7 million states up to symmetry).
- `Identity.cfg` has two users, who both own one organization while one of them
  owns the other alone, so that each can take the last owner away together with
  the other and a disabling locks both organizations, which another one may take
  in the same order only; two concurrent
  transactions, two tokens, two changes and lifetimes of one unit over two
  instants (702 thousand states up to symmetry). Two changes are what a race of
  two removals, a recovery and its rotation, or a change during a login takes.
- `ReleaseStore.cfg` has two users who may author and approve for each other,
  two candidates of one playlist with one medium, two Screens and three instants.
  Lifetime and retention are one instant, so that candidates expire, are pruned
  and their records expire; the pruning and compaction batches are 1, so that
  they leave work for the next call. The limits of outstanding and of
  retained candidates are 2, which two candidates reach without a third to be
  refused: a refusal for that reason is in the proofs only. The medium does not expire within the run. One change of authority is enough because a
  password rotation and a change of role move different epochs.
- `PlayerSession.cfg` starts with a device that has played and restarts: as k1
  it has A active and B as its baseline. Either k2, of the same Screen, was
  revoked before, and k3, of another Screen, is left for the next pairing; or k3
  was, and k2 is left, with B already over. An ordinary release, one that ends,
  an emergency and a withdrawal share two assets; there is one further
  publication, one instant that passes every deadline, three epochs (two
  changes of identity and what a straggler adds), and one queued rollback and
  collection each (5.3 million states). The proofs begin with a device fresh
  from the factory (`SessionInit`), from which this start is reached.
- `PlayerTelemetry.cfg` has cadences of 1 and 3 ticks with a backoff of 1 to 2
  and a Retry-After of 4, longer than any cadence; a release of three items of
  different kinds (the last unsupported), one of a single item and one without
  any; deadlines of up to five ticks, of which two polls and two chunks make
  one, and two clock corrections; days of 8 units of which 6 hours are 2,
  changes of the clocks at every time of a day by up to a fourth of a day in
  either direction, every kind of window, and rivals of lower, equal and higher
  priority.
- `AndroidPlayer.cfg` has four orders (a repeat of a sequence by another
  command, a higher generation with a lower sequence, both actions), three
  lifecycles; two threads, three files of which two share a lock, room for two,
  and one crash or decay.

`CHECK_DEADLOCK FALSE` where rows, generations, epochs or instants are bounded
and the instance stops when they are used up. In `identity` the check is on: an
instance may rest only when no transaction is in flight. `SomeTransactionGoesOn`
says more, because the clock may go on while transactions wait for each other:
one of those in flight finds the locks of its next statement free. Symmetry is over
identifiers that are only compared for equality, and in no run with a liveness
property; row identifiers are allocated in order and not symmetric.

*Fairness.* Safety properties need none. Three modules have liveness:

- `SchedulerFairness`: time passes, an armed timer that is due fires, a request
  ends (it has a timeout), and its failure is reported. Nothing is assumed of
  events, of their end, or of a success. `HeartbeatsContinue` then says that an
  online player always sends again.
- `PlaybackFairness`: React renders what was set, the readiness timer and the
  duration timer fire, a rollback ends. Nothing is assumed of loads or media
  elements, which may never fire an event.
- `CacheFairness`: a thread in an operation goes on. Downloads have deadlines in
  the code. The unfair locks of single files are not assumed to be granted: one
  download may wait for ever behind others of a file that shares its lock,
  while writers wait only for the fair lock (`WritersFinish`).

`PlayerSession` has no liveness: that an emergency which has just ended and is
still handed to the screen is blanked again rests on the watch, which
`DeadlineIsEnforced` checks by itself.

Every property has a mutant in `PROJECT.json`: a plausible slip in one
definition (a superseded filter, an off-by-one, a branch taken too early) under
which TLC finds the property violated. The mutated definitions stand beside the
originals, named after what they get wrong.

## 4. Proofs

TLAPS proves the following for any sets of users, Screens, keys, rows and
handlers and any bounds, from the assumptions the modules name
(`RowIdAssumption`, `BoundAssumption`, `NoneAssumption`, `ProofAssumption`,
`ProofNoneAssumption`, `MaxGenerationAssumption`, `IdentityAssumption`,
`IdentityNoneAssumption`, `ScheduleAssumption`, `ZoneAssumption`,
`CaseAssumption`, `ReleaseAssumption`, `NullAssumption`, `NullValueAssumption`,
`ManifestAssumption`, `ManifestNoneAssumption`, `SessionAssumption`,
`SchedulerAssumption`, `PlaybackAssumption`, `PlaybackNoneAssumption`,
`DeadlineAssumption`, `JournalAssumption`, `NothingAssumption`,
`CacheAssumption`): identifiers of rows are numbers, limits are positive, `None`
and `Nothing` are no values of the program, every organization starts with an
owner, the session of a recovered password lives no longer than a full one (ten
minutes and an hour), a release is well-formed as `assertManifest` asks, a command is in one
order only, a release of the player is a sequence of the four kinds of items,
positions are counted modulo at least two, threads, files and organizations are finitely many, no zone is
further from UTC than the 18 hours that half of the search covers, and a daily
window consists of minutes of the day as the route accepts them.
That a power of two is a number is assumed too (`SchedulerAssumption`), because
no prover here knows powers; TLC evaluates it for the backoffs of its run.

`DeviceEnrollment_proofs`

- `TypeCorrect` and `RowsCorrect`. Types are inductive together with `RowsOK`:
  a grant that was ever issued keeps its columns, which is what lets a later
  transaction read them. `GrantStep` sums up what any of the 16 transactions can
  do to one grant (`StatusMove`: pending once, claimed for good, columns never
  rewritten; `NewGrantCaptures`: what a new grant starts with); all later proofs
  about grants use it instead of the actions.
- `PendingIssuerCorrect`. A step that leaves a grant pending leaves its issuer's
  row alone (`IdentityStepRevokes`), and a new grant captures the current epochs.

`EnrollmentWinner_proofs`. `StepKinds` shows that every transaction keeps all
identities, ends one (`EndIdentity`) or lets one candidate win (`Win`); the
proofs split on these three.

- `OneWinnerCorrect`, `WinnerKeptCorrect`. `WinnerInv`: no grant is ahead of its
  Screen's generation; a winner's Screen has moved past the generation it took;
  a winner's grant is closed. A second winner would need the current generation,
  and a bulk cancellation a pending grant or an attempt that is not activated.
- `LiveKeyCorrect`, `ContainmentCorrect`. `KeyInv`: containment, the live key's
  winner, and every key with a credential is spent. They need one another:
  containment is why a winner of a replacement finds no live key, and the
  monotone generation why an old grant cannot break containment.
- `CredentialLifeCycleCorrect`. The initial states map, and each of the three
  kinds of step maps to a step of `ScreenCredential` or a stutter.
- `CandidateLimitCorrect`. The candidates of a grant are a finite set that grows
  by one, below the limit, or shrinks.
- `RetentionCorrect`. A deleted grant is past every deadline, and deadlines are
  never unpassed.

`DeviceProof_proofs`

- `ProofTypeCorrect`, types.
- `TelemetryCorrect`. Inductive as soon as a snapshot's challenge is known to be
  issued: only `Heartbeat` sets it, under the lock that also guards the key, and
  every action that changes `live[s]` clears it.
- `OpenChallengeCorrect`. A key leaves `live[s]` only together with its open
  challenges; `IssueChallenge` looks at the live key under the Screen's lock.
- `ActedOnOnceCorrect`. The invariant counts: a challenge that is not consumed
  has no effect; a consumed one has had none while some handler holds it in step
  CONSUMED or RESOLVING (`Owing`), and no two handlers do.
- `LimitCorrect`. The set of live challenges grows by one only when it is below
  the limit; its finiteness is part of the invariant.
- `ManifestCorrect`, an action property. A key has one Screen for ever
  (`KeyHasOneScreen`); nothing shown, answered or being read is ahead of that
  Screen's release, and releases only grow. Every read for the open request
  comes after that request was sent, which comes after the manifest shown was
  accepted, so it is not behind any part of that (`ContentInv`). No lock is
  needed for this, and none is taken.

`Identity_proofs`, for any number of concurrent transactions

- `OwnerAlwaysRemains`. Types are inductive (`IdentityTypeOK`); `MinIn`, on which
  the locking in order rests, follows from the well-foundedness of `<`.
  `TransactionsOK` says that transactions in flight hold disjoint organizations,
  that one past its locks holds all that it concerns (`Sound`), and that what
  one has counted before it writes still stands (`Counted`). A commit changes
  nothing outside the organizations it holds (`CommitOutside`), so it does not
  disturb what another one has counted (`CommitKeeps`); no other step changes a
  membership or a status (`Neutral`). Disjointness alone does not do: a
  disabling concerns all organizations of its user, and that it holds them all
  needs that memberships are not added meanwhile.
- `SomeTransactionAlwaysGoesOn`. `HeldFirst`: what a transaction holds comes
  before all that it still asks for, since it asks in order. If all waited,
  nobody would have locked a user's rows, so that each would wait for an
  organization that another one holds; and whoever holds the greatest of these
  waits for a greater one (`GreatestIn`).
- `SessionsAreCurrent`. `SessionsKnowPassword` is inductive: a session that has
  its user's epoch has the user's password, because nothing changes the password
  without the epoch (`Moved`) and a new session takes both from the row that its
  login was compared with.
- `ScopedShadowAgrees`. `GrantsFollowRole`: the grants of a membership are those
  of its role since some time that is not later than now; a role change takes
  its time from the clock of its transaction. `CompatibilityAgrees` evaluates
  them, capability by capability.
- `StoreImplementsDirectory`. `DirectorySessions` has the active sessions only:
  an epoch that moved and a revocation mark end one of them alike
  (`SessionsRevoked`), and a tick ends those that expire, for a session of a
  recovered password ends no later than its marker (`TickSimulates`). A commit
  is the step of the in-memory store because what the transaction counted
  (`Counted`) and the memberships it found (`Sound`) still stand when it
  writes. A login needs `LoginsOK`: its token has no session yet, and a full
  session ends within `SessionLife`. Locks, counts, refusals and logins under
  way are stutters (`OthersStutter`).

`ReleaseStore_proofs`, for any users, Screens, library, candidates and lifetimes

- `StoreInvAlways`. The inductive invariant `StoreInv` has, beside the types
  (`StoreTypeOK`), five parts, each about two tables that different transactions
  write. `LibraryKept`: what a candidate or a schedule refers to is stored.
  `CandidatesShaped`: the columns and rows a candidate has in each of its states,
  and nothing of a candidate that is gone. `RecordsFaithful`: a record says what
  its candidate was, and has expired if it lost its response or its candidate. A
  candidate is pruned `Retention` after its expiry, and its records are written
  before that, so they end earlier: this is why pruning never strands a record
  that may still be replayed. `AssignmentsMatch`: an assignment is a copy of its
  candidate's columns, targets included, whatever was detached from either.
  `EpochsGrow`: no epoch of an approval is ahead of its approver's, and that of
  a revoked one stays behind, so it never stands again.
- `ReplayAlwaysFaithful`, `DeliveryAlwaysApproved`, `AlwaysDeliveredAsPromised`
  follow from it.
- `TablesImplementWorkflow`. `NextSimulates` takes the transactions one by one:
  each is the step of `ReleaseWorkflow` of its name, a refusal or a replay too.
  That they decide alike needs the invariant, because the tables judge by rows
  and live references what the workflow judges by one value; for a publication
  also `LiveTargetsAlways`, that a target with a live reference is a Screen that
  was not deleted.

`PlayerSession_proofs`, for any releases, deadlines, assets, identities and
Screens, from a device fresh from the factory, and with flights that outlive
their credentials; no theorem has a hypothesis

- `SessionTypesHold`, `AlwaysShownForScreen`, `WithdrawalAlwaysFinal` follow
  from `SessionInv`, whose parts need one another. `StagingOK`: the head of the
  staging queue is what runs, and no collection is under way while a release is
  fetched or activated. `FlightOK`: the flight of a synchronization keeps the
  identity it began with, a flight of the current epoch is for the current
  credentials, and what is staged is what that flight was given. `QueueOK`: at
  most one activation and one recovery wait for the slots, and an operation of
  the current epoch is for the current credentials, which is why its result may
  be shown (`ShowsItsOwn`): it was verified for their Screen. `SwapOK`: while a
  swap waits to be decided again, the slots are the two it compared, or erased;
  an erasure beside the queues is the only thing that can come between.
  `ClearedOK`: between the two transactions of an activation the slots are
  empty. `BaselineOK`: a withdrawn release is no baseline and has none.
  `BootOK`: before the boot is over nothing else is under way. `PairingOK`: a
  saved pairing is for the active identity.
- `RunningIdentityAlwaysStored`. `IdentityInv` adds to `SessionInv` what is
  stored and what runs (`StoredOK`, `CredentialsOK`: they are known to the
  server, and equal or orphaned), that an erasure is of a refused identity or a
  straggler's (`ErasureOK`), that a pairing under way has none of its own
  identity in the flights, the queue or the slots (`PairedOK`), and that slots and
  flights are of identities the server has known and that are not being paired
  (`OwnersOK`, `Served`).
- `SlotsAlwaysComplete`. `CompleteInv` adds the cache, with what was stolen
  counted as if it were there (`Have`). `SweepOK`: a collection reads the two
  slots in two transactions, and a rollback in between may move the baseline to
  the active slot; what it has read is enough because the baseline is not
  dropped while the same release is active, unless that one has ended
  (`SlotsMove`). `FetchOK`: what a staging has not claimed, is fetching or has
  in the cache is all of the release, unless it failed.

`PlayerTelemetry_proofs`, for any intervals, releases, items and corrections of
the wall clock

- `WindowAlwaysFollowsClocks`. The samples of `Exact` are near enough to the
  wanted time to see every offset in force at an instant that shows it
  (`ReachIsSampled`, `ExactIsAll`), so that the search has a closed form: the
  time as shown before the change, after it, both, or, in a gap, the change
  itself (`BoundaryIs`). A start is therefore reached exactly when the clocks
  show it for the last time, an end when they show it first
  (`StartFollowsClocks`, `EndFollowsClocks`); the rest compares instants of one
  date. Each state is a case that never moves (`ScheduleSpec`).
- `CooldownAlwaysKept`. `TimerAfterCooldown`: a timer is armed only while no
  request is under way, and never for a moment inside the cooldown; a wake-up
  that pulls the timer forward is cut off at the cooldown (`PullForwardArms`).
- `HeartbeatAlwaysDue` and `HeartbeatsNeverPostponed` are what `HeartbeatsContinue`
  rests on besides fairness: an awake scheduler has an armed timer or a request
  under way, and what is left of an armed timer never grows, since
  `scheduleCatchUp` keeps the earlier of two times (`CatchUpForward`). Both use
  `TimerAfterCooldown`.
- `NeverLeaksBlobs` and `ItemsAlwaysInOrder` follow from `PlaybackInv`: the only
  object URL alive is the rendered generation's, a load that was cancelled
  creates none, and the next position is asked for only by an item that was
  shown and settled, once.
- `ItemAlwaysHasWayOff` is the same for `LeavesItemWithAlternative`: an item that
  is not settled has its readiness timer or its duration, one that is settled
  has a successor or a rollback, unless both slots hold its release. That the
  release shown is the active one (`ShownIsActive`) is what makes a rollback
  that does not change it leave two equal slots; and only a release with items
  is ever loaded, shown or advanced (`OnlyItemsShow`). The fairness that turns
  this into progress is the timers', React's and the rollback's.
- `ReportsAlwaysCoherent`. `ReportShaped` ties the reported asset to the release
  it was reported for.
- `DeadlineAlwaysEnforced`. What is left of the countdown and what has gone by
  make up the lifetime (`CountdownIsExact`), whatever the wall clock does; and a
  wall clock past the deadline is looked at within one poll (`PollIsNear`).

`AndroidPlayer_proofs`, for any orders, threads and files, any capacity, and any
number of failed commits and deaths of the process

- `JournalStaysReadable`, `AnswersStayDurable` and `JournalGoesForward` follow
  from one invariant, `JournalInv`: a journal that is not uncertain has in memory
  what is on disk, what is on disk parses, and the last answer leads to it. A
  commit that fails breaks the first part and sets `uncertain`, which stops every
  operation until a new process reads the disk; without it, an operation could
  commit a snapshot that the disk does not lead to. That orders of snapshots
  compose is `ReachesIsTransitive`.
- `FinalsAlwaysSynced`. Between the sync and the rename a thread's temporary file
  is good, and nobody else writes it (`SyncedBeforeRename`).
- `SomeThreadAlwaysGoesOn` and `WaitersNeverOvertaken` are the safety half of
  `WritersFinish`. `QueueInv`: the queue of the lifecycle lock holds the threads
  that wait, each once, and an operation is of the kind its step is for. A
  holder waits for an asset lock at most, and who holds that is past its wait;
  when nobody holds the lifecycle lock the head of the queue may enter
  (`QueueGoesOn`). The queue loses only its head and grows only at its end, so
  nobody in it moves back.
- `ReservationsAlwaysBalance`. That the space in use is within the capacity is
  not inductive: a download that was let in writes later, when others have
  been let in too. `Balanced` counts, beside what is used, one unit for each
  download that has its place but no temporary file yet, and says which threads
  have a file (`Written`). Every step of a thread changes each of the counted
  sets in one element at most (`DoingMoves`, `FilledMoves`): a download turns a
  place into a file, the rename a temporary file into a final one, the clean-up a
  temporary file into litter or nothing.

So every property of `enrollment_retention`, `enrollment_authority`,
`device_proof`, `release`, `identity` and `player_session` and all safety of
`android` and `player_telemetry` is also proved. `TypeOK`,
`DeviceProofTypeOK` and `SessionTypeOK` are proved and therefore not run.

Model-checked only: the liveness of `player_telemetry` and `android`, which is
beyond the prover (proved of it are the states and steps it rests on, see
`HeartbeatAlwaysDue`, `ItemAlwaysHasWayOff` and `SomeThreadAlwaysGoesOn`); that `identity` never stops while a transaction is in flight
as TLC sees it, which is about ENABLED (`SomeTransactionGoesOn` states it by the
locks); that each property can be broken by its mutant; and the findings.

## 5. Findings

1. `docs/DEVICE_PROTOCOL.md:317` says that only one pending targeted grant is
   permitted per Screen. A replacement request supersedes pending replacement
   grants only (`prisma.ts:2752`), so an unused initial grant stays pending
   beside it. It can no longer be activated, since the generation moved on, but
   it is listed as open and still takes attempts and candidates. The in-memory
   store (`memory.ts:1229`) supersedes both.
2. A repeat of a successful enrollment request, inside its 30-day window, after
   the Screen was deleted throws `Enrollment idempotency target is missing`
   (`prisma.ts:2528`): the deletion set the grant's target to NULL.
3. `docs/DEVICE_PROTOCOL.md:49` says that an activated player stores its
   credential metadata and the pinned key. `syncManifest` deprovisions on a 401
   (`App.tsx:224`) without comparing the epoch it captured, as its other branches
   do. When the request of the refused identity is still open while the next
   pairing completes, its late refusal erases the credential that was just
   stored; after a restart the enrolled device asks to be paired again. The
   epoch-mismatch branch (`App.tsx:208`) erases in the same way.
4. After a rollback both slots hold the same release (`storage.ts:172`). When that
   one fails too, the rollback returns the version that is on the screen
   (`App.tsx:393`), the component is not mounted again, and the screen stays
   black without a timer or a message until a synchronization brings another
   release. `Playback.test.tsx:112` says that the component recovers when an item
   never reaches readiness, and `apps/player/README.md:18`, less specifically,
   that existing content continues while the API is unavailable.
   `LeavesItemWithAlternative` shows that this is the only way to get stuck.

## 6. Not modelled

- Console, deployment, CI and provisioning: clients of the API and scripts
  outside its state. The console's calls are the free choices of the models.
- Audit chain: records that the modelled transactions append, chained by a pure
  hash. No decision reads them.
- Rate limits and request plumbing: a refusal changes nothing.
- Emergencies at the API: one inserted row and one update of it, whose effect on
  a player is a publication in `PlayerSession`.
- Media delivery: streaming and the arithmetic of capability tokens. Which
  Screen may fetch which medium is in `ReleaseStore`.
- Signature, digest and canonical-form arithmetic: a signature by the right key
  verifies, and a digest stands for what it binds.
- Failed logins, which no decision reads, and the containment of an unchanged
  seed password, a script before the first start.
- Enrollment without proofs (`createPairing`, `claimPairing`) and the
  development bearer mode, which production configuration refuses.
- The order of row locks inside one enrollment transaction: each is one step.
  A claim and a cancellation may lock one grant and its attempts in opposite
  orders, and the database then aborts one of them.
- Two `MediaCacheStore`s at once while the activity is recreated.

What could follow: a module on the lock order of the enrollment transactions,
and zones whose clocks change more than once within the reach of the search.
