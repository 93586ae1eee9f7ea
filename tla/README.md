# SiagaLongsor: a TLA+ model of the landslide monitoring system

SiagaLongsor watches slopes. ESP32 devices post samples of tilt, soil moisture
and rainfall to a NestJS API; the API stores them in PostgreSQL (through Prisma,
READ COMMITTED), classifies each sample under the site's risk profile, keeps one
current state per monitoring point, withdraws the level of a point whose device
falls silent, and reports changes of level to a Telegram chat. A Next.js
dashboard reads the result, behind a login with rotated refresh tokens. One API
process is in operation at a time (ADR 0009).

The modules here model the parts whose correctness depends on the order in
which things happen, and the computations that the levels depend on. The TLC
configurations check them on small instances, and the `*Proofs` modules hold
proofs for every instance. Paths are relative to `src/apps/api/src/` unless they
start with `src/`.

## 1. Inventory

| Component | State | Operations | Interacts with |
|---|---|---|---|
| Telemetry ingestion (`telemetry/`) | `Telemetry` rows; `lastTelemetryAt`, `lastSeenAt` of `Device` | `POST /iot/telemetry`: guard, then one transaction under the Device's row lock | risk evaluation in the same transaction |
| Risk evaluation (`risk/risk-engine.ts`, `risk-evaluation.service.ts`) | `RiskAssessment`, `CurrentMonitoringPointState` | classify a sample, count runs of levels, announce a change | active profile, rainfall history, outbox |
| Rainfall duration (`risk/rainfall-duration.ts`) | none | fold of samples into wet days | risk evaluation |
| Connectivity evaluator (`connectivity/`) | an in-process lock with a time to live; the same state rows | a run every five minutes, one transaction per candidate | outbox |
| Devices (`devices/`) | `Device` rows | register, move, rotate the credential, disable, list | withdraws the level of the point |
| Monitoring points (`monitoring-points/`), sites (`sites/`) | rows, `isActive` | deactivate (only without an enabled device), reactivate, list | devices, cursors |
| Cursors (`*-cursor.service.ts`) | none; the secret that signs them | encode and check the boundary of a page | listings |
| Risk profiles (`single-device/` updateProfile, `risk/risk-profile.service.ts`) | versions, one active per site | replace the active version under the Site's lock | read by ingestion and evaluator |
| Notification outbox and worker (`notifications/`) | `NotificationOutbox` rows | enqueue, claim with a lease, send, record, retry | Telegram |
| Dashboard reads (`single-device/`) | none | overview and its series, device, history, audit log | state rows |
| Refresh sessions and guards (`auth/`) | `RefreshSession` rows | login, rotate, detect reuse, log out, admit a bearer | web client |
| Web API client (`src/apps/web/src/auth/`) | cookie, access token, refresh under way, what is shown | bootstrap, refresh once and retry, log in and out | refresh sessions |
| Web pages (`src/apps/web/src/`) | the answers they show | poll; the audit log page by page | dashboard reads |
| Rate limiting (`telemetry/telemetry-rate-limit.service.ts`) | fixed windows in a map of limited size | consume by address and by device | ingestion |
| Firmware (`src/firmware/esp32/`) | a queue of four samples in RAM, boot id, sequence | sample, enqueue, send the front, retry, drop | ingestion |
| Device simulator (`device-simulator/`) | its place in a scenario | send payloads, compare the answers | ingestion |
| Presentation runner (`src/scripts/presentation/`) | files: pids, device secret, passwords, build fingerprint; processes; a database volume | setup, start, stop, reset | API, web site, simulator |
| Configuration, health, request context | none | parse, answer, tag | |
| Repository tools (`src/scripts/validate-openapi.mjs` and others) | none | check documents at build time | |

What is hard: samples come late, repeated, out of order and in parallel; the
principal, the profile and the candidates of a run are read before a lock is
taken and used after it; an evaluator run may outlive its lock; devices are
moved and disabled while their samples are on their way; answers of Telegram
are lost, workers die with a row in their hands or are slower than their lease;
two cores of the firmware write one queue; refreshes, logouts and page requests
of several tabs cross; a presentation is interrupted between a side effect and
the file that should tell of it; rows change between two pages of a list.
`PROJECT.json` lists these hazards at their lines, with the properties aimed at
each.

What makes each part correct: a level that is shown belongs to a live device and
to its newest sample and was announced (state, dashboard); a sample is stored once and only
for its current principal (ingestion); silence is noticed, not too early and
eventually (evaluator); a point has one enabled device (devices); worse input is
never a lower level, and rain is counted on the day it fell (engine); an event
is reported or given up with reason and its outcome is final (worker); a family
of sessions has one that can be used, and none once it has ended (sessions); a
page asks as the user it shows (web); a reading is lost only for a reason (firmware);
no subject gets past its limit (rate limit); files do not lie and nothing runs
twice (runner); rows that do not change are listed exactly once (cursors).

## 2. Modules

| Module | Models | Extends |
|---|---|---|
| `RiskEngine` | classification, run counters, freshness; operators only | |
| `RainfallDuration` | rain by local day from rates measured now and then | `RiskEngine` |
| `RiskLevels` | one slope under a changing profile, weather and history of samples | `RainfallDuration` |
| `OverviewSeries` | buckets of the overview's series | `RiskLevels` |
| `PresentationReadings` | samples the simulator makes from a profile's limits | `RiskLevels` |
| `MonitoringState` | ingestion, evaluator, administration and profiles: every transaction on devices and point states | `RiskEngine` |
| `Dashboard` | how the pages judge a device: which one it is, how fresh its sample | `MonitoringState` |
| `Pages` | a page of the dashboard in its two reads | `Dashboard` |
| `Delivery` | the promise of the outbox (abstract) | |
| `NotificationWorker` | outbox rows, workers, Telegram; implements `Delivery` | |
| `SessionFamily` | the promise of a family of refresh sessions (abstract) | |
| `RefreshSessions` | the server's side of a login, statement by statement; implements `SessionFamily` | |
| `WebSession` | the tabs of a browser against that server | `RefreshSessions` |
| `TelemetryEndpoint` | rate limit, guard and answers of `POST /iot/telemetry` | |
| `FirmwareClient` | the two cores of the device | `TelemetryEndpoint` |
| `DeviceSimulator` | the scenarios of the simulator | `TelemetryEndpoint` |
| `PresentationRunner` | the presentation stack and its files | |
| `DevicePath` | composes firmware, simulator and runner with the endpoint | the three above |
| `Cursors` | order and cursors of the listings; operators only | |
| `Listing` | reading a list page by page while it changes | `Cursors` |
| `MCMonitoringState`, `MCPages`, `MCRiskLevels`, `MCNotifications`, `MCWebSession`, `MCDevicePath`, `MCListing` | constants of the instances | the above |
| `MonitoringStateProofs`, `DashboardProofs`, `RiskLevelsProofs`, `NotificationWorkerProofs`, `RefreshSessionsProofs`, `DevicePathProofs`, `PresentationRunnerProofs`, `ListingProofs` | proofs | the above, `TLAPS` |

Operators with a comment that begins with "Mutation" are deliberately wrong
variants of the definition that follows them. They are used by no specification;
each is known to break a property when it takes that definition's place, which
is how we know that the property says something about the code.

### MonitoringState, Dashboard and Pages

Each table is a function from keys to rows (`device`, `telemetry`, `assessment`,
`state`); `announced` keeps the last `RISK_STATUS_CHANGED` audit row of a point,
which is written together with its outbox event. The remaining variables are the
handlers in progress (`request`), the evaluator runs (`evaluator`), their `lock`
and the `clock` of the server.

| Action | Code |
|---|---|
| `Receive` | `DeviceAuthGuard.canActivate`, the timestamp check and `serverReceivedAt` of `ingest` |
| `Reject`, `Begin`, `Commit` | the transaction of `ingest`, with `evaluateAcceptedTelemetry` |
| `StartEvaluation`, `FinishEvaluation`, `FailEvaluation`, `ExpireLock` | `runWithLock`, `release`, the scheduler's `catch` |
| `EvaluateCandidate` | `evaluateCandidate` |
| `RegisterDevice`, `MoveDevice`, `RotateCredential`, `DisableDevice` | `DevicesService` |
| `DeactivatePoint`, `ReactivatePoint` | `MonitoringPointsService.update` |
| `UpdateProfile`, `ReplaceProfile` | `SingleDeviceService.updateProfile`, `RiskProfileService.replace` |
| `Restart` | the process stops: open transactions roll back, lock and runs are gone |

Atomicity. Every transaction that writes a device or a point's state takes the
Device row `FOR UPDATE` first and looks at it and at what hangs on it only
afterwards, so it is one action, guarded by `~Locked(d)`. Two things are not
protected by that lock: the active profile and the counters of the point's
state, both of which replacing a profile changes under the Site's lock. The
transaction of `ingest` is therefore split: `Begin` reads them, `Commit` uses
them, and any other step may come in between. `Commit` covers all its writes,
the assessment, the state, the announcement and the device's timestamps
included. What a device sends is fixed by `Messages`; that a sample comes
repeatedly is that `Receive` stays possible. The number of wet days is an input
here (`HistoryDays`; `RainfallDuration` computes it), as are the thresholds of each
profile version (`Profiles`).

Data left out: reasons, sensor snapshots, display names, coordinates and audit
rows other than the level changes. Of a profile, `limits` keeps what the active
version of a site says of freshness: `ReplaceProfile` sets limits of its own,
`UpdateProfile` copies those of the version before. `widened` is history: the points
whose mark (DELAYED or OFFLINE) was made by narrower limits than those in force and
that no run has looked at since.

`Dashboard` has the operators of the pages. `IsContext` is `singleDeviceContext`
(exactly one enabled device at an active point, for the public overview possibly
the one that `PUBLIC_DASHBOARD_HARDWARE_ID` names), and `FreshnessOf` is
`freshnessOf`, whose limits are strict at another end than those of
`evaluateConnectivity`.

`Pages` reads them as the code does. `overview()` and `device()` await the device with
its profile (`Resolve`), and later read the state of the point it was at (`Answer`);
there is no transaction around the two, so every step of `MonitoringState` may come in
between. `page` keeps what the first read gave: device, point, limits and the time.
`OverviewStatus` and `SensorStatus` are what the answer says. `overview()` takes its
`now` between the reads and `device()` after them, so `ShownLevelIsItsOwn` is about
every time from the first to the second.

### RiskLevels, RainfallDuration, OverviewSeries, PresentationReadings

`classify()` is a set of comparisons of single sensors and pairs. `RiskLevels`
changes one reading, the wet days or the profile at a time, or lets a sample
come in, late ones included, and asks that the level follow. `ValidProfile` is the validation of
`updateProfile`; `RiskProfileService` accepts equal limits as well.

`RainfallDuration` states the fold of `rainfall-duration.ts` by what it adds up:
`TotalOn` is the rain of a local day, each rate holding until the next sample and
at most for `Carry`, cut at midnight (`PartOn`, `addInterval`); `ModerateDays` counts
the days in a row; `WindowOf` is `loadRainfallHistory`, which loads two days more than
it counts. `FallenOn` is the reference: the same rain instant by instant.

`OverviewSeries` is `rangeOf`, `date_bin` of the database (`Bin`, `Buckets`) and
`fillOverviewBuckets` (`Fill`) of `overviewSeries()`. `PresentationReadings` is
`presentationReadings()` of the simulator, with samples ten times finer than
limits so that its factors are whole numbers.

### NotificationWorker and Delivery

`Claim` is `claim()`, one transaction whose `updateMany` repeats the condition of
the read. `SendMessage` chooses one of `Reactions`: what became of the message
and what `sendMessage` makes of the answer. `RecordResult` is the rest of
`runOnce`, which writes only while the row is still `PROCESSING`. `Abort` is a
failed statement or a lost process. Times are kept as distances, so that time is
unbounded and the state space finite: `due` down to `-Horizon`, `age` up to the
lease (a row) or `MaxAge` (a worker). `ClaimNothing` also covers the loser of two
claims at the same time.

`Delivery` knows only an event's outcome and the number of copies in the chat.
The refinement mapping is `Phase`: PENDING and PROCESSING are both "queued".

### RefreshSessions, SessionFamily and WebSession

`session` is the table; `call` holds each request from the client's send to the
moment the client takes the answer, so that requests and answers overtake each
other freely.

| Action | Code |
|---|---|
| `Login`, `RefuseLogin` | `AuthService.login` |
| `FindSession` | the reads of `refresh` and `logout` and what they branch on |
| `Rotate`, `RotationConflict` | the transaction of `refresh`; its update finds no row |
| `FindTargets`, `RevokeTargets` | the `updateMany` that revokes a family |
| `Serve`, `RefuseBearer` | `authenticateAccessToken`, `OrganizationScopeGuard`, `RolesGuard`; `/auth/me` and pages |
| `Lose`, `Expire`, `DisableUser` | a lost request, handler or answer; `expiresAt`; an account that is switched off |
| `Load`, `SignIn`, `SignOut`, `Request` | a page load, the forms, `request()` of `api-client.ts` |
| `TakePage`, `TakeAgain`, `TakeRefresh`, `FailRefresh` | `requestWithRefresh`, `performRefresh` and all that wait for its promise |
| `TakeLogin`, `TakeMe`, `TakeLogout` | `login`, `bootstrapSession`, `logout` with `AuthProvider` |

A revocation is two steps because of READ COMMITTED: an UPDATE finds its rows as
they were when it began and looks at each again when it gets there; a row that
a rotation inserts in between is not seen. `raced` records the families this
happened to. In the browser a fiber is a promise chain of a tab. JavaScript is
not interrupted between an answer and the next request, so taking an answer is
one action; what several fibers wait for (the refresh) goes on in one step.

`SessionFamily` knows one family: its current session and the set of sessions
that exist anywhere. The mapping is `FamilyState`: the family's only live session
if there is one. `ImplementsSessionFamily` says this of all families at once.

### TelemetryEndpoint, FirmwareClient, DeviceSimulator, PresentationRunner, DevicePath

`TelemetryEndpoint` is the server as a device sees it. `Limit` is `consumeIp` and then
`consumeDevice`: the windows count first, are pruned when there are too many, and
only then is the limit looked at. `Guard` and `Ingest` are the rest of `DeviceAuthGuard`
and the answer of `ingest()`. `Break`, `Lose`, `Distrust`, `WindowEnds` and `Neighbour`
are what else may happen; each costs an incident of the bound.

`FirmwareClient` takes `telemetry_client.cpp` at the level of single memory
accesses where no mutex protects them: `enqueue()` runs on one core without the spin
lock, so its statements are steps (`Sample`, `WriteSample`, `WriteBody`,
`WriteAttempts`, `ReadSize`, `WriteSize`, the last two being `++size_`), and the task
on the other core shifts the queue (`Shift`, `ReadFromSize`, `WriteBack`). `Pick`,
`Defer`, `BeginFails`, `Send`, `TakeAnswer`, `NoAnswer` and `Conclude` are `runTask` and
`sendFront`. `http.begin()` is of the platform; when it fails (`LoseClient`, until
`RegainClient`), the front is rescheduled with one attempt more, which nothing limits
but the byte it is counted in (`AttemptValues`). `Reboot` empties the RAM. That the queue is a data race is part of the model; its
outcome is any interleaving of these accesses.

`DeviceSimulator` gives each scenario as the payloads it sends and the answers it
demands; it stops at the first other answer, a failed `fetch()` or a signal.

`PresentationRunner` is a command as a sequence of steps, each of which changes
one thing outside the runner, and may end before any of them (`Interrupt`):

| Steps | Code |
|---|---|
| `Setup` | `setup`: passwords are drawn once |
| `Start`, `CheckPorts`, `Migrate`, `Spawn`/`Leave`/`Record`, `Provision`, `KeepSecret`, `UseBuild`/`Build`/`WriteSentinel`, `WaitForWeb` | `start` with `ensurePortsAvailable`, `startComponent`, `provisionDeviceAndProfile`, `buildIfNeeded`, `waitForUrl` |
| `Stop`, `Reset`, `Terminate`, `Forget`, `Wipe`, `Clear` | `stop`, `reset` with `stopComponent` |
| `Bind` | what `service.mjs` has spawned takes its port, any time after `spawn()` |
| `End`, `Restart`, `RotateByHand`, `Edit`, `EditDuringBuild`, `LoseConfig` | what happens to processes, machine, credential, sources and files |

A server that finds its port taken ends. `unseen` is history: the servers whose port
`ensurePortsAvailable()` found free although a process that no file tells of was to
take it, or had been passed over like that before.

`DevicePath` composes them: `client` says whether the firmware, the simulator or
the runner's machine is looked at. A request carries its own message from the
device's memory to the `rows` of the endpoint; `fate` records what the device
believes became of each reading.

### Cursors and Listing

`Cursors` has the orders and `cursorWhere` of the four listings and what a cursor
is bound to: the fields of the query that are hashed differ from one to the
other. `Listing` reads one of them page by page (`AskFirst`, `AskMore`, `Serve`, `Receive`) while
rows are created and updated (`Change`), the secret changes (`ChangeSecret`) and a
cursor may be used with another query or limit. The audit log is read by its page,
whose "load more" button can be pressed again before an answer has come, so
answers overlap and come in any order, or not at all (`Fail`); it appends only
what it does not show yet (`AppendNew`).

## 3. Runs

| Run | Instance | Shows |
|---|---|---|
| `moves` | `MCPages`: 2 devices, 2 points, a sample of each device, 1 handler, 1 evaluator run, a page; 0.94 million states up to an exchange of the points | `IInv`, on which the theorems of `MonitoringStateProofs` rest, and what the pages show, while devices are moved and disabled under samples in progress and between the reads of a page |
| `ingestion` | 1 device, 2 points, 4 samples (two messageIds and a sequence used twice, 3 device times, one of them twice), 2 handlers, 2 profile versions, 2 credentials; 0.76 million states up to an exchange of the points and of the handlers | storage, timestamps, counters, monotone projections |
| `evaluator` | 1 device, 2 samples, 2 runs, lock of one tick, horizon of three, 2 profile versions, 2 pairs of limits, one failure or restart; 0.38 million states | neither early nor late, decay, agreement with the pages, liveness |
| `risk_levels` | 9 profiles whose limits cross, 8 readings, missing ones included, up to 3 samples in three days of 3 units; 97,800 states | monotonicity, exact rain totals, buckets, the demonstration |
| `notifications` | 2 workers, 2 events of which one is malformed, 2 attempts, one fault; 0.4 million states | the outbox keeps its promise, and every event is settled |
| `sessions` | 3 sessions, 2 users; one tab with two requests at once, one tab and an incident, two tabs; 0.89 million states up to an exchange of the two requests | a family has one current session and stays ended; who a page asks as; when a refresh counts as a replay |
| `device_path` | a queue of 2 slots, 1 retry, attempts counted modulo 3, 3 readings, 2 requests per window, 2 tracked subjects, 2 incidents; 4 commands and 2 accidents of the runner; 0.94 million states | which readings may be lost, the limits, the simulator's verdicts, the runner's files and what may run twice |
| `listing` | 3 rows, 2 keys, pages of 1 or 2, 2 requests at once, 2 changes; 1.95 million states | steady rows come exactly once, the page shows nothing twice |
| `telemetry_point`, `every_change`, `one_evaluator`, `unreadable` | small instances | disagreements between code and documentation, section 6 |

Why these bounds are enough to meet the cases.

* `MonitoringState`: two device times that may arrive in either order make a late
  sample, two samples of one time a tie; two versions make one
  become active while a handler holds the other; a second device at the same
  point needs the first one to have left or been disabled; two runs and a lock
  that expires after one tick make a run that works beside its successor. Two pairs
  of limits, each version with either, make a replacement that keeps, narrows or
  widens them. The points of `moves` and `ingestion` are interchangeable, and so are
  handlers, which these runs use as symmetry: they check no liveness. In
  `moves` a sample of each device is enough to show one device's level in the other's
  place; samples that come late are those of `ingestion` and `evaluator`, and the
  theorems.
* `NotificationWorker`: two attempts make a first and a last one. `BatchSize` is one
  since a drain that goes on behaves like one that starts again.
* `RiskLevels`: `Carry` is shorter than a day and longer than half of one, so a rate
  crosses midnight, ends before the next sample or is cut by it; a late sample may
  come between two others. The range of a series is at most 8 units against
  buckets of 2 and 3, so that the last bucket is cut off.
* `WebSession`: three sessions make a family with a rotation and a second family, or a
  family rotated twice. Two tabs make a replay of a cookie; two requests of one
  tab make one that joins the other's refresh; they are interchangeable, which the
  run uses as symmetry. The run checks `WebInv`, of which `IInv` is a part.
* `DevicePath`: two slots make a front and one that moves up; with three readings the
  queue is full once; one retry makes a first and a last attempt, and with
  three values of the counter it passes that limit and wraps when `http.begin()`
  fails; two tracked
  subjects are fewer than device, address and neighbour, so the map overflows.
  Four commands are, for instance, setup, an interrupted start, a start and a stop.
* `Listing`: two keys for three rows make ties; a page of one row makes three pages.
  The values of the filter are interchangeable, which the run uses as symmetry.

`MaxTime`, `MaxVersion`, `MaxCredential`, `MaxFaults`, `MaxSamples`, `MaxIncidents`,
`MaxReadings`, `MaxCommands`, `MaxAccidents`, `MaxChanges` and `Scenarios` bound the
instances only. Where they end the behaviours (`MonitoringState`, `WebSession`,
`DevicePath`, `Listing`), or the system may stop, as a simulator that is done, the
runs do not look for deadlocks. In `RiskLevels` and `NotificationWorker` deadlock is
checked.

`moves` checks `IInv`, which implies `KnownLevelIsLive` and `LevelMatchesAssessment` by
theorems; these two are therefore checked only in `evaluator` and `ingestion`. The
type invariants of `RiskLevels`, `NotificationWorker` and `RefreshSessions` are
proved, the last two are checked as parts of `IInv`. `ListingInv`, on which the theorems
of `ListingProofs` rest, was checked with the constants of `listing` before it was
proved; the run itself checks what follows from it.

Fairness. `FairSpec` of `MonitoringState`: the clock goes on, a transaction that
has begun ends, the scheduler's interval starts a run whenever the lock is free
(weak fairness of starting any run), a run takes its next candidate and ends,
the lock's timer fires. No administrator, device or fault is fair. This is what
`setInterval`, `setTimeout` and a database that answers give. `FairSpec` of
`NotificationWorker`: time passes, and every worker's drain goes on; `fetch` has
a timeout and the interval restarts a drain that has stopped. `DevicePath` has one
condition, weak fairness of `Progress`: the loop, the task, the access point and
the server as a whole do not stop while one of them can go on. None of them is
favoured, no window of the rate limit has to end and no request has to be
answered: a timeout counts as progress of the task; that `http.begin()` works again is
not assumed. `RefreshSessions`, `WebSession`,
`Listing` and `RiskLevels` state no fairness: nothing there has to happen.

* `SilentDeviceIsNoticed`: a point with a sample older than `offlineAfterMinutes`
  becomes OFFLINE unless a newer sample, a move or a disable comes first. It needs a
  run that starts late enough, so it is stated for samples received early enough for
  one to fit the instance's horizon, and while no replacement of the profile puts
  the limit beyond it.
* `EveryEventIsSettled`: with finitely many crashes, every queued event ends SENT
  or FAILED.
* `ReadingsSettle`: with finitely many incidents, every reading leaves the queue,
  acknowledged or given up. Without a certificate for an https URL, or while
  `http.begin()` fails, nothing does: `Defer` is not counted as an attempt, and
  `BeginFails` counts one without looking at the limit. The property excepts both.

## 4. Proofs

`MonitoringStateProofs` proves `Spec => []IInv` from `ConstantsAssumption` (sets and
numbers are what they are called, a null is no member of its set, `online` is below
`offline` in each of `Limits`, as `validateConfiguration` has it), for any number of devices, points, sites,
handlers and runs and any samples and profiles. The safety properties are
seldom inductive as they stand; what they need is

* `OpenIsProtected`: what an open transaction found is still true: its principal
  is current, its sample is not stored, the version it read lies between the
  point's and the active one, and it is alone on its device;
* `NothingNewer`: no stored sample is newer than its device's `lastTelemetryAt`;
* `StateRefersToRows`: the sample a state names is stored and the device's, and
  the version it names is not above the active one;
* `KnownLevelInv`: a known level is that of an enabled device at the point, and
  its sample has the device's `lastTelemetryAt`. With `NothingNewer` this gives
  `KnownLevelIsLive`.

The argument: `Commit` is the only step that stores a sample or gives a point a
level (`OtherSteps`); every other step leaves a level with all that belongs to it
or takes it away (`LevelsOnlyGo`), which preserves everything but the part on
open transactions; `Commit` is in order by what protects it. The other theorems
follow from `IInv`: `OneDevicePerPoint`, `LevelsAreLive`, `LevelsAreAssessed`,
`LevelsAreAnnounced`, `SamplesAreStoredOnce`, and for steps `ProjectionIsMonotone`,
`StoredByCurrentPrincipal`, `VersionIsMonotone`.

`DashboardProofs` adds `TimesInv` to that: a run works with a time that has passed
(`RunsInv`); what a point is marked with fits its latest sample by the limits in
force, unless these were widened since (`PointsInv`); the
device's timestamps are maxima. `CountersFollow`, `TimesAreMaxima` and
`MarkedInTime` are parts of it. `PagesAgree` compares the limits of the page with
those of the evaluator from `MarkedInTime`. `OverviewIsTrue` is a theorem of `PageSpec`:
whatever happens between the two reads, the second one shows a level only of an
enabled device at the point (`IInv`), and while the page's own device is still there
it is the only one (`SingleOccupant`); complete sensors follow from the classification. For
`OwnerOnlyDecays`, `OwnerInv` says that the run that owns the lock started last and
what is marked is so by its time, and `ConnectedInv` that an enabled device's
point has a known connectivity.

`RiskLevelsProofs` proves `WorseningNeverLowers` for all integer readings and limits
(`LevelOfIsMonotone`); it needs that `safe` is below `danger` for each sensor, which
`ValidProfile` says, and that a sample with a level is complete. From the same it
proves `DemonstrationIsComplete`: the samples of the demonstration are ordered as
the limits are (`SamplesAreOrdered`), technically plausible if the lowest and the
highest are (`RangesAreConvex`), and hence of the six levels in turn.

`EverySampleIsShown` needs `Fine` and `Coarse` to be positive and no bucket of a short
range to be longer than one of a long range (`SeriesAssumption`); a bucket is the
multiple of its length below the time (`SampleIsInItsBucket`).

`TotalsAreIntegrals` is a statement about sums over histories of any length, so it
needs induction. It is done over sets: the numbers of which something is true form a
set, and a set of naturals that has 0 and every successor is all of them
(`NatSetInduction`, from the well-founded order of the naturals). With it the fold of
the community modules adds in any order (`SumAdds`, `SumsDiffer`), and the two totals
are compared instant by instant: moving the end of an interval by one instant adds the
rate in force to what the samples bring (`BroughtByOneMore`), because at each instant
at most one rate holds, and to what has fallen (`FallenByOneMore`). It assumes that a
rate holds for at most a day (`Carry \in 1..Day`; the code has a minute), since a
window that starts a day before the first day counted has to contain every sample
whose rate reaches into it.

`NotificationWorkerProofs` proves its `IInv`, whose core is that copies in the chat
plus messages in workers' hands never exceed the row's attempts and that what a
worker holds is true of its row, and from it `CopiesAreCounted`,
`RetriesAreUsed` and `Implementation`, which is `Spec => D!Spec`, step by step under
`Phase`. It assumes finitely many workers.

`RefreshSessionsProofs` proves its `IInv` for any number of clients, sessions and
users, each client free to ask anything with any session it was given; the tabs
of `WebSession` are such clients. The parts: `OneLive` (a family has at most one
session that can be used), `UpdateSeesAll` (what a revocation under way does not
see was put there by a rotation beside it), `FamiliesAreRooted` and `HeldExists`
(what handlers hold is a row). They give `EndedFamiliesAreDead`, and
`SessionsImplementFamilies`: initial states map to initial states and each step
is a step or a stutter of `SessionFamily` for every family (`FamilyStep`).

That the tabs are such clients is `BrowserIsAClient`, so that all of this holds of the
browser (`BrowsersFamilies`). `WebInv` adds what the browser knows: a call under way is
that of the one fiber that waits for it and what it asks with was given to it
(`BrowserOK`); a revocation under way is of one family (`TargetsOfFamily`); and, as long
as one tab is open and nothing was lost, all that the tab still uses and that is not
over is of one family (`OneFamilyEach`), and no refresh under way has a session that was
rotated (`NoReplay`). From it follow `ReuseNeedsACause` and `TokenIsTheShownUsers`, for any
number of tabs, fibers, users and sessions. The proof showed an exception that three
sessions are too few for: a bootstrap or login whose `me` fails leaves its session to
the cookie without anyone having logged out, and a request from before, refused
late, refreshes with that cookie and gets its token. Such families are recorded in
`abandoned`, and `TokenIsOfShownUser` excepts them.

`DevicePathProofs` proves `LimitsHold` from `LimitInv`: as long as a subject's window
runs, its entry is in the map and counts at least what has passed, whatever is
pruned; and `QueueIsSound` from `QueueInv`: a core that is about to read `size_` knows
what the other one may have made of it, so `size_` never leaves its bounds and
`enqueue()` never writes behind the array, although neither waits for the other; of the
attempts it claims only that they stay in their byte.
The third, `NoReadingIsLost`, holds for any capacity, number of retries and
readings, by `ReadingInv`: a reading that is queued and was not overlapped by a removal has a
slot which neither `++size_` nor `--size_` can put out of the queue (`Placed`), the
answer that the task takes is to the message it sent (`RequestsInv`), and the
front is removed only after its fate is known (`FatesInv`). `SimulatorsStopsHaveCauses`
follows each scenario through the endpoint: a scenario is fresh payloads and at most
one that repeats the first (`Scripts`), and `RunningInv` says which rows and request there
are after each of its steps.

`PresentationRunnerProofs` proves two invariants of the runner's steps: `FilesInv`
(what a command holds is what the file will say) and `ProcessesInv` (a pid is that
of one process; and `ServerInv`: of a server that the last start has not overlooked one
process at most is not told to terminate, and it is on record while that start has
still to come to it). `DevicePathProofs` concludes `FilesAreTrue` and `NothingRunsTwice` for the
composition.

`ListingProofs` proves `SteadyRowsOnce` and `EntriesOnce` for any rows, filters, limits,
requests and changes. A cursor is a place in the order of the query, and
`cursorWhere` of each listing is what follows that place (`CursorsAreTheOrder`), nulls
and ties included; a cursor that decodes is one of the client's own query
(`AnswersAreOfTheQuery`); an answer has, of the rows that do not change, those between
its cursors (`PagesAreOK`). `ListingInv` says that this stays true of answers under way
while other rows change, that the steady rows shown are an initial part of those
wanted, without a gap, and that whatever a request's cursor has passed is shown. On
the audit page, where answers overlap, an entry that is new to the list then cannot
precede one that is shown. A finite set can be put in order because
an element's place is one more than the number of those before it (`OrderedFacts`),
which takes no induction.

Every safety property that a passing run checks is also proved. Only
model-checked are the liveness properties `SilentDeviceIsNoticed`, `EveryEventIsSettled`
and `ReadingsSettle`: liveness under fairness and ENABLED are out of this prover's
reach. The four runs that expect a violation are counterexamples and need no proof.

## 5. What the properties do not say

Levels

* `KnownLevelIsLive` is about the stored state; between two runs of the evaluator
  a silent device's level is still stored, but `ShownLevelIsItsOwn` says that the
  overview no longer shows it.
* After a replacement that widens the limits, what is marked DELAYED or OFFLINE stays
  so until the next run, although the limits now in force, and the pages, call it
  fresher; that run sets it back without a sample. `NotMarkedEarly`,
  `NeverFresherThanMarked` and `ConnectivityOnlyDecays` except these points
  (`widened`), until a run has seen them.
* `ConnectivityOnlyDecays` holds for the run that owns the lock. A run that has
  outlived its lock decides with an older time and may set a point back from
  OFFLINE to DELAYED, or from DELAYED to ONLINE, until the next run.
* Two samples with the same device time: the later one to commit is the latest.
* At the very instant of `offlineAfter` the page says OFFLINE, the evaluator DELAYED.
* After a device is disabled and another registered at the same point, the page of
  the new device joins it with the old one's last sample until its own comes;
  `ShownLevelIsItsOwn` is about the level, which has been withdrawn.
* If its device is disabled or moved between the two reads of a page, the page shows the
  state of the point it has left, which may be that of a device that came there
  meanwhile; `ShownLevelIsItsOwn` then says only that the level is live and recent. If
  the profile is replaced in between, the page judges by the limits it has read.
  Each read is one step, although Prisma sends more than one query for an `include`.
* Rain is counted low when samples are further apart than the minute for which a
  rate may hold; `TotalsAreExact` takes that rule as given.
* The demonstration needs room: `Presentable` fails if `danger` exceeds three times
  `watch`, or a tenth of their distance above `danger` is outside the technical range;
  src/docs/PRESENTATION_DEMO.md:49 names the six levels without a condition.

Sessions

* A session that a rotation inserts between the two steps of a logout's UPDATE
  outlives the logout (`raced`), against src/docs/07_SECURITY_OPERATIONS.md:41 and
  src/docs/04_API_CONTRACT.md:88. `EndedFamilyIsDead` excepts it.
* With two tabs, or after a lost answer, a family can be ended as a replay that was
  none: `ReuseHasACause` names the causes.
* A login or bootstrap whose `me` is not answered leaves its session to the cookie; a
  late request can pick it up under another user's page (`abandoned`).

Devices

* `OnlyOverlappedAreLost` excepts `overlapped`: a reading that is enqueued while the
  task takes another one out can be lost, or its slot be torn, message id and
  body being of two readings, which the server answers with 400
  `IDEMPOTENCY_KEY_MISMATCH`.
* While `http.begin()` fails, the front is tried for ever: its attempts pass
  `MAX_RETRIES` and wrap after 255, no reading leaves the queue, and new ones are
  refused once it is full. When it works again, a front whose attempts have reached
  the limit is given up at its first retryable answer.
* Nothing bounds the number of claims of an outbox row whose worker is lost every
  time.

Presentation runner. The exceptions of its properties are real cases: a secret
rotated on the device page, or created by a request whose answer was not written
down over an old file, is stale until `reset`; after a restart of the machine a
reused pid makes `start` skip a component or `stop` signal a stranger; a start that
ends between `spawn()` and `writeJson()` leaves a process that nobody knows of: of a
simulator the next start makes a second one; of the API or the web site only if it
looks before the first one has taken its port (`unseen`), and of the two the one that
comes late to the port ends. A
web site or an API that is running is not restarted after a rebuild, and the API
is built on every start whatever src/docs/PRESENTATION_DEMO.md:47 says of builds.

## 6. Disagreements with the documentation

* `telemetry_point`: the comment on the foreign key of `Telemetry` says that a row
  keeps the point it was taken at; `ON UPDATE CASCADE` makes it follow the device.
* `every_change`: docs/30 promises a notification for every change to UNKNOWN;
  disabling or moving a device makes none.
* `one_evaluator`: docs/05 says that the lock leaves one effective evaluator; it
  expires under a run that takes longer than four minutes.
* `unreadable`: docs/30 says that network errors are retried; an answer with
  status 200 whose body is lost is taken for a refusal, and a message that was
  delivered is recorded as FAILED.

## 7. Not modelled

* Registration and moves by single statements: `MonitoringState` takes each of
  these transactions as one step, relying on the unique index on enabled devices
  of a point and on the row locks; the order in which they are taken is not looked
  at.
* Reasons, snapshots, display names, units, the text of messages, audit rows other
  than changes of level, and the audit of requests that are refused.
* Configuration, health, request context: parsing and wiring without a state.
* `RolesGuard` beyond whether a user is an owner: a comparison of constants.
* The pages other than the audit log: they poll and show the last answer.
* What sensors measure and the firmware's own judgement: values of a reading.
* Two commands of the presentation runner at once; `status` and `open`, which only read.
* `validate-openapi.mjs`, load tests (`src/performance/`), deployment files
  (`src/infra/`), the legacy backend (`src/backend/`).
