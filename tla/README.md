# Dockora: a TLA+ verification

Dockora is a web interface for one Docker host. A Fastify process (`apps/api`) owns the Docker
socket, the directories with Compose projects and a SQLite database; a Next.js front end
(`apps/web`) calls it. Node runs one thread, so two handlers interleave only at their awaits: a
step of a model is what a handler does from one await to the next. Several objects of one service
class exist in the process, one per module that builds it, and what a class guards with a private
field is guarded only within one object. A page is a client whose requests may fail, may have been
done although they failed, and may be answered in another order than they were sent. Much of what
follows is about that.

## 1. The system

| Component | State | Operations | What makes it correct |
|---|---|---|---|
| Per-project lock (`withProjectLock`, `compose.service.ts`) | a promise per project | enter, run, leave | one operation at a time, first come first served, no entry left behind |
| Compose projects (`ComposeService`) | compose file, `.env`, temporary and backup files, containers | edit, edit env, pinned recreate, add/remove service, up, remove | no acknowledged edit lost, no pin left, an edit replaces what its author saw, a failing edit or pin leaves a copy |
| Creation and removal of a project, list of projects (`compose-discovery.ts`) | a folder, the memo of the list | create, remove, scan | a creation is all or nothing, the list follows |
| Image updates (`UpdatesService`) | check rows, `applyInFlight`, tags, containers | check all, prune, apply with rollback | one apply per container, the report is true, an apply ends |
| Self-update | `.dockora-revision`, progress file, updater container, a flag | status, apply, the updater's script | no pending update hidden, a running updater kept, a hung one removed |
| Host Docker update | status, script on the host, its client | apply, progress lines, end | a script is reported as it ended, one at a time |
| Scheduler | rows, cron tasks, `running` | start, stop, update job, run job | no overlap, tasks follow rows, nothing after stop |
| Accounts, sessions, two-factor codes, lockout | users, session versions, guard cache, secrets, codes, counters with a mirror file | user administration, set-up, login | revoked rights end, an administrator remains, a code counts once, a lock lasts |
| Settings and authentication switch | rows, two caches, a schedule | read, change | no cache outlives a change that succeeded, the schedule follows |
| Docker client | list caches, event stream | readings, actions, reconnect | one stream, no cache hides a change it was told of |
| Backups | archives, rows, extracted files | create, restore, delete, clean up | the files a restore overwrites are kept, "ok" means that no entry failed, listed means whole |
| Monitoring, lifetime statistics, retention | cooldown, counters, tables | healthcheck, record, prune | no repeated alert, no lost record, newest rows kept |
| Plugins | disabled row, registry, workers | start, enable, disable | a plugin is as last asked |
| Home layout (`modules/home`, `casa-desktop.tsx`) | settings rows; per page layout, dirty flag, timer, save queue | get, put, edit, save, conflict, reload | nobody's edit overwritten unseen, queues drain |
| Apps and departments of the desktop | orders, departments, drag, boxes | load, drag, drop, fit | a drop moves one app, departments do not overlap |
| Live dashboard | memo, stream, page | push, poll, reconnect | the page comes to show what there is |
| Pages with lists | list, dialogs, banner, event stream | load, reload, run operations | what is shown is so, a list catches up |
| Page of a Compose project | two editors, base hashes, requests | load, type, save, add service | a save replaces what it was made of |
| Sign-in of a page | page, cookies, sessions, requests | status, login, refusal, logout | the login form exactly when the session is refused |
| Terminal | socket, bridge, exec stream, idle timer | open, type, close | nothing is left of it |
| Notifications, thin Docker wrappers, HTTP layer, rendering, scripts | little or none | | not modelled, see section 6 |

How they meet. Routes call the service objects of their own module. `updates/index.ts` and
`scheduler/index.ts` each build an `UpdatesService`, and for it a `ComposeService`;
`compose/index.ts` builds the one that the editor uses. The scheduler's `update_check` calls
`checkAll` and, if so configured, `applyUpdate`; `applyUpdate` calls `recreatePinned` of its own
`ComposeService`. `PUT /settings` rewrites the schedule. All of them share the disk, the Docker
daemon and the database. The self-updater restarts the API, so everything in memory may vanish
between two awaits. Browsers hold copies of layouts, files and lists for as long as they like.

What is hard: handlers interleaving at awaits, private guards of several objects, multi-step
operations in which any step may fail, a crash between two writes, flags tested before an await and
set after it, caches filled by answers to old requests, answers in another order than requests,
requests that fail after having been done. `PROJECT.json` lists these hazards, each at its line,
with the properties that cover it.

## 2. Modules

| Modules | Model | Theorems in |
|---|---|---|
| `FifoLock`, `ProjectLock` | what a lock promises; `withProjectLock` | `ProjectLockProofs` |
| `ComposeService` (EXTENDS `ProjectLock`) | the operations on one project, on one or several objects | `ComposeServiceProofs` |
| `TtlMemo`, `ComposeCreate` | `createTtlMemo`; `create`, `remove` and the list | `OperationsProofs` |
| `HostUpdate`, `Terminal` | what the API runs on the host for longer than a request | `OperationsProofs` |
| `ImageUpdates`, `SelfUpdate` | `UpdatesService`; `SelfUpdateService` with its script | `ImageUpdatesProofs` |
| `ListPages` | the six pages with lists, live reloading | `ImageUpdatesProofs` |
| `Scheduler` | `SchedulerService` | `OperationsProofs` |
| `Accounts`, `LoginLockout`, `TwoFactor`, `SignIn` | who comes in: in the API, and what a page shows of it | `AccessProofs` |
| `SettingsStore`, `DockerClient` | what is kept of something that changes elsewhere | `CachesProofs` |
| `HomeLayout`, `LiveDashboard` | the layouts of the desktops; the dashboard's stream | `BrowserProofs` |
| `Backups`, `Alerts`, `Retention`, `LifetimeStats`, `Plugins` | what the server does beside its requests | `MaintenanceProofs` |
| `ComposeEditor` | the page of one project | `MaintenanceProofs` |
| `HomeApps`, `DepartmentFit` | the desktop's apps and boxes | `MaintenanceProofs` |
| `MC*` | instances for TLC, and how the parts of one stand side by side | in the module of their parts |

The state of each module is that of the code, under the code's names where they are free; each
action is a handler from one await to the next, and its comment says what is particular about it.
Conventions that hold throughout:

* **Contents are numbers or names.** A compose file is a function from services to images, a
  digest or a revision the number of its publication, a layout the set of edits in it (so that
  "lost" means "missing"), a text of the editor a number and its own hash, a list the version of
  what there is to list.
* **Time is counted in ticks** of the thing that waits for it: a cache's age, a lock's window, the
  idle timer. A tick may come at any moment, so every order of a timeout and an answer occurs.
* **A write is two steps** (torn, then written) where the code uses `writeFile` and a reader or a
  crash can fall in between (`ComposeService`, `Backups`); `docker compose` is one step.
* **History variables** (`saved`, `disk.harmed`, `crossed`, `overtaken`, `missed`, `lost`, `asked`,
  `decided`, ...) record what the code does not keep and a property needs; no guard reads them.
* **Wiring is a constant.** `HolderOf` says which `ComposeService` object serves which operation,
  `Objects` are the `UpdatesService` objects. The program's own wiring is `AsDeployed` in
  `MCCompose`, and two objects in `UpdatesDeployed.cfg`.

`FifoLock` is abstract: a queue per key, and `ProjectLock` is shown to implement it. There a promise
is named by the call that made it: `projectChains[k] = c` says that the map holds the chain built by
`c`. `EnterLock` is the synchronous head of `withProjectLock`, `AcquireLock` what follows
`await prev`, `ReleaseLock` the finally block.

**Composition for TLC.** Components that share no state in the code are checked side by side: an
instance such as `MCAccess` chooses a `part` in its initial state, and a behaviour is one of that
part, under that part's fairness, while the others rest in one pinned initial state. Its type
invariant is that of the running part. Where components do share state they are one module, or one
EXTENDS the other (`ComposeService` uses the lock's own actions, `ComposeCreate` and
`LiveDashboard` the memo's).

## 3. Runs

All instances are small enough for a complete search, without state constraints; `maintenance`, whose
properties are all of states and steps, takes the two backup jobs as interchangeable. Calls are
finite in number and end, so the instances stop: deadlock is not checked, and that nobody waits
for ever is stated as liveness instead.

| Run | Instance | Shows |
|---|---|---|
| `operations` | 2 calls of any of the 7 Compose operations on one object, every write may fail, one crash; 1 job with 2 updates that may cross and 2 runs; 2 calls that create or remove beside a scan; 2 host updates and a restart; a terminal | `SavedOnDisk`, `UserTextKept`, `EveryCallReturns`; `NoOverlap`, `NothingAfterStop`, `TasksAreTheRows`; `CreationIsExact`; `HostUpdateIsTrue`; `NothingLeft` |
| `liveness` | 4 lock calls on 2 projects; 2 applies and a check, 3 digests, all three kinds of container; 2 clicks, 3 commits of 2 releases; one page of each kind with 2 requests, a change and a mishap | `MutualExclusion`, `ServesInOrder` (the refinement of `FifoLock`, with fairness); `OneApplyPerContainer`, `ReportIsTrue`, `EveryApplyEnds`; `UpdatesHold`, `HungUpdaterEnds`; `PageIsTrue`, `ListCatchesUp` |
| `access` | 2 requests in each part; 2 accounts, 2 addresses, 2 backup codes, 2 intervals, 2 readings, 2 sessions | `RightsHold`, `LockoutHolds`, `CodesHold`, `SettingsTakeEffect`, `DockerIsFollowed`, `SignInIsTrue` |
| `maintenance` | 2 backup jobs on a file, a volume and the settings, 2 prunings, 3 recorders, 2 healthchecks, 2 plugins and 3 workers; an editor with 2 env files; a desktop of 2 containers, a link and 2 departments; 3 departments' boxes | `RestoreIsTrue`, `NewestRowsKept`, `RecordsCounted`, `NoRepeatedAlert`, `PluginsAsAsked`, `SaveReplacesItsOrigin`, `AppsKeepTheirPlaces`, `FitIsExact` |
| `browser` | 2 pages of the home screen, 3 edits, one of them in a cache; one dashboard whose stream breaks and which is hidden once | `EditsHold`, `QueueDrains`, `DashboardCatchesUp` |
| `compose_deployed_edit` | an edit and a pinned recreate, wired as in the program | **violation** of `SavedOnDisk` |
| `updates_deployed` | a manual and a scheduled update, on two objects | **violation** of `OneApplyPerContainer` |
| `updates_pinned` | an update, rolled back, then another | **violation** of `SuccessRunsOffer` |
| `self_update_clicks` | a double click | **violation** of `NoParallelStart` |
| `home_layout_effect` | the loading effect may run over an unsaved edit | **violation** of `NoEditLost` |
| `alert_swallowed` | two containers whose names differ in a number | **violation** of `NoAlertSwallowed` |
| `editor_insecure` | the project page over plain http | **violation** of `ReadProjectIsShown` |

Each passing run also checks the types of the part that runs.

Why the bounds let the interesting cases happen. The races here are between two calls, and every part
has two, of any kind; a third is there where two are not enough: the lock needs three callers for a
chain with a middle (it has four, on two keys), two plugins need a third worker for one of them to be
replaced, three departments push each other in turn, and the lifetime row has a third recorder that
comes alone beside two that overlap. An update needs the offered image, the one before it and a newer
one that appears meanwhile: three digests. A self-update needs a commit with and one without a new
version. A cache is fresh for one tick, so that it can be filled, be fresh, and be stale. A lock
falls after two failures, so that it can be missed by one. Two pages and three edits let each page
save, conflict and save again. `MaxEdits`, `MaxNews`, `MaxReloads` and their like bound how often the
surroundings change; what they bound is unbounded in the theorems that have the same property.

### What the violations say

* `compose_deployed_edit`: `CHANGELOG.md:22` says that edits and pinned recreates share a
  per-project lock. They run on different `ComposeService` objects, whose locks do not know each
  other, and the restoring write of a recreate overwrites an edit made meanwhile.
* `updates_deployed`: `CHANGELOG.md:23` says that a second apply is refused while one is in flight.
  The manual and the scheduled updates use two objects.
* `updates_pinned`: after a rollback the container refers to its image by digest; the next update
  pulls that old digest again and reports success (`updates.service.ts:283`, `:287`).
* `self_update_clicks`: the flag that is meant to stop a double click is tested, and set only
  after several requests (`self-update.service.ts:73`, `:118`).
* `home_layout_effect`: a loading effect that runs again over an unsaved edit keeps the old layout
  but takes the new revision, and the next save passes the comparison (`casa-desktop.tsx:308`).
* `alert_swallowed`: the fingerprint of an alert drops every number, the one in a container's name
  too, so `web-2` is silent while `web-1` cools down (`alert-cooldown.ts:17`).
* `editor_insecure`: over plain http, the address that `docs/DEPLOY.md` gives, `crypto.subtle` is
  missing and the project page shows an error for a project it has read
  (`compose-detail-page.tsx:102`).

### Other disagreements seen in the code, without a run

Compose, updates, scheduler:

* Two pinned recreates on two `ComposeService` objects can leave the pin in the compose file.
* `compose.service.ts:455`: a failing restore of the original file is swallowed and the backup
  removed. `:341`: an edit is written over the old file; if that fails the old text is nowhere, and
  the new one in the temporary file.
* `compose.service.ts:647`: `remove` does not take the lock; a service started between `down` and
  the deletion of the directory stays behind.
* Overlapping creations in one folder share the temporary file and the `.env`. A project that stands
  there under another of Compose's file names has its `.env` overwritten, and deleted if the
  creation is refused; a new `compose.yaml` shadows a `docker-compose.yml`. A failing write leaves
  remnants; a failed start, and a removal that a creation crosses, do not clear the list's memo,
  which is stale for up to 8 s.
* `updates.service.ts:90`: rows are pruned by ids that were listed before the checks. `:170`: a
  rate limited check may overwrite the digest that a later one read. `:264`: the digest to roll back
  to is the tag's on the host, not the container's. `:251`, `:784`: the guard is keyed by container
  id, so an update of the container under its new id may overlap the health wait of the first, and
  a standalone container is removed before the new one is made.
* A container recreated by Compose *project* is rolled back by tag, to the image that failed.
* `dockerode-client.ts:306`, `:180`: a pull and an action on a container have no time limit. If Docker
  never answers, the update does not end, and its container is "already being updated" until the API
  is restarted.
* `self-update.service.ts:566`: without `.dockora-revision` the git HEAD is taken for the deployed
  revision, against the comment at `:553`. `:82`: while the updater's image is pulled the progress
  file is that of the last run. `:544`: an inspection of the updater that fails reads as "no updater",
  and the call goes on to remove the one that runs (`:402`). `:466`: a hung updater that cannot be
  removed stays, and nothing waits for it any more.
* `scheduler.service.ts:84`: if the answers of two updates of one job cross, the task of the older
  row stays. `settings/index.ts:88`: so do two changes of the interval.
* `settings.service.ts:167`: if one row of a change cannot be written the others are, but the caches
  and the schedule are not told; `settings/index.ts:92`: if the schedule's update fails the old one
  stays beside the new interval. `backups.service.ts:288`: settings that a restore puts back reach
  neither the login switch's cache, for up to 5 s, nor the schedule.
* `docker-host-update.service.ts`: the time limit kills the client only; the script goes on, a
  second one may be started, and lines that come late overwrite the error's step.

Accounts, monitoring, backups, plugins:

* Two demotions or deletions that overlap can both count the other's administrator as the last but
  one. `login-lockout.ts:84`: a failure under way when a window ends starts it anew.
* `auth/index.ts:365`: set-up, confirmation and disabling of two-factor codes write over each other.
* `dashboard/index.ts:97`: a client that leaves during the first message leaves its timer and its
  subscription behind. The recording of container events is not awaited, and its failure not caught.
* `backups.service.ts:327`: a `.bak.` copy that fails is taken for a file that was not there. Two
  restores of one archive share the directory they extract into. `:270`: entries that are refused or
  missing are passed over and the answer is still `ok` (the tests expect it for the refused ones,
  `backups.service.test.ts:99`). `volume-backup.ts:72`: a volume is emptied before it is unpacked into,
  and what was in it is kept nowhere; nor are the settings that a restore replaces.
* Plugins: an `error` of a worker that has been loaded ends the API; a failed unregistering leaves a
  dead worker registered; two enablings that overlap leak a worker, and two changes of
  `plugins.disabled` lose one; a plugin whose name is not its directory's is never found loaded.
* Terminal: a socket that closes before the close listener is registered leaves the exec stream
  behind, as does a failed resize; what is typed before the bridge is joined is lost; refused
  messages still put off the idle timer.

Pages:

* `casa-desktop.tsx:237`, `:285`: an answer to a load that crosses a save shows an older layout, for
  applying it bumps neither epoch nor generation. `home-layout-save.ts:39`: what is submitted
  while a conflict is resolved is replaced by the remote layout, and nobody handles a reload that
  fails in the run started at `:48`. The client does not cap links (the server keeps 40) and accepts
  addresses that the server rejects; a drag drops absent containers from the order, and a cancelled
  pointer drops as well; moving one department of a pixel layout rescales the others.
* Containers and updates pages: a failed bulk run's message vanishes with the load after it; single
  actions on the containers page may overlap; the filter button loads with the old filter.
* Project page: what is typed during a save, or before the load after an operation, is overwritten;
  the base hash is not renewed after a service was added.
* Scheduler section: a run's failure is cleared by the load after it, which also resets typed texts.
* Sign-in: after a reload with an expired session the readable cookie is gone with the token, so
  that the page shows an app whose requests all fail (against `CHANGELOG.md:576`); a wrong code
  in the dialog that disables two-factor codes logs out; a first `/auth/status` that fails leaves
  the switch off; a late refusal or farewell that crosses a login throws the new session away;
  `settings-page.tsx:156` compares with the edited draft, so the reload after turning the switch
  never happens.

## 4. Fairness

Fairness is per actor, and is stated only for what the program or its platform does by itself;
clicks, edits, events of the surroundings, failures and crashes are never fair.

| Part | Fair | Because |
|---|---|---|
| lock, Compose operations | a call that can go on does | file operations end, `docker compose` runs under a timeout of 300 s, Node runs resolved promises |
| image updates | the steps of an apply that have a time limit (`StepInTime`) | listing and inspecting (`withTimeout`), the registry (`AbortSignal.timeout`), `docker compose` (300 s) and the health wait end; a pull, a prune and the actions on a standalone container (`AwaitsDocker`) have no limit and are not fair, nor are checks and publishing |
| self-update | the API's timer for an updater (`Finalize`) | a timer fires while its process lives, though the removal it asks for may fail; the script is not fair and may hang |
| home layout | timers, answers, the queue (`DesktopStep`) | requests are answered or fail |
| lists | the debounced event, the 60 s timer, requests | timers fire while the tab is visible, requests end |
| dashboard | the server's interval, ages, requests, reconnecting, polling: weak. `BuildDone`: strong | timers fire and requests end; each overview may fail, but not all of them for ever |

`ServesInOrder` includes liveness: `FairLockSpec` serves every caller of the fair `FifoLock`. No
fairness is assumed of the host's Docker update, backups, plugins or the sign-in, whose
properties are safety.

## 5. Proofs

The theorems hold for any values of the constants that satisfy the named assumptions: any number of
calls, pages, keys, containers, files, and any bound. TLC checks the same property on the instance of
section 3. An inductive invariant was first checked by TLC where it was not obvious. Every safety
property of a passing run is stated by a theorem, and for five of the violations a theorem says that
what the run varies is all that they come of.

What the components promise:

| Theorem | Statement | Assumptions beyond those of section 5.2 |
|---|---|---|
| `LockExcludes`, `MapEntryExact` | one call per project; an entry exactly while somebody is active | |
| `ServedInOrder` | `LockSpec => Queue!Spec`: the lock implements the abstract queue, step by step | |
| `ComposeExcludes` | locked operations on one object exclude each other, after a crash too | |
| `FileIsAsSaved`, `UserTextIsKept` | `[]SavedOnDisk`, `UserTextKept`: an edit replaces what its author saw, and what goes wrong first in an edit or a pinned recreate loses no text; failing writes of `updateEnvFile`, `addService` and `removeService` are outside it | `ServedBy(k)`: one object serves the calls that lock |
| `CreationsAreExact` | `CreationIsExact` | |
| `HostUpdatesAreTrue`, `TerminalLeavesNothing` | `HostUpdateIsTrue`, `[]NothingLeft` | |
| `NoMarkIsLeft`, `OneObjectGuards` | marks are exact; `[]OneApplyPerContainer` | the second: one `UpdatesService` object |
| `ReportsAreTrue` | `ReportIsTrue` | |
| `UpdateIsKeptAndShown` | `UpdatesHold`: no pending update is hidden and no running updater removed, unless the call's inspection of it failed (`SelfUpdatesAreKept`), and the progress goes forward | `Installed = 1`: `.dockora-revision` has been written |
| `ProgressGoesForward` | `ProgressMonotone`, the second half of `UpdatesHold` | none, not even `Installed = 1` |
| `OneCallIsSafe` | `NoParallelStart`, which too is about calls whose inspection answers | `[]OneCallAtATime`: calls do not overlap |
| `PagesAreTrue` | `PageIsTrue` | |
| `JobsDoNotOverlap`, `NoTaskIsLeaked`, `SchedulerStops`, `TasksFollowTheRows` | `[]NoOverlap`, no stray task, `[]NothingAfterStop`, `[]TasksAreTheRows` | |
| `RightsAreHeld` | `RightsHold` | |
| `LocksAreKept` | `LockoutHolds`: a lock lasts (`LocksLastLong`), and wrong answers are bounded (`WrongAnswersAreBounded`) | |
| `SecondFactorHolds` | `CodesHold`: a backup code counts once (`BackupCodeCountsOnce`), and what is enabled has been confirmed | |
| `SignInStaysTrue` | `SignInIsTrue` | |
| `SettingsApply`, `DockerFollowed` | `[]SettingsTakeEffect`, `[]DockerIsFollowed`; the first but for changes that failed half way | |
| `EditsAreSafe` | `EditsHold`: no edit is lost (`EditsAreKept`) or taken for saved (`CleanPagesAreSaved`) | `~DirtyEffects`: the loading effect does not run over an unsaved edit |
| `EventsAndSamplesCounted`, `AlertsAreNotRepeated`, `NewestRowsStay`, `PluginsFollowRequests` | `[]RecordsCounted`, `[]NoRepeatedAlert`, `NewestRowsKept`, `[]PluginsAsAsked` | |
| `OnlyAlikeAreHeldBack` | `[]NoAlertSwallowed` | `AlikeAreOne`: no two things have texts of one fingerprint |
| `RestoresAreTrue`, `ListedStaysWhole` | `RestoreIsTrue`: the copies of overwritten files, and entries put in place or passed over; a listed archive is whole | |
| `SavesAreSafe` | `SaveReplacesItsOrigin` | |
| `FitEndsExact` | `[]FitIsExact` | |
| `AppsStayWhereTheyAre` | `AppsKeepTheirPlaces` | |

The assumptions of the last column are about the wiring and the surroundings, not about what the
code does. Where the program does not meet them a run of section 3 shows what follows, and the theorem
says that nothing else is needed for it: `compose_deployed_edit` (two objects), `updates_deployed`
(two objects), `home_layout_effect` (`DirtyEffects`), `alert_swallowed` (a number in a name) and
`self_update_clicks` (two calls). `ReportsAreTrue` names its exceptions in the property, and
`updates_pinned` is one of them.

Nobody waits in vain. The liveness of section 3 cannot be proved here, but its safety half can: whoever
waits, what he waits for is under way, or can go on. So only fairness is left to the runs.

| Theorem | Statement |
|---|---|
| `LockIsNeverStuck`, `ComposeIsNeverStuck` | of the calls of a project that wait or run, one is not held back; after a crash too |
| `ButtonsDoNotHang` | no operation of a list's page waits for a load that nobody makes |
| `PageIsServed` | the dashboard polls, connects or has a stream that is fed, and every overview that somebody waits for is being put together |
| `EditorIsServed` | a project page that shows nothing yet has its request under way, and an operation that waits for the project waits for one request |

Types, of every component: `LockTypeCorrect`, `ComposeTypes`, `CreateTypesStay`, `HostUpdateTypesStay`,
`TerminalTypesStay`, `SchedulerTypeCorrect`, `UpdateTypesStay`, `SelfUpdateTypesStay`,
`ListPagesTypes`, `AccountsTypesStay`, `LockoutTypesStay`, `CodesTypesStay`, `SignInTypesStay`,
`SettingsTypesStay`, `DockerTypesStay`, `HomeTypesStay`, `DashboardTypesStay`, `LifetimeTypesStay`,
`AlertsTypesStay`, `RetentionTypesStay`, `PluginsTypesStay`, `BackupsTypesStay`, `EditorTypesStay`,
`HomeAppsTypesStay`, `FitTypesStay`. The types contain the bounds that the code relies on: ids that
do not run out, updaters no more than clicks, a row that never counts past its records.

Side by side. The instances of section 3 compose parts that share no state. `OperationsAreTheirParts`,
`LivenessIsItsParts`, `AccessIsItsParts`, `MaintenanceIsItsParts` and `BrowserIsItsParts` say that a
behaviour of an instance is, for each part, a behaviour of that part's module; so the type invariants
of the instances hold (`OperationsTypesStay`, `LivenessTypesStay`, `AccessTypesStay`,
`MaintenanceTypesStay`, `BrowserTypesStay`), and each part keeps its promise there (the corollaries
`OperationsHold`, `LivenessHolds`, `AccessHolds`, `MaintenanceHolds`, `BrowserHolds`).

### 5.1 The arguments

**The lock.** Mutual exclusion is not inductive: deleting the map entry in the finally block is safe
only because the owner of the entry is the *last* in line, and running means being the first. The
invariant `LockIInv` numbers the active calls: there is a `rank` such that calls of one key have
different ranks, each stands one behind the call whose promise it awaits, a call that runs has the
least rank of its key and the entry's owner the greatest. Being first and last is being alone. For
the refinement the line of a key is a sequence, chosen by `CHOOSE`, and must be unique: two lines
that differ would differ at a least place, and there both name the call behind the same promise (the
least place is `WFMin` on the naturals). That the lock is never stuck is the same numbering: of the
calls of a key that wait, the one of the least rank awaits nobody.

**Compose operations.** Every step of `ComposeService` is a step of the lock, leaves it alone or, at a
crash, resets it, so `LockIInv` carries over. With one object, at most one call is between its check
and its return. `CallRelies` says, for each await, what the call there relies on: its `original` is
what was saved, the base it compared is still on the disk, the backup it will restore from is what
it read. `FileAtRest` is the property without a call at an open file. **Creation** has no lock;
`Stands` says for a creation beside which nothing has changed the folder that the folder is the one
it found and what it has written into it so far. For the list: a scan that no step has overtaken
has read the folder as it is (`ScansStand`), which is what makes the filled memo current.

**Updates.** A call that ends takes away the mark of its target, which is right only if no other call
of its object has that target (`Alone`); that a new call has a fresh target is right only if the
marks are exact: `GuardInv` is their conjunction. What an update reports is followed by
`CallStands`, for calls that met no other: what runs, what the tag names and what the row says at
each await, among them that a row about a pinned container says what it is pinned to.
**Self-update:** `Chain` orders running, image, source and remote head; `ShaStands` says that the
revision a script is going to write down is in place by then; `SeenStands` that of the updaters started
when a call was made none is started later, and none runs once the call is past its inspection;
`OwnUpdater` that the updater made for a call is that call's. Between a call's inspection and its start
nobody but another call starts an updater: that is all `OneCallIsSafe` needs. The history component
`inspection` tells the calls whose look at the updater failed, which nothing is promised for. `ProgressInv`: the log's
percentage is not ahead of the file's, so that the file is what is shown, and from the rebuild on the
file is at the 28 that the log may be cut back to; the file only grows.

**Counting.** What numbers are bounded by is seldom local. An update makes at most two containers, so
the ids given out are at most one and twice the updates that have passed their first or second
creation; a click starts at most one updater; each change of a setting raises the gate's generation
once; each recorder under way leaves room for itself in the lifetime's row. Each is an inequality
between a counter and the cardinality of a set of calls, which a step moves by one on both sides.

**Scheduler.** A callback that executes has its job in `running`, and no other run takes it out. The
task in a job's entry was made for that job, so replacing it touches no other's. `OneAnswer`: while the
answers of a job's updates have not crossed, at most one is on its way, and it carries what the row
is now; so the task is the row's, or that answer will make it so.

**Caches.** What a reader is going to fill a cache with was true at a known moment; the invariants
say for each request under way whether a change has come since. For the gate (`GateInv`): while it
knows of every switch, what it holds is the row, and so is what a request that may fill it has read.
A change that fails half way leaves what it has written in `dropped` until a later change has told of
it or, for the gate, its answer has expired; `Untold` is what a change under way has still to tell.
For `DockerClient` (`KeptInv`): an answer that no invalidation has overtaken has what is promised, in
the cache, on its way, and for everyone who waits for it; `StreamInv` adds that a stream is attached
only while there is none and is never given up. `RecentInv` adds up ages: a request that runs was
sent no longer ago than its timeout, what it brings was true when it read, and what a cache holds was
true no longer ago than the timeout and the entry's age together; so no answer is overdue. The
desktop's `PageStands` ties the revision a page knows to a layout that it shows or is saving, or says
that the server has left that revision behind: only then does comparing revisions compare layouts.
That the flag for unsaved edits is right (`BeliefInv`) needs more of the queue: what is shown is what
is saved, or a timer runs, or the queue is going to run again; and a timer that runs although nothing
is unsaved is left over from before a conflict, so that the page knows a revision by then.

**Accounts and codes.** A cached row is the row, or has changed no longer ago than the entry is old
(`TrueEntry`); calls carry what they read and whether it is late. Registered accounts are finitely
many, which needs `FirstAdmins` to be finite, and counting administrators is their cardinality. Whoever
calls has been created, so that nobody else's row is cached. `CodesInv`: no code left in the row has
been spent, the batch a confirmation is about to hand out is nobody's yet, and a login holds a code
that was left when it read the row. `ConfirmedInv`: while no writer has overtaken another, a
confirmation under way holds the secret of the row, which is among the confirmed ones.

**The lockout.** A counter whose lock has time to run is locked and full, and the file holds such
counters too: so a lock lasts. How many wrong answers fit into a period is `Fits`, about the account's
counter: while its window is open, the period has no more than that window has counted, one of which
came before the period, or the window began in the period, and there is what it has counted and what
one window can leave behind it; once it is locked, the calls under way, whose number each of their
answers lowers by one, make up the rest, and the lock outlasts what is left of the period.

**Maintenance.** Each is an invariant of what the steps under way have read against what there is:
samples that met no other (`ReadStands`), prunings that delete only rows older than `MaxRows` others
(`KeepsNewest`, with cardinalities of finite sets), a fingerprint's cooldown against the subject's,
workers against registry and row (`WorkersAreTrue`, `AskedStands`). A fingerprint that cools down was
let through for something alike; where alike is the same, for the subject itself. For backups, an
archive has one writer, a listed one is closed, and a restore's `left`, `at`, `done` and `passed` are
together what the archive holds, while `copied` says that the `.bak.` copy is what stands in the file.

**Pages.** `SignIn`'s invariant relates page, cookies and each request under way (`Phase`, `Tracks`);
`ComposeEditor`'s says that texts are numbered as they are made and that, unless a load has crossed
an added service, an editor's text is not older than its base; `ListPages`' is about dialogs and
banners (`WorkStands`) and about the requests of the volume's panel (`PanelStands`). That nobody
waits in vain counts requests: who waits on the project's page waits for one request that is its own,
which ends with it; whoever the dashboard waits for has a build under way, for asking starts one or
joins one and stops none.

**The desktop.** For the boxes, one pass in order puts each where it belongs, for what pushes a box
lies above it and has been put already; a second pass changes nothing, so the loop rests after it.
Both are inductions over the order of the boxes, done by the least counterexample (`LeastNumber`). For
the apps, a drop takes one key out of a sequence without repetitions and puts it in elsewhere
(`GoesTo`, `ComesFrom`), and filtering keeps the order of the others; so only the app dragged has
another order or department after it.

### 5.2 Assumptions on constants

Each module names its own (`...Assumption`): bounds are natural numbers and, where the code has a
constant like it, positive; values that mark an absence are none of the things they mark; the sets
that name calls, jobs and files are disjoint or nonempty where the code has them so (`EnvFiles` always
has `.env`, `FirstAdmins` is finite and not empty, versions do not fall as revisions rise). What is
counted is finite: `Applies`, `Clicks`, `Logins` and `Recorders`, for calls that have been made are
finitely many; so are the departments (`FitAssumption`). A page always has a request to make (`ReadIds`), the
heights of boxes are at least two cells and what they contain takes none or more, and no container has
the key of a link (`HomeAppsAssumption`). TLC evaluates all of them.

### 5.3 What the proofs found

* `ReportIsTrue`, `UpdatesAreKept` and `NoEditLost`, as first stated, held only through small bounds:
  updates that cross under a new id, an install without the revision file, and a loading answer that
  crosses a save (`casa-desktop.tsx:237`) each break them on a larger instance. The first and the
  last now name their exception, the second its assumption.
* The bound on wrong answers, as first stated, counted one window. TLC showed a call let in before a
  lock and answered after it, which begins a second one. The bound is over both now, and tight: with
  one less, TLC finds a behaviour that exceeds it. Its proof showed that a first failure must not lock
  (`MaxFailures` above one; the code has 5).
* `UpdatesHold`, `SettingsTakeEffect`, `RestoreIsTrue` and `EveryApplyEnds` were true of a model in which
  an inspection, an upsert, an entry of an archive or a pull does not fail or stall. The code goes on
  after each of these, so the steps are in the model now, and the properties name what follows.
* The progress of a self-update was thought to need `Installed = 1`; it does not.
* `WorkAsked` of `ListPages` had overlapping guards in a CASE, which TLC reads in order and the logic
  does not; they are exclusive now. `PreferredEnv` of `ComposeEditor` needs a nonempty `EnvFiles`.
* A desktop without departments has no loop to end: `DepartmentFit` says that its fitting is settled
  from the start, which the theorem needs and a check with three departments does not show.
* The flag for unsaved edits is right only because a second save is asked for by a timer or by an
  unsaved edit; a timer that outlives a conflict asks for one too, which is harmless, as it saves what
  the page was just given.

### 5.4 What is only checked

* Liveness: `EveryCallReturns`, `EveryApplyEnds`, `HungUpdaterEnds`, `ListCatchesUp`, `QueueDrains`,
  `DashboardCatchesUp` and the fair half of `ServesInOrder`. The provers have no fairness or ENABLED.
  Where somebody waits for somebody else the safety half is proved (section 5); the steps of an update,
  of a queue and of the updater's timer wait for no other actor, the first for Docker at most.
* What the violations show. `ReadProjectIsShown` and `SuccessRunsOffer` have no theorem: the first
  is one branch on what the browser has, and the second is, where it holds, a part of `ReportIsTrue`.

The library's theorems of induction cannot be used, as they take an operator; what needs induction
here is done with the least number for which a claim fails. No module has a RECURSIVE operator.

## 6. Not modelled

Of modelled components: backup copies of a project; a failing database, registry protocols and
notifications in the updates; self-update in image mode and on the host; what a home layout contains,
pixels, widgets and pictures; a page that is closed; the scheduler's default rows and next runs, and
what its callbacks do; cookies' attributes, CSRF and route policies; masking of secrets; single calls
of the Docker client without a cache; the dry run of a restore; thresholds and averages of the
monitoring; the plugin directory; nested folders of the discovery. A write of the progress file is
taken as atomic, as is each `docker` command.

Whole components: notifications (a row and a request whose failure is logged), the wrappers of single
Docker calls for containers, images, volumes, networks and logs, the HTTP layer with OpenAPI and
types, rendering and translations, and the installation scripts have no state worth a model. They
are most of the repository's lines: JSX, messages in two languages, types and request wrappers. What
the components keep, and why a part is left out, is in `PROJECT.json`.

## 7. Plan

Done: the modules of section 2, each with its instance; the theorems of section 5, with the types of
every component and of the instances, the counting they need, and the safety halves of the liveness
of the lock, the lists, the dashboard and the project page.

What is left, by importance:

1. A check, with more than one API process, of what the in-memory locks and marks promise, should the
   program ever be run that way.
2. A model of the notifications and of the container log stream, if they come to keep state.
3. One `ComposeService` and one `UpdatesService` in the program would turn `compose_deployed_edit` and
   `updates_deployed` into passing runs: the theorems for that wiring are there.
