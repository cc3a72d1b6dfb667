# Lemuria in TLA+

Lemuria automates Argo CD from pull requests. A webhook of GitHub or GitLab becomes a
task; the task plans, syncs, rolls back or unlocks Argo CD applications; a lock in Redis
ties an application to one pull request meanwhile. This directory models the parts of it
where the order of steps decides whether that works, and the pure computations the rest
relies on, checks them with TLC on small instances, and proves with TLAPS, for any
instance, every safety property that the runs check: of the lock manager, auto-sync, the life
of a pull request, the wait for a sync, the queue, the detection of applications, the diff of
a plan and logins.

Paths are relative to the repository (`src/`); `redis.go`, `applications.go`, `plan.go`,
`sync.go`, `executor.go`, `appdetect.go` and `autosync.go` are
`internal/lock/redis.go`, `internal/argocd/applications.go` and
`internal/commands/plan.go`, `sync.go`, `executor.go`, `appdetect.go`, `autosync.go`.

## 1. Inventory

| Component | Code | State | Operations | What makes it correct | Module |
|---|---|---|---|---|---|
| Lock manager | `internal/lock`, `internal/models/lock.go` | Redis keys: a lock per application, an index per pull request, saved policies, each with a time to live | Lock, Unlock, ForceUnlock, Get, ListByPR, StorePlan, UpdateLock, Store/Get/DeleteAppSetAutoSync | one holder per application; a lock is found through its index; no rewrite loses a plan or a policy | `LockManager` |
| Stale-lock reclaim | `plan.go:514-566` | none | GetPR, then ForceUnlock | only locks of closed pull requests are taken | `LockManager`, `PRWorkflow` |
| Auto-sync policy | `autosync.go`, `sync.go:928-1018`, `rollback.go:100-144` | the policy in Argo CD, its copy in the lock or in a key | disable for applications, templates and parents; restore | what was switched off is remembered, and switched on again in the right order | `AutoSync` |
| Sync wait | `applications.go:174-222, 408-799` | the watch stream, two timers, a timeout | SyncApplication | the result is of this sync, of settled health, and comes at all | `SyncWait` |
| Plan, sync, rollback, unlock commands, UnlockAll | `plan.go`, `sync.go`, `rollback.go`, `unlock.go`, `executor.go:97-174` | plans in locks, target revisions in specs, what is deployed | as named | only a fresh plan is synced, by its holder; what a pull request changed in a spec is taken back | `PRWorkflow` |
| Affected applications | `executor.go:213-795`, `appdetect.go`, `argocd/parser.go`, `vcs/helpers.go` | a list built in six steps | match changed files, compare manifests | every affected application is planned, as what it is | `PathMatching`, `AppDetect` |
| Webhook handlers | `internal/webhook`, `models/event.go` | none | validate, parse, dispatch | every event that is accepted is processed or at least tried | `WebhookEvents`, `WebhookQueue` |
| Task queue | `internal/queue` | asynq's queue in Redis | EnqueueWebhook, ProcessTask, retries | nothing enqueued is lost; every task ends | `WebhookQueue` |
| Diff | `argocd/diff.go` | none | branch, live and both modes | the diff is exactly what changes | `Diff`, `TempApps` |
| Temporary applications | `argocd/tempapp.go` | applications in Argo CD | create, wait, delete | none is left behind; none of another plan is deleted | `TempApps` |
| Sessions, roles, logins | `internal/auth`, handlers in `server/routes.go` | Redis keys: states, sessions, their index, roles | login, logout, list, update of a role | an ended session stays ended; one that lives is listed; an administrator remains | `Roles`, `Login` |
| Rate limiter | `server/ratelimit.go` | attempts per address | Allow, cleanup | exactly the attempts over the limit are refused | `Login` |
| Command parser | `commands/parser.go` | none | Parse | the command in a comment | |
| Progress comment | `sync.go:1020-1136` | one comment per sync | postInitial, updateResult, postFinal | the last text posted is the final one | |
| HTTP server, clients, configuration, UI | the rest | | | plumbing | |

**Interactions.** A webhook handler puts the event into the queue, or starts a goroutine
when there is no queue or enqueuing failed; a worker turns it into a call of the
`Executor`. Executors of several workers and processes share nothing but Redis, Argo CD
and the VCS, which they call step by step with no transaction around two calls. Tasks of
one pull request are not ordered. A plan finds the affected applications, renders each of
them for both branches as temporary applications in Argo CD, locks the application and
stores the plan in the lock; a sync needs that plan, switches auto-sync off, rewrites specs
and waits for Argo CD. Argo CD acts by itself all the time: it syncs applications that
have auto-sync, including parents that rewrite their children, makes generated
applications match their ApplicationSet, and reports health changes on the watch stream.
Administrators log in and delete locks over HTTP. Redis keys expire.

**What is hard.** Read-then-write sequences without a transaction (locks, whole-spec PUTs,
login states, roles); failures and deaths between a change in Argo CD and its record in
Redis; two keys with different times to live; timers racing the stream; another
operation's events in the stream; duplicate, late and unordered tasks; events that carry an
older commit than the branch has; temporary applications that share a name; a list of
applications to which six steps add. `PROJECT.json` lists these under `hazards`, each at
its line, with the properties that would notice it going wrong.

## 2. Modules

| Module | What it is |
|---|---|
| `ExclusiveLock` | abstract specification: an application has one holder at a time |
| `LockManager` | the lock manager one Redis command per step, driven by the commands' call sequences; implements `ExclusiveLock` |
| `LockManagerProofs` | theorems about `LockManager` |
| `SyncWait` | one call of SyncApplication against Argo CD, the stream and the clock |
| `SyncWaitProofs` | theorems about `SyncWait` |
| `AutoSync` | the life of an application's auto-sync policy, over tasks of several pull requests |
| `AutoSyncProofs` | theorems about `AutoSync` |
| `PRWorkflow` | the commands of pull requests from the first plan to the end: locks, target revisions, deployments |
| `PRWorkflowProofs` | theorems about `PRWorkflow` |
| `WebhookEvents` | what a webhook means and what is done about it, as operators |
| `WebhookQueue` | from the webhook to the executor: asynq, its workers, the goroutine in its place (EXTENDS `WebhookEvents`) |
| `WebhookQueueProofs` | theorems about `WebhookQueue` |
| `PathMatching` | which files an application or a pattern is about, with reference definitions |
| `AppDetect` | findAffectedApplications, step by step (EXTENDS `PathMatching`) |
| `AppDetectProofs` | theorems about `AppDetect` and `PathMatching` |
| `Diff` | the comparisons of a plan, as operators |
| `TempApps` | what a plan does with temporary applications to get what it compares (EXTENDS `Diff`) |
| `TempAppsProofs` | theorems about `Diff` and `TempApps` |
| `Roles` | who may log in and with which role, as operators |
| `Login` | logins, sessions, roles and the rate limiter, one Redis command per step (EXTENDS `Roles`) |
| `LoginProofs` | theorems about `Login` |
| `MC...` | instances of them for TLC |

The modules meet at the calls they make atomic: `LockManager` takes the locks apart that
`AutoSync` and `PRWorkflow` use in one step; `AutoSync` has the policies and parents that
`PRWorkflow` leaves out; `SyncWait` is the wait within `PRWorkflow`'s `Deploy`; `TempApps`
is the diff within its `PlanApp`; `AppDetect` computes its `Affects`, `New` and `Deleted`;
`WebhookQueue` is what starts its tasks, and why they come late, twice or out of order.

Most modules have a few *faulty variants* of their own definitions (named in the header).
They are not part of the specification: replacing a definition by its variant makes a
property fail, which shows that the property depends on that line of the code.

### LockManager

`lock`, `lockTTL`, `index` and `indexTTL` are the Redis keys `lemuria:lock:*` and
`lemuria:pr-locks:*` with their times to live; `open` is what the VCS says. `worker[w]` is
the call a goroutine is in: `pc` names the Redis command it is about to issue, `seen` the
record its last GET returned, `purpose` what called it and so where it continues.
`claims` and `tainted` are history.

| Action | Code |
|---|---|
| `LockGet`, `LockRefresh`, `LockSet`, `LockIndex`, `LockExpire` | `RedisManager.Lock` (redis.go:75-130): GET; SET of a held lock; or SET, SADD, EXPIRE of a new one |
| `ReclaimGetPR` | `reclaimStaleLock` (plan.go:526-566): GetPR, then ForceUnlock and Lock once more |
| `PlanGet`, `PlanSet` | `StorePlan` (redis.go:257-278) |
| `SaveGet`, `SaveSet` | `Get` and `UpdateLock` around a saved policy (sync.go:975-988, rollback.go:115-125, autosync.go:190-195) |
| `UnlockGet`, `ForceGet`, `ForceSRem`, `ForceDel` | `Unlock`, `ForceUnlock` (redis.go:148-190) |
| `ListIndex`, `ListFilter`, `Sweep` | `ListByPR` and the loop of `UnlockAll` and `executeUnlock` |
| `Begin...` | the tasks: plan, save a policy, lock a parent, unlock, forced unlock |
| `Fail` | a Redis call fails or the process dies |
| `Close`, `Tick` | the VCS; time |

A lock record keeps its holder, the pull request whose plan it carries, and whether it
carries a policy: what the properties tell apart. The keys `plan:*` and
`parent-autosync:*` are left out because no command reads them.

The manager does *not* guarantee exclusion in general, as run `lock_race` shows. What it
does guarantee, and the properties say, is everything up to a *damaged* record: `tainted`
collects an application whenever a SET overwrites a record other than the one its writer
had read, a call stops between the lock and its index entry, or the index expires before
the lock. For all other applications the lock is exclusive, listed and complete. The
definition of damage is part of the model and deliberately small: `Exclusive` still has to
hold in spite of unlocks that delete another pull request's lock, double releases,
reclaims and expiry.

### SyncWait

Argo CD is a status (operation, phase, health) that changes by `OperationStarts`,
`OperationEnds` and `HealthChanges`; each change is appended to `stream`, as the watch
delivers them in order, until `Expire` (the watch's context is done) or `Disconnect`
closes it, perhaps losing the last events. The call is `Watch` and `Post`, then the loop of
`waitForSyncComplete`: `Read` handles one event, with `Stale` for the skipping,
`AwaitEnd` for the phase and `CheckHealth` for the health; `TimerFires` is the two timer
cases of the select; `ChannelClosed` is `streamEnded`. `healthyFor` and `missingFor` are
the time since `healthyAt` and `missingAt`; a timer runs exactly while its time is set.
Event and timer are separate actions that may both be enabled, as select picks either.

### AutoSync

`auto` holds the applications and templates whose spec has an automated policy, `lock` the
locks with the fields that remember a policy, `kept` the ApplicationSet keys. A worker goes
through `disableAutoSyncForLocks` (`BuildParentMap`, then for each lock `DisableGet`,
`DisablePut`, `Save`, `SetGet`, `SetPut`, `SetStore`, `FindParents`, and for each parent
`LockParent` and the same again), the sync (`Sync`, `Rewrite`), auto-merge (`Merge`,
`Revert`, `Relist`) and the restore (`RestoreChildren`, `RestoreParents`, `RestoreSet`,
`ForgetSet`, `Unlock`). An update is a GET and a later PUT of the whole spec, so an update
of one task may undo another's. `Reconcile` is the ApplicationSet controller, `SyncParent`
Argo CD syncing an app of apps. Calls to the lock manager are atomic here, because
`LockManager` is where they are taken apart.

`excused` collects the applications whose policy was lost in a way the code cannot help or
says it accepts: a failed call or a death between the change in Argo CD and its record, a
failed restore, an unlock, a key that expired, a rollback of an application whose lock
the pull request does not hold, and a parent that is unlocked because disabling it failed,
with whatever its ApplicationSet generates.

### PRWorkflow

`lock` keeps what the commands look at in a lock: holder, revision of the plan, change type,
whether there is a source file, whether the plan is empty. `target` and `live` are the
targetRevision of each spec and the revision last synced; a revision is a commit of a pull
request, the base branch or what else an application tracks. `planned`, `excused` and
`forced` are history.

| Action | Code |
|---|---|
| `BeginPlan`, `PlanApp` | `executePlan`, `planApplication`: the diff (which deletes a new application of the name, `Rendered`), then `lockAndStorePlan` (`Takes`) |
| `BeginSync` | `executeSync` up to the loop: the freshness check (`PlansAreCurrent`), the leaf applications (`Leaves`), skip_no_changes |
| `WriteSpec`, `WriteFails`, `SyncDeleted` | `syncApplication`, `syncNewApplication`, `syncDeletedApplication` up to the POST |
| `Deploy` | the POST and the wait, whatever they end in |
| `EndSync`, `Merge`, `Relist` | the end of `executeSync`, with `autoMergePR` and the release that follows |
| `BeginRollback`, `Rollback` | `executeRollback`, of all locks or by name |
| `BeginUnlock`, `BeginUnlockAll`, `Revert`, `Reverted`, `Unlock`, `Return` | `executeUnlock`, `UnlockAll`, `revertTargetRevision` |
| `ForceUnlock`, `Push`, `Close`, `Die` | an administrator or the time to live; the VCS; the process dies |

Workers of one command sync in parallel, so `WriteSpec` and `Deploy` of its applications
interleave. An event carries any commit up to the head: it may have waited in the queue.

`excused` collects the applications whose spec the code may leave at a commit for a reason
it logs or that section 6 lists: a failed revert, an unlock, a reclaim, a lock lost during a
sync, a merge after a sync that did not write them.

### WebhookEvents and WebhookQueue

A payload keeps what the handlers look at. `Handle` is the verdict on a request, `Parse` the
event, `TaskReaction` and `FallbackReaction` the two copies of what is done about one.

`task` is asynq's record of each delivery (external: how asynq behaves is taken from how
`internal/queue` uses it), `runner` the worker or goroutine. `Enqueue` is `EnqueueWebhook`;
`FallBack` the goroutine that takes an event the queue refused, for an error or a known ID;
`Take`, `Retry`, `RetryDue`, `Recover` and `Expire` are asynq; `Plan`, `UnlockAll`, `Ignore`,
`SkipRetry`, `Fail` and `Finish` are `ProcessTask` and `processEvent`; `Crash` and `GiveBack`
are a process that dies or shuts down. A marked comment, one Lemuria wrote, is refused before
it gets here.

### PathMatching and AppDetect

A path is a sequence of segments, and wildcards stand for whole segments. `MatchesPath`,
`FileMatchesAppSources` and `ResolveValueFile` are the code; `DoubleStar`, `Follow` and
`Reads` say what they are meant to mean and are not taken from it. `Follow` walks a path from
the root of the repository, where it goes `Outside` for good if `..` leads above it; the code
instead cleans the path (`Clean`) and compares. Files that changed have no `..` in their paths,
as Git has none.

`AppDetect` runs through the steps of the function, each of which may fail at its call to
Argo CD: `MatchScanned`, `ExpandAppSetMappings`, `ListApplications`, `CompareManifests`,
`CompareSets`, `AddDeleted`, `DetectCrossRepo`. `Inputs` are the situations, all of them
initial states.

### Diff and TempApps

`Diff` has the four comparisons over manifests that keep a key and what they say. `TempApps`
executes `Steps(p)`, the list of calls that a kind of change and a mode need, one at a time:
`ClearName`, `Create`, `Wait`, `GetManagedResources`; an error (`Abort`) ends the list but not
the deferred deletions (`Delete`). `apps` is Argo CD's temporary applications by name, and
names of different applications may be cut to one (`Stem`). `left` is where a fault may have
left one.

### Roles and Login

`Roles` has who is admitted (`Admitted`), what a login knows (`Groups`, `Users`) and the role
that follows (`AssignedRole`, `ResolveRole`). `Login` has a request per handler and one Redis
command per step: `Callback`, `ConsumeState`, `Exchange`, `ResolveForSession`, `StoreSession`,
`IndexSession` for a login; `Request`, `Authenticate` and then `Logout` and `Unindex`, or
`ListUsers`, `ListOne` and `Listed`, or `UpdateRole`. `BasicLogin` asks the rate limiter,
whose goroutine is `Cleanup`. `tried` has the times of all attempts let through; of the times
the limiter holds, `attempts` keeps which attempts they are of.

## 3. Runs

| Run | Checks | Bounds | Result |
|---|---|---|---|
| `locks` | TypeOK, Exclusive, ListedWhileHeld, PlanFromHolder, NothingLost, ImplementsExclusiveLock | 1 application, 2 pull requests, 2 workers, TTL 2, faults | holds |
| `lock_race` | NeverTwoHolders | the same without faults | violated |
| `sync_wait` | TypeOK, ResultIsOfThisSync, SuccessIsSettled, EndedSyncIsNoTimeout, Returns | timeout 4, stabilization 2, grace 3, 4 status changes | holds |
| `auto_sync` | TypeOK, PolicyKept, TemplatesKept | 2 workers, 2 pull requests, a child of an ApplicationSet and its parent | holds |
| `auto_sync_faults` | PolicyKept, ChildrenFirst | 1 worker, 1 pull request, two children and a parent, faults, unlocks | holds |
| `webhook_queue` | TypeOK, NothingForgotten, HopelessOnce, ClosedIsUnlocked, TasksEnd | 3 deliveries, one sent twice; 1 worker, 1 goroutine, 1 retry, 1 death, faults | holds |
| `pr_workflow` | TypeOK, OnlyPlannedRevisions, TargetsReturn, DeployedByHolder, MergedIsDeployed | 2 applications, 2 pull requests with up to 2 commits, 2 workers, 4 tasks, faults, unlocks | holds |
| `replan` | PlansKeepApplications | 1 application, 1 pull request, no faults | violated |
| `detection` | TypeOK, GlobIsDoubleStar, ReadersAreFound, ChangesAreFound, TypesAgree | 1 application, 1 ApplicationSet, patterns and paths of up to 3 segments, faults | holds |
| `diff` | TypeOK, DiffIsRight, CleanedUp, DeletesOnlyOwn | 3 plans, 2 workers, 3 keys, lists of up to 3 manifests, faults | holds |
| `login` | TypeOK, ListedWhileLive, AdminsRemain, LimitIsExact, EndedStaysEnded | 2 requests at a time, up to 2 sessions, 2 attempts in a window of 2, faults | holds |
| `login_roles` | ConfiguredRole | the same | violated |

**Why the bounds are enough.** No key, and no step of the lock manager but the list of a
sweep, relates two applications, so one application shows every race on a record; the
proofs cover any number. Two workers are what a check-then-act race needs. A TTL of 2 lets
a refresh fall between the creation and the expiry of a key. In `SyncWait` the timeout
exceeds both periods and four status changes are enough to end an operation and let health
flap twice. In `AutoSync` the family has one application of each kind (generated, parent,
and plain in `auto_sync_faults`), and the ApplicationSet and the parent relate to the same
child, which is the most entangled case; two workers interleave two pull requests that
share all of them. In `PRWorkflow` four tasks are what it takes to plan, sync and end one pull
request and let another take the lock, or to plan twice around a push; of the two
applications one has several sources and is removed by the other pull request, one is new.
In `WebhookQueue` the merge is sent twice, so that the second delivery meets every state of
the first one's task; one retry and one death separate the first attempt, the last and
those in between. In `AppDetect` every step looks at applications one by one, so one is
enough; three segments give a `**` something before, under and after it. In `TempApps`
three plans let one take over what a second deletes while a third begins; `ContentWorlds` has
every combination of what branches and cluster say, `SharingWorlds` every way to share a
name. In `Login` two requests show the races on a record, and the three worlds keep apart
what does not interact: administrators, callbacks, passwords.

What TLC does not cover: two workers *and* faults at once in `AutoSync`, three or more
generations of parents (the depth limit of 32 is not modelled), several applications at a time
in `AppDetect`; the theorems do. Not covered at all: several ApplicationSets at a time in
`AppDetect`.

**Bounds in the model.** `MaxEvents` bounds the changes Argo CD reports; `Timeout`, `Stable`
and `Grace` are periods in ticks; `LockTTL` is seven days in ticks; `MaxTasks`, `MaxPlans`,
`MaxPosts` and `MaxCrashes` bound what happens from outside; a world of `Login` bounds states,
sessions and time; `MaxRetry` and `MaxAttempts` are the code's, made smaller. In `LockManager`
time passes between tasks only: a TTL is days, a task minutes. `OneTaskPerPR` (TRUE in all
runs of `AutoSync` and `PRWorkflow`) keeps the tasks of one pull request apart. The queue
does not guarantee that; without it `PolicyKept` and `DeployedByHolder` fail, see section 6.
`BusyBefore` (FALSE) leaves out an operation that is under way as `SyncWait` begins. `twice` in
`TempApps` lets two tasks make the same plan at a time; it is FALSE where names are cut to
one.

**Symmetry.** Workers, and the pull requests of `AutoSync`, are interchangeable: no
definition names one. It is not used where a liveness property is checked.

**Deadlock.** TLC checks for it in the runs of `LockManager` and `AutoSync`. The others stop:
the call of `SyncWait` and the function of `AppDetect` return, and the remaining ones use up
what happens from outside.

**Fairness.** Two modules have a liveness property. `SyncWait`: `WF_vars(Step)`, the
goroutine that reads the channel is scheduled; `WF_vars(Tick)`, time passes;
`WF_vars(Expire)`, a context whose deadline passed cancels the HTTP request, and the reader
goroutine closes the channel (applications.go:206, 779-796). Nothing is assumed of Argo CD,
which may never finish, report or disconnect. `WebhookQueue`: some goroutine with work runs,
and asynq hands out, retries and recovers tasks while there are any, which is what its server
loops do; no particular task or call is favoured, and faults may keep happening as long as
attempts are left. The others are safety specifications: a user may never comment again, and
a process may die for good.

## 4. Proofs

The theorems hold for all values of the constants that satisfy the named assumptions, which
TLC evaluates in the runs of the module. An invariant is proved from an inductive one: the
initial states have it, every action keeps it (one lemma per action), and it implies what is
claimed.

| Module | Theorems | For any | Under |
|---|---|---|---|
| `LockManagerProofs` | `AlwaysWellFormed`, `TypeCorrect`, `PlansMatchHolders` (PlanFromHolder), `LocksAreExclusive` (Exclusive), `NothingIsLost` (NothingLost), `ImplementsPromise` (ImplementsExclusiveLock), `LocksAreListed` (ListedWhileHeld) | applications, pull requests and their numbers, workers, lifetime, faults | `LockAssumption` |
| `PRWorkflowProofs` | `AlwaysWellFormed`, `TypeCorrect`, `OnlyPlannedIsDeployed` (OnlyPlannedRevisions) | applications of any kind, pull requests with any commits, workers, faults | `PRAssumption` |
| | `TargetsFollowLocks` (TargetsReturn), `HoldersDeploy` (DeployedByHolder), `MergedWasDeployed` (MergedIsDeployed) | the same | and `OneTaskPerPR` |
| `AutoSyncProofs` | `TypeCorrect`, `NothingAdded` | applications, parents, ApplicationSets, what is automated, pull requests, workers, unlocks, faults | `AutoSyncAssumption` |
| | `AlwaysRemembered`, `PoliciesAreKept` (PolicyKept), `TemplatesAreKept` (TemplatesKept), `ChildrenGoFirst` (ChildrenFirst) | the same | and `OneTaskPerPR` |
| `SyncWaitProofs` | `AlwaysSettling`, `TypeCorrect`, `SuccessHasSettled` (SuccessIsSettled) | periods, number of events | `SyncWaitAssumption` |
| | `ResultOfThisSync` (ResultIsOfThisSync), `EndedIsNoTimeout` (EndedSyncIsNoTimeout) | the same | and `~BusyBefore` |
| `WebhookQueueProofs` | `AlwaysWellFormed`, `TypeCorrect`, `NothingIsForgotten` (NothingForgotten), `HopelessIsSpared` (HopelessOnce), `ClosedKeepNoLock` (ClosedIsUnlocked) | deliveries, payloads, workers, goroutines, retries, deaths | `QueueAssumption` |
| `AppDetectProofs` | `AlwaysTracked`, `TypeCorrect`, `EveryChangeIsFound` (ChangesAreFound), `TypesAreRight` (TypesAgree), `EveryReaderIsFound` (ReadersAreFound), `GlobsMean` (GlobIsDoubleStar) | applications, situations, patterns and paths of any length, faults | `DetectAssumption` |
| `TempAppsProofs` | `AlwaysOrderly`, `TypeCorrect`, `PlansCleanUp` (CleanedUp) | branches, clusters, plans, names cut to one, workers, faults | `DiffAssumption`, `TempAppsAssumption` |
| | `PlansSayWhatDiffers` (DiffIsRight), `PlansDeleteTheirOwn` (DeletesOnlyOwn) | the same | and `Separate` |
| `LoginProofs` | `AlwaysServed`, `TypeCorrect`, `EndedIsEnded` (EndedStaysEnded), `LiveIsListed` (ListedWhileLive), `AdminRemains` (AdminsRemain), `AlwaysMetered`, `LimitKept` (LimitIsExact) | people, assignments, requests at a time, limits and windows | `RolesAssumption`, `LoginAssumption` |

### The arguments

**LockManager.** Types are not inductive: that a write leaves a record in `Lock` depends on
what the worker read earlier. `WellFormed` therefore adds, for each program counter, what
the worker remembers there (`WorkerOK`): a worker about to refresh has seen a lock of its
own pull request, one about to take the lock has seen it free, one about to store a plan
has seen a lock with its number, one about to remove an index entry has seen a holder. It
also says that no record carries a plan of another number than its holder's (`LockOK`),
which `PlanFromHolder` restates. Every step either leaves Redis alone and puts one
worker's record into a permitted shape (lemma `LocalStep`) or writes one lock
(`WriteStep`); each action's lemma reduces to one of the two.

`Exclusive`, `NothingLost` and the refinement follow together. `LockSteps` says of every
application that is undamaged after a step that its holder and claims change as the
abstract specification allows and that nothing it carries is lost under the same holder.
Each writing action satisfies it because a SET over another record than the one read
taints the application, so an undamaged one was read as it is. `ListedWhileHeld` is
inductive together with `WellFormed`: each action keeps an undamaged lock listed, opens one
of the two windows, or closes it by writing the index entry or deleting the lock.

**PRWorkflow.** `OnlyPlannedRevisions` looks at specs and the cluster, which a sync writes
from its copy of the locks, taken at its start. `WellFormed` follows a plan along that way:
the plan in a lock was made by its holder (`LockOK`), what a sync still has to write or
deploy is planned at the commit it carries (`WorkerOK`), so a spec follows, and a cluster
runs, nothing but planned commits, the base branch or what the application tracks
(`MayRun`). `planned` only grows (`PlannedGrows`), which keeps all three while others act.

The other three properties need that the tasks of a pull request do not overlap. Then a step
of one worker is *foreign* to the pull request of every other (`Foreign`): it neither takes
its locks, but by force or after it ended, nor moves its specs. `Orderly` says of every
worker (`Sound`) that what it has listed is still locked (`Holding`, `Keeping`), that what
is past its revert follows no commit of its pull request (`Returning`) and that what a sync is
through with runs the planned commit (`Delivering`), and of every spec that it follows a
commit only while that pull request has the lock (`Followed`). Foreign steps keep
`Sound`; one lemma per action shows that its own worker's step does.

**AutoSync.** `WellFormed` says what a worker knows at each program counter and that a record
remembers a policy only of what had one; it needs no assumption, and so does `NothingAdded`:
what gets auto-sync had it in the beginning.

That no policy is forgotten is not inductive, because what remembers it moves: from Argo CD to
the worker that has just switched it off, to the lock or the key, to the copy a worker restores
from, and back. `Remembered` follows it (`PlainKept` for an application of its own, `SetKept`
for a template) and says of every worker (`Sound`) what it counts on meanwhile: that the locks
in its list are its pull request's (`Holding`), that a sync has saved what it went through, and
in the end every policy (`Remembering`), that a restore has a copy of what it still has to
restore and has switched on the rest, children before parents, and all of it before the first
lock is released (`Restoring`), and that a template is switched off under a lock that names it,
which stays until the template has its policy back (`Naming`). Each holds unless what it is
about is excused.

Here too a step belongs to one pull request, and `Touches` bounds what it does to the others:
it changes no lock of theirs, but one whose application it excuses; it switches off nothing
but what its own pull request has locked; it deletes keys freely, but adds only its own. That
leaves the other workers `Sound` (`OthersSound`); one lemma per phase shows that the
worker's own step does. This is where `OneTaskPerPR` is needed: two workers of one pull request
change the same locks and keys, and without it `PolicyKept` is false (section 6). While proving
it, a parent that is itself generated by an ApplicationSet turned out to need an excuse, which
no instance had had (section 6).

**SyncWait.** A timer says how long health has lasted only as long as no event that says
otherwise is on its way. `Timed` states that: if all unread events report the health a timer
waits for, it has lasted since the timer was set. This needs that the last event of an open
stream is the status as it is (`UpToDate`), and what each phase of the call has done already
(`Phased`). For `ResultIsOfThisSync`, `Ordered` says that events of the operation before
precede those of ours and that the first of ours says Running, which is what ends the
skipping; `Known` says what the call has learned of the end of ours.

**WebhookQueue.** `Held` says that a worker has the only active hold of its task. `Kept` adds
that what was put into the queue and not carried out is still in it. For `HopelessOnce`,
`Spared` counts a task whose worker died as one attempt more, before the queue notices. For
`ClosedIsUnlocked`, `Closing` says that who reports a close is right, and that the locks are
gone once it acted; a lemma shows that every payload that stands for a close reaches
UnlockAll, in both copies of the code.

**AppDetect.** `Tracked` says of each application (`Follows`) how its entry relates to the
situation: what an entry of each type implies, and, step by step, what has been found by then
of what the pull request adds, removes, modifies or changes the files of. The properties
speak of the end and compare with what the pull request makes of an application (`Changes`
relates the two).

`EveryReaderIsFound` compares the code's paths with where they lead. `Clean` and `Follow` are
recursive functions over a path of any length; that they agree unless the path leads outside
(`CleanLeads`) is proved by induction over its names, as a least counterexample: `UpTo` is the
induction principle for one set, from the well-foundedness of `<`. `StepByStep` gives the
functions their values first. `GlobsMean` needs no induction: with one `**`, both sides
compare a prefix and one of the tails, segment by segment (`OneDoubleStar`).

**TempApps.** `Steady` says how far a worker has come: each step is left once, a branch is
created before it is waited for, what was created is to be deleted. `Fetched` says that what
it fetched is what its plan is about. That holds because of `Kept`: where no two plans need
the same temporary application, what a worker created stays as it created it, since whoever
else looks for the name is refused; where plans may share one, whatever has the name is
equal (`OneSpec`). The comparisons are then compared with what they should report: of each
entry, that its key and difference are right (`EntryTyped`); of each comparison, that its
entries report what differs (`ManifestsDiffExact`, `LiveVsTargetExact`, `ThreeWayExact`);
of the maps, that they have the last manifest of each key (`LastExists`, `ManifestMaps`).
`Separate` is an assumption of the worlds that `MCTempApps` states and TLC evaluates; section 6
says what happens without it.

**Login.** `Carrying` says what a request relies on between two commands: a session that was
issued, one that has ended by the time it is taken off the list, an administrator where it
acts as one. That an administrator remains needs `Entitled`: who is about to change a role is
an administrator still, and the code refuses to change one's own. For the limiter, `Metered`
says that what it forgot is out of the window and that what is in the window is within the
limit; then what it counts is what the window has (`RecentIsTries`), whenever the sweep runs.

**Only model-checked.** `Returns` and `TasksEnd`, because liveness under fairness is beyond the
provers that TLAPS has here. Whatever else a passing run checks is stated by a theorem. The
theorems under `OneTaskPerPR`, `Separate` and `~BusyBefore` say nothing about the other cases,
in which the properties are false; section 6 has them.

## 5. What the violated runs show

* `lock_race`: `Lock` reads with GET and writes with SET. Two pull requests that plan a
  free application at once are both told that they hold it; the record names the second.
* `replan`: the diff of an application that a pull request adds deletes whatever application
  has the name, creates one to render it, and deletes that. Once the new application was
  synced, planning the pull request again, as every push does, deletes the application the
  sync created; appdetect.go:459-463 counts on the diff to work in that case.
* `login_roles`: users of basic authentication get a role in the configuration
  (docs/authentication.md:328-336), which `CreateSession` overwrites with the resolved one
  (middleware.go:184); without an assignment that is the default role.

## 6. Other differences met while modelling

* `restoreAllAutoSync` promises children before parents (autosync.go:286-289). A parent
  that the pull request changes itself is not flagged `IsParentApp` and is restored with
  the children, in the order of the list; a generated child is switched on before its
  template and may be switched off again by the controller until the template follows.
* The lock `disableParentAutoSync` takes on a parent has no `PlanRevision`, so the next
  `lemuria sync` of all locks is refused as stale (sync.go:94-108).
* `disableParentAutoSync` locks "to prevent concurrent PRs from interfering"
  (autosync.go:108-109); two pull requests sharing an ApplicationSet do interfere: the
  close of the first restores the template under the second.
* A failed `restoreAppSetAutoSync` deletes the saved policy all the same
  (autosync.go:329-336), although executor.go:117-121 counts on a later retry.
* When disabling a parent fails, `disableParentAutoSync` releases its lock so that it does not
  block others (autosync.go:167-178). That may be a lock a plan of the same pull request took,
  which remembers the parent's policy or names its ApplicationSet: both are forgotten then, and
  a template that was switched off stays off.
* Overlapping tasks of one pull request can lose a policy: UnlockAll restores from locks it
  listed before a sync switched auto-sync off again, and then releases them.
* `EnqueueWebhook` treats `asynq.ErrDuplicateTask` as success; a second task with the same
  ID is refused with `ErrTaskIDConflict` (client_test.go:139 says so), which makes the
  handler process the event again in a goroutine.
* docs/workflow.md:138-139 let a successful sync or rollback release the lock; both keep
  it, but for a sync that auto-merges.
* docs/commands.md:126 and docs/workflow.md:97 block sync and rollback when auto-sync is
  on; the code switches it off for the time being.
* `waitForSyncComplete` announces to enforce its timeout in all cases (applications.go:419-421)
  but never selects on its context; what ends the wait is the context of the watch.

More of the lock manager and the commands, without a run of their own:

* `reclaimStaleLock` asks the VCS about the holder it was handed and then deletes the lock of
  whoever holds it by then (plan.go:556), though plan.go:523-525 says that refusing is safer.
* A refreshed lock outlives the index `UnlockAll` lists locks from, which the refresh does not
  renew (redis.go:82-93, 124). A pull request re-planned for longer than seven days leaves its
  lock behind when it is closed; the reclaim of the next plan heals it.
* The Running event that ends the skipping of stale events may be of another operation
  (applications.go:532), whose end then becomes the result of the sync, in spite of
  applications.go:437-441. This needs an operation under way when the sync begins:
  `sync_wait` with `BusyBefore = TRUE` violates ResultIsOfThisSync.
* `lemuria unlock` after a sync deletes the only copy of the original policy (unlock.go:66),
  so auto-sync stays off for good; plan.go:335 promises to restore it.
* Auto-merge releases every lock of the pull request but reverts the target revisions only of
  what that sync wrote (sync.go:264-290). An unlock, a forced unlock and a reclaim release the
  lock and leave the target revision; so does closing, of an application that was synced as an
  existing one and planned as a deleted one later.
* Closing a pull request sets the target revision to the base branch, also of an application
  that tracked a tag or another branch (executor.go:126-131).
* A dry run of a new application creates it (sync.go:526-539; docs/commands.md:116 speaks of a
  preview), and closing the pull request without a merge leaves it.
* A rollback of an application whose spec was rewritten syncs to the commit of the pull
  request (rollback.go:28-30); a rollback by name works on an application another pull
  request has locked.
* The diff of a plan is of the branch as it is when the task runs; the revision stored with it
  is the event's (plan.go). An auto-merge merges whatever the head is by then.
* A lock on an application that a later commit does not affect keeps its old revision, so
  a sync of all locks stays refused as stale until it is unlocked.
* A pull request that is planned by a late or retried task after it was closed keeps the lock
  until another plan reclaims it.

Detection, diffs and temporary applications:

* An application that moves between a manifest and the ApplicationSet is reported deleted.
  What the base branch gained after the pull request branched off is too, because the tips of
  both branches are compared.
* An exact mapping in `.lemuria.yaml` is bypassed by the detection of applications of other
  repositories (executor.go:505-512). Value files of applications with one source are not
  looked at. A wildcard before `**` is compared literally (helpers.go:25-62).
* New applications of an ApplicationSet are found, and then not planned.
* In the live modes a resource that Argo CD lists as missing is an update rather than a create,
  and hooks always show as created. In the both mode drift of the cluster alone is not kept in
  the plan, so `skip_no_changes` skips it.
* Two pull requests that add an application of the same name delete or read each other's.
  Two tasks that make one plan at a time, while names are cut to one, can compare the wrong
  manifests. The clean-up at start-up looks for a label that is never set (tempapp.go:183).

Logins and roles:

* Two administrators who demote each other at the same time leave none. When reading a role
  that was set fails, the assignments count (rbac.go:63).
* The list of users shows the role at login, not the present one (routes.go:566-593). GitLab
  groups are fetched only for the restriction, so assignments by group need it.
* Two overlapping callbacks can both use one login state (session.go:213-224). `Refresh`, which
  nothing calls, would bring a deleted session back.

## 7. Plan

Done: every module of the first plan (`ExclusiveLock`, `LockManager`, `SyncWait`, `AutoSync`,
`WebhookQueue`, `PRWorkflow`, `AppDetect`, `Diff` with `TempApps`, `Login`), and the proofs of
section 4.

Next, in this order:

1. A composition of `WebhookQueue` and `PRWorkflow` in which tasks come from the queue, to
   replace `OneTaskPerPR` by what the queue does.
2. Several ApplicationSets at a time in `AppDetect`.

## 8. Not modelled, and why

Rendering and comment texts, payload parsing and REST plumbing are input and output. The
command parser is one pass over the words of a comment. The progress comment is for show: its
last text is posted after all syncs have ended. Requests to identity providers and the
cryptography of webhooks are facts about the environment. Approval and mergeability only
refuse a sync. New and deleted applications take no part in the auto-sync policy and are
left out of `AutoSync`. Redis is assumed to execute each command atomically and to lose
nothing; a fail-over that loses writes is not modelled. Argo CD's own concurrency control
(resource versions) is not modelled because the code sends whole specs without one.
Deliveries without an ID and the deletion of archived tasks are left out of `WebhookQueue`.

## Checking

    tlc -workers 2 -config MCPRWorkflow.cfg MCPRWorkflow.tla
    tlapm LockManagerProofs.tla
    tlapm PRWorkflowProofs.tla
    tlapm AutoSyncProofs.tla
    tlapm SyncWaitProofs.tla
    tlapm WebhookQueueProofs.tla
    tlapm AppDetectProofs.tla
    tlapm TempAppsProofs.tla
    tlapm LoginProofs.tla
