------------------------------ MODULE PRWorkflow ------------------------------
(***************************************************************************)
(* The commands of a pull request from its first plan to its end           *)
(* (internal/commands/plan.go, sync.go, rollback.go, unlock.go and         *)
(* UnlockAll in executor.go): what they leave in the locks, in the         *)
(* targetRevision of the applications' specs and in the cluster.           *)
(*                                                                         *)
(* A revision is a commit of a pull request, the base branch or, for an    *)
(* application that tracks something else, what it tracks.  The calls of   *)
(* the lock manager are atomic here, as in AutoSync, which has the         *)
(* auto-sync policies and the locks on parents that this module leaves     *)
(* out; an update of a spec is one step.  Of a spec only targetRevision is *)
(* kept: of an application with several sources that of the sources in     *)
(* the pull request's repository.  Approval and mergeability, which may    *)
(* refuse any sync, are left out.                                          *)
(*                                                                         *)
(* OwnType, AnyPlan, RevertNewOnly, FailuresMerge and ReclaimOpen are      *)
(* faulty variants of the definition after them.                           *)
(***************************************************************************)
EXTENDS Naturals, FiniteSets, Sequences

CONSTANTS
    Apps,
    PRs,
    Workers,
    Kind,          \* Kind[a]: "single" or "multi" if it has sources in the pull requests'
                   \* repository, "other" if not
    Tracks,        \* Tracks[a]: the revision its manifest on the base branch says
    Manages,       \* Manages[a]: the applications that a manages
    Affects,       \* Affects[p][n]: the applications commit n of p affects
    New, Deleted,  \* New[p], Deleted[p]: whose manifest p adds, removes
    Changed,       \* Changed[p]: the existing ones whose manifest p changes
    AutoMerge,
    SkipNoChanges,
    DryRuns,       \* whether commands may be dry runs
    Unlocks,       \* whether locks are also released by the unlock command or by force
    Faults,        \* whether calls may fail or a process die
    OneTaskPerPR,  \* whether the tasks of a pull request do not overlap
    MaxTasks,      \* how many commands and events are processed
    NoPR

ASSUME PRAssumption ==
    /\ NoPR \notin PRs /\ MaxTasks \in Nat
    /\ Kind \in [Apps -> {"single", "multi", "other"}]
    /\ Tracks \in [Apps -> [pr : {NoPR}, n : Nat]]
    /\ Manages \in [Apps -> SUBSET Apps]
    /\ Affects \in [PRs -> Seq(SUBSET Apps)] /\ \A p \in PRs : Affects[p] # <<>>
    /\ New \in [PRs -> SUBSET Apps] /\ Deleted \in [PRs -> SUBSET Apps]
    /\ Changed \in [PRs -> SUBSET Apps]
    /\ {AutoMerge, SkipNoChanges, DryRuns, Unlocks, Faults, OneTaskPerPR} \subseteq BOOLEAN

VARIABLES
    open,     \* the pull requests that are open
    head,     \* the number of each one's last commit
    lock,     \* the lock of each application
    exists,   \* the applications Argo CD has
    target,   \* the targetRevision of each one's spec
    live,     \* the revision each one was last synced to
    worker,   \* what each worker is doing
    tasks,    \* how many tasks have begun
    planned,  \* history: pairs of an application and the revisions planned for it,
    excused,  \* the applications whose targetRevision a fault, an unlock or a known
              \* omission may have left at a commit,
    forced    \* those whose lock was released by force

vars == <<open, head, lock, exists, target, live, worker, tasks, planned, excused, forced>>
argocd == <<exists, target, live>>

Base == [pr |-> NoPR, n |-> 0]
Commit(p, n) == [pr |-> p, n |-> n]
Commits == UNION {{Commit(p, n) : n \in DOMAIN Affects[p]} : p \in PRs}
Revisions == {Base} \union {Tracks[a] : a \in Apps} \union Commits

\* PlanRevision (the number of the commit; 0 for none), ChangeType, whether there is a
\* SourceFile, and whether the plan has no changes.
NoLock == [pr |-> NoPR, rev |-> 0, type |-> "existing", source |-> FALSE, empty |-> FALSE]
Types == {"existing", "new", "deleted"}
Lock == [pr : PRs \union {NoPR}, rev : Nat, type : Types, source : BOOLEAN, empty : BOOLEAN]

Tasks == {"none", "plan", "plan -a", "sync", "rollback", "rollback -a", "unlock", "close"}
Idle == [task |-> "none", pc |-> "idle", pr |-> NoPR, at |-> 0, dry |-> FALSE, todo |-> {},
         copy |-> [a \in Apps |-> NoLock], synced |-> {}, written |-> {}, rewritten |-> {},
         failed |-> FALSE]

\* at: the commit the event carries.  copy: the locks as they were listed.  synced: the
\* applications to sync; todo: those left of the loop; written: those whose spec is ready.
Worker == [task : Tasks, pc : {"idle", "plan", "sync", "rollback", "revert", "relist",
                               "unlock"},
           pr : PRs \union {NoPR}, at : Nat, dry : BOOLEAN, todo : SUBSET Apps,
           copy : [Apps -> Lock], synced : SUBSET Apps, written : SUBSET Apps,
           rewritten : SUBSET Apps, failed : BOOLEAN]

TypeOK == /\ open \subseteq PRs
          /\ \A p \in PRs : head[p] \in DOMAIN Affects[p]
          /\ lock \in [Apps -> Lock]
          /\ exists \subseteq Apps
          /\ target \in [Apps -> Revisions] /\ live \in [Apps -> Revisions]
          /\ worker \in [Workers -> Worker]
          /\ tasks \in 0..MaxTasks
          /\ planned \subseteq Apps \X Commits
          /\ excused \subseteq Apps /\ forced \subseteq Apps

Init == /\ open = PRs
        /\ head = [p \in PRs |-> 1]
        /\ lock = [a \in Apps |-> NoLock]
        /\ exists = Apps \ UNION {New[p] : p \in PRs}
        /\ target = Tracks /\ live = Tracks
        /\ worker = [w \in Workers |-> Idle]
        /\ tasks = 0
        /\ planned = {} /\ excused = {} /\ forced = {}

-----------------------------------------------------------------------------

Held(p) == {a \in Apps : lock[a].pr = p}
Listed(k) == {a \in Apps : k.copy[a] # NoLock}
Copy(S) == [a \in Apps |-> IF a \in S THEN lock[a] ELSE NoLock]
Set(w, r) == worker' = [worker EXCEPT ![w] = r]
Excuse(S) == excused' = excused \union S

\* A task begins.
Task(w, p) == /\ worker[w] = Idle
              /\ OneTaskPerPR => \A v \in Workers : worker[v].pr # p
              /\ tasks < MaxTasks /\ tasks' = tasks + 1

\* What it begins with.  Its event carries the head commit of when it was sent, which may have
\* waited in the queue, or of when the task fetched it.
Begin(w, p, task, pc) == [Idle EXCEPT !.task = task, !.pc = pc, !.pr = p]

Push(p) ==
    /\ p \in open /\ head[p] < Len(Affects[p])
    /\ head' = [head EXCEPT ![p] = @ + 1]
    /\ UNCHANGED <<open, lock, argocd, worker, planned, excused, tasks, forced>>

\* Closed without a merge, or merged by hand.
Close(p) ==
    /\ p \in open
    /\ open' = open \ {p}
    /\ UNCHANGED <<head, lock, argocd, worker, planned, excused, tasks, forced>>

\* An administrator's unlock, or the lock's time to live.
ForceUnlock(a) ==
    /\ Unlocks /\ lock[a] # NoLock
    /\ tasks < MaxTasks /\ tasks' = tasks + 1
    /\ lock' = [lock EXCEPT ![a] = NoLock]
    /\ forced' = forced \union {a}
    /\ Excuse({a})
    /\ UNCHANGED <<open, head, argocd, worker, planned>>

-----------------------------------------------------------------------------
(* executePlan. *)

\* Of the applications detected, or of those that were named and are known to Argo CD: one
\* (-a), or all that have sources in the repository (--all).
BeginPlan(w, p) ==
    /\ Task(w, p)
    /\ \E n \in 1..head[p] :
          \/ Set(w, [Begin(w, p, "plan", "plan") EXCEPT !.at = n, !.todo = Affects[p][head[p]]])
          \/ \E S \in {{a} : a \in exists} \union {{a \in exists : Kind[a] # "other"}} :
                Set(w, [Begin(w, p, "plan -a", "plan") EXCEPT !.at = n, !.todo = S])
    /\ UNCHANGED <<open, head, lock, argocd, planned, excused, forced>>

\* What AppDetect finds.  A named application has no type, which counts as existing, and its
\* manifest is not looked at.
ManifestChange(k, a) ==
    IF a \in New[k.pr] THEN "new" ELSE IF a \in Deleted[k.pr] THEN "deleted" ELSE "existing"
OwnType(k, a) == IF k.task = "plan -a" THEN "" ELSE ManifestChange(k, a)
ChangeType(k, a) == IF k.task = "plan -a" THEN "existing" ELSE ManifestChange(k, a)
SourceFile(k, a) ==
    k.task = "plan" /\ a \in New[k.pr] \union Deleted[k.pr] \union Changed[k.pr]

\* Free, the pull request's own, or, as reclaimStaleLock finds, of one that is closed.
ReclaimOpen(a, p) == TRUE
Takes(a, p) == lock[a].pr \in {NoPR, p} \/ lock[a].pr \notin open

\* DiffNewApp renders a new application under its own name: whatever has the name is
\* deleted before, and what was rendered is deleted after it.
Rendered(k, a) == IF ChangeType(k, a) = "new" THEN exists \ {a} ELSE exists

\* planApplication: the diff comes before the lock, and is of the branch as it is now; the
\* revision that is stored is the event's.  When StorePlan fails the lock keeps its plan.
PlanApp(w, a) ==
    LET k == worker[w]
        own == IF lock[a].pr = k.pr THEN lock[a] ELSE NoLock
        taken == [own EXCEPT !.pr = k.pr, !.type = ChangeType(k, a)]
        renders == a \in exists \union New[k.pr]
    IN /\ k.pc = "plan" /\ a \in k.todo
       /\ Set(w, [k EXCEPT !.todo = @ \ {a}])
       /\ \/ /\ Takes(a, k.pr) /\ renders
             /\ lock' = [lock EXCEPT
                  ![a] = [taken EXCEPT !.rev = k.at, !.source = SourceFile(k, a),
                                       !.empty = a \notin Affects[k.pr][head[k.pr]]]]
             /\ planned' = planned \union {<<a, Commit(k.pr, k.at)>>}
             /\ Excuse(IF lock[a].pr \in {NoPR, k.pr} THEN {} ELSE {a})
             /\ exists' = Rendered(k, a)
          \/ /\ Faults /\ Takes(a, k.pr) /\ renders
             /\ lock' = [lock EXCEPT ![a] = taken]
             /\ Excuse(IF lock[a].pr \in {NoPR, k.pr} THEN {} ELSE {a})
             /\ exists' = Rendered(k, a)
             /\ UNCHANGED planned
          \/ /\ Faults \/ (~Takes(a, k.pr) /\ renders)
             /\ exists' = Rendered(k, a)
             /\ UNCHANGED <<lock, planned, excused>>
          \/ /\ Faults \/ ~renders
             /\ UNCHANGED <<lock, planned, excused, exists>>
       /\ UNCHANGED <<open, head, target, live, tasks, forced>>

-----------------------------------------------------------------------------
(* executeSync. *)

\* computeSyncTargets: the applications that manage none of the others.  Where Argo CD
\* cannot say what one manages, it is synced.
Leaves(S) == IF Cardinality(S) = 1 THEN S ELSE {a \in S : Manages[a] \intersect S = {}}

\* skip_no_changes.
Skipped(l) == SkipNoChanges /\ l.empty

\* All the locks, or those of the application or ApplicationSet that -a names, have a plan
\* of the commit the event carries.
AnyPlan(S, n) == S # {}
PlansAreCurrent(S, n) == S # {} /\ \A a \in S : lock[a].rev = n

BeginSync(w, p) ==
    /\ Task(w, p)
    /\ \E n \in 1..head[p], dry \in {FALSE, DryRuns}, S \in SUBSET Held(p) :
          /\ PlansAreCurrent(S, n)
          /\ \E leaves \in {Leaves(S)} \union (IF Faults THEN {S} ELSE {}) :
                LET run == {a \in leaves : ~Skipped(lock[a])} IN
                Set(w, [Begin(w, p, "sync", "sync") EXCEPT
                           !.at = n, !.dry = dry, !.copy = Copy(S), !.synced = run, !.todo = run])
    /\ UNCHANGED <<open, head, lock, argocd, planned, excused, forced>>

\* The spec is made ready: what targetRevision it has then.
NewTarget(k, a) ==
    CASE k.copy[a].type = "new" ->
           IF Kind[a] = "other" THEN Tracks[a] ELSE Commit(k.pr, k.at)
      [] k.copy[a].type = "existing" /\ Kind[a] = "multi" /\ ~k.dry -> Commit(k.pr, k.at)
      [] k.copy[a].type = "existing" /\ Kind[a] # "multi" /\ ~k.dry /\ k.copy[a].source ->
           Tracks[a]
      [] OTHER -> target[a]
Rewrites(k, a) == k.copy[a].type = "existing" /\ Kind[a] = "multi" /\ ~k.dry

\* syncApplication and syncNewApplication up to the POST.  A new application is created,
\* or updated if Argo CD has it by now; an existing one has to be there.
WriteSpec(w, a) ==
    LET k == worker[w] IN
    /\ k.pc = "sync" /\ a \in k.todo /\ k.copy[a].type # "deleted"
    /\ a \in exists \/ k.copy[a].type = "new"
    /\ exists' = exists \union {a}
    /\ target' = [target EXCEPT ![a] = NewTarget(k, a)]
    /\ Set(w, [k EXCEPT !.todo = @ \ {a}, !.written = @ \union {a},
                        !.rewritten = IF Rewrites(k, a) THEN @ \union {a} ELSE @])
    /\ Excuse(IF lock[a].pr = k.pr THEN {} ELSE {a})
    /\ UNCHANGED <<open, head, lock, live, planned, tasks, forced>>

\* An error before the POST; a spec may have been written.
WriteFails(w, a) ==
    LET k == worker[w] IN
    /\ k.pc = "sync" /\ a \in k.todo /\ k.copy[a].type # "deleted"
    /\ Faults \/ (a \notin exists /\ k.copy[a].type = "existing")
    /\ Set(w, [k EXCEPT !.todo = @ \ {a}, !.failed = TRUE])
    /\ UNCHANGED <<open, head, lock, argocd, planned, excused, tasks, forced>>

\* syncDeletedApplication: it will be deleted when the pull request is merged.
SyncDeleted(w, a) ==
    LET k == worker[w] IN
    /\ k.pc = "sync" /\ a \in k.todo /\ k.copy[a].type = "deleted"
    /\ Set(w, [k EXCEPT !.todo = @ \ {a}])
    /\ UNCHANGED <<open, head, lock, argocd, planned, excused, tasks, forced>>

\* The revision that is deployed: that of the spec, but for a single source, whose revision
\* is overridden by the commit.
Deploys(k, a) ==
    IF k.copy[a].type = "existing" /\ Kind[a] = "single" THEN Commit(k.pr, k.at) ELSE target[a]

\* SyncApplication: Argo CD deploys, and the wait for it ends well or not.
Deploy(w, a) ==
    LET k == worker[w] IN
    /\ k.pc = "sync" /\ a \in k.written
    /\ \/ a \in exists /\ live' = IF k.dry THEN live ELSE [live EXCEPT ![a] = Deploys(k, a)]
       \/ (Faults \/ a \notin exists) /\ UNCHANGED live
    /\ \E failed \in BOOLEAN :
          /\ a \notin exists \/ (live' = live /\ live[a] # Deploys(k, a) /\ ~k.dry) => failed
          /\ failed => Faults \/ a \notin exists
          /\ Set(w, [k EXCEPT !.written = @ \ {a}, !.failed = @ \/ failed])
    /\ Excuse(IF lock[a].pr = k.pr THEN {} ELSE {a})
    /\ UNCHANGED <<open, head, lock, exists, target, planned, tasks, forced>>

SyncDone(k) == k.pc = "sync" /\ k.todo = {} /\ k.written = {}

\* No merge: the locks stay until the pull request is closed.
EndSync(w) ==
    /\ SyncDone(worker[w])
    /\ Set(w, Idle)
    /\ UNCHANGED <<open, head, lock, argocd, planned, excused, tasks, forced>>

FailuresMerge(k) == AutoMerge /\ ~k.dry
AllSucceeded(k) == AutoMerge /\ ~k.dry /\ ~k.failed

\* autoMergePR, of whatever the head is now.
Merge(w) ==
    LET k == worker[w] IN
    /\ SyncDone(k) /\ AllSucceeded(k)
    /\ k.pr \in open
    /\ open' = open \ {k.pr}
    /\ Set(w, [k EXCEPT !.pc = "revert",
                 !.todo = {a \in Listed(k) : k.copy[a].type = "new" \/ a \in k.rewritten}])
    /\ UNCHANGED <<head, lock, argocd, planned, excused, tasks, forced>>

\* The locks are listed again, or those of the sync are used.
Relist(w) ==
    LET k == worker[w] IN
    /\ k.pc = "relist"
    /\ \/ Set(w, [k EXCEPT !.pc = "unlock", !.todo = Held(k.pr)])
       \/ Faults /\ Set(w, [k EXCEPT !.pc = "unlock", !.todo = Listed(k)])
    /\ UNCHANGED <<open, head, lock, argocd, planned, excused, tasks, forced>>

-----------------------------------------------------------------------------
(* executeRollback, executeUnlock, UnlockAll. *)

\* Of all the locked applications, or of one, whoever has locked it.
BeginRollback(w, p) ==
    /\ Task(w, p)
    /\ \E dry \in {FALSE, DryRuns} :
          \/ /\ Held(p) # {}
             /\ Set(w, [Begin(w, p, "rollback", "rollback") EXCEPT !.dry = dry, !.todo = Held(p)])
          \/ \E a \in exists :
             Set(w, [Begin(w, p, "rollback -a", "rollback") EXCEPT !.dry = dry, !.todo = {a}])
    /\ UNCHANGED <<open, head, lock, argocd, planned, excused, forced>>

\* A sync to the targetRevision of the spec; whether it succeeds only shows in the comment.
Rollback(w, a) ==
    LET k == worker[w] IN
    /\ k.pc = "rollback" /\ a \in k.todo
    /\ Set(w, [k EXCEPT !.todo = @ \ {a}])
    /\ \/ a \in exists /\ ~k.dry /\ live' = [live EXCEPT ![a] = target[a]]
       \/ (a \notin exists \/ k.dry \/ Faults) /\ UNCHANGED live
    /\ Excuse(IF lock[a].pr = k.pr THEN {} ELSE {a})
    /\ UNCHANGED <<open, head, lock, exists, target, planned, tasks, forced>>

\* The locks are released, of all or of one application; the specs stay as they are.
BeginUnlock(w, p) ==
    /\ Unlocks /\ Task(w, p)
    /\ \E S \in {Held(p)} \union {{a} : a \in Held(p)} :
          S # {} /\ Set(w, [Begin(w, p, "unlock", "unlock") EXCEPT !.copy = Copy(S), !.todo = S])
    /\ UNCHANGED <<open, head, lock, argocd, planned, excused, forced>>

\* The closed pull request's event is processed, perhaps again.
RevertNewOnly(a, l) == l.type = "new"
ToRevert(a, l) == l.type # "deleted"

BeginUnlockAll(w, p) ==
    /\ Task(w, p) /\ p \notin open /\ Held(p) # {}
    /\ Set(w, [Begin(w, p, "close", "revert") EXCEPT
                 !.copy = Copy(Held(p)), !.todo = {a \in Held(p) : ToRevert(a, lock[a])}])
    /\ UNCHANGED <<open, head, lock, argocd, planned, excused, forced>>

\* revertTargetRevision, to the base branch whatever it was before.  A failure is logged.
Revert(w, a) ==
    LET k == worker[w] IN
    /\ k.pc = "revert" /\ a \in k.todo
    /\ Set(w, [k EXCEPT !.todo = @ \ {a}])
    /\ \/ /\ a \in exists
          /\ target' = IF Kind[a] = "other" THEN target ELSE [target EXCEPT ![a] = Base]
          /\ UNCHANGED excused
       \/ /\ a \notin exists \/ Faults
          /\ Excuse(IF a \in exists THEN {a} ELSE {})
          /\ UNCHANGED target
    /\ UNCHANGED <<open, head, lock, exists, live, planned, tasks, forced>>

Reverted(w) ==
    LET k == worker[w] IN
    /\ k.pc = "revert" /\ k.todo = {}
    /\ Set(w, IF k.task = "sync" THEN [k EXCEPT !.pc = "relist"]
              ELSE [k EXCEPT !.pc = "unlock", !.todo = Listed(k)])
    /\ UNCHANGED <<open, head, lock, argocd, planned, excused, tasks, forced>>

\* The applications a task releases without having reverted their targetRevision: a sync
\* that merged does so with those that another sync rewrote, UnlockAll with those that were
\* planned as deleted after they were synced.
Unreverted(k, a) ==
    CASE k.task = "sync" -> ~(k.copy[a].type = "new" \/ a \in k.rewritten)
      [] k.task = "close" -> k.copy[a].type = "deleted"
      [] OTHER -> TRUE

\* Unlock, of a lock that is still the pull request's.  A failure is logged, and the next
\* lock tried.
Unlock(w, a) ==
    LET k == worker[w] IN
    /\ k.pc = "unlock" /\ a \in k.todo
    /\ Set(w, [k EXCEPT !.todo = @ \ {a}])
    /\ \/ /\ lock' = IF lock[a].pr = k.pr THEN [lock EXCEPT ![a] = NoLock] ELSE lock
          /\ Excuse(IF Unreverted(k, a) THEN {a} ELSE {})
       \/ Faults /\ UNCHANGED <<lock, excused>>
    /\ UNCHANGED <<open, head, argocd, planned, tasks, forced>>

\* The comment is posted, or nothing is left to do.
Return(w) ==
    /\ worker[w].pc \in {"plan", "rollback", "unlock"} /\ worker[w].todo = {}
    /\ Set(w, Idle)
    /\ UNCHANGED <<open, head, lock, argocd, planned, excused, tasks, forced>>

\* The process dies; a retry of the task is another task.
Die(w) ==
    /\ Faults /\ worker[w] # Idle
    /\ Set(w, Idle)
    /\ UNCHANGED <<open, head, lock, argocd, planned, excused, tasks, forced>>

-----------------------------------------------------------------------------

Next == \/ \E p \in PRs : Push(p) \/ Close(p)
        \/ \E a \in Apps : ForceUnlock(a)
        \/ \E w \in Workers, p \in PRs : \/ BeginPlan(w, p) \/ BeginSync(w, p)
                                         \/ BeginRollback(w, p) \/ BeginUnlock(w, p)
                                         \/ BeginUnlockAll(w, p)
        \/ \E w \in Workers, a \in Apps : \/ PlanApp(w, a) \/ WriteSpec(w, a) \/ WriteFails(w, a)
                                          \/ SyncDeleted(w, a) \/ Deploy(w, a) \/ Rollback(w, a)
                                          \/ Revert(w, a) \/ Unlock(w, a)
        \/ \E w \in Workers : EndSync(w) \/ Merge(w) \/ Relist(w) \/ Reverted(w) \/ Return(w)
                              \/ Die(w)

Spec == Init /\ [][Next]_vars

-----------------------------------------------------------------------------
(* Properties. *)

\* sync.go:94-108, commands.md:121-122: what is deployed, or left in a spec to be deployed
\* later by whatever syncs the application next, was planned for that application before.
\* However plans, pushes, delayed events, rollbacks, reclaims and unlocks interleave.
OnlyPlannedRevisions ==
    \A a \in Apps : {target[a], live[a]} \subseteq {Base, Tracks[a]} \union
                                                   {r \in Commits : <<a, r>> \in planned}

\* executor.go:123-131: when the lock of a pull request is gone, no spec follows one of its
\* commits any more: not even while the task that released it still runs.
TargetsReturn ==
    \A a \in exists \ excused : target[a].pr # NoPR => lock[a].pr = target[a].pr

\* README: "Application Locking"; plan.go:523-525: no lock is taken from a pull request that
\* is still active.  While one is open, only its own tasks sync what it has locked.
DeployedByHolder ==
    [][\A a \in Apps, w \in Workers :
         /\ live'[a] # live[a] /\ worker'[w] # worker[w] /\ worker[w].task # "rollback -a"
         => worker[w].pr = lock[a].pr \/ worker[w].pr \notin open \/ a \in forced]_vars

\* commands.md:163-165: a sync merges the pull request only when all it had to sync is
\* deployed at the commit that was planned.
MergedIsDeployed ==
    [][\A w \in Workers : open' # open /\ worker'[w] # worker[w] =>
         \A a \in worker[w].synced \ excused :
            worker[w].copy[a].type = "deleted" \/ Kind[a] = "other"
            \/ live[a] = Commit(worker[w].pr, worker[w].at)]_vars

\* appdetect.go:459-463: the diff of a new application "handles idempotency - it works
\* correctly whether the app already exists or not".
PlansKeepApplications ==
    [][\A w \in Workers : worker[w].pc = "plan" /\ worker'[w] # worker[w]
                         => exists \subseteq exists']_vars

==============================================================================
