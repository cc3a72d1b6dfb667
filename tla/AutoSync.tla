------------------------------- MODULE AutoSync -------------------------------
(***************************************************************************)
(* The life of an application's auto-sync policy (internal/commands/       *)
(* autosync.go): a sync switches it off on the locked applications, on the *)
(* template of the ApplicationSet that generates them and on the parents   *)
(* that manage them, remembering the original in the lock or in the        *)
(* ApplicationSet's key; UnlockAll, or the sync that merged the pull       *)
(* request, switches it on again and releases the locks.                   *)
(*                                                                         *)
(* Each call to Argo CD is a step, and an update of an application is a    *)
(* GET and a later PUT of the whole spec.  The calls of the lock manager   *)
(* are atomic here; LockManager takes them apart.  Of a spec only whether  *)
(* it has an automated policy is kept: every application and template has  *)
(* at most one.  Plans are never out of date in this module, except that a *)
(* parent's lock has none.  Of the requirements of a sync only the plan is *)
(* modelled; any other may refuse it.  New and deleted applications, whose *)
(* policy nothing touches, and the parent-autosync keys, which nothing     *)
(* reads, are left out.                                                    *)
(*                                                                         *)
(* NeverNamed, AnySetLeft, ParentsFirst and ParentsForgotten are faulty    *)
(* variants of the definition after them.                                  *)
(***************************************************************************)
EXTENDS Naturals, FiniteSets

CONSTANTS
    Apps,          \* existing Argo CD applications
    AppSets,       \* ApplicationSets
    Owner,         \* Owner[a]: the ApplicationSet that generates a, or NoSet
    Parents,       \* Parents[a]: the applications that manage a (apps of apps)
    Automated,     \* the applications and ApplicationSets that have auto-sync
    PRs,
    Workers,
    Unlocks,       \* whether locks are also released by the unlock command,
                   \* an administrator or their time to live
    Faults,        \* whether calls may fail or their process die
    OneTaskPerPR,  \* whether the tasks of a pull request never overlap
    NoApp, NoPR, NoSet

ASSUME AutoSyncAssumption ==
    /\ NoApp \notin Apps /\ NoPR \notin PRs /\ NoSet \notin AppSets
    /\ Apps \intersect AppSets = {}
    /\ Owner \in [Apps -> AppSets \union {NoSet}]
    /\ Parents \in [Apps -> SUBSET Apps]
    /\ Automated \subseteq Apps \union AppSets
    /\ \A a \in Apps : Owner[a] # NoSet => (a \in Automated <=> Owner[a] \in Automated)
    /\ {Unlocks, Faults, OneTaskPerPR} \subseteq BOOLEAN

VARIABLES
    auto,    \* the applications and templates whose spec has an automated policy
    lock,    \* the lock of each application
    kept,    \* the ApplicationSets' keys: pairs <<s, p>>
    worker,  \* what each worker is doing
    excused  \* history: applications whose policy a fault or an unlock may have cost

vars == <<auto, lock, kept, worker, excused>>

\* AutoSyncDisabled with OriginalSyncPolicy, ApplicationSetName, IsParentApp, and whether
\* the lock carries a plan.
Lock == [pr : PRs \union {NoPR}, saved : BOOLEAN, named : BOOLEAN, parent : BOOLEAN,
         planned : BOOLEAN]
NoLock == [pr |-> NoPR, saved |-> FALSE, named |-> FALSE, parent |-> FALSE, planned |-> FALSE]
NewLock(p, planned) == [NoLock EXCEPT !.pr = p, !.planned = planned]

PCs == {"idle", "map", "next", "get", "put", "save", "set.get", "set.put", "set.store",
        "find", "up", "sync", "rewrite", "merge", "list", "children", "parents", "sets",
        "forget", "revert", "unlock"}

\* listed: ListByPR's result; copy: what the restore looks at in it; todo: what is left
\* of the loop over it.  up: parents found and not yet looked at.  parentMap: who had
\* auto-sync in BuildParentMap.
Worker == [pc : PCs, task : {"none", "sync", "rollback", "rollback all", "close"},
           pr : PRs \union {NoPR}, app : Apps \union {NoApp}, asParent : BOOLEAN,
           seen : BOOLEAN, then : PCs, listed : SUBSET Apps, copy : [Apps -> Lock],
           todo : SUBSET Apps, up : SUBSET Apps, visited : SUBSET Apps,
           sets : SUBSET AppSets, parentMap : SUBSET Apps]

Copies == [a \in Apps |-> NoLock]

Idle == [pc |-> "idle", task |-> "none", pr |-> NoPR, app |-> NoApp, asParent |-> FALSE,
         seen |-> FALSE, then |-> "idle", listed |-> {}, copy |-> Copies, todo |-> {},
         up |-> {}, visited |-> {}, sets |-> {}, parentMap |-> {}]

TypeOK == /\ auto \subseteq Apps \union AppSets
          /\ lock \in [Apps -> Lock]
          /\ kept \subseteq AppSets \X PRs
          /\ worker \in [Workers -> Worker]
          /\ excused \subseteq Apps

Init == /\ auto = Automated
        /\ lock = Copies
        /\ kept = {}
        /\ worker = [w \in Workers |-> Idle]
        /\ excused = {}

-----------------------------------------------------------------------------

At(w, pc) == worker[w].pc = pc
Set(w, r) == worker' = [worker EXCEPT ![w] = r]
Return(w) == Set(w, Idle)
Go(w, pc) == worker' = [worker EXCEPT ![w].pc = pc]

Held(p) == {a \in Apps : lock[a].pr = p}
Members(s) == {a \in Apps : Owner[a] = s /\ s # NoSet}
Affected(a) == {a} \union Members(Owner[a])
Excuse(S) == excused' = excused \union S

\* ListByPR, and what is done with the locks it lists.
List(w, p, S) ==
    [worker[w] EXCEPT !.listed = S, !.todo = S, !.pr = p,
                      !.copy = [a \in Apps |-> IF a \in S THEN lock[a] ELSE NoLock]]

\* A loop over the listed locks begins; nothing is left of the one before.
Loop(w, pc) ==
    LET k == worker[w] IN
    Set(w, [Idle EXCEPT !.pc = pc, !.task = k.task, !.pr = k.pr, !.listed = k.listed,
                        !.copy = k.copy, !.todo = k.listed])

May(w, p) == /\ At(w, "idle")
             /\ OneTaskPerPR => \A v \in Workers : worker[v].pr # p

-----------------------------------------------------------------------------
(* Tasks begin. *)

\* lockAndStorePlan: the application is locked, or refreshed, and carries a plan.
Plan(w, p, a) ==
    /\ May(w, p)
    /\ lock[a].pr \in {NoPR, p}
    /\ lock' = [lock EXCEPT ![a] = IF @ = NoLock THEN NewLock(p, TRUE)
                                   ELSE [@ EXCEPT !.planned = TRUE]]
    /\ UNCHANGED <<auto, kept, worker, excused>>

\* disableAutoSyncForLocks is about to go through the locks S.
Disabling(task, p, S) ==
    [Idle EXCEPT !.pc = "map", !.task = task, !.pr = p, !.listed = S, !.todo = S]

\* executeSync of all the locks, or of those -a names: one, or an ApplicationSet's.
BeginSync(w, p) ==
    /\ May(w, p)
    /\ \E S \in {Held(p)} \union {{a} : a \in Held(p)}
                 \union {Held(p) \intersect Members(s) : s \in AppSets} :
          /\ S # {}
          /\ \A a \in S : lock[a].planned
          /\ Set(w, Disabling("sync", p, S))
    /\ UNCHANGED <<auto, lock, kept, excused>>

\* executeRollback of all the locks, which does not look at their plans.
BeginRollbackAll(w, p) ==
    /\ May(w, p) /\ Held(p) # {}
    /\ Set(w, Disabling("rollback all", p, Held(p)))
    /\ UNCHANGED <<auto, lock, kept, excused>>

\* executeRollback of one application, whoever holds its lock.
BeginRollback(w, p, a) ==
    /\ May(w, p)
    /\ Set(w, [Idle EXCEPT !.pc = "get", !.task = "rollback", !.pr = p, !.app = a,
                           !.visited = {a}])
    /\ Excuse(IF lock[a].pr = p THEN {} ELSE Affected(a))
    /\ UNCHANGED <<auto, lock, kept>>

\* UnlockAll after the pull request was closed.  The event may be delivered again, and a
\* command on a closed pull request is executed like any other.
BeginUnlockAll(w, p) ==
    /\ May(w, p) /\ Held(p) # {}
    /\ Set(w, [List(w, p, Held(p)) EXCEPT !.pc = "children", !.task = "close"])
    /\ UNCHANGED <<auto, lock, kept, excused>>

-----------------------------------------------------------------------------
(* disableAutoSyncForLocks, disableAutoSyncForRollback. *)

\* Without a parent map disableParentAutoSync builds one for each application.
BuildParentMap(w) ==
    /\ At(w, "map")
    /\ Set(w, [worker[w] EXCEPT !.pc = "next", !.parentMap = auto \intersect Apps])
    /\ UNCHANGED <<auto, lock, kept, excused>>

NextApp(w) ==
    /\ At(w, "next")
    /\ \/ \E a \in worker[w].todo :
             Set(w, [worker[w] EXCEPT !.pc = "get", !.app = a, !.asParent = FALSE,
                                      !.todo = @ \ {a}])
       \/ worker[w].todo = {} /\ worker[w].task = "sync" /\ Loop(w, "sync")
       \/ worker[w].todo = {} /\ worker[w].task # "sync" /\ Return(w)
    /\ UNCHANGED <<auto, lock, kept, excused>>

\* disableAutoSync: GET.  An application without auto-sync is left alone.
DisableGet(w) ==
    /\ At(w, "get")
    /\ Go(w, IF worker[w].app \in auto THEN "put" ELSE "find")
    /\ UNCHANGED <<auto, lock, kept, excused>>

\* disableAutoSync: PUT.
DisablePut(w) ==
    /\ At(w, "put")
    /\ auto' = auto \ {worker[w].app}
    /\ Go(w, "save")
    /\ UNCHANGED <<lock, kept, excused>>

\* disableAutoSync fails: the command ends, but for a parent, which is only unlocked.
DisableFails(w) ==
    LET a == worker[w].app IN
    /\ Faults /\ (At(w, "get") \/ At(w, "put"))
    /\ IF worker[w].asParent
       THEN /\ Go(w, "up")
            /\ lock' = IF lock[a].pr = worker[w].pr THEN [lock EXCEPT ![a] = NoLock] ELSE lock
            /\ Excuse(Affected(a))
       ELSE Return(w) /\ UNCHANGED <<lock, excused>>
    /\ UNCHANGED <<auto, kept>>

\* The ApplicationSet the lock names after Save.
NeverNamed(w, l) == l.named
Named(w, l) == IF worker[w].asParent THEN l.named ELSE Owner[worker[w].app] # NoSet

\* The application has an ApplicationSet whose template was not looked at yet.
AnySetLeft(w) == Owner[worker[w].app] \notin worker[w].sets
SetLeft(w) == Owner[worker[w].app] \notin worker[w].sets \union {NoSet}

\* The original policy goes into the lock, if there still is one and it can be written.
\* Otherwise it is lost: a sync ends, a parent's is only logged, and so is a rollback's
\* without a lock.
Save(w) ==
    LET a == worker[w].app
        l == lock[a]
        single == worker[w].asParent \/ worker[w].task = "rollback"
    IN
    /\ At(w, "save")
    /\ \/ /\ l # NoLock
          /\ lock' = [lock EXCEPT ![a].saved = TRUE,
                                  ![a].named = Named(w, l),
                                  ![a].parent = @ \/ worker[w].asParent]
          /\ Go(w, IF ~single /\ SetLeft(w) THEN "set.get" ELSE "find")
          /\ UNCHANGED excused
       \/ /\ l = NoLock \/ Faults
          /\ Excuse(Affected(a))
          /\ IF worker[w].asParent \/ (single /\ l = NoLock) THEN Go(w, "find") ELSE Return(w)
          /\ UNCHANGED lock
    /\ UNCHANGED <<auto, kept>>

\* disableAppSetAutoSync, then StoreAppSetAutoSync.  An error only leaves the template on.
SetGet(w) ==
    LET s == Owner[worker[w].app] IN
    /\ At(w, "set.get")
    /\ Set(w, [worker[w] EXCEPT !.pc = IF s \in auto THEN "set.put" ELSE "find",
                                !.sets = @ \union {s}])
    /\ UNCHANGED <<auto, lock, kept, excused>>

SetPut(w) ==
    LET s == Owner[worker[w].app] IN
    /\ At(w, "set.put")
    /\ \/ auto' = auto \ {s} /\ Go(w, "set.store")
       \/ Faults /\ Go(w, "find") /\ UNCHANGED auto
    /\ UNCHANGED <<lock, kept, excused>>

SetStore(w) ==
    LET s == Owner[worker[w].app] IN
    /\ At(w, "set.store")
    /\ \/ kept' = kept \union {<<s, worker[w].pr>>} /\ UNCHANGED excused
       \/ Faults /\ Excuse(Members(s)) /\ UNCHANGED kept
    /\ Go(w, "find")
    /\ UNCHANGED <<auto, lock>>

\* FindParentApps, of parents that have (with a parent map: had) auto-sync.  An error is
\* only logged.
FindParents(w) ==
    LET on == IF worker[w].task = "rollback" THEN auto ELSE worker[w].parentMap
        a == worker[w].app
    IN /\ At(w, "find")
       /\ \E found \in {Parents[a] \intersect on} \union (IF Faults THEN {{}} ELSE {}) :
             Set(w, [worker[w] EXCEPT !.pc = "up", !.visited = @ \union {a},
                                      !.up = @ \union found])
       /\ UNCHANGED <<auto, lock, kept, excused>>

\* A parent not visited before is locked, unless another pull request holds it.
LockParent(w) ==
    LET p == worker[w].pr
        left == worker[w].up \ worker[w].visited
    IN /\ At(w, "up")
       /\ \/ /\ left = {}
             /\ Set(w, [worker[w] EXCEPT !.pc = "next", !.app = NoApp, !.asParent = FALSE,
                                         !.up = {}])
             /\ UNCHANGED lock
          \/ \E a \in left :
                /\ lock[a].pr \notin {NoPR, p}
                /\ Set(w, [worker[w] EXCEPT !.up = @ \ {a}])
                /\ UNCHANGED lock
          \/ \E a \in left :
                /\ lock[a].pr \in {NoPR, p}
                /\ lock' = IF lock[a].pr = p THEN lock
                           ELSE [lock EXCEPT ![a] = NewLock(p, FALSE)]
                /\ Set(w, [worker[w] EXCEPT !.pc = "get", !.app = a, !.asParent = TRUE,
                                            !.up = @ \ {a}])
       /\ UNCHANGED <<auto, kept, excused>>

-----------------------------------------------------------------------------
(* The sync itself, and what rewrites targetRevision: a GET of the spec and a PUT of *)
(* the same spec but for its revision.                                              *)

RewriteGet(w, a, seen) ==
    Set(w, [worker[w] EXCEPT !.pc = "rewrite", !.then = worker[w].pc, !.app = a,
                             !.seen = seen, !.todo = @ \ {a}])

\* An application whose manifest the pull request changes gets the spec of the manifest,
\* without its automated policy.  Not every application needs a rewrite.
Sync(w) ==
    /\ At(w, "sync")
    /\ \/ \E a \in worker[w].todo, seen \in BOOLEAN :
             (seen => a \in auto) /\ RewriteGet(w, a, seen)
       \/ Loop(w, "merge")
    /\ UNCHANGED <<auto, lock, kept, excused>>

Rewrite(w) ==
    LET a == worker[w].app IN
    /\ At(w, "rewrite")
    /\ auto' = IF worker[w].seen THEN auto \union {a} ELSE auto \ {a}
    /\ Set(w, [worker[w] EXCEPT !.pc = worker[w].then, !.then = "idle", !.app = NoApp,
                                !.seen = FALSE])
    /\ UNCHANGED <<lock, kept, excused>>

\* Not every application synced, auto-merge is off or fails: the locks stay.  Otherwise
\* targetRevision is reverted first, then the locks are listed again.
Merge(w) ==
    /\ At(w, "merge")
    /\ Return(w) \/ Loop(w, "revert")
    /\ UNCHANGED <<auto, lock, kept, excused>>

Relist(w) ==
    /\ At(w, "list")
    /\ Set(w, [List(w, worker[w].pr, Held(worker[w].pr)) EXCEPT !.pc = "children"])
    /\ UNCHANGED <<auto, lock, kept, excused>>

-----------------------------------------------------------------------------
(* restoreAllAutoSync. *)

\* restoreAutoSync of the locks that are (not) a parent's.  A failure is only logged.
RestoreApps(w, pc, S, next) ==
    LET saved == {a \in worker[w].todo \intersect S : worker[w].copy[a].saved} IN
    /\ At(w, pc)
    /\ \/ \E a \in saved :
             /\ Set(w, [worker[w] EXCEPT !.todo = @ \ {a}])
             /\ \/ auto' = auto \union {a} /\ UNCHANGED excused
                \/ Faults /\ Excuse({a}) /\ UNCHANGED auto
       \/ saved = {} /\ Loop(w, next) /\ UNCHANGED <<auto, excused>>
    /\ UNCHANGED <<lock, kept>>

ParentLocks(w) == {a \in worker[w].listed : worker[w].copy[a].parent}

ParentsFirst(w) == RestoreApps(w, "children", ParentLocks(w), "parents")
RestoreChildren(w) == RestoreApps(w, "children", Apps \ ParentLocks(w), "parents")
ParentsForgotten(w) == RestoreApps(w, "parents", {}, "sets")
RestoreParents(w) == RestoreApps(w, "parents", ParentLocks(w), "sets")

\* The template's policy, when the pull request has kept one.  When it cannot be read,
\* the key stays.
RestoreSet(w) ==
    /\ At(w, "sets")
    /\ \/ \E a \in worker[w].todo :
             LET s == Owner[a] IN
             IF worker[w].copy[a].named /\ <<s, worker[w].pr>> \in kept
             THEN \/ /\ Set(w, [worker[w] EXCEPT !.pc = "forget", !.app = a, !.todo = @ \ {a}])
                     /\ \/ auto' = auto \union {s} /\ UNCHANGED excused
                        \/ Faults /\ Excuse(Members(s)) /\ UNCHANGED auto
                  \/ /\ Faults /\ Excuse(Members(s))
                     /\ Set(w, [worker[w] EXCEPT !.todo = @ \ {a}])
                     /\ UNCHANGED auto
             ELSE /\ Set(w, [worker[w] EXCEPT !.todo = @ \ {a}])
                  /\ UNCHANGED <<auto, excused>>
       \/ /\ worker[w].todo = {}
          /\ Loop(w, IF worker[w].task = "close" THEN "revert" ELSE "unlock")
          /\ UNCHANGED <<auto, excused>>
    /\ UNCHANGED <<lock, kept>>

\* DeleteAppSetAutoSync, also after a failure.
ForgetSet(w) ==
    /\ At(w, "forget")
    /\ kept' = kept \ {<<Owner[worker[w].app], worker[w].pr>>}
    /\ Set(w, [worker[w] EXCEPT !.pc = "sets", !.app = NoApp])
    /\ UNCHANGED <<auto, lock, excused>>

-----------------------------------------------------------------------------
(* The end of UnlockAll and of a sync that merged. *)

\* revertTargetRevision of each lock that is not a parent's; auto-merge reverts those
\* it rewrote.
Revert(w) ==
    LET left == worker[w].todo \ ParentLocks(w) IN
    /\ At(w, "revert")
    /\ \/ \E a \in left : RewriteGet(w, a, a \in auto)
       \/ /\ left = {} \/ Faults \/ worker[w].task = "sync"
          /\ IF worker[w].task = "close" THEN Loop(w, "unlock") ELSE Go(w, "list")
    /\ UNCHANGED <<auto, lock, kept, excused>>

\* Unlock: only a lock of this pull request.  One that is no longer the lock that was
\* listed is released all the same.
Unlock(w) ==
    /\ At(w, "unlock")
    /\ \/ \E a \in worker[w].todo :
             /\ Set(w, [worker[w] EXCEPT !.todo = @ \ {a}])
             /\ \/ lock' = IF lock[a].pr = worker[w].pr THEN [lock EXCEPT ![a] = NoLock] ELSE lock
                \/ Faults /\ UNCHANGED lock
       \/ worker[w].todo = {} /\ Return(w) /\ UNCHANGED lock
    /\ UNCHANGED <<auto, kept, excused>>

-----------------------------------------------------------------------------
(* Other steps. *)

\* The unlock command, a forced unlock or the end of the lock's time to live.
Release(a) ==
    /\ Unlocks /\ lock[a] # NoLock
    /\ lock' = [lock EXCEPT ![a] = NoLock]
    /\ Excuse(Affected(a))
    /\ UNCHANGED <<auto, kept, worker>>

\* A key lives as long as a new lock; refreshing the lock does not renew it.
KeyExpires(s, p) ==
    /\ Unlocks /\ <<s, p>> \in kept
    /\ kept' = kept \ {<<s, p>>}
    /\ Excuse(Members(s))
    /\ UNCHANGED <<auto, lock, worker>>

\* The process dies.
Crash(w) ==
    /\ Faults /\ ~At(w, "idle")
    /\ Excuse(IF At(w, "save") THEN {worker[w].app}
              ELSE IF At(w, "set.store") THEN Members(Owner[worker[w].app]) ELSE {})
    /\ Return(w)
    /\ UNCHANGED <<auto, lock, kept>>

\* The ApplicationSet controller makes the generated applications what the template says.
Reconcile(s) ==
    /\ auto' = IF s \in auto THEN auto \union Members(s) ELSE auto \ Members(s)
    /\ UNCHANGED <<lock, kept, worker, excused>>

\* Argo CD syncs a parent that has auto-sync: its children get the spec they have in git.
SyncParent(a) ==
    /\ a \in auto
    /\ auto' = auto \union {c \in Automated \intersect Apps : a \in Parents[c]}
    /\ UNCHANGED <<lock, kept, worker, excused>>

-----------------------------------------------------------------------------

Begin(w) ==
    \/ \E p \in PRs : BeginSync(w, p) \/ BeginRollbackAll(w, p) \/ BeginUnlockAll(w, p)
    \/ \E p \in PRs, a \in Apps : Plan(w, p, a) \/ BeginRollback(w, p, a)

Step(w) ==
    \/ BuildParentMap(w) \/ NextApp(w) \/ DisableGet(w) \/ DisablePut(w)
    \/ DisableFails(w) \/ Save(w)
    \/ SetGet(w) \/ SetPut(w) \/ SetStore(w) \/ FindParents(w) \/ LockParent(w)
    \/ Sync(w) \/ Rewrite(w) \/ Merge(w) \/ Relist(w)
    \/ RestoreChildren(w) \/ RestoreParents(w) \/ RestoreSet(w) \/ ForgetSet(w)
    \/ Revert(w) \/ Unlock(w)

Next == \/ \E w \in Workers : Begin(w) \/ Step(w) \/ Crash(w)
        \/ \E a \in Apps : Release(a) \/ SyncParent(a)
        \/ \E s \in AppSets : Reconcile(s)
        \/ \E s \in AppSets, p \in PRs : KeyExpires(s, p)

Spec == Init /\ [][Next]_vars

-----------------------------------------------------------------------------
(* Properties. *)

Saving(a) == \E w \in Workers : At(w, "save") /\ worker[w].app = a

\* The template has auto-sync, or its policy is kept where the pull request that keeps it
\* will look for it.
TemplateKept(s) ==
    \/ s \in auto
    \/ \E w \in Workers : At(w, "set.store") /\ Owner[worker[w].app] = s
    \/ \E p \in PRs, a \in Members(s) : <<s, p>> \in kept /\ lock[a].pr = p /\ lock[a].named

\* plan.go: auto-sync "will be temporarily disabled during sync and restored when the PR
\* is merged or closed".  An application that had auto-sync has it, or a lock, a worker
\* between two calls or the template remembers it, unless a fault or an unlock cost it.
PolicyKept ==
    \A a \in (Automated \intersect Apps) \ excused :
       \/ a \in auto \/ lock[a].saved \/ Saving(a)
       \/ Owner[a] # NoSet /\ TemplateKept(Owner[a])

TemplatesKept ==
    \A s \in Automated \intersect AppSets : TemplateKept(s) \/ Members(s) \subseteq excused

\* restoreAllAutoSync: "children are restored before parents start auto-syncing".  This
\* holds of parents whose lock says so, that is, not of a parent whose auto-sync was
\* disabled because the pull request changes it too; and not of an application that an
\* ApplicationSet generates, whose template is restored last: until then the controller
\* takes the policy away again.
ChildrenFirst ==
    [][\A w \in Workers : worker[w].pc \in {"children", "parents"} /\ worker'[w] # worker[w] =>
         \A c \in (worker[w].listed \ ParentLocks(w)) \ excused :
            /\ worker[w].copy[c].saved
            /\ Owner[c] = NoSet
            /\ \E a \in Parents[c] \intersect ParentLocks(w) : a \in auto' \ auto
            => c \in auto]_vars

==============================================================================
