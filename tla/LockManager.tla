----------------------------- MODULE LockManager -----------------------------
(***************************************************************************)
(* The lock manager of internal/lock/redis.go, one Redis command per step, *)
(* driven by the sequences of calls internal/commands makes: planning an   *)
(* application (lockAndStorePlan, with reclaimStaleLock), persisting the   *)
(* auto-sync policy before a sync (disableAutoSyncForLocks), locking a     *)
(* parent (disableParentAutoSync), the unlock command and UnlockAll, and   *)
(* the admin's forced unlock.  The manager uses plain GET, SET, SADD, SREM *)
(* and DEL: no SETNX, WATCH or script makes two commands atomic, so every  *)
(* other worker may run between any two of them.                           *)
(*                                                                         *)
(* A lock record is abstracted to its holder, whose plan it carries and    *)
(* whether it carries a saved auto-sync policy.  The plan:<app>:<pr> key   *)
(* is left out: it is written and deleted, and nothing but GetPlan, which  *)
(* no command calls, reads it.  A Redis command that fails has no effect.  *)
(*                                                                         *)
(* HeldByAnyPR, LockSetOnly, RefreshAnew, AnyNumber and LessOne are faulty *)
(* variants of the definition after them, to see that the properties would *)
(* notice.                                                                 *)
(***************************************************************************)
EXTENDS Naturals, FiniteSets

CONSTANTS
    Apps,      \* Argo CD application names
    PRs,       \* pull requests: a repository and a number
    Number,    \* Number[p]: the number of p, which another repository may use too
    Workers,   \* queue workers, webhook goroutines and HTTP handlers
    LockTTL,   \* lockTTL, in ticks of the clock
    Faults,    \* whether calls may fail or their process die
    NoPR, NoApp

ASSUME LockAssumption == /\ NoPR \notin PRs
                         /\ DOMAIN Number = PRs
                         /\ NoApp \notin Apps
                         /\ LockTTL \in Nat \ {0}
                         /\ Faults \in BOOLEAN

VARIABLES
    lock,      \* lemuria:lock:<app>
    lockTTL,   \* its remaining time to live
    index,     \* lemuria:pr-locks:<repo>:<pr>, a set of applications
    indexTTL,  \* its remaining time to live
    open,      \* the pull requests that are open at the VCS
    worker,    \* what each worker is doing
    claims,    \* history: who was granted the lock of an application since it was last free
    tainted    \* history: applications whose lock record or index entry was damaged

redis == <<lock, lockTTL, index, indexTTL>>
ghosts == <<claims, tainted>>
vars == <<redis, open, worker, ghosts>>

Holder == PRs \union {NoPR}
Lock == [pr : Holder, plan : Holder, saved : BOOLEAN]
NoLock == [pr |-> NoPR, plan |-> NoPR, saved |-> FALSE]

\* A set without EXPIRE never expires.
Forever == LockTTL + 1

\* The Redis command a worker is about to issue.
PCs == {"idle", "lock.get", "lock.refresh", "lock.set", "lock.index", "lock.expire",
        "getpr", "plan.get", "plan.set", "save.get", "save.set",
        "unlock.get", "force.get", "force.srem", "force.del", "list", "filter"}

\* Why the worker is in Lock, Unlock or ForceUnlock, that is, where it goes on from there.
Purposes == {"none", "plan", "replan", "parent", "sweep", "reclaim"}

Worker == [pc : PCs, pr : Holder, app : Apps \union {NoApp}, seen : Lock,
           purpose : Purposes, todo : SUBSET Apps, held : SUBSET Apps]

Idle == [pc |-> "idle", pr |-> NoPR, app |-> NoApp, seen |-> NoLock,
         purpose |-> "none", todo |-> {}, held |-> {}]

TypeOK == /\ lock \in [Apps -> Lock]
          /\ lockTTL \in [Apps -> 0..LockTTL]
          /\ index \in [PRs -> SUBSET Apps]
          /\ indexTTL \in [PRs -> 0..Forever]
          /\ open \subseteq PRs
          /\ worker \in [Workers -> Worker]
          /\ claims \in [Apps -> SUBSET PRs]
          /\ tainted \subseteq Apps

Init == /\ lock = [a \in Apps |-> NoLock]
        /\ lockTTL = [a \in Apps |-> 0]
        /\ index = [p \in PRs |-> {}]
        /\ indexTTL = [p \in PRs |-> 0]
        /\ open = PRs
        /\ worker = [w \in Workers |-> Idle]
        /\ claims = [a \in Apps |-> {}]
        /\ tainted = {}

-----------------------------------------------------------------------------
(* Redis commands. *)

At(w, pc) == worker[w].pc = pc

Go(w, pc) == worker' = [worker EXCEPT ![w].pc = pc]

\* Go to another call, forgetting what this one read.
Become(w, pc) == worker' = [worker EXCEPT ![w].seen = NoLock, ![w].pc = pc]

\* The worker is done with its task.
Return(w) == worker' = [worker EXCEPT ![w] = Idle]

\* GET lemuria:lock:<app>, remembered by the caller.
GetThen(w, pc) == worker' = [worker EXCEPT ![w].seen = lock[worker[w].app], ![w].pc = pc]

\* The same, when only the holder matters to the caller.
GetHolderThen(w, pc) ==
    worker' = [worker EXCEPT ![w].seen = [NoLock EXCEPT !.pr = lock[worker[w].app].pr],
                             ![w].pc = pc]

\* setLock: SET with the full TTL.  The record written derives from the one the
\* caller read; history remembers when that was no longer the record in Redis.
SetLock(w, l) ==
    LET a == worker[w].app IN
    /\ lock' = [lock EXCEPT ![a] = l]
    /\ lockTTL' = [lockTTL EXCEPT ![a] = LockTTL]
    /\ tainted' = IF lock[a] = worker[w].seen THEN tainted ELSE tainted \union {a}

Grant(w) == claims' = [claims EXCEPT ![worker[w].app] = @ \union {worker[w].pr}]

\* The next call of the task, on the same application.
Call(w, pc, p) ==
    worker' = [worker EXCEPT ![w] = [Idle EXCEPT !.pc = pc, !.pr = p, !.app = worker[w].app]]

\* Lock returned Acquired: true.  lockAndStorePlan goes on to StorePlan.  For a parent
\* disableAutoSync follows: it had no auto-sync, or the lock must remember its policy,
\* or disabling failed and the lock is given back.
Acquired(w) ==
    IF worker[w].purpose = "parent"
    THEN Return(w) \/ Call(w, "save.get", NoPR) \/ Call(w, "unlock.get", worker[w].pr)
    ELSE Call(w, "plan.get", worker[w].pr)

\* ForceUnlock returned.
Released(w) ==
    \/ worker[w].purpose = "sweep" /\ Become(w, "filter")
    \/ /\ worker[w].purpose = "reclaim"
       /\ worker' = [worker EXCEPT ![w].pc = "lock.get", ![w].purpose = "replan",
                                   ![w].seen = NoLock]
    \/ worker[w].purpose \notin {"sweep", "reclaim"} /\ Return(w)

\* Unlock found no lock of this pull request: UnlockAll logs it and goes on.
NotReleased(w) == IF worker[w].purpose = "sweep" THEN Become(w, "filter") ELSE Return(w)

-----------------------------------------------------------------------------
(* Tasks begin: a webhook, a comment or an admin's request is being processed. *)

Start(w, pc, p, a, purpose) ==
    /\ At(w, "idle")
    /\ worker' = [worker EXCEPT ![w] = [Idle EXCEPT !.pc = pc, !.pr = p, !.app = a,
                                                    !.purpose = purpose]]
    /\ UNCHANGED <<redis, open, ghosts>>

BeginPlan(w, p, a) == Start(w, "lock.get", p, a, "plan")

\* disableAutoSyncForLocks works on locks its caller listed earlier, and the rollback
\* of one application (disableAutoSyncForRollback) on any application it is given.
\* Neither looks at who holds the lock it updates.
BeginSavePolicy(w, a) == Start(w, "save.get", NoPR, a, "none")

BeginLockParent(w, p, a) == Start(w, "lock.get", p, a, "parent")

\* An HTTP request of an administrator, on behalf of no pull request.
BeginForceUnlock(w, a) == Start(w, "force.get", NoPR, a, "none")

\* UnlockAll runs when the pull request was closed; the unlock command at any time,
\* for every application or for the one its -a flag names.
BeginUnlock(w, p) ==
    /\ At(w, "idle")
    /\ \E S \in {Apps} \union {{a} : a \in Apps} :
          worker' = [worker EXCEPT ![w] = [Idle EXCEPT !.pc = "list", !.pr = p, !.todo = S]]
    /\ UNCHANGED <<redis, open, ghosts>>

-----------------------------------------------------------------------------
(* Lock. *)

HeldByAnyPR(l, p) == l # NoLock
HeldByPR(l, p) == l.pr = p

\* The pull request of the caller holds it: refresh.  Free: take it.  Otherwise refuse,
\* and the first refusal of a plan makes it look at the holder (reclaimStaleLock).
LockGet(w) ==
    LET l == lock[worker[w].app] IN
    /\ At(w, "lock.get")
    /\ \/ HeldByPR(l, worker[w].pr) /\ GetThen(w, "lock.refresh")
       \/ l = NoLock /\ GetThen(w, "lock.set")
       \/ /\ l # NoLock /\ ~HeldByPR(l, worker[w].pr)
          /\ IF worker[w].purpose = "plan" THEN GetHolderThen(w, "getpr") ELSE Return(w)
    /\ UNCHANGED <<redis, open, ghosts>>

RefreshAnew(w) ==
    /\ At(w, "lock.refresh")
    /\ SetLock(w, [NoLock EXCEPT !.pr = worker[w].pr]) /\ Grant(w) /\ Acquired(w)
    /\ UNCHANGED <<index, indexTTL, open>>

\* Only the lock's TTL is renewed; the index is not touched.
LockRefresh(w) ==
    /\ At(w, "lock.refresh")
    /\ SetLock(w, worker[w].seen) /\ Grant(w) /\ Acquired(w)
    /\ UNCHANGED <<index, indexTTL, open>>

LockSetOnly(w) ==
    /\ At(w, "lock.set")
    /\ SetLock(w, [NoLock EXCEPT !.pr = worker[w].pr]) /\ Grant(w) /\ Acquired(w)
    /\ UNCHANGED <<index, indexTTL, open>>

LockSet(w) ==
    /\ At(w, "lock.set")
    /\ SetLock(w, [NoLock EXCEPT !.pr = worker[w].pr]) /\ Grant(w) /\ Become(w, "lock.index")
    /\ UNCHANGED <<index, indexTTL, open>>

LockIndex(w) ==
    LET p == worker[w].pr IN
    /\ At(w, "lock.index")
    /\ index' = [index EXCEPT ![p] = @ \union {worker[w].app}]
    /\ indexTTL' = [indexTTL EXCEPT ![p] = IF index[p] = {} THEN Forever ELSE @]
    /\ Go(w, "lock.expire")
    /\ UNCHANGED <<lock, lockTTL, open, ghosts>>

\* EXPIRE does nothing when the set is gone; its error is not looked at.
LockExpire(w) ==
    LET p == worker[w].pr IN
    /\ At(w, "lock.expire")
    /\ \/ indexTTL' = [indexTTL EXCEPT ![p] = IF index[p] = {} THEN 0 ELSE LockTTL]
       \/ Faults /\ UNCHANGED indexTTL
    /\ Acquired(w)
    /\ UNCHANGED <<lock, lockTTL, index, open, ghosts>>

-----------------------------------------------------------------------------
(* reclaimStaleLock: GetPR of the holder seen; only a closed one loses its lock. *)

ReclaimGetPR(w) ==
    /\ At(w, "getpr")
    /\ IF worker[w].seen.pr \in open
       THEN Return(w)
       ELSE worker' = [worker EXCEPT ![w].pc = "force.get", ![w].purpose = "reclaim",
                                          ![w].seen = NoLock]
    /\ UNCHANGED <<redis, open, ghosts>>

-----------------------------------------------------------------------------
(* StorePlan compares the number of the pull request, not its repository. *)

AnyNumber(l, p) == TRUE
SameNumber(l, p) == Number[l.pr] = Number[p]

PlanGet(w) ==
    LET l == lock[worker[w].app] IN
    /\ At(w, "plan.get")
    /\ IF l # NoLock /\ SameNumber(l, worker[w].pr) THEN GetThen(w, "plan.set") ELSE Return(w)
    /\ UNCHANGED <<redis, open, ghosts>>

PlanSet(w) ==
    /\ At(w, "plan.set")
    /\ SetLock(w, [worker[w].seen EXCEPT !.plan = worker[w].pr]) /\ Return(w)
    /\ UNCHANGED <<index, indexTTL, open, claims>>

-----------------------------------------------------------------------------
(* Get and UpdateLock around the auto-sync policy. *)

SaveGet(w) ==
    /\ At(w, "save.get")
    /\ IF lock[worker[w].app] = NoLock THEN Return(w) ELSE GetThen(w, "save.set")
    /\ UNCHANGED <<redis, open, ghosts>>

SaveSet(w) ==
    /\ At(w, "save.set")
    /\ SetLock(w, [worker[w].seen EXCEPT !.saved = TRUE]) /\ Return(w)
    /\ UNCHANGED <<index, indexTTL, open, claims>>

-----------------------------------------------------------------------------
(* Unlock and ForceUnlock. *)

UnlockGet(w) ==
    /\ At(w, "unlock.get")
    /\ IF HeldByPR(lock[worker[w].app], worker[w].pr) THEN Become(w, "force.get") ELSE NotReleased(w)
    /\ UNCHANGED <<redis, open, ghosts>>

ForceGet(w) ==
    /\ At(w, "force.get")
    /\ GetHolderThen(w, IF lock[worker[w].app] = NoLock THEN "force.del" ELSE "force.srem")
    /\ UNCHANGED <<redis, open, ghosts>>

\* The index entry of the holder seen; a set that becomes empty is gone with its TTL.
\* The error is not looked at.
ForceSRem(w) ==
    LET p == worker[w].seen.pr
        rest == index[p] \ {worker[w].app}
    IN /\ At(w, "force.srem")
       /\ \/ /\ index' = [index EXCEPT ![p] = rest]
             /\ indexTTL' = [indexTTL EXCEPT ![p] = IF rest = {} THEN 0 ELSE @]
          \/ Faults /\ UNCHANGED <<index, indexTTL>>
       /\ Go(w, "force.del")
       /\ UNCHANGED <<lock, lockTTL, open, ghosts>>

\* DEL: whoever holds the lock by now.
ForceDel(w) ==
    LET a == worker[w].app IN
    /\ At(w, "force.del")
    /\ lock' = [lock EXCEPT ![a] = NoLock]
    /\ lockTTL' = [lockTTL EXCEPT ![a] = 0]
    /\ claims' = [claims EXCEPT ![a] = {}]
    /\ Released(w)
    /\ UNCHANGED <<index, indexTTL, open, tainted>>

-----------------------------------------------------------------------------
(* ListByPR, then Unlock of every lock it returned. *)

ListIndex(w) ==
    /\ At(w, "list")
    /\ worker' = [worker EXCEPT ![w].pc = "filter", ![w].todo = @ \intersect index[worker[w].pr]]
    /\ UNCHANGED <<redis, open, ghosts>>

\* One GET per member; a member whose lock is gone, foreign or unreadable is dropped.
ListFilter(w) ==
    /\ At(w, "filter")
    /\ \E a \in worker[w].todo :
         \E keep \in IF HeldByPR(lock[a], worker[w].pr)
                     THEN {{a}} \union (IF Faults THEN {{}} ELSE {}) ELSE {{}} :
            worker' = [worker EXCEPT ![w].todo = @ \ {a}, ![w].held = @ \union keep]
    /\ UNCHANGED <<redis, open, ghosts>>

\* The list is complete: unlock what is on it, one after the other.
Sweep(w) ==
    /\ At(w, "filter") /\ worker[w].todo = {}
    /\ \/ \E a \in worker[w].held :
             worker' = [worker EXCEPT ![w].pc = "unlock.get", ![w].app = a,
                                      ![w].purpose = "sweep", ![w].held = @ \ {a}]
       \/ worker[w].held = {} /\ Return(w)
    /\ UNCHANGED <<redis, open, ghosts>>

-----------------------------------------------------------------------------
(* The environment. *)

\* A command fails or the process dies: the rest of the call is not executed, and
\* UnlockAll goes on to the next application when only the command failed.  What
\* is written by then stays: a lock without its index entry is damaged.
Fail(w) ==
    /\ Faults /\ ~At(w, "idle")
    /\ \/ Return(w)
       \/ worker[w].purpose = "sweep" /\ Become(w, "filter")
    /\ tainted' = IF \/ At(w, "lock.index")
                     \/ At(w, "force.del") /\ worker[w].seen # NoLock
                  THEN tainted \union {worker[w].app} ELSE tainted
    /\ UNCHANGED <<redis, open, claims>>

\* Closing is final in this model: the handlers ignore a reopened pull request.
Close(p) ==
    /\ p \in open
    /\ open' = open \ {p}
    /\ UNCHANGED <<redis, worker, ghosts>>

LessOne(t) == t - 1
Less(t) == IF t = 0 THEN 0 ELSE t - 1

\* A TTL is days and a task minutes: time passes between tasks.
Tick ==
    LET expired == {a \in Apps : lockTTL[a] = 1}
        lost == {p \in PRs : indexTTL[p] = 1}
    IN /\ \A w \in Workers : At(w, "idle")
       /\ lockTTL' = [a \in Apps |-> Less(lockTTL[a])]
       /\ lock' = [a \in Apps |-> IF a \in expired THEN NoLock ELSE lock[a]]
       /\ claims' = [a \in Apps |-> IF a \in expired THEN {} ELSE claims[a]]
       /\ indexTTL' = [p \in PRs |-> IF indexTTL[p] = Forever THEN Forever ELSE Less(indexTTL[p])]
       /\ index' = [p \in PRs |-> IF p \in lost THEN {} ELSE index[p]]
       /\ tainted' = tainted \union {a \in Apps \ expired : lock[a].pr \in lost}
       /\ UNCHANGED <<open, worker>>

-----------------------------------------------------------------------------

Begin(w) ==
    \/ \E p \in PRs, a \in Apps :
          BeginPlan(w, p, a) \/ BeginLockParent(w, p, a)
    \/ \E a \in Apps : BeginSavePolicy(w, a) \/ BeginForceUnlock(w, a)
    \/ \E p \in PRs : BeginUnlock(w, p)

Step(w) ==
    \/ LockGet(w) \/ LockRefresh(w) \/ LockSet(w) \/ LockIndex(w) \/ LockExpire(w)
    \/ ReclaimGetPR(w) \/ PlanGet(w) \/ PlanSet(w) \/ SaveGet(w) \/ SaveSet(w)
    \/ UnlockGet(w) \/ ForceGet(w) \/ ForceSRem(w) \/ ForceDel(w)
    \/ ListIndex(w) \/ ListFilter(w) \/ Sweep(w)

Next == \/ \E w \in Workers : Begin(w) \/ Step(w) \/ Fail(w)
        \/ \E p \in PRs : Close(p)
        \/ Tick

Spec == Init /\ [][Next]_vars

-----------------------------------------------------------------------------
(* Properties. *)

\* README.md: "Redis-based distributed locks prevent concurrent syncs to the same
\* application".  Whatever the interleaving of the workers' commands and whatever call
\* is cut short, the claims granted on an undamaged application are those of its holder.
Exclusive == \A a \in Apps \ tainted :
                claims[a] = IF lock[a] = NoLock THEN {} ELSE {lock[a].pr}

Indexing(w, a) == At(w, "lock.index") /\ worker[w].app = a /\ worker[w].pr = lock[a].pr

Releasing(w, a) == At(w, "force.del") /\ worker[w].app = a /\ worker[w].seen # NoLock

\* UnlockAll and every command find locks through the index of the pull request.  An
\* undamaged lock is always found there, except by a caller that runs between the two
\* writes of the Lock that creates it or of the ForceUnlock that removes it.
ListedWhileHeld ==
    \A a \in Apps \ tainted :
       lock[a] # NoLock => \/ a \in index[lock[a].pr]
                          \/ \E w \in Workers : Indexing(w, a) \/ Releasing(w, a)

\* StorePlan "for verification before sync": the plan a lock carries was made for a pull
\* request of the holder's number, also when the lock changed hands between Lock and
\* StorePlan.
PlanFromHolder ==
    \A a \in Apps : lock[a].plan = NoPR \/ Number[lock[a].plan] = Number[lock[a].pr]

\* Refreshing a lock, storing a plan and saving a policy rewrite the whole record: while
\* the record is undamaged and keeps its holder, none of them loses what another wrote.
NothingLost ==
    [][\A a \in Apps \ tainted' :
         lock'[a].pr = lock[a].pr => /\ lock[a].plan # NoPR => lock'[a].plan # NoPR
                                     /\ lock[a].saved => lock'[a].saved]_vars

\* The lock service implements the exclusive lock it promises.
Exclusively == INSTANCE ExclusiveLock WITH holder <- [a \in Apps |-> lock[a].pr]

ImplementsExclusiveLock == Exclusively!Spec

\* README.md's promise without the exception for damaged records.
NeverTwoHolders == \A a \in Apps : Cardinality(claims[a]) <= 1

==============================================================================
