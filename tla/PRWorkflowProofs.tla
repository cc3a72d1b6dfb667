--------------------------- MODULE PRWorkflowProofs ---------------------------
(* Proofs about PRWorkflow, for any sets of applications, pull requests and   *)
(* workers, any commits and kinds of applications, with or without faults.    *)
EXTENDS PRWorkflow, TLAPS

\* A worker acts for a pull request; one that plans or syncs carries a commit of it, and what
\* a sync still has to deploy is planned at that commit.
WorkerOK(k, pairs) ==
    /\ k.pc # "idle" => k.pr \in PRs
    /\ k.pc \in {"plan", "sync"} => k.at \in DOMAIN Affects[k.pr]
    /\ k.pc = "sync" => \A a \in k.todo \union k.written : <<a, Commit(k.pr, k.at)>> \in pairs

\* The plan of a lock is one of its holder's that was made.
LockOK(a, l, pairs) == l.rev # 0 => l.pr \in PRs /\ <<a, Commit(l.pr, l.rev)>> \in pairs

\* What a spec may follow or a cluster run.
MayRun(a, pairs) == {Base, Tracks[a]} \union {r \in Commits : <<a, r>> \in pairs}

WellFormed == /\ TypeOK
              /\ head \in [PRs -> Nat]
              /\ \A w \in Workers : WorkerOK(worker[w], planned)
              /\ \A a \in Apps : LockOK(a, lock[a], planned)
              /\ \A a \in Apps : target[a] \in MayRun(a, planned) /\ live[a] \in MayRun(a, planned)

\* Planning more takes nothing away.
LEMMA PlannedGrows ==
    ASSUME NEW P, NEW Q, P \subseteq Q
    PROVE  /\ \A k : WorkerOK(k, P) => WorkerOK(k, Q)
           /\ \A a, l : LockOK(a, l, P) => LockOK(a, l, Q)
           /\ \A a : MayRun(a, P) \subseteq MayRun(a, Q)
  BY DEF WorkerOK, LockOK, MayRun

\* A step of one worker is fine when what it does to its own record is.
LEMMA WorkerStep ==
    ASSUME WellFormed, NEW w \in Workers, NEW k \in Worker, Set(w, k),
           planned \subseteq planned', WorkerOK(k, planned')
    PROVE  /\ worker' \in [Workers -> Worker]
           /\ \A v \in Workers : WorkerOK(worker'[v], planned')
  BY PlannedGrows DEF WellFormed, TypeOK, Set

\* A step that changes neither locks nor specs nor the cluster.
LEMMA LocalStep ==
    ASSUME WellFormed, NEW w \in Workers, NEW k \in Worker, Set(w, k),
           WorkerOK(k, planned), tasks' \in 0..MaxTasks, open' \subseteq PRs,
           UNCHANGED <<head, lock, argocd, planned, forced>>,
           excused' \subseteq Apps
    PROVE  WellFormed'
  <1>1. /\ worker' \in [Workers -> Worker]
        /\ \A v \in Workers : WorkerOK(worker'[v], planned')
    BY WorkerStep
  <1>2. QED
    BY <1>1 DEF WellFormed, TypeOK, argocd

LEMMA IdleOK == Idle \in Worker /\ WorkerOK(Idle, planned)
  BY PRAssumption DEF Idle, Worker, WorkerOK, NoLock, Lock, Types, Tasks

LEMMA InitWF == Init => WellFormed
  <1> SUFFICES ASSUME Init PROVE WellFormed
    OBVIOUS
  <1>1. TypeOK
    <2>1. \A p \in PRs : 1 \in DOMAIN Affects[p]
      BY PRAssumption
    <2>2. Tracks \in [Apps -> Revisions]
      BY PRAssumption DEF Revisions
    <2>3. QED
      BY <2>1, <2>2, IdleOK, PRAssumption DEF Init, TypeOK, NoLock, Lock, Types
  <1>2. head \in [PRs -> Nat]
    BY DEF Init
  <1>3. QED
    BY <1>1, <1>2, IdleOK DEF Init, WellFormed, WorkerOK, LockOK, NoLock, MayRun, Idle

\* A task begins with the record of an idle worker that has what it carries.
LEMMA BeginOK ==
    ASSUME WellFormed, NEW w \in Workers, NEW p \in PRs, Task(w, p),
           NEW task \in Tasks, NEW pc \in {"plan", "sync", "rollback", "revert", "unlock"}
    PROVE  /\ Begin(w, p, task, pc) \in Worker
           /\ Begin(w, p, task, pc).pr = p /\ Begin(w, p, task, pc).pc = pc
           /\ Begin(w, p, task, pc).task = task
           /\ Begin(w, p, task, pc).written = {}
           /\ tasks' \in 0..MaxTasks
  <1>1. Begin(w, p, task, pc) \in Worker
    BY IdleOK DEF Begin, Worker
  <1>2. tasks' \in 0..MaxTasks
    BY PRAssumption DEF Task, WellFormed, TypeOK
  <1>3. QED
    BY <1>1, <1>2 DEF Begin, Idle

LEMMA BeginsWF ==
    ASSUME WellFormed, NEW w \in Workers, NEW p \in PRs,
           \/ BeginPlan(w, p) \/ BeginSync(w, p) \/ BeginRollback(w, p) \/ BeginUnlock(w, p)
           \/ BeginUnlockAll(w, p)
    PROVE  WellFormed'
  <1>1. Held(p) \subseteq Apps
    BY DEF Held
  <1>2. \A S \in SUBSET Apps : Copy(S) \in [Apps -> Lock]
    BY DEF Copy, WellFormed, TypeOK, NoLock, Lock, Types
  <1>3. \A n \in 1..head[p] : n \in DOMAIN Affects[p] /\ n \in Nat \ {0}
    BY PRAssumption DEF WellFormed, TypeOK
  <1>4. CASE BeginPlan(w, p)
    <2>1. Affects[p][head[p]] \subseteq Apps
      BY PRAssumption DEF WellFormed, TypeOK
    <2>2. ASSUME NEW n \in 1..head[p], NEW S \in SUBSET Apps, NEW task \in Tasks,
                 Set(w, [Begin(w, p, task, "plan") EXCEPT !.at = n, !.todo = S])
          PROVE  WellFormed'
      <3> DEFINE k == [Begin(w, p, task, "plan") EXCEPT !.at = n, !.todo = S]
      <3>1. Task(w, p)
        BY <1>4 DEF BeginPlan
      <3>2. /\ Begin(w, p, task, "plan") \in Worker
            /\ Begin(w, p, task, "plan").pr = p /\ Begin(w, p, task, "plan").pc = "plan"
            /\ tasks' \in 0..MaxTasks
        BY <3>1, BeginOK
      <3>3. k \in Worker /\ k.pr = p /\ k.pc = "plan" /\ k.at = n
        BY <1>3, <3>2 DEF Worker
      <3>4. WorkerOK(k, planned)
        BY <1>3, <3>3 DEF WorkerOK
      <3>5. QED
        BY <1>4, <2>2, <3>2, <3>3, <3>4, LocalStep DEF BeginPlan, WellFormed, TypeOK
    <2>3. QED
      BY <1>4, <2>1, <2>2 DEF BeginPlan, WellFormed, TypeOK, Tasks
  <1>5. CASE BeginSync(w, p)
    <2>1. PICK n \in 1..head[p], dry \in {FALSE, DryRuns}, S \in SUBSET Held(p) :
             /\ PlansAreCurrent(S, n)
             /\ \E leaves \in {Leaves(S)} \union (IF Faults THEN {S} ELSE {}) :
                   LET run == {a \in leaves : ~Skipped(lock[a])} IN
                   Set(w, [Begin(w, p, "sync", "sync") EXCEPT
                              !.at = n, !.dry = dry, !.copy = Copy(S), !.synced = run,
                              !.todo = run])
      BY <1>5 DEF BeginSync
    <2>2. PICK run \in SUBSET S :
             Set(w, [Begin(w, p, "sync", "sync") EXCEPT
                        !.at = n, !.dry = dry, !.copy = Copy(S), !.synced = run, !.todo = run])
      BY <2>1 DEF Leaves
    <2> DEFINE k == [Begin(w, p, "sync", "sync") EXCEPT
                        !.at = n, !.dry = dry, !.copy = Copy(S), !.synced = run, !.todo = run]
    <2>3. Task(w, p) /\ dry \in BOOLEAN /\ "sync" \in Tasks
      BY <1>5, <2>1, PRAssumption DEF BeginSync, Tasks
    <2>4. /\ Begin(w, p, "sync", "sync") \in Worker
          /\ Begin(w, p, "sync", "sync").pr = p /\ Begin(w, p, "sync", "sync").pc = "sync"
          /\ Begin(w, p, "sync", "sync").written = {}
          /\ tasks' \in 0..MaxTasks
      BY <2>3, BeginOK
    <2>5. \A a \in run : <<a, Commit(p, n)>> \in planned
      BY <1>1, <1>3, <2>1 DEF PlansAreCurrent, Held, WellFormed, LockOK
    <2>6. /\ k \in Worker
          /\ k.pc = "sync" /\ k.pr = p /\ k.at = n /\ k.todo = run /\ k.written = {}
      BY <1>1, <1>2, <1>3, <2>3, <2>4 DEF Worker
    <2>7. WorkerOK(k, planned)
      BY <1>3, <2>5, <2>6 DEF WorkerOK
    <2>8. QED
      BY <1>5, <2>2, <2>4, <2>6, <2>7, LocalStep DEF BeginSync, WellFormed, TypeOK
  <1>6. CASE BeginRollback(w, p)
    <2>1. ASSUME NEW S \in SUBSET Apps, NEW dry \in BOOLEAN, NEW task \in Tasks,
                 Set(w, [Begin(w, p, task, "rollback") EXCEPT !.dry = dry, !.todo = S])
          PROVE  WellFormed'
      <3> DEFINE k == [Begin(w, p, task, "rollback") EXCEPT !.dry = dry, !.todo = S]
      <3>1. Task(w, p)
        BY <1>6 DEF BeginRollback
      <3>2. /\ Begin(w, p, task, "rollback") \in Worker
            /\ Begin(w, p, task, "rollback").pr = p
            /\ Begin(w, p, task, "rollback").pc = "rollback"
            /\ tasks' \in 0..MaxTasks
        BY <3>1, BeginOK
      <3>3. k \in Worker /\ k.pr = p /\ k.pc = "rollback"
        BY <3>2 DEF Worker
      <3>4. WorkerOK(k, planned)
        BY <3>3 DEF WorkerOK
      <3>5. QED
        BY <1>6, <2>1, <3>2, <3>3, <3>4, LocalStep DEF BeginRollback, WellFormed, TypeOK
    <2>2. PICK dry \in BOOLEAN :
             \/ Set(w, [Begin(w, p, "rollback", "rollback") EXCEPT !.dry = dry, !.todo = Held(p)])
             \/ \E a \in exists :
                   Set(w, [Begin(w, p, "rollback -a", "rollback") EXCEPT
                              !.dry = dry, !.todo = {a}])
      BY <1>6, PRAssumption DEF BeginRollback
    <2>3. exists \subseteq Apps
      BY DEF WellFormed, TypeOK
    <2>4. QED
      BY <1>1, <2>1, <2>2, <2>3 DEF Tasks
  <1>7. ASSUME NEW S \in SUBSET Apps, NEW T \in SUBSET Apps, NEW task \in {"unlock", "close"},
               NEW pc \in {"unlock", "revert"}, Task(w, p),
               UNCHANGED <<open, head, lock, argocd, planned, excused, forced>>,
               Set(w, [Begin(w, p, task, pc) EXCEPT !.copy = Copy(S), !.todo = T])
        PROVE  WellFormed'
    <2> DEFINE k == [Begin(w, p, task, pc) EXCEPT !.copy = Copy(S), !.todo = T]
    <2>0. task \in Tasks
      BY DEF Tasks
    <2>1. /\ Begin(w, p, task, pc) \in Worker
          /\ Begin(w, p, task, pc).pr = p /\ Begin(w, p, task, pc).pc = pc
          /\ tasks' \in 0..MaxTasks
      BY <1>7, <2>0, BeginOK
    <2>2. Copy(S) \in [Apps -> Lock]
      BY <1>2
    <2>3. k \in Worker /\ k.pr = p /\ k.pc = pc
      BY <2>1, <2>2 DEF Worker
    <2>4. WorkerOK(k, planned)
      BY <2>3 DEF WorkerOK
    <2>5. QED
      BY <1>7, <2>1, <2>3, <2>4, LocalStep DEF WellFormed, TypeOK
  <1>8. CASE BeginUnlock(w, p) \/ BeginUnlockAll(w, p)
    BY <1>1, <1>7, <1>8 DEF BeginUnlock, BeginUnlockAll
  <1>9. QED
    BY <1>4, <1>5, <1>6, <1>8

\* A plan stores the commit it plans in the lock; a lock kept from before keeps its plan.
LEMMA PlanAppWF ==
    ASSUME WellFormed, NEW w \in Workers, NEW a \in Apps, PlanApp(w, a)
    PROVE  WellFormed'
  <1> DEFINE k == worker[w]
             next == [k EXCEPT !.todo = @ \ {a}]
             own == IF lock[a].pr = k.pr THEN lock[a] ELSE NoLock
             taken == [own EXCEPT !.pr = k.pr, !.type = ChangeType(k, a)]
             stored == [taken EXCEPT !.rev = k.at, !.source = SourceFile(k, a),
                                     !.empty = a \notin Affects[k.pr][head[k.pr]]]
  <1>1. /\ k \in Worker /\ WorkerOK(k, planned) /\ k.pc = "plan"
        /\ k.pr \in PRs /\ k.at \in DOMAIN Affects[k.pr]
    BY DEF WellFormed, TypeOK, PlanApp, WorkerOK
  <1>2. planned \subseteq planned' /\ planned' \subseteq Apps \X Commits
    BY <1>1 DEF PlanApp, WellFormed, TypeOK, Commits
  <1>3. next \in Worker /\ WorkerOK(next, planned')
    <2>1. next \in Worker /\ next.pc = "plan" /\ next.pr = k.pr /\ next.at = k.at
      BY <1>1 DEF Worker
    <2>2. QED
      BY <1>1, <2>1 DEF WorkerOK
  <1>4. /\ worker' \in [Workers -> Worker]
        /\ \A v \in Workers : WorkerOK(worker'[v], planned')
    BY <1>2, <1>3, WorkerStep DEF PlanApp
  <1>5. lock' \in [Apps -> Lock] /\ \A b \in Apps : LockOK(b, lock'[b], planned')
    <2>1. own \in Lock /\ (own.rev # 0 => own.pr = k.pr) /\ LockOK(a, own, planned)
      BY DEF WellFormed, TypeOK, NoLock, Lock, Types, LockOK
    <2>2. ChangeType(k, a) \in Types /\ SourceFile(k, a) \in BOOLEAN
      BY DEF ChangeType, ManifestChange, SourceFile, Types
    <2>3. taken \in Lock /\ taken.pr = k.pr /\ taken.rev = own.rev
      BY <1>1, <2>1, <2>2 DEF Lock, Worker
    <2>4. LockOK(a, taken, planned)
      BY <1>1, <2>1, <2>3 DEF LockOK
    <2>5. stored \in Lock /\ stored.pr = k.pr /\ stored.rev = k.at
      BY <1>1, <2>2, <2>3 DEF Lock, Worker
    <2>6. CASE /\ lock' = [lock EXCEPT ![a] = stored]
               /\ planned' = planned \union {<<a, Commit(k.pr, k.at)>>}
      BY <1>1, <1>2, <2>5, <2>6, PlannedGrows DEF WellFormed, TypeOK, LockOK
    <2>7. CASE lock' = [lock EXCEPT ![a] = taken] /\ planned' = planned
      BY <2>3, <2>4, <2>7 DEF WellFormed, TypeOK
    <2>8. CASE UNCHANGED <<lock, planned>>
      BY <2>8 DEF WellFormed, TypeOK
    <2>9. QED
      BY <2>6, <2>7, <2>8 DEF PlanApp
  <1>6. excused' \subseteq Apps /\ exists' \subseteq Apps
    BY DEF PlanApp, Excuse, Rendered, WellFormed, TypeOK
  <1>7. \A b \in Apps : target'[b] \in MayRun(b, planned') /\ live'[b] \in MayRun(b, planned')
    BY <1>2, PlannedGrows DEF PlanApp, WellFormed
  <1>8. QED
    BY <1>2, <1>4, <1>5, <1>6, <1>7 DEF PlanApp, WellFormed, TypeOK

\* What a sync writes into a spec or deploys is planned, tracked, or in the spec already.
LEMMA SpecStep ==
    ASSUME WellFormed, NEW w \in Workers, NEW k \in Worker, Set(w, k), WorkerOK(k, planned),
           NEW a \in Apps, NEW r \in MayRun(a, planned),
           \/ target' = [target EXCEPT ![a] = r] /\ UNCHANGED live
           \/ live' = [live EXCEPT ![a] = r] /\ UNCHANGED target,
           exists' \subseteq Apps, excused' \subseteq Apps,
           UNCHANGED <<open, head, lock, planned, tasks, forced>>
    PROVE  WellFormed'
  <1>1. /\ worker' \in [Workers -> Worker]
        /\ \A v \in Workers : WorkerOK(worker'[v], planned')
    BY WorkerStep
  <1>2. MayRun(a, planned) \subseteq Revisions
    BY DEF MayRun, Revisions
  <1>3. target' \in [Apps -> Revisions] /\ live' \in [Apps -> Revisions]
    BY <1>2 DEF WellFormed, TypeOK
  <1>4. \A b \in Apps : target'[b] \in MayRun(b, planned') /\ live'[b] \in MayRun(b, planned')
    BY DEF WellFormed, TypeOK
  <1>5. QED
    BY <1>1, <1>3, <1>4 DEF WellFormed, TypeOK

LEMMA SyncStepsWF ==
    ASSUME WellFormed, NEW w \in Workers, NEW a \in Apps,
           WriteSpec(w, a) \/ Deploy(w, a) \/ Rollback(w, a) \/ Revert(w, a)
    PROVE  WellFormed'
  <1> DEFINE k == worker[w]
  <1>1. k \in Worker /\ WorkerOK(k, planned)
    BY DEF WellFormed, TypeOK
  <1>2. target[a] \in MayRun(a, planned) /\ Base \in MayRun(a, planned)
        /\ Tracks[a] \in MayRun(a, planned)
    BY DEF WellFormed, MayRun
  <1>3. ASSUME k.pc = "sync", a \in k.todo \union k.written
        PROVE  Commit(k.pr, k.at) \in MayRun(a, planned)
    <2>1. <<a, Commit(k.pr, k.at)>> \in planned
      BY <1>1, <1>3 DEF WorkerOK
    <2>2. Commit(k.pr, k.at) \in Commits
      BY <2>1 DEF WellFormed, TypeOK
    <2>3. QED
      BY <2>1, <2>2 DEF MayRun
  <1>4. excused' \subseteq Apps
    BY DEF WriteSpec, Deploy, Rollback, Revert, Excuse, WellFormed, TypeOK
  <1>5. CASE WriteSpec(w, a)
    <2> DEFINE next == [k EXCEPT !.todo = @ \ {a}, !.written = @ \union {a},
                                 !.rewritten = IF Rewrites(k, a) THEN @ \union {a} ELSE @]
    <2>1. /\ next \in Worker /\ next.pc = k.pc /\ next.pr = k.pr /\ next.at = k.at
          /\ next.todo \union next.written = k.todo \union k.written
      BY <1>1, <1>5 DEF Worker, WriteSpec
    <2>2. WorkerOK(next, planned)
      BY <1>1, <2>1 DEF WorkerOK
    <2>3. NewTarget(k, a) \in MayRun(a, planned)
      BY <1>2, <1>3, <1>5 DEF NewTarget, WriteSpec
    <2>4. QED
      BY <1>4, <1>5, <2>1, <2>2, <2>3, SpecStep DEF WriteSpec, WellFormed, TypeOK
  <1>6. CASE Deploy(w, a)
    <2>1. PICK failed \in BOOLEAN :
             Set(w, [k EXCEPT !.written = @ \ {a}, !.failed = @ \/ failed])
      BY <1>6 DEF Deploy
    <2> DEFINE next == [k EXCEPT !.written = @ \ {a}, !.failed = @ \/ failed]
    <2>2. /\ next \in Worker /\ next.pc = k.pc /\ next.pr = k.pr /\ next.at = k.at
          /\ next.todo \union next.written \subseteq k.todo \union k.written
      BY <1>1 DEF Worker
    <2>3. WorkerOK(next, planned)
      BY <1>1, <2>2 DEF WorkerOK
    <2>4. Deploys(k, a) \in MayRun(a, planned)
      BY <1>2, <1>3, <1>6 DEF Deploys, Deploy
    <2>5. PICK r \in MayRun(a, planned) : live' = [live EXCEPT ![a] = r]
      BY <1>6, <2>4 DEF Deploy, WellFormed, TypeOK
    <2>6. QED
      BY <1>4, <1>6, <2>1, <2>2, <2>3, <2>5, SpecStep DEF Deploy, WellFormed, TypeOK
  <1>7. ASSUME Rollback(w, a) \/ Revert(w, a)
        PROVE  WellFormed'
    <2> DEFINE next == [k EXCEPT !.todo = @ \ {a}]
    <2>1. /\ next \in Worker /\ next.pc = k.pc /\ next.pr = k.pr /\ next.at = k.at
          /\ k.pc \in {"rollback", "revert"} /\ Set(w, next)
      BY <1>1, <1>7 DEF Worker, Rollback, Revert
    <2>2. WorkerOK(next, planned)
      BY <1>1, <2>1 DEF WorkerOK
    <2>3. \/ \E r \in MayRun(a, planned) : live' = [live EXCEPT ![a] = r] /\ UNCHANGED target
          \/ \E r \in MayRun(a, planned) : target' = [target EXCEPT ![a] = r] /\ UNCHANGED live
      BY <1>2, <1>7 DEF Rollback, Revert, WellFormed, TypeOK
    <2>4. QED
      BY <1>4, <1>7, <2>1, <2>2, <2>3, SpecStep DEF Rollback, Revert, WellFormed, TypeOK
  <1>8. QED
    BY <1>5, <1>6, <1>7

\* The steps that only move a worker on, and those of the pull requests and administrators.
LEMMA OthersWF ==
    ASSUME WellFormed,
           \/ \E p \in PRs : Push(p) \/ Close(p)
           \/ \E a \in Apps : ForceUnlock(a)
           \/ \E w \in Workers, a \in Apps : WriteFails(w, a) \/ SyncDeleted(w, a) \/ Unlock(w, a)
           \/ \E w \in Workers : EndSync(w) \/ Merge(w) \/ Relist(w) \/ Reverted(w) \/ Return(w)
                                 \/ Die(w)
    PROVE  WellFormed'
  <1>1. ASSUME NEW p \in PRs, Push(p)
        PROVE  WellFormed'
    <2>1. head[p] + 1 \in DOMAIN Affects[p]
      BY <1>1, PRAssumption DEF Push, WellFormed, TypeOK
    <2>2. head' \in [PRs -> Nat] /\ \A q \in PRs : head'[q] \in DOMAIN Affects[q]
      BY <1>1, <2>1 DEF Push, WellFormed, TypeOK
    <2>3. QED
      BY <1>1, <2>2 DEF Push, WellFormed, TypeOK, argocd
  <1>2. ASSUME NEW p \in PRs, Close(p)
        PROVE  WellFormed'
    BY <1>2 DEF Close, WellFormed, TypeOK, argocd
  <1>3. NoLock \in Lock /\ \A a \in Apps : LockOK(a, NoLock, planned)
    BY DEF NoLock, Lock, Types, LockOK
  <1>4. ASSUME NEW a \in Apps, ForceUnlock(a)
        PROVE  WellFormed'
    BY <1>3, <1>4, PRAssumption DEF ForceUnlock, Excuse, WellFormed, TypeOK, argocd
  <1>5. ASSUME NEW w \in Workers
        PROVE  worker[w] \in Worker /\ WorkerOK(worker[w], planned)
    BY DEF WellFormed, TypeOK
  <1>6. ASSUME NEW w \in Workers, NEW a \in Apps, WriteFails(w, a) \/ SyncDeleted(w, a)
        PROVE  WellFormed'
    <2>1. PICK k \in Worker : /\ Set(w, k) /\ k.pc = worker[w].pc /\ k.pr = worker[w].pr
                              /\ k.at = worker[w].at /\ k.written = worker[w].written
                              /\ k.todo \subseteq worker[w].todo
      <3>1. CASE WriteFails(w, a)
        <4> DEFINE k == [worker[w] EXCEPT !.todo = @ \ {a}, !.failed = TRUE]
        <4>1. /\ k \in Worker /\ k.pc = worker[w].pc /\ k.pr = worker[w].pr
              /\ k.at = worker[w].at /\ k.written = worker[w].written
              /\ k.todo \subseteq worker[w].todo
          BY <1>5 DEF Worker
        <4>2. QED
          BY <3>1, <4>1 DEF WriteFails
      <3>2. CASE SyncDeleted(w, a)
        <4> DEFINE k == [worker[w] EXCEPT !.todo = @ \ {a}]
        <4>1. /\ k \in Worker /\ k.pc = worker[w].pc /\ k.pr = worker[w].pr
              /\ k.at = worker[w].at /\ k.written = worker[w].written
              /\ k.todo \subseteq worker[w].todo
          BY <1>5 DEF Worker
        <4>2. QED
          BY <3>2, <4>1 DEF SyncDeleted
      <3>3. QED
        BY <1>6, <3>1, <3>2
    <2>2. WorkerOK(k, planned)
      BY <1>5, <2>1 DEF WorkerOK
    <2>3. QED
      BY <1>6, <2>1, <2>2, LocalStep DEF WriteFails, SyncDeleted, WellFormed, TypeOK
  <1>7. ASSUME NEW w \in Workers, EndSync(w) \/ Return(w) \/ Die(w)
        PROVE  WellFormed'
    BY <1>7, IdleOK, LocalStep DEF EndSync, Return, Die, WellFormed, TypeOK
  <1>8. ASSUME NEW w \in Workers, NEW pc \in {"revert", "relist", "unlock"}, NEW S \in SUBSET Apps,
               worker[w].pc # "idle",
               \/ Set(w, [worker[w] EXCEPT !.pc = pc, !.todo = S])
               \/ Set(w, [worker[w] EXCEPT !.pc = pc])
        PROVE  \E k \in Worker : Set(w, k) /\ WorkerOK(k, planned)
    <2>1. ASSUME NEW k, k \in {[worker[w] EXCEPT !.pc = pc, !.todo = S], [worker[w] EXCEPT !.pc = pc]}
          PROVE  k \in Worker /\ WorkerOK(k, planned)
      <3>1. k \in Worker /\ k.pc = pc /\ k.pr = worker[w].pr
        BY <1>5, <2>1 DEF Worker
      <3>2. QED
        BY <1>5, <1>8, <3>1 DEF WorkerOK
    <2>2. QED
      BY <1>8, <2>1
  <1>9. ASSUME NEW w \in Workers, Merge(w) \/ Relist(w) \/ Reverted(w)
        PROVE  WellFormed'
    <2>1. \A k : Listed(k) \subseteq Apps
      BY DEF Listed
    <2>2. \A p : Held(p) \subseteq Apps
      BY DEF Held
    <2>3. PICK pc \in {"revert", "relist", "unlock"}, S \in SUBSET Apps :
             \/ Set(w, [worker[w] EXCEPT !.pc = pc, !.todo = S])
             \/ Set(w, [worker[w] EXCEPT !.pc = pc])
      <3>1. CASE Merge(w)
        BY <2>1, <3>1 DEF Merge
      <3>2. CASE Relist(w)
        BY <2>1, <2>2, <3>2 DEF Relist
      <3>3. CASE Reverted(w)
        BY <2>1, <3>3 DEF Reverted
      <3>4. QED
        BY <1>9, <3>1, <3>2, <3>3
    <2>4. worker[w].pc # "idle"
      BY <1>9 DEF Merge, Relist, Reverted, SyncDone
    <2>5. PICK k \in Worker : Set(w, k) /\ WorkerOK(k, planned)
      BY <1>8, <2>3, <2>4
    <2>6. QED
      BY <1>9, <2>5, LocalStep DEF Merge, Relist, Reverted, WellFormed, TypeOK
  <1>10. ASSUME NEW w \in Workers, NEW a \in Apps, Unlock(w, a)
         PROVE  WellFormed'
    <2> DEFINE k == [worker[w] EXCEPT !.todo = @ \ {a}]
    <2>1. k \in Worker /\ k.pc = "unlock" /\ k.pr = worker[w].pr
      BY <1>5, <1>10 DEF Worker, Unlock
    <2>2. WorkerOK(k, planned)
      BY <1>5, <1>10, <2>1 DEF WorkerOK, Unlock
    <2>3. /\ worker' \in [Workers -> Worker]
          /\ \A v \in Workers : WorkerOK(worker'[v], planned')
      BY <1>10, <2>1, <2>2, WorkerStep DEF Unlock
    <2>4. /\ lock' \in [Apps -> Lock] /\ \A b \in Apps : LockOK(b, lock'[b], planned')
          /\ excused' \subseteq Apps
      BY <1>3, <1>10 DEF Unlock, Excuse, WellFormed, TypeOK
    <2>5. QED
      BY <1>10, <2>3, <2>4 DEF Unlock, WellFormed, TypeOK, argocd
  <1>11. QED
    BY <1>1, <1>2, <1>4, <1>6, <1>7, <1>9, <1>10

LEMMA NextWF == WellFormed /\ [Next]_vars => WellFormed'
  <1> SUFFICES ASSUME WellFormed, [Next]_vars PROVE WellFormed'
    OBVIOUS
  <1>1. CASE Next
    BY <1>1, BeginsWF, PlanAppWF, SyncStepsWF, OthersWF DEF Next
  <1>2. CASE UNCHANGED vars
    BY <1>2 DEF vars, argocd, WellFormed, TypeOK
  <1>3. QED
    BY <1>1, <1>2

\* The inductive invariant holds: types, what a worker carries, and what was planned.
THEOREM AlwaysWellFormed == Spec => []WellFormed
  BY InitWF, NextWF, PTL DEF Spec

\* The variables keep their types.
THEOREM TypeCorrect == Spec => []TypeOK
  <1>1. WellFormed => TypeOK
    BY DEF WellFormed
  <1>2. QED
    BY <1>1, AlwaysWellFormed, PTL

\* sync.go:94-108: nothing but planned commits is ever in a spec or deployed, however plans,
\* pushes, delayed events, rollbacks, reclaims, unlocks and faults interleave.
THEOREM OnlyPlannedIsDeployed == Spec => []OnlyPlannedRevisions
  <1>1. WellFormed => OnlyPlannedRevisions
    BY DEF WellFormed, MayRun, OnlyPlannedRevisions
  <1>2. QED
    BY <1>1, AlwaysWellFormed, PTL

------------------------------------------------------------------------------
(* Where the tasks of a pull request do not overlap: who deploys, what returns *)
(* to the base branch, and what a merge stands for.                            *)

\* No two workers act for one pull request.
Alone == \A v, w \in Workers :
            worker[v].pr = worker[w].pr /\ worker[v].pr # NoPR => v = w

\* What a sync syncs and has rewritten it has listed; so has UnlockAll what it releases.
Listing(k) ==
    /\ k.pc = "sync" => k.task = "sync" /\ k.todo \union k.synced \subseteq Listed(k)
    /\ k.pc = "revert" => k.task \in {"sync", "close"} /\ k.todo \subseteq Listed(k)
    /\ k.pc = "relist" => k.task = "sync"
    /\ k.pc = "unlock" => k.task \in {"sync", "close", "unlock"}
    /\ k.pc = "unlock" /\ k.task = "close" => k.todo \subseteq Listed(k)
    /\ k.task = "sync" => k.rewritten \subseteq Listed(k)

\* What a sync or a rollback of all still has to deploy is locked, unless that lock was
\* lost because its pull request ended or by force.
Holding(k) ==
    k.pc \in {"sync", "rollback"} /\ k.task # "rollback -a" =>
       \A a \in k.todo \union k.written : lock[a].pr = k.pr \/ k.pr \notin open \/ a \in forced

\* What a sync or UnlockAll has listed stays locked until it is released.
Keeping(k) == k.pc \in {"sync", "revert", "relist"} =>
                 \A a \in Listed(k) : a \in excused \/ lock[a].pr = k.pr

\* What is past its revert follows no commit of the pull request.
Returned(p, a) == a \in exists \ excused => target[a].pr # p
Returning(k) ==
    k.pc \in {"revert", "relist", "unlock"} =>
       \A a \in Listed(k) :
          ~Unreverted(k, a) /\ (k.pc = "revert" => a \notin k.todo) => Returned(k.pr, a)

\* What a sync deploys: specs that are ready follow the commit, and what is through and has
\* not failed runs it.
FollowsSpec(k, a) ==
    \/ k.copy[a].type = "new" /\ Kind[a] # "other"
    \/ k.copy[a].type = "existing" /\ Kind[a] = "multi" /\ ~k.dry
Counts(k, a) == k.copy[a].type # "deleted" /\ Kind[a] # "other" /\ ~k.dry /\ ~k.failed
Delivering(k) ==
    k.pc = "sync" =>
       \A a \in k.synced \ excused :
          /\ a \in k.written /\ FollowsSpec(k, a) => target[a] = Commit(k.pr, k.at)
          /\ a \notin k.todo \union k.written /\ Counts(k, a) => live[a] = Commit(k.pr, k.at)

Sound(k) == Listing(k) /\ Holding(k) /\ Keeping(k) /\ Returning(k) /\ Delivering(k)

\* A spec follows a commit only while its pull request has the lock, and never if its
\* sources are elsewhere.
Followed(a) == /\ target[a].pr # NoPR /\ a \in exists \ excused => lock[a].pr = target[a].pr
               /\ Kind[a] = "other" => target[a].pr = NoPR

Orderly == /\ Alone
           /\ \A w \in Workers : Sound(worker[w])
           /\ \A a \in Apps : Followed(a)

\* What a step may do to those who act for pull request p when it is not one of theirs.
Foreign(p) ==
    /\ open' \subseteq open /\ excused \subseteq excused' /\ forced \subseteq forced'
    /\ \A a \in Apps : lock[a].pr = p =>
          lock'[a].pr = p \/ (a \in excused' /\ (a \in forced' \/ p \notin open'))
    /\ \A a \in Apps : target'[a] # target[a] =>
          target'[a].pr # p /\ (lock[a].pr # p \/ a \in excused')
    /\ \A a \in Apps : live'[a] # live[a] => lock[a].pr # p \/ a \in excused'
    /\ \A a \in exists' \ exists : target'[a].pr # p

-----------------------------------------------------------------------------

LEMMA Facts ==
    ASSUME WellFormed
    PROVE  /\ NoPR \notin PRs
           /\ \A a \in Apps : Tracks[a].pr = NoPR /\ lock[a] \in Lock
           /\ Base.pr = NoPR /\ NoLock.pr = NoPR /\ NoLock.type = "existing"
           /\ \A p, n : Commit(p, n).pr = p
           /\ \A w \in Workers : /\ worker[w] \in Worker
                                 /\ worker[w].pc # "idle" => worker[w].pr \in PRs
                                 /\ Listed(worker[w]) \subseteq Apps
           /\ exists \subseteq Apps /\ excused \subseteq Apps
  BY PRAssumption DEF WellFormed, TypeOK, WorkerOK, Base, NoLock, Commit, Listed

\* A step that is foreign to a worker's pull request leaves all that was said of it.
LEMMA ForeignSound ==
    ASSUME WellFormed, NEW v \in Workers, worker'[v] = worker[v], Sound(worker[v]),
           worker[v].pc = "idle" \/ Foreign(worker[v].pr)
    PROVE  Sound(worker[v])'
  <1> DEFINE k == worker[v]
  <1>1. /\ k \in Worker /\ Listed(k) \subseteq Apps /\ k.todo \subseteq Apps
        /\ k.written \subseteq Apps /\ k.synced \subseteq Apps
    BY Facts DEF Worker
  <1>2. Listing(worker[v])'
    BY DEF Sound, Listing, Listed
  <1>3. Holding(worker[v])'
    BY <1>1 DEF Sound, Holding, Foreign
  <1>4. Keeping(worker[v])'
    BY <1>1 DEF Sound, Keeping, Listed, Foreign
  <1>5. Returning(worker[v])'
    <2>1. ASSUME NEW a \in Apps, Foreign(k.pr), Returned(k.pr, a)
          PROVE  a \in exists' \ excused' => target'[a].pr # k.pr
      BY <2>1 DEF Foreign, Returned
    <2>2. QED
      BY <1>1, <2>1 DEF Sound, Returning, Returned, Listed, Unreverted
  <1>6. Delivering(worker[v])'
    <2>1. ASSUME NEW a \in k.synced, k.pc = "sync", a \notin excused'
          PROVE  a \notin excused /\ target'[a] = target[a] /\ live'[a] = live[a]
      <3>1. a \in Apps /\ Foreign(k.pr) /\ a \in Listed(k)
        BY <1>1, <2>1 DEF Sound, Listing
      <3>2. lock[a].pr = k.pr /\ a \notin excused
        BY <2>1, <3>1 DEF Sound, Keeping, Foreign
      <3>3. QED
        BY <2>1, <3>1, <3>2 DEF Foreign
    <2>2. QED
      BY <2>1 DEF Sound, Delivering, FollowsSpec, Counts
  <1>7. QED
    BY <1>2, <1>3, <1>4, <1>5, <1>6 DEF Sound

\* A step of worker w.
WorkersStep(w) ==
    \/ \E p \in PRs : \/ BeginPlan(w, p) \/ BeginSync(w, p) \/ BeginRollback(w, p)
                      \/ BeginUnlock(w, p) \/ BeginUnlockAll(w, p)
    \/ \E a \in Apps : \/ PlanApp(w, a) \/ WriteSpec(w, a) \/ WriteFails(w, a)
                       \/ SyncDeleted(w, a) \/ Deploy(w, a) \/ Rollback(w, a)
                       \/ Revert(w, a) \/ Unlock(w, a)
    \/ EndSync(w) \/ Merge(w) \/ Relist(w) \/ Reverted(w) \/ Return(w) \/ Die(w)

\* The steps of a worker are foreign to every other pull request.
LEMMA WorkersForeign ==
    ASSUME WellFormed, Orderly, NEW w \in Workers, NEW p \in PRs, p # worker[w].pr,
           WorkersStep(w)
    PROVE  Foreign(p)
  <1> DEFINE k == worker[w]
  <1>1. /\ k \in Worker /\ NoPR \notin PRs
        /\ k.pc # "idle" => k.pr \in PRs
    BY Facts
  <1>2. CASE \E q \in PRs : \/ BeginPlan(w, q) \/ BeginSync(w, q) \/ BeginRollback(w, q)
                            \/ BeginUnlock(w, q) \/ BeginUnlockAll(w, q)
    BY <1>2 DEF BeginPlan, BeginSync, BeginRollback, BeginUnlock, BeginUnlockAll, argocd, Foreign
  <1>3. ASSUME NEW a \in Apps, PlanApp(w, a)
        PROVE  Foreign(p)
    <2>1. /\ excused \subseteq excused' /\ exists' \subseteq exists
          /\ UNCHANGED <<open, target, live, forced>>
      BY <1>3 DEF PlanApp, Excuse, Rendered
    <2>2. ASSUME lock[a].pr = p, lock'[a] # lock[a]
          PROVE  a \in excused' /\ p \notin open'
      <3>1. Takes(a, k.pr) /\ Excuse(IF lock[a].pr \in {NoPR, k.pr} THEN {} ELSE {a})
        BY <1>3, <2>2 DEF PlanApp
      <3>2. QED
        BY <1>1, <2>1, <2>2, <3>1 DEF Takes, Excuse
    <2>3. \A b \in Apps \ {a} : lock'[b] = lock[b]
      BY <1>3, Facts DEF PlanApp, WellFormed, TypeOK
    <2>4. QED
      BY <2>1, <2>2, <2>3 DEF Foreign
  <1>4. ASSUME NEW a \in Apps, WriteSpec(w, a)
        PROVE  Foreign(p)
    <2>1. /\ excused' = excused \union (IF lock[a].pr = k.pr THEN {} ELSE {a})
          /\ exists' = exists \union {a} /\ target' = [target EXCEPT ![a] = NewTarget(k, a)]
          /\ UNCHANGED <<open, lock, live, forced>>
          /\ a \notin exists => k.copy[a].type = "new"
      BY <1>4 DEF WriteSpec, Excuse
    <2>2. NewTarget(k, a) # target[a] => NewTarget(k, a).pr \in {k.pr, NoPR}
      BY <2>1, Facts DEF NewTarget
    <2>3. k.copy[a].type = "new" => NewTarget(k, a).pr \in {k.pr, NoPR}
      BY Facts DEF NewTarget
    <2>4. target'[a] = NewTarget(k, a) /\ \A b \in Apps \ {a} : target'[b] = target[b]
      BY <2>1 DEF WellFormed, TypeOK
    <2>5. a \notin exists => target'[a].pr # p
      BY <1>1, <2>1, <2>3, <2>4
    <2>6. target'[a] # target[a] => target'[a].pr # p /\ (lock[a].pr # p \/ a \in excused')
      BY <1>1, <2>1, <2>2, <2>4
    <2>7. excused \subseteq excused' /\ \A b \in exists' \ exists : b = a /\ a \notin exists
      BY <2>1
    <2>8. QED
      BY <2>1, <2>4, <2>5, <2>6, <2>7 DEF Foreign
  <1>5. ASSUME NEW a \in Apps, Deploy(w, a) \/ Rollback(w, a)
        PROVE  Foreign(p)
    <2>1. /\ excused' = excused \union (IF lock[a].pr = k.pr THEN {} ELSE {a})
          /\ UNCHANGED <<open, lock, exists, target, forced>>
          /\ \A b \in Apps \ {a} : live'[b] = live[b]
      BY <1>5 DEF Deploy, Rollback, Excuse, WellFormed, TypeOK
    <2>2. QED
      BY <2>1 DEF Foreign
  <1>6. ASSUME NEW a \in Apps, Revert(w, a)
        PROVE  Foreign(p)
    <2>1. /\ excused \subseteq excused' /\ UNCHANGED <<open, lock, exists, live, forced>>
          /\ target' = target \/ target' = [target EXCEPT ![a] = Base]
          /\ k.pc = "revert" /\ a \in k.todo
      BY <1>6 DEF Revert, Excuse
    <2>2. a \in excused \/ lock[a].pr = k.pr
      BY <2>1 DEF Orderly, Sound, Listing, Keeping
    <2>3. \A b \in Apps : target'[b] # target[b] => b = a /\ target'[b] = Base
      BY <2>1 DEF WellFormed, TypeOK
    <2>4. QED
      BY <1>1, <2>1, <2>2, <2>3, Facts DEF Foreign
  <1>7. ASSUME NEW a \in Apps, Unlock(w, a)
        PROVE  Foreign(p)
    <2>1. /\ excused \subseteq excused' /\ UNCHANGED <<open, argocd, forced>>
          /\ \A b \in Apps : lock[b].pr = p => lock'[b] = lock[b]
      BY <1>7 DEF Unlock, Excuse, WellFormed, TypeOK
    <2>2. QED
      BY <2>1 DEF Foreign, argocd
  <1>8. ASSUME NEW a \in Apps, WriteFails(w, a) \/ SyncDeleted(w, a)
        PROVE  Foreign(p)
    BY <1>8 DEF WriteFails, SyncDeleted, argocd, Foreign
  <1>9. CASE EndSync(w) \/ Merge(w) \/ Relist(w) \/ Reverted(w) \/ Return(w) \/ Die(w)
    BY <1>9 DEF EndSync, Merge, Relist, Reverted, Return, Die, argocd, Foreign
  <1>10. QED
    BY <1>2, <1>3, <1>4, <1>5, <1>6, <1>7, <1>8, <1>9 DEF WorkersStep

-----------------------------------------------------------------------------

\* What a worker has that has nothing to lose, or begins with what it lists as it is.
LEMMA QuietSound ==
    ASSUME NEW w \in Workers, worker'[w].pc \in {"idle", "plan"},
           \/ worker'[w].rewritten = {}
           \/ /\ Listing(worker[w])
              /\ worker'[w].task = worker[w].task /\ worker'[w].copy = worker[w].copy
              /\ worker'[w].rewritten = worker[w].rewritten
    PROVE  Sound(worker[w])'
  BY DEF Sound, Listing, Holding, Keeping, Returning, Delivering, Listed

LEMMA BeginsSound ==
    ASSUME WellFormed, NEW w \in Workers, NEW p \in PRs,
           \/ BeginPlan(w, p) \/ BeginSync(w, p) \/ BeginRollback(w, p) \/ BeginUnlock(w, p)
           \/ BeginUnlockAll(w, p)
    PROVE  Sound(worker[w])' /\ worker'[w].pr = p
  <1>1. ASSUME NEW S \in SUBSET Held(p)
        PROVE  /\ Copy(S) \in [Apps -> Lock] /\ \A a \in S : Copy(S)[a] = lock[a]
               /\ {a \in Apps : Copy(S)[a] # NoLock} = S
    BY Facts DEF Copy, Held, NoLock, Lock, Types
  <1>2. ASSUME NEW k, Set(w, k)
        PROVE  worker'[w] = k
    BY <1>2 DEF Set, WellFormed, TypeOK
  <1>3. CASE BeginPlan(w, p)
    <2>1. worker'[w].pc = "plan" /\ worker'[w].rewritten = {} /\ worker'[w].pr = p
      BY <1>2, <1>3 DEF BeginPlan, Begin, Idle
    <2>2. QED
      BY <2>1, QuietSound
  <1>4. CASE BeginSync(w, p)
    <2>1. PICK n \in 1..head[p], dry \in {FALSE, DryRuns}, S \in SUBSET Held(p) :
             \E leaves \in {Leaves(S)} \union (IF Faults THEN {S} ELSE {}) :
                LET run == {a \in leaves : ~Skipped(lock[a])} IN
                Set(w, [Begin(w, p, "sync", "sync") EXCEPT
                           !.at = n, !.dry = dry, !.copy = Copy(S), !.synced = run,
                           !.todo = run])
      BY <1>4 DEF BeginSync
    <2>2. PICK run \in SUBSET S :
             Set(w, [Begin(w, p, "sync", "sync") EXCEPT
                        !.at = n, !.dry = dry, !.copy = Copy(S), !.synced = run, !.todo = run])
      BY <2>1 DEF Leaves
    <2>3. /\ worker'[w].pc = "sync" /\ worker'[w].task = "sync" /\ worker'[w].pr = p
          /\ worker'[w].copy = Copy(S) /\ worker'[w].todo = run /\ worker'[w].synced = run
          /\ worker'[w].written = {} /\ worker'[w].rewritten = {}
      <3> DEFINE r == [Begin(w, p, "sync", "sync") EXCEPT
                          !.at = n, !.dry = dry, !.copy = Copy(S), !.synced = run, !.todo = run]
      <3>1. worker'[w] = r
        BY <1>2, <2>2
      <3>2. /\ r.pc = "sync" /\ r.task = "sync" /\ r.pr = p /\ r.copy = Copy(S)
            /\ r.todo = run /\ r.synced = run /\ r.written = {} /\ r.rewritten = {}
        BY DEF Begin, Idle
      <3>3. QED
        BY <3>1, <3>2
    <2>4. UNCHANGED <<lock, open, forced, excused>>
      BY <1>4 DEF BeginSync
    <2>5. \A a \in S : lock[a].pr = p
      BY DEF Held
    <2>6. QED
      BY <1>1, <2>3, <2>4, <2>5
      DEF Sound, Listing, Holding, Keeping, Returning, Delivering, Listed
  <1>5. CASE BeginRollback(w, p)
    <2>1. /\ worker'[w].pc = "rollback" /\ worker'[w].rewritten = {} /\ worker'[w].pr = p
          /\ worker'[w].written = {} /\ worker'[w].task # "sync"
          /\ worker'[w].task = "rollback -a" \/ worker'[w].todo = Held(p)
      BY <1>2, <1>5 DEF BeginRollback, Begin, Idle
    <2>2. UNCHANGED <<lock, open, forced>> /\ \A a \in Held(p) : lock[a].pr = p
      BY <1>5 DEF BeginRollback, Held
    <2>3. QED
      BY <2>1, <2>2 DEF Sound, Listing, Holding, Keeping, Returning, Delivering
  <1>6. CASE BeginUnlock(w, p)
    <2>1. /\ worker'[w].pc = "unlock" /\ worker'[w].task = "unlock" /\ worker'[w].pr = p
      BY <1>2, <1>6 DEF BeginUnlock, Begin, Idle
    <2>2. QED
      BY <2>1 DEF Sound, Listing, Holding, Keeping, Returning, Delivering, Unreverted
  <1>7. CASE BeginUnlockAll(w, p)
    <2>1. /\ worker'[w].pc = "revert" /\ worker'[w].task = "close" /\ worker'[w].pr = p
          /\ worker'[w].copy = Copy(Held(p))
          /\ worker'[w].todo = {a \in Held(p) : ToRevert(a, lock[a])}
      BY <1>2, <1>7 DEF BeginUnlockAll, Begin, Idle
    <2>2. UNCHANGED <<lock, excused>> /\ \A a \in Held(p) : lock[a].pr = p
      BY <1>7 DEF BeginUnlockAll, Held
    <2>3. QED
      BY <1>1, <2>1, <2>2
      DEF Sound, Listing, Holding, Keeping, Returning, Delivering, Listed, Unreverted, ToRevert
  <1>8. QED
    BY <1>3, <1>4, <1>5, <1>6, <1>7

\* The steps of a sync before it merges.
LEMMA SyncsSound ==
    ASSUME WellFormed, Orderly, NEW w \in Workers, NEW a \in Apps,
           WriteSpec(w, a) \/ WriteFails(w, a) \/ SyncDeleted(w, a) \/ Deploy(w, a)
    PROVE  Sound(worker[w])' /\ worker'[w].pr = worker[w].pr
  <1> DEFINE k == worker[w]
             n == worker'[w]
  <1>1. /\ k \in Worker /\ Sound(k) /\ k.pc = "sync" /\ Listed(k) \subseteq Apps
        /\ k.copy[a] \in Lock
    BY Facts DEF Orderly, WriteSpec, WriteFails, SyncDeleted, Deploy, Worker
  <1>2. ASSUME NEW r, Set(w, r)
        PROVE  n = r
    BY <1>2 DEF Set, WellFormed, TypeOK
  <1>3. UNCHANGED <<open, lock, forced>> /\ excused \subseteq excused'
    BY DEF WriteSpec, WriteFails, SyncDeleted, Deploy, Excuse
  <1>4. /\ n.pc = "sync" /\ n.task = k.task /\ n.pr = k.pr /\ n.at = k.at /\ n.dry = k.dry
        /\ n.copy = k.copy /\ n.synced = k.synced
        /\ n.todo \subseteq k.todo /\ n.rewritten \subseteq k.rewritten \union k.todo
        /\ n.todo \union n.written \subseteq k.todo \union k.written
        /\ k.failed => n.failed
    <2>1. CASE WriteSpec(w, a)
      <3> DEFINE r == [k EXCEPT !.todo = @ \ {a}, !.written = @ \union {a},
                                !.rewritten = IF Rewrites(k, a) THEN @ \union {a} ELSE @]
      <3>1. n = r /\ a \in k.todo
        BY <1>2, <2>1 DEF WriteSpec
      <3>2. /\ r.pc = k.pc /\ r.task = k.task /\ r.pr = k.pr /\ r.at = k.at /\ r.dry = k.dry
            /\ r.copy = k.copy /\ r.synced = k.synced /\ r.todo = k.todo \ {a}
            /\ r.written = k.written \union {a} /\ r.rewritten \subseteq k.rewritten \union {a}
            /\ r.failed = k.failed
        BY <1>1 DEF Worker
      <3>3. QED
        BY <1>1, <3>1, <3>2
    <2>2. CASE WriteFails(w, a)
      <3>1. n = [k EXCEPT !.todo = @ \ {a}, !.failed = TRUE]
        BY <1>2, <2>2 DEF WriteFails
      <3>2. QED
        BY <1>1, <3>1 DEF Worker
    <2>3. CASE SyncDeleted(w, a)
      <3>1. n = [k EXCEPT !.todo = @ \ {a}]
        BY <1>2, <2>3 DEF SyncDeleted
      <3>2. QED
        BY <1>1, <3>1 DEF Worker
    <2>4. CASE Deploy(w, a)
      <3>1. PICK failed \in BOOLEAN : n = [k EXCEPT !.written = @ \ {a}, !.failed = @ \/ failed]
        BY <1>2, <2>4 DEF Deploy
      <3>2. QED
        BY <1>1, <3>1 DEF Worker
    <2>5. QED
      BY <2>1, <2>2, <2>3, <2>4
  <1>5. Listing(worker[w])'
    BY <1>1, <1>4 DEF Sound, Listing, Listed
  <1>6. Holding(worker[w])'
    BY <1>1, <1>3, <1>4 DEF Sound, Holding
  <1>7. Keeping(worker[w])'
    BY <1>1, <1>3, <1>4 DEF Sound, Keeping, Listed
  <1>8. Delivering(worker[w])'
    <2> SUFFICES ASSUME NEW b \in k.synced \ excused'
                 PROVE  /\ b \in n.written /\ FollowsSpec(n, b) => target'[b] = Commit(k.pr, k.at)
                        /\ b \notin n.todo \union n.written /\ Counts(n, b)
                              => live'[b] = Commit(k.pr, k.at)
      BY <1>4 DEF Delivering
    <2>1. /\ b \in Apps /\ b \notin excused
          /\ b \in k.written /\ FollowsSpec(k, b) => target[b] = Commit(k.pr, k.at)
          /\ b \notin k.todo \union k.written /\ Counts(k, b) => live[b] = Commit(k.pr, k.at)
      BY <1>1, <1>3 DEF Sound, Listing, Delivering
    <2>2. FollowsSpec(n, b) = FollowsSpec(k, b) /\ (Counts(n, b) => Counts(k, b))
      BY <1>4 DEF FollowsSpec, Counts
    <2>3. CASE WriteSpec(w, a)
      <3>1. /\ n.todo = k.todo \ {a} /\ n.written = k.written \union {a}
            /\ target' = [target EXCEPT ![a] = NewTarget(k, a)] /\ live' = live
        BY <1>1, <1>2, <2>3 DEF WriteSpec, Worker
      <3>2. FollowsSpec(k, a) => NewTarget(k, a) = Commit(k.pr, k.at)
        BY DEF FollowsSpec, NewTarget
      <3>3. target'[a] = NewTarget(k, a) /\ \A c \in Apps \ {a} : target'[c] = target[c]
        BY <3>1 DEF WellFormed, TypeOK
      <3>4. QED
        BY <2>1, <2>2, <3>1, <3>2, <3>3
    <2>4. CASE WriteFails(w, a) \/ SyncDeleted(w, a)
      <3>1. /\ n.todo = k.todo \ {a} /\ n.written = k.written /\ UNCHANGED <<target, live>>
            /\ n.failed \/ k.copy[a].type = "deleted"
        BY <1>1, <1>2, <2>4 DEF WriteFails, SyncDeleted, Worker, argocd
      <3>2. QED
        BY <1>4, <2>1, <2>2, <3>1 DEF Counts
    <2>5. CASE Deploy(w, a)
      <3>1. PICK failed \in BOOLEAN :
               /\ a \notin exists \/ (live' = live /\ live[a] # Deploys(k, a) /\ ~k.dry) => failed
               /\ Set(w, [k EXCEPT !.written = @ \ {a}, !.failed = @ \/ failed])
        BY <2>5 DEF Deploy
      <3>2. /\ n.todo = k.todo /\ n.written = k.written \ {a} /\ a \in k.written
            /\ failed => n.failed
            /\ target' = target
            /\ \A c \in Apps \ {a} : live'[c] = live[c]
            /\ k.dry \/ live' = live \/ live'[a] = Deploys(k, a)
        <4>1. n = [k EXCEPT !.written = @ \ {a}, !.failed = @ \/ failed]
          BY <1>2, <3>1
        <4>2. n.todo = k.todo /\ n.written = k.written \ {a} /\ (failed => n.failed)
          BY <1>1, <4>1 DEF Worker
        <4>3. /\ a \in k.written /\ target' = target
              /\ live' = live \/ live' = [live EXCEPT ![a] = Deploys(k, a)]
          BY <2>5 DEF Deploy
        <4>4. QED
          BY <4>2, <4>3 DEF WellFormed, TypeOK
      <3>3. ~n.failed /\ ~k.dry => live'[a] = Deploys(k, a)
        BY <3>1, <3>2
      <3>4. Counts(k, a) /\ FollowsSpec(k, a) => Deploys(k, a) = target[a]
        BY DEF FollowsSpec, Deploys
      <3>5. Counts(k, a) /\ ~FollowsSpec(k, a) => Deploys(k, a) = Commit(k.pr, k.at)
        BY <1>1, PRAssumption DEF Counts, FollowsSpec, Deploys, Lock, Types
      <3>6. QED
        BY <2>1, <2>2, <3>2, <3>3, <3>4, <3>5 DEF Counts
    <2>6. QED
      BY <2>3, <2>4, <2>5
  <1>9. Returning(worker[w])'
    BY <1>4 DEF Returning
  <1>10. QED
    BY <1>4, <1>5, <1>6, <1>7, <1>8, <1>9 DEF Sound

\* A plan, and what ends a task.
LEMMA QuietStepsSound ==
    ASSUME WellFormed, Orderly, NEW w \in Workers,
           \/ \E a \in Apps : PlanApp(w, a)
           \/ EndSync(w) \/ Return(w) \/ Die(w)
    PROVE  Sound(worker[w])' /\ worker'[w].pr \in {worker[w].pr, NoPR}
  <1>1. worker[w] \in Worker /\ Listing(worker[w])
    BY Facts DEF Orderly, Sound
  <1>2. ASSUME NEW a \in Apps, PlanApp(w, a)
        PROVE  Sound(worker[w])' /\ worker'[w].pr = worker[w].pr
    <2>1. worker'[w] = [worker[w] EXCEPT !.todo = @ \ {a}] /\ worker[w].pc = "plan"
      BY <1>2 DEF PlanApp, Set, WellFormed, TypeOK
    <2>2. /\ worker'[w].pc = "plan" /\ worker'[w].task = worker[w].task
          /\ worker'[w].copy = worker[w].copy /\ worker'[w].rewritten = worker[w].rewritten
          /\ worker'[w].pr = worker[w].pr
      BY <1>1, <2>1 DEF Worker
    <2>3. QED
      BY <1>1, <2>2, QuietSound
  <1>3. CASE EndSync(w) \/ Return(w) \/ Die(w)
    <2>1. worker'[w] = Idle
      BY <1>3 DEF EndSync, Return, Die, Set, WellFormed, TypeOK
    <2>2. worker'[w].pc = "idle" /\ worker'[w].rewritten = {} /\ worker'[w].pr = NoPR
      BY <2>1 DEF Idle
    <2>3. QED
      BY <2>2, QuietSound
  <1>4. QED
    BY <1>2, <1>3

\* A merge, a close, and the rest of them: what was reverted stays so until it is released.
LEMMA ReleasesSound ==
    ASSUME WellFormed, Orderly, NEW w \in Workers,
           \/ \E a \in Apps : Rollback(w, a) \/ Revert(w, a) \/ Unlock(w, a)
           \/ Merge(w) \/ Relist(w) \/ Reverted(w)
    PROVE  Sound(worker[w])' /\ worker'[w].pr = worker[w].pr
  <1> DEFINE k == worker[w]
             n == worker'[w]
  <1>1. k \in Worker /\ Sound(k) /\ Listed(k) \subseteq Apps
    BY Facts DEF Orderly
  <1>2. ASSUME NEW r, Set(w, r)
        PROVE  n = r
    BY <1>2 DEF Set, WellFormed, TypeOK
  <1>3. ASSUME NEW a \in Apps, Rollback(w, a)
        PROVE  Sound(worker[w])' /\ n.pr = k.pr
    <2>1. n = [k EXCEPT !.todo = @ \ {a}]
      BY <1>2, <1>3 DEF Rollback
    <2>2. /\ n.pc = "rollback" /\ n.task = k.task /\ n.pr = k.pr /\ n.copy = k.copy
          /\ n.rewritten = k.rewritten /\ n.todo \subseteq k.todo /\ n.written = k.written
          /\ k.pc = "rollback" /\ UNCHANGED <<open, lock, forced>>
      BY <1>1, <1>3, <2>1 DEF Rollback, Worker
    <2>3. QED
      BY <1>1, <2>2 DEF Sound, Listing, Holding, Keeping, Returning, Delivering, Listed
  <1>4. ASSUME NEW a \in Apps, Revert(w, a)
        PROVE  Sound(worker[w])' /\ n.pr = k.pr
    <2>1. n = [k EXCEPT !.todo = @ \ {a}]
      BY <1>2, <1>4 DEF Revert
    <2>2. /\ n.pc = "revert" /\ n.task = k.task /\ n.pr = k.pr /\ n.copy = k.copy
          /\ n.rewritten = k.rewritten /\ n.todo = k.todo \ {a}
          /\ k.pc = "revert" /\ UNCHANGED <<lock, exists>> /\ excused \subseteq excused'
      BY <1>1, <1>4, <2>1 DEF Revert, Worker, Excuse
    <2>3. k.pr \in PRs /\ k.pr # NoPR
      BY <2>2, Facts
    <2>4. a \in exists' \ excused' => target'[a].pr # k.pr
      <3>1. Kind[a] = "other" => target[a].pr # k.pr
        BY <2>3 DEF Orderly, Followed
      <3>2. CASE Kind[a] # "other" /\ target' = [target EXCEPT ![a] = Base]
        BY <2>3, <3>2, Facts DEF WellFormed, TypeOK
      <3>3. CASE a \notin exists \/ a \in excused'
        BY <2>2, <3>3
      <3>4. QED
        BY <1>4, <3>1, <3>2, <3>3 DEF Revert, Excuse
    <2>5. \A b \in Apps \ {a} : target'[b] = target[b]
      BY <1>4 DEF Revert, WellFormed, TypeOK
    <2>6. Keeping(worker[w])' /\ Listing(worker[w])'
      BY <1>1, <2>2 DEF Sound, Keeping, Listing, Listed
    <2>7. Returning(worker[w])'
      BY <1>1, <2>2, <2>4, <2>5 DEF Sound, Returning, Returned, Listed, Unreverted
    <2>8. QED
      BY <2>2, <2>6, <2>7 DEF Sound, Holding, Delivering
  <1>5. ASSUME NEW a \in Apps, Unlock(w, a)
        PROVE  Sound(worker[w])' /\ n.pr = k.pr
    <2>1. n = [k EXCEPT !.todo = @ \ {a}]
      BY <1>2, <1>5 DEF Unlock
    <2>2. /\ n.pc = "unlock" /\ n.task = k.task /\ n.pr = k.pr /\ n.copy = k.copy
          /\ n.rewritten = k.rewritten /\ n.todo \subseteq k.todo
          /\ k.pc = "unlock" /\ UNCHANGED <<exists, target>> /\ excused \subseteq excused'
      BY <1>1, <1>5, <2>1 DEF Unlock, Worker, Excuse, argocd
    <2>3. QED
      BY <1>1, <2>2 DEF Sound, Listing, Holding, Keeping, Returning, Returned, Delivering,
                        Listed, Unreverted
  <1>6. CASE Merge(w)
    <2> DEFINE T == {a \in Listed(k) : k.copy[a].type = "new" \/ a \in k.rewritten}
    <2>1. n = [k EXCEPT !.pc = "revert", !.todo = T]
      BY <1>2, <1>6 DEF Merge
    <2>2. /\ n.pc = "revert" /\ n.task = k.task /\ n.pr = k.pr /\ n.copy = k.copy
          /\ n.rewritten = k.rewritten /\ n.todo = T
          /\ k.pc = "sync" /\ k.task = "sync" /\ UNCHANGED <<lock, excused>>
      BY <1>1, <1>6, <2>1 DEF Merge, SyncDone, Worker, Sound, Listing
    <2>3. QED
      BY <1>1, <2>2 DEF Sound, Listing, Holding, Keeping, Returning, Delivering, Listed,
                        Unreverted
  <1>7. CASE Reverted(w)
    <2>1. /\ k.pc = "revert" /\ k.todo = {} /\ UNCHANGED <<lock, argocd, excused>>
          /\ \/ k.task = "sync" /\ n = [k EXCEPT !.pc = "relist"]
             \/ k.task # "sync" /\ n = [k EXCEPT !.pc = "unlock", !.todo = Listed(k)]
      BY <1>2, <1>7 DEF Reverted
    <2>2. /\ n.task = k.task /\ n.pr = k.pr /\ n.copy = k.copy /\ n.rewritten = k.rewritten
          /\ \/ k.task = "sync" /\ n.pc = "relist"
             \/ k.task # "sync" /\ n.pc = "unlock" /\ n.todo = Listed(k)
      BY <1>1, <2>1 DEF Worker
    <2>3. QED
      BY <1>1, <2>1, <2>2 DEF Sound, Listing, Holding, Keeping, Returning, Returned, Delivering,
                              Listed, Unreverted, argocd
  <1>8. CASE Relist(w)
    <2>1. PICK S \in SUBSET Apps : n = [k EXCEPT !.pc = "unlock", !.todo = S]
      BY <1>1, <1>2, <1>8 DEF Relist, Held
    <2>2. /\ n.pc = "unlock" /\ n.task = k.task /\ n.pr = k.pr /\ n.copy = k.copy
          /\ n.rewritten = k.rewritten
          /\ k.pc = "relist" /\ UNCHANGED <<argocd, excused>>
      BY <1>1, <1>8, <2>1 DEF Relist, Worker
    <2>3. QED
      BY <1>1, <2>2 DEF Sound, Listing, Holding, Keeping, Returning, Returned, Delivering,
                        Listed, Unreverted, argocd
  <1>9. QED
    BY <1>3, <1>4, <1>5, <1>6, <1>7, <1>8

\* Only plans, releases and syncs touch what Followed relates.
LEMMA FollowedNext ==
    ASSUME WellFormed, Orderly, Next, NEW b \in Apps
    PROVE  Followed(b)'
  <1>1. /\ Followed(b) /\ NoPR \notin PRs /\ Tracks[b].pr = NoPR /\ Base.pr = NoPR
    BY Facts DEF Orderly
  <1>2. ASSUME UNCHANGED <<lock, target>>, exists' \subseteq exists, excused \subseteq excused'
        PROVE  Followed(b)'
    BY <1>1, <1>2 DEF Followed
  <1>3. ASSUME NEW w \in Workers, NEW a \in Apps, PlanApp(w, a)
        PROVE  Followed(b)'
    <2> DEFINE k == worker[w]
    <2>1. /\ target' = target /\ exists' \subseteq exists /\ excused \subseteq excused'
          /\ \A c \in Apps \ {a} : lock'[c] = lock[c]
      BY <1>3 DEF PlanApp, Rendered, Excuse, WellFormed, TypeOK
    <2>2. ASSUME lock'[a] # lock[a]
          PROVE  Excuse(IF lock[a].pr \in {NoPR, k.pr} THEN {} ELSE {a}) /\ lock'[a].pr = k.pr
      <3> DEFINE own == IF lock[a].pr = k.pr THEN lock[a] ELSE NoLock
                 taken == [own EXCEPT !.pr = k.pr, !.type = ChangeType(k, a)]
                 stored == [taken EXCEPT !.rev = k.at, !.source = SourceFile(k, a),
                                         !.empty = a \notin Affects[k.pr][head[k.pr]]]
      <3>1. own \in Lock
        BY Facts DEF NoLock, Lock, Types
      <3>2. taken.pr = k.pr /\ stored.pr = k.pr
        BY <3>1 DEF Lock
      <3>3. /\ Excuse(IF lock[a].pr \in {NoPR, k.pr} THEN {} ELSE {a})
            /\ lock' = [lock EXCEPT ![a] = taken] \/ lock' = [lock EXCEPT ![a] = stored]
        BY <1>3, <2>2 DEF PlanApp
      <3>4. QED
        BY <3>2, <3>3 DEF WellFormed, TypeOK
    <2>3. CASE b # a \/ lock'[a] = lock[a]
      BY <1>1, <2>1, <2>3 DEF Followed
    <2>4. CASE b = a /\ lock'[a] # lock[a]
      BY <1>1, <2>1, <2>2, <2>4 DEF Followed, Excuse
    <2>5. QED
      BY <2>3, <2>4
  <1>4. ASSUME NEW w \in Workers, NEW a \in Apps, WriteSpec(w, a)
        PROVE  Followed(b)'
    <2> DEFINE k == worker[w]
    <2>1. /\ excused' = excused \union (IF lock[a].pr = k.pr THEN {} ELSE {a})
          /\ exists' = exists \union {a} /\ lock' = lock
          /\ target'[a] = NewTarget(k, a) /\ \A c \in Apps \ {a} : target'[c] = target[c]
          /\ a \notin exists => k.copy[a].type = "new"
      BY <1>4 DEF WriteSpec, Excuse, WellFormed, TypeOK
    <2>2. CASE b # a
      BY <1>1, <2>1, <2>2 DEF Followed
    <2>3. CASE b = a
      <3>1. NewTarget(k, a).pr \in {NoPR, k.pr} \/ NewTarget(k, a) = target[a]
        BY Facts DEF NewTarget
      <3>2. Kind[a] = "other" => NewTarget(k, a).pr = NoPR \/ NewTarget(k, a) = target[a]
        BY Facts DEF NewTarget
      <3>3. a \notin exists => NewTarget(k, a).pr \in {NoPR, k.pr}
        BY <2>1, Facts DEF NewTarget
      <3>4. QED
        BY <1>1, <2>1, <2>3, <3>1, <3>2, <3>3 DEF Followed
    <2>4. QED
      BY <2>2, <2>3
  <1>5. ASSUME NEW w \in Workers, NEW a \in Apps, Revert(w, a)
        PROVE  Followed(b)'
    <2>1. /\ UNCHANGED <<lock, exists>> /\ excused \subseteq excused'
          /\ target'[b] \in {target[b], Base}
      BY <1>5 DEF Revert, Excuse, WellFormed, TypeOK
    <2>2. QED
      BY <1>1, <2>1 DEF Followed
  <1>6. ASSUME NEW w \in Workers, NEW a \in Apps, Unlock(w, a)
        PROVE  Followed(b)'
    <2> DEFINE k == worker[w]
    <2>1. /\ UNCHANGED <<target, exists>> /\ excused \subseteq excused'
          /\ k.pc = "unlock" /\ a \in k.todo /\ \A c \in Apps \ {a} : lock'[c] = lock[c]
      BY <1>6 DEF Unlock, Excuse, argocd, WellFormed, TypeOK
    <2>2. CASE b # a \/ lock'[a] = lock[a]
      BY <1>1, <2>1, <2>2 DEF Followed
    <2>3. CASE b = a /\ lock'[a] # lock[a]
      <3>1. lock[a].pr = k.pr /\ (Unreverted(k, a) => a \in excused')
        BY <1>6, <2>3 DEF Unlock, Excuse
      <3>2. ~Unreverted(k, a) => Returned(k.pr, a)
        <4>1. k \in Worker /\ Listing(k) /\ Returning(k)
          BY Facts DEF Orderly, Sound
        <4>2. ~Unreverted(k, a) => a \in Listed(k)
          <5>1. CASE k.task = "sync"
            BY <4>1, <5>1, Facts DEF Listing, Listed, Unreverted
          <5>2. CASE k.task # "sync"
            BY <2>1, <4>1, <5>2 DEF Listing, Unreverted
          <5>3. QED
            BY <5>1, <5>2
        <4>3. QED
          BY <2>1, <4>1, <4>2 DEF Returning
      <3>3. QED
        BY <1>1, <2>1, <2>3, <3>1, <3>2 DEF Followed, Returned
    <2>4. QED
      BY <2>2, <2>3
  <1>7. ASSUME NEW a \in Apps, ForceUnlock(a)
        PROVE  Followed(b)'
    <2>1. /\ UNCHANGED <<target, exists>> /\ excused' = excused \union {a}
          /\ \A c \in Apps \ {a} : lock'[c] = lock[c]
      BY <1>7 DEF ForceUnlock, Excuse, argocd, WellFormed, TypeOK
    <2>2. QED
      BY <1>1, <2>1 DEF Followed
  <1>8. ASSUME NEW p \in PRs, Push(p) \/ Close(p)
        PROVE  Followed(b)'
    BY <1>2, <1>8 DEF Push, Close, argocd
  <1>9. ASSUME NEW w \in Workers, NEW p \in PRs,
               \/ BeginPlan(w, p) \/ BeginSync(w, p) \/ BeginRollback(w, p) \/ BeginUnlock(w, p)
               \/ BeginUnlockAll(w, p)
        PROVE  Followed(b)'
    BY <1>2, <1>9
    DEF BeginPlan, BeginSync, BeginRollback, BeginUnlock, BeginUnlockAll, argocd
  <1>10. ASSUME NEW w \in Workers, NEW a \in Apps,
                \/ WriteFails(w, a) \/ SyncDeleted(w, a) \/ Deploy(w, a) \/ Rollback(w, a)
         PROVE  Followed(b)'
    BY <1>2, <1>10 DEF WriteFails, SyncDeleted, Deploy, Rollback, Excuse, argocd
  <1>11. ASSUME NEW w \in Workers,
                \/ EndSync(w) \/ Merge(w) \/ Relist(w) \/ Reverted(w) \/ Return(w) \/ Die(w)
         PROVE  Followed(b)'
    BY <1>2, <1>11 DEF EndSync, Merge, Relist, Reverted, Return, Die, argocd
  <1>12. QED
    BY <1>3, <1>4, <1>5, <1>6, <1>7, <1>8, <1>9, <1>10, <1>11 DEF Next

\* A worker changes its own record only.
LEMMA OthersStay ==
    ASSUME WellFormed, NEW w \in Workers, WorkersStep(w)
    PROVE  \A v \in Workers \ {w} : worker'[v] = worker[v]
  <1>1. \A r : Set(w, r) => \A v \in Workers \ {w} : worker'[v] = worker[v]
    BY DEF Set, WellFormed, TypeOK
  <1>2. CASE \E p \in PRs : \/ BeginPlan(w, p) \/ BeginSync(w, p) \/ BeginRollback(w, p)
                            \/ BeginUnlock(w, p) \/ BeginUnlockAll(w, p)
    BY <1>1, <1>2 DEF BeginPlan, BeginSync, BeginRollback, BeginUnlock, BeginUnlockAll
  <1>3. CASE \E a \in Apps : \/ PlanApp(w, a) \/ WriteSpec(w, a) \/ WriteFails(w, a)
                             \/ SyncDeleted(w, a) \/ Deploy(w, a) \/ Rollback(w, a)
                             \/ Revert(w, a) \/ Unlock(w, a)
    BY <1>1, <1>3 DEF PlanApp, WriteSpec, WriteFails, SyncDeleted, Deploy, Rollback, Revert, Unlock
  <1>4. CASE EndSync(w) \/ Merge(w) \/ Relist(w) \/ Reverted(w) \/ Return(w) \/ Die(w)
    BY <1>1, <1>4 DEF EndSync, Merge, Relist, Reverted, Return, Die
  <1>5. QED
    BY <1>2, <1>3, <1>4 DEF WorkersStep

LEMMA WhoSteps ==
    ASSUME WellFormed, Next, NEW w \in Workers, worker'[w] # worker[w]
    PROVE  WorkersStep(w)
  <1>1. PICK v \in Workers : WorkersStep(v)
    BY DEF Next, WorkersStep, Push, Close, ForceUnlock
  <1>2. QED
    BY <1>1, OthersStay

LEMMA OrderlyNext ==
    ASSUME OneTaskPerPR, WellFormed, Orderly, [Next]_vars
    PROVE  Orderly'
  <1>1. CASE UNCHANGED vars
    <2>1. UNCHANGED <<open, lock, exists, target, live, worker, excused, forced>>
      BY <1>1 DEF vars
    <2>2. \A p : Foreign(p)
      BY <2>1 DEF Foreign
    <2>3. \A v \in Workers : Sound(worker[v])'
      BY <2>1, <2>2, ForeignSound DEF Orderly
    <2>4. QED
      BY <2>1, <2>3 DEF Orderly, Alone, Followed
  <1>2. CASE Next
    <2>1. \A b \in Apps : Followed(b)'
      BY <1>2, FollowedNext
    <2>2. ASSUME NEW w \in Workers, WorkersStep(w)
          PROVE  Alone' /\ \A v \in Workers : Sound(worker[v])'
      <3>1. \A v \in Workers \ {w} : worker'[v] = worker[v]
        BY <2>2, OthersStay
      <3>2. /\ Sound(worker[w])'
            /\ \/ worker'[w].pr \in {worker[w].pr, NoPR}
               \/ \A v \in Workers : worker[v].pr # worker'[w].pr
        BY <2>2, BeginsSound, SyncsSound, QuietStepsSound, ReleasesSound
        DEF WorkersStep, BeginPlan, BeginSync, BeginRollback, BeginUnlock, BeginUnlockAll, Task
      <3>3. ASSUME NEW v \in Workers \ {w}
            PROVE  Sound(worker[v])'
        <4>1. worker[v].pc = "idle" \/ Foreign(worker[v].pr)
          <5>1. CASE worker[v].pc # "idle"
            <6>1. worker[v].pr \in PRs /\ worker[v].pr # worker[w].pr
              BY <5>1, Facts DEF Orderly, Alone
            <6>2. QED
              BY <2>2, <6>1, WorkersForeign DEF WorkersStep
          <5>2. QED
            BY <5>1
        <4>2. worker'[v] = worker[v] /\ Sound(worker[v])
          BY <3>1 DEF Orderly
        <4>3. QED
          BY <4>1, <4>2, ForeignSound
      <3>4. Alone'
        BY <3>1, <3>2 DEF Orderly, Alone
      <3>5. QED
        BY <3>2, <3>3, <3>4
    <2>3. ASSUME \/ \E p \in PRs : Push(p) \/ Close(p)
                 \/ \E a \in Apps : ForceUnlock(a)
          PROVE  Alone' /\ \A v \in Workers : Sound(worker[v])'
      <3>1. worker' = worker
        BY <2>3 DEF Push, Close, ForceUnlock
      <3>2. ASSUME NEW p \in PRs
            PROVE  Foreign(p)
        BY <2>3, <3>2 DEF Push, Close, ForceUnlock, argocd, Foreign, Excuse, WellFormed, TypeOK
      <3>3. \A v \in Workers : worker[v].pc = "idle" \/ Foreign(worker[v].pr)
        BY <3>2, Facts
      <3>4. QED
        BY <3>1, <3>3, ForeignSound DEF Orderly, Alone
    <2>4. Alone' /\ \A v \in Workers : Sound(worker[v])'
      BY <1>2, <2>2, <2>3 DEF Next, WorkersStep
    <2>5. QED
      BY <2>1, <2>4 DEF Orderly
  <1>3. QED
    BY <1>1, <1>2

-----------------------------------------------------------------------------

LEMMA InitOrderly == Init => Orderly
  <1> SUFFICES ASSUME Init PROVE Orderly
    OBVIOUS
  <1>1. \A w \in Workers : worker[w] = Idle
    BY DEF Init
  <1>2. Idle.pc = "idle" /\ Idle.pr = NoPR /\ Idle.rewritten = {}
    BY DEF Idle
  <1>3. \A w \in Workers : Sound(worker[w])
    BY <1>1, <1>2 DEF Sound, Listing, Holding, Keeping, Returning, Delivering
  <1>4. \A a \in Apps : target[a].pr = NoPR
    BY PRAssumption DEF Init
  <1>5. QED
    BY <1>1, <1>2, <1>3, <1>4 DEF Orderly, Alone, Followed

\* What is kept when the tasks of a pull request do not overlap.
LEMMA AlwaysOrderly == ASSUME OneTaskPerPR PROVE Spec => []Orderly
  <1>1. WellFormed /\ WellFormed' /\ Orderly /\ [Next]_vars => Orderly'
    BY OrderlyNext
  <1>2. QED
    BY <1>1, InitOrderly, AlwaysWellFormed, PTL DEF Spec

\* executor.go:123-131: when the tasks of a pull request do not overlap, no application
\* follows a commit of one that has not locked it, but where a fault, an unlock or one of
\* the known omissions left it.
THEOREM TargetsFollowLocks == ASSUME OneTaskPerPR PROVE Spec => []TargetsReturn
  <1>1. WellFormed /\ Orderly => TargetsReturn
    BY Facts DEF Orderly, Followed, TargetsReturn
  <1>2. QED
    BY <1>1, AlwaysWellFormed, AlwaysOrderly, PTL

\* README, plan.go:523-525: when the tasks of a pull request do not overlap, a sync or a
\* rollback of all deploys an application only while its pull request has the lock, has
\* ended, or lost the lock by force.
THEOREM HoldersDeploy == ASSUME OneTaskPerPR PROVE Spec => DeployedByHolder
  <1>1. ASSUME WellFormed, Orderly, [Next]_vars
        PROVE  [\A a \in Apps, w \in Workers :
                  /\ live'[a] # live[a] /\ worker'[w] # worker[w] /\ worker[w].task # "rollback -a"
                  => worker[w].pr = lock[a].pr \/ worker[w].pr \notin open \/ a \in forced]_vars
    <2> SUFFICES ASSUME Next, NEW a \in Apps, NEW w \in Workers,
                        live'[a] # live[a], worker'[w] # worker[w],
                        worker[w].task # "rollback -a"
                 PROVE  worker[w].pr = lock[a].pr \/ worker[w].pr \notin open \/ a \in forced
      BY <1>1 DEF vars
    <2>1. WorkersStep(w)
      BY <1>1, WhoSteps
    <2>2. PICK b \in Apps : Deploy(w, b) \/ Rollback(w, b)
      <3>1. CASE \E p \in PRs : \/ BeginPlan(w, p) \/ BeginSync(w, p) \/ BeginRollback(w, p)
                                \/ BeginUnlock(w, p) \/ BeginUnlockAll(w, p)
        BY <3>1 DEF BeginPlan, BeginSync, BeginRollback, BeginUnlock, BeginUnlockAll, argocd
      <3>2. CASE \E c \in Apps : \/ PlanApp(w, c) \/ WriteSpec(w, c) \/ WriteFails(w, c)
                                 \/ SyncDeleted(w, c) \/ Revert(w, c) \/ Unlock(w, c)
        BY <3>2 DEF PlanApp, WriteSpec, WriteFails, SyncDeleted, Revert, Unlock, argocd
      <3>3. CASE EndSync(w) \/ Merge(w) \/ Relist(w) \/ Reverted(w) \/ Return(w) \/ Die(w)
        BY <3>3 DEF EndSync, Merge, Relist, Reverted, Return, Die, argocd
      <3>4. QED
        BY <2>1, <3>1, <3>2, <3>3 DEF WorkersStep
    <2>3. b = a
      BY <1>1, <2>2 DEF Deploy, Rollback, WellFormed, TypeOK
    <2>4. worker[w].pc \in {"sync", "rollback"} /\ a \in worker[w].todo \union worker[w].written
      BY <2>2, <2>3 DEF Deploy, Rollback
    <2>5. QED
      BY <1>1, <2>4 DEF Orderly, Sound, Holding
  <1>2. QED
    BY <1>1, AlwaysWellFormed, AlwaysOrderly, PTL DEF Spec, DeployedByHolder

\* commands.md:163-165: when the tasks of a pull request do not overlap, a sync that merges
\* has deployed all it had to at the commit that was planned, whatever others did meanwhile.
THEOREM MergedWasDeployed == ASSUME OneTaskPerPR PROVE Spec => MergedIsDeployed
  <1>1. ASSUME WellFormed, Orderly, [Next]_vars
        PROVE  [\A w \in Workers : open' # open /\ worker'[w] # worker[w] =>
                   \A a \in worker[w].synced \ excused :
                      worker[w].copy[a].type = "deleted" \/ Kind[a] = "other"
                      \/ live[a] = Commit(worker[w].pr, worker[w].at)]_vars
    <2> SUFFICES ASSUME Next, NEW w \in Workers, open' # open, worker'[w] # worker[w],
                        NEW a \in worker[w].synced \ excused,
                        worker[w].copy[a].type # "deleted", Kind[a] # "other"
                 PROVE  live[a] = Commit(worker[w].pr, worker[w].at)
      BY <1>1 DEF vars
    <2>1. WorkersStep(w)
      BY <1>1, WhoSteps
    <2>2. Merge(w)
      <3>1. CASE \E p \in PRs : \/ BeginPlan(w, p) \/ BeginSync(w, p) \/ BeginRollback(w, p)
                                \/ BeginUnlock(w, p) \/ BeginUnlockAll(w, p)
        BY <3>1 DEF BeginPlan, BeginSync, BeginRollback, BeginUnlock, BeginUnlockAll
      <3>2. CASE \E c \in Apps : \/ PlanApp(w, c) \/ WriteSpec(w, c) \/ WriteFails(w, c)
                                 \/ SyncDeleted(w, c) \/ Deploy(w, c) \/ Rollback(w, c)
                                 \/ Revert(w, c) \/ Unlock(w, c)
        BY <3>2
        DEF PlanApp, WriteSpec, WriteFails, SyncDeleted, Deploy, Rollback, Revert, Unlock
      <3>3. CASE EndSync(w) \/ Relist(w) \/ Reverted(w) \/ Return(w) \/ Die(w)
        BY <3>3 DEF EndSync, Relist, Reverted, Return, Die
      <3>4. QED
        BY <2>1, <3>1, <3>2, <3>3 DEF WorkersStep
    <2>3. /\ worker[w].pc = "sync" /\ worker[w].todo = {} /\ worker[w].written = {}
          /\ ~worker[w].dry /\ ~worker[w].failed
      BY <2>2 DEF Merge, SyncDone, AllSucceeded
    <2>4. QED
      BY <1>1, <2>3 DEF Orderly, Sound, Delivering, Counts
  <1>2. QED
    BY <1>1, AlwaysWellFormed, AlwaysOrderly, PTL DEF Spec, MergedIsDeployed
==============================================================================
