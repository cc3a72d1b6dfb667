---------------------------- MODULE AutoSyncProofs ----------------------------
(* Proofs about AutoSync: what a record may hold, and, where the tasks of a    *)
(* pull request do not overlap, that no auto-sync policy is forgotten.         *)
EXTENDS AutoSync, TLAPS

Disables == {"map", "next", "get", "put", "save", "set.get", "set.put", "set.store", "find", "up"}
Template == {"set.get", "set.put", "set.store"}
Restores == {"children", "parents", "sets", "forget", "unlock"}
Syncs == {"sync", "merge", "list"}

\* A free lock is empty; an ApplicationSet is named only of what it generates; and a policy
\* is saved only of what had one to begin with.
LockOK(a) == /\ lock[a].pr = NoPR => lock[a] = NoLock
             /\ lock[a].named => Owner[a] # NoSet
             /\ lock[a].saved => a \in Automated

SharedOK == /\ auto \subseteq (Apps \union AppSets) \intersect Automated
            /\ lock \in [Apps -> Lock] /\ \A a \in Apps : LockOK(a)
            /\ kept \subseteq AppSets \X PRs /\ \A s \in AppSets, p \in PRs :
                  <<s, p>> \in kept => s \in Automated
            /\ excused \subseteq Apps

\* What a worker knows at each step.
RecordOK(k) ==
    /\ k.pc = "idle" => k = Idle
    /\ k.pc # "idle" => k.pr \in PRs
    /\ k.todo \subseteq k.listed
    /\ k.pc \in Disables => k.task \in {"sync", "rollback", "rollback all"}
    /\ k.pc \in Syncs => k.task = "sync"
    /\ k.pc \in Restores \union {"revert", "rewrite"} => k.task \in {"sync", "close"}
    /\ k.pc \in {"get", "put", "save", "find", "rewrite", "forget"} \union Template => k.app \in Apps
    /\ k.pc \in Template => Owner[k.app] # NoSet /\ ~k.asParent /\ k.task # "rollback"
    /\ k.pc = "forget" => Owner[k.app] # NoSet
    /\ k.pc = "rewrite" => /\ k.app \in k.listed
                           /\ k.then \in {"sync", "revert"}
                           /\ k.task = "close" => k.then = "revert"
    /\ k.pc \in {"put", "save"} => k.app \in Automated
    /\ k.pc \in {"set.put", "set.store"} => Owner[k.app] \in Automated
    /\ k.pc = "rewrite" /\ k.seen => k.app \in Automated
    /\ \A a \in Apps : k.copy[a].saved => a \in Automated

WellFormed == /\ SharedOK
              /\ worker \in [Workers -> Worker]
              /\ \A w \in Workers : RecordOK(worker[w])

-----------------------------------------------------------------------------

LEMMA Constants ==
    /\ NoLock \in Lock /\ Copies \in [Apps -> Lock]
    /\ Idle \in Worker /\ RecordOK(Idle)
    /\ \A a \in Apps : Owner[a] \in AppSets \union {NoSet} /\ Parents[a] \subseteq Apps
    /\ \A p \in PRs, b \in BOOLEAN : NewLock(p, b) \in Lock
  <1>1. NoLock \in Lock /\ Copies \in [Apps -> Lock]
    BY DEF NoLock, Lock, Copies
  <1>2. Idle \in Worker
    BY <1>1 DEF Idle, Worker, PCs
  <1>3. RecordOK(Idle)
    BY DEF RecordOK, Idle, Copies, NoLock, Disables, Template, Restores, Syncs
  <1>4. \A p \in PRs, b \in BOOLEAN : NewLock(p, b) \in Lock
    BY DEF NewLock, NoLock, Lock
  <1>5. QED
    BY <1>1, <1>2, <1>3, <1>4, AutoSyncAssumption

LEMMA SetRecord ==
    ASSUME WellFormed, NEW w \in Workers, NEW r, Set(w, r)
    PROVE  worker'[w] = r /\ \A v \in Workers \ {w} : worker'[v] = worker[v]
  BY DEF Set, WellFormed

LEMMA GoRecord ==
    ASSUME WellFormed, NEW w \in Workers, NEW pc, Go(w, pc)
    PROVE  /\ Set(w, [worker[w] EXCEPT !.pc = pc])
  BY DEF Set, Go, WellFormed

\* The records that a loop and a list begin with.
Looping(k, pc) ==
    [Idle EXCEPT !.pc = pc, !.task = k.task, !.pr = k.pr, !.listed = k.listed,
                 !.copy = k.copy, !.todo = k.listed]

LEMMA LoopRecord ==
    ASSUME NEW k \in Worker, RecordOK(k), k.pc # "idle", NEW pc \in PCs,
           \/ pc \in {"sync", "merge"} /\ k.task = "sync"
           \/ pc \in {"parents", "sets", "revert", "unlock"} /\ k.task \in {"sync", "close"}
    PROVE  /\ Looping(k, pc) \in Worker /\ RecordOK(Looping(k, pc))
           /\ Looping(k, pc).pc = pc /\ Looping(k, pc).task = k.task
           /\ Looping(k, pc).pr = k.pr /\ Looping(k, pc).copy = k.copy
           /\ Looping(k, pc).listed = k.listed /\ Looping(k, pc).todo = k.listed
  <1> DEFINE r == Looping(k, pc)
  <1>1. /\ r.pc = pc /\ r.task = k.task /\ r.pr = k.pr /\ r.listed = k.listed
        /\ r.copy = k.copy /\ r.todo = k.listed
    BY DEF Looping, Idle
  <1>2. r \in Worker
    BY Constants DEF Looping, Idle, Worker
  <1>3. RecordOK(r)
    BY <1>1 DEF RecordOK, Disables, Template, Restores, Syncs
  <1>4. QED
    BY <1>1, <1>2, <1>3

LEMMA ListRecord ==
    ASSUME WellFormed, NEW w \in Workers, NEW p \in PRs, NEW S \in SUBSET Apps
    PROVE  /\ List(w, p, S) \in Worker
           /\ List(w, p, S).listed = S /\ List(w, p, S).todo = S /\ List(w, p, S).pr = p
           /\ List(w, p, S).task = worker[w].task /\ List(w, p, S).app = worker[w].app
           /\ \A a \in Apps : List(w, p, S).copy[a] = IF a \in S THEN lock[a] ELSE NoLock
  <1> DEFINE c == [a \in Apps |-> IF a \in S THEN lock[a] ELSE NoLock]
             r == [worker[w] EXCEPT !.listed = S, !.todo = S, !.pr = p, !.copy = c]
  <1>1. worker[w] \in Worker /\ c \in [Apps -> Lock]
    BY Constants DEF WellFormed, SharedOK
  <1>2. r \in Worker
    <2> HIDE DEF c
    <2>1. QED
      BY <1>1 DEF Worker
  <1>3. /\ r.listed = S /\ r.todo = S /\ r.pr = p /\ r.copy = c
        /\ r.task = worker[w].task /\ r.app = worker[w].app
    <2> HIDE DEF c
    <2>1. QED
      BY <1>1 DEF Worker
  <1>4. List(w, p, S) = r
    BY DEF List
  <1>5. QED
    BY <1>2, <1>3, <1>4

\* What a worker does to its own record.
LEMMA BeginRecords ==
    ASSUME WellFormed, NEW w \in Workers, NEW p \in PRs,
           \/ BeginSync(w, p) \/ BeginRollbackAll(w, p) \/ BeginUnlockAll(w, p)
           \/ \E a \in Apps : BeginRollback(w, p, a)
    PROVE  worker'[w] \in Worker /\ RecordOK(worker'[w])
  <1> USE DEF Disables, Template, Restores, Syncs
  <1>1. ASSUME NEW task \in {"sync", "rollback all"}, NEW S \in SUBSET Apps,
               Set(w, Disabling(task, p, S))
        PROVE  worker'[w] \in Worker /\ RecordOK(worker'[w])
    <2>1. worker'[w] = Disabling(task, p, S)
      BY <1>1, SetRecord
    <2>2. Disabling(task, p, S) \in Worker
      BY Constants DEF Disabling, Idle, Worker, PCs
    <2>3. RecordOK(Disabling(task, p, S))
      BY Constants DEF Disabling, Idle, RecordOK
    <2>4. QED
      BY <2>1, <2>2, <2>3
  <1>2. CASE BeginSync(w, p)
    <2>1. PICK S \in SUBSET Apps : Set(w, Disabling("sync", p, S))
      BY <1>2 DEF BeginSync, Held, Members
    <2>2. QED
      BY <1>1, <2>1
  <1>3. CASE BeginRollbackAll(w, p)
    BY <1>1, <1>3 DEF BeginRollbackAll, Held
  <1>4. ASSUME NEW a \in Apps, BeginRollback(w, p, a)
        PROVE  worker'[w] \in Worker /\ RecordOK(worker'[w])
    <2> DEFINE r == [Idle EXCEPT !.pc = "get", !.task = "rollback", !.pr = p, !.app = a,
                                 !.visited = {a}]
    <2>1. worker'[w] = r
      BY <1>4, SetRecord DEF BeginRollback
    <2>2. r \in Worker
      BY Constants DEF Idle, Worker, PCs
    <2>3. RecordOK(r)
      BY Constants DEF Idle, RecordOK
    <2>4. QED
      BY <2>1, <2>2, <2>3
  <1>5. CASE BeginUnlockAll(w, p)
    <2> DEFINE l == List(w, p, Held(p))
               r == [l EXCEPT !.pc = "children", !.task = "close"]
    <2>1. worker'[w] = r
      BY <1>5, SetRecord DEF BeginUnlockAll
    <2>2. /\ l \in Worker /\ l.listed = Held(p) /\ l.todo = Held(p) /\ l.pr = p
          /\ \A a \in Apps : l.copy[a] = IF a \in Held(p) THEN lock[a] ELSE NoLock
      BY ListRecord DEF Held
    <2>3. \A a \in Apps : l.copy[a].saved => a \in Automated
      BY <2>2 DEF WellFormed, SharedOK, LockOK, NoLock
    <2> HIDE DEF l
    <2>4. /\ r \in Worker /\ r.pc = "children" /\ r.task = "close" /\ r.pr = p
          /\ r.listed = l.listed /\ r.todo = l.todo /\ r.copy = l.copy
      BY <2>2 DEF Worker, PCs
    <2>5. RecordOK(r)
      BY <2>2, <2>3, <2>4 DEF RecordOK
    <2>6. QED
      BY <2>1, <2>4, <2>5
  <1>6. QED
    BY <1>2, <1>3, <1>4, <1>5

LEMMA DisableRecords ==
    ASSUME WellFormed, NEW w \in Workers,
           \/ BuildParentMap(w) \/ NextApp(w) \/ DisableGet(w) \/ DisablePut(w)
           \/ DisableFails(w) \/ Save(w) \/ SetGet(w) \/ SetPut(w) \/ SetStore(w)
           \/ FindParents(w) \/ LockParent(w)
    PROVE  worker'[w] \in Worker /\ RecordOK(worker'[w])
  <1> USE DEF Disables, Template, Restores, Syncs
  <1> DEFINE k == worker[w]
  <1>1. /\ k \in Worker /\ RecordOK(k) /\ \A a \in Apps : Owner[a] \in AppSets \union {NoSet}
        /\ auto \subseteq (Apps \union AppSets) \intersect Automated
    BY Constants DEF WellFormed, SharedOK
  <1>2. ASSUME Return(w)
        PROVE  worker'[w] \in Worker /\ RecordOK(worker'[w])
    BY <1>2, SetRecord, Constants DEF Return
  <1>3. ASSUME NEW pc, Go(w, pc)
        PROVE  worker'[w] = [k EXCEPT !.pc = pc]
    BY <1>3, GoRecord, SetRecord
  <1>4. CASE BuildParentMap(w)
    <2> DEFINE r == [k EXCEPT !.pc = "next", !.parentMap = auto \intersect Apps]
    <2>1. worker'[w] = r /\ k.pc = "map"
      BY <1>4, SetRecord DEF BuildParentMap, At
    <2>2. r \in Worker
      BY <1>1 DEF Worker, PCs
    <2>3. RecordOK(r)
      BY <1>1, <2>1 DEF RecordOK, Worker
    <2>4. QED
      BY <2>1, <2>2, <2>3
  <1>5. CASE NextApp(w)
    <2>1. CASE \E a \in k.todo : Set(w, [k EXCEPT !.pc = "get", !.app = a, !.asParent = FALSE,
                                                  !.todo = @ \ {a}])
      <3>1. PICK a \in k.todo : worker'[w] = [k EXCEPT !.pc = "get", !.app = a,
                                                       !.asParent = FALSE, !.todo = @ \ {a}]
        BY <2>1, SetRecord
      <3>2. k.pc = "next" /\ a \in Apps
        BY <1>1, <1>5 DEF NextApp, At, Worker
      <3>3. /\ worker'[w] \in Worker
            /\ worker'[w].pc = "get" /\ worker'[w].app = a /\ worker'[w].task = k.task
            /\ worker'[w].pr = k.pr /\ worker'[w].listed = k.listed
            /\ worker'[w].todo = k.todo \ {a} /\ worker'[w].copy = k.copy
        BY <1>1, <3>1, <3>2 DEF Worker, PCs
      <3>4. QED
        BY <1>1, <3>2, <3>3 DEF RecordOK
    <2>2. CASE k.task = "sync" /\ Loop(w, "sync")
      <3>1. worker'[w] = Looping(k, "sync") /\ k.pc = "next"
        BY <1>5, <2>2, SetRecord DEF Loop, Looping, NextApp, At
      <3>2. QED
        BY <1>1, <2>2, <3>1, LoopRecord DEF PCs
    <2>3. QED
      BY <1>2, <1>5, <2>1, <2>2 DEF NextApp
  <1>6. CASE DisableGet(w)
    <2>1. PICK pc \in {"put", "find"} : /\ worker'[w] = [k EXCEPT !.pc = pc]
                                        /\ pc = "put" => k.app \in auto
      BY <1>3, <1>6 DEF DisableGet
    <2>2. k.pc = "get"
      BY <1>6 DEF DisableGet, At
    <2>3. QED
      BY <1>1, <2>1, <2>2 DEF RecordOK, Worker, PCs
  <1>7. CASE DisablePut(w)
    <2>1. worker'[w] = [k EXCEPT !.pc = "save"] /\ k.pc = "put"
      BY <1>3, <1>7 DEF DisablePut, At
    <2>2. QED
      BY <1>1, <2>1 DEF RecordOK, Worker, PCs
  <1>8. CASE DisableFails(w)
    <2>1. CASE Go(w, "up")
      <3>1. worker'[w] = [k EXCEPT !.pc = "up"] /\ k.pc \in {"get", "put"}
        BY <1>3, <1>8, <2>1 DEF DisableFails, At
      <3>2. QED
        BY <1>1, <3>1 DEF RecordOK, Worker, PCs
    <2>2. QED
      BY <1>2, <1>8, <2>1 DEF DisableFails
  <1>9. CASE Save(w)
    <2>1. k.pc = "save"
      BY <1>9 DEF Save, At
    <2>2. CASE Go(w, "find")
      <3>1. worker'[w] = [k EXCEPT !.pc = "find"]
        BY <1>3, <2>2
      <3>2. QED
        BY <1>1, <2>1, <3>1 DEF RecordOK, Worker, PCs
    <2>3. CASE Go(w, "set.get") /\ ~(k.asParent \/ k.task = "rollback") /\ SetLeft(w)
      <3>1. worker'[w] = [k EXCEPT !.pc = "set.get"] /\ Owner[k.app] # NoSet
        BY <1>3, <2>3 DEF SetLeft
      <3>2. QED
        BY <1>1, <2>1, <2>3, <3>1 DEF RecordOK, Worker, PCs
    <2>4. QED
      BY <1>2, <1>9, <2>2, <2>3 DEF Save
  <1>10. CASE SetGet(w)
    <2>1. PICK pc \in {"set.put", "find"} :
             /\ worker'[w] = [k EXCEPT !.pc = pc, !.sets = @ \union {Owner[k.app]}]
             /\ pc = "set.put" => Owner[k.app] \in auto
      BY <1>10, SetRecord DEF SetGet
    <2>2. k.pc = "set.get" /\ Owner[k.app] \in AppSets
      BY <1>1, <1>10 DEF SetGet, At, RecordOK
    <2> DEFINE seen == k.sets \union {Owner[k.app]}
    <2>3. seen \in SUBSET AppSets
      BY <1>1, <2>2 DEF Worker
    <2>4. worker'[w] = [k EXCEPT !.pc = pc, !.sets = seen]
      BY <2>1
    <2> HIDE DEF seen
    <2>5. /\ worker'[w] \in Worker
          /\ worker'[w].pc = pc /\ worker'[w].app = k.app /\ worker'[w].task = k.task
          /\ worker'[w].pr = k.pr /\ worker'[w].listed = k.listed /\ worker'[w].todo = k.todo
          /\ worker'[w].copy = k.copy /\ worker'[w].asParent = k.asParent
      BY <1>1, <2>3, <2>4 DEF Worker, PCs
    <2>6. QED
      BY <1>1, <2>1, <2>2, <2>5 DEF RecordOK
  <1>11. CASE SetPut(w)
    <2>1. PICK pc \in {"set.store", "find"} : worker'[w] = [k EXCEPT !.pc = pc]
      BY <1>3, <1>11 DEF SetPut
    <2>2. k.pc = "set.put"
      BY <1>11 DEF SetPut, At
    <2>3. QED
      BY <1>1, <2>1, <2>2 DEF RecordOK, Worker, PCs
  <1>12. CASE SetStore(w)
    <2>1. worker'[w] = [k EXCEPT !.pc = "find"] /\ k.pc = "set.store"
      BY <1>3, <1>12 DEF SetStore, At
    <2>2. QED
      BY <1>1, <2>1 DEF RecordOK, Worker, PCs
  <1>13. CASE FindParents(w)
    <2>1. PICK found \in SUBSET Parents[k.app] :
             worker'[w] = [k EXCEPT !.pc = "up", !.visited = @ \union {k.app},
                                    !.up = @ \union found]
      BY <1>13, SetRecord DEF FindParents
    <2>2. k.pc = "find" /\ k.app \in Apps /\ Parents[k.app] \subseteq Apps
      BY <1>1, <1>13, Constants DEF FindParents, At, RecordOK
    <2> DEFINE seen == k.visited \union {k.app}
               left == k.up \union found
    <2>3. seen \in SUBSET Apps /\ left \in SUBSET Apps
      BY <1>1, <2>2 DEF Worker
    <2>4. worker'[w] = [k EXCEPT !.pc = "up", !.visited = seen, !.up = left]
      BY <2>1
    <2> HIDE DEF seen, left
    <2>5. /\ worker'[w] \in Worker
          /\ worker'[w].pc = "up" /\ worker'[w].task = k.task
          /\ worker'[w].pr = k.pr /\ worker'[w].listed = k.listed /\ worker'[w].todo = k.todo
          /\ worker'[w].copy = k.copy
      BY <1>1, <2>3, <2>4 DEF Worker, PCs
    <2>6. QED
      BY <1>1, <2>2, <2>5 DEF RecordOK
  <1>14. CASE LockParent(w)
    <2>1. k.pc = "up"
      BY <1>14 DEF LockParent, At
    <2>2. CASE Set(w, [k EXCEPT !.pc = "next", !.app = NoApp, !.asParent = FALSE, !.up = {}])
      <3>1. worker'[w] = [k EXCEPT !.pc = "next", !.app = NoApp, !.asParent = FALSE, !.up = {}]
        BY <2>2, SetRecord
      <3>2. QED
        BY <1>1, <2>1, <3>1 DEF RecordOK, Worker, PCs
    <2>3. CASE \E a \in k.up : Set(w, [k EXCEPT !.up = @ \ {a}])
      <3>1. PICK a \in k.up : worker'[w] = [k EXCEPT !.up = @ \ {a}]
        BY <2>3, SetRecord
      <3>2. /\ worker'[w] \in Worker
            /\ worker'[w].pc = k.pc /\ worker'[w].task = k.task
            /\ worker'[w].pr = k.pr /\ worker'[w].listed = k.listed /\ worker'[w].todo = k.todo
            /\ worker'[w].copy = k.copy
        BY <1>1, <3>1 DEF Worker
      <3>3. QED
        BY <1>1, <2>1, <3>2 DEF RecordOK
    <2>4. CASE \E a \in k.up : Set(w, [k EXCEPT !.pc = "get", !.app = a, !.asParent = TRUE,
                                                !.up = @ \ {a}])
      <3>1. PICK a \in k.up : worker'[w] = [k EXCEPT !.pc = "get", !.app = a, !.asParent = TRUE,
                                                     !.up = @ \ {a}]
        BY <2>4, SetRecord
      <3> DEFINE left == k.up \ {a}
      <3>2. a \in Apps /\ left \in SUBSET Apps
        BY <1>1 DEF Worker
      <3>3. worker'[w] = [k EXCEPT !.pc = "get", !.app = a, !.asParent = TRUE, !.up = left]
        BY <3>1
      <3> HIDE DEF left
      <3>4. /\ worker'[w] \in Worker
            /\ worker'[w].pc = "get" /\ worker'[w].task = k.task /\ worker'[w].app = a
            /\ worker'[w].pr = k.pr /\ worker'[w].listed = k.listed /\ worker'[w].todo = k.todo
            /\ worker'[w].copy = k.copy
        BY <1>1, <3>2, <3>3 DEF Worker, PCs
      <3>5. QED
        BY <1>1, <2>1, <3>2, <3>4 DEF RecordOK
    <2>5. QED
      BY <1>14, <2>2, <2>3, <2>4 DEF LockParent
  <1>15. QED
    BY <1>4, <1>5, <1>6, <1>7, <1>8, <1>9, <1>10, <1>11, <1>12, <1>13, <1>14

\* One application of a loop is done.
LEMMA TakeRecord ==
    ASSUME WellFormed, NEW w \in Workers, NEW a,
           Set(w, [worker[w] EXCEPT !.todo = @ \ {a}])
    PROVE  /\ worker'[w] \in Worker
           /\ worker'[w].pc = worker[w].pc /\ worker'[w].task = worker[w].task
           /\ worker'[w].pr = worker[w].pr /\ worker'[w].listed = worker[w].listed
           /\ worker'[w].copy = worker[w].copy /\ worker'[w].todo = worker[w].todo \ {a}
           /\ worker'[w].app = worker[w].app
           /\ worker[w].pc \notin {"idle", "rewrite"} \union Template => RecordOK(worker'[w])
  <1> DEFINE k == worker[w]
             left == k.todo \ {a}
  <1>1. k \in Worker /\ RecordOK(k) /\ left \in SUBSET Apps /\ left \subseteq k.todo
    BY DEF WellFormed, Worker
  <1>2. worker'[w] = [k EXCEPT !.todo = left]
    BY SetRecord
  <1> HIDE DEF left
  <1>3. /\ worker'[w] \in Worker
        /\ worker'[w].pc = k.pc /\ worker'[w].task = k.task /\ worker'[w].pr = k.pr
        /\ worker'[w].listed = k.listed /\ worker'[w].copy = k.copy /\ worker'[w].todo = left
        /\ worker'[w].app = k.app
    BY <1>1, <1>2 DEF Worker
  <1>4. k.pc \notin {"idle", "rewrite"} \union Template => RecordOK(worker'[w])
    BY <1>1, <1>3 DEF RecordOK, Disables, Template, Restores, Syncs
  <1>5. QED
    BY <1>3, <1>4 DEF left

LEMMA RewriteRecord ==
    ASSUME WellFormed, NEW w \in Workers, NEW a \in worker[w].todo, NEW seen \in BOOLEAN,
           RewriteGet(w, a, seen), seen => a \in auto,
           \/ worker[w].pc = "sync"
           \/ worker[w].pc = "revert"
    PROVE  /\ worker'[w] \in Worker /\ RecordOK(worker'[w])
           /\ worker'[w].pc = "rewrite" /\ worker'[w].task = worker[w].task
           /\ worker'[w].pr = worker[w].pr /\ worker'[w].listed = worker[w].listed
           /\ worker'[w].copy = worker[w].copy /\ worker'[w].app = a /\ worker'[w].seen = seen
           /\ worker'[w].then = worker[w].pc
  <1> DEFINE k == worker[w]
             left == k.todo \ {a}
  <1>1. /\ k \in Worker /\ RecordOK(k) /\ left \in SUBSET Apps /\ left \subseteq k.todo
        /\ a \in Apps /\ (seen => a \in Automated)
    BY DEF WellFormed, SharedOK, Worker
  <1>2. worker'[w] = [k EXCEPT !.pc = "rewrite", !.then = k.pc, !.app = a, !.seen = seen,
                               !.todo = left]
    BY SetRecord DEF RewriteGet
  <1> HIDE DEF left
  <1>3. /\ worker'[w] \in Worker
        /\ worker'[w].pc = "rewrite" /\ worker'[w].task = k.task /\ worker'[w].pr = k.pr
        /\ worker'[w].listed = k.listed /\ worker'[w].copy = k.copy /\ worker'[w].todo = left
        /\ worker'[w].app = a /\ worker'[w].seen = seen /\ worker'[w].then = k.pc
    BY <1>1, <1>2 DEF Worker, PCs
  <1>4. k.pc = "sync" => k.task = "sync"
    BY <1>1 DEF RecordOK, Syncs
  <1>5. k.task \in {"sync", "close"} /\ k.pr \in PRs
    BY <1>1 DEF RecordOK, Syncs, Restores
  <1>6. RecordOK(worker'[w])
    BY <1>1, <1>3, <1>4, <1>5 DEF RecordOK, Disables, Template, Restores, Syncs
  <1>7. QED
    BY <1>3, <1>6

LEMMA RestoreRecords ==
    ASSUME WellFormed, NEW w \in Workers,
           \/ Sync(w) \/ Rewrite(w) \/ Merge(w) \/ Relist(w)
           \/ RestoreChildren(w) \/ RestoreParents(w) \/ RestoreSet(w) \/ ForgetSet(w)
           \/ Revert(w) \/ Unlock(w)
    PROVE  worker'[w] \in Worker /\ RecordOK(worker'[w])
  <1> USE DEF Disables, Template, Restores, Syncs
  <1> DEFINE k == worker[w]
  <1>1. /\ k \in Worker /\ RecordOK(k) /\ \A a \in Apps : Owner[a] \in AppSets \union {NoSet}
        /\ auto \subseteq (Apps \union AppSets) \intersect Automated
    BY Constants DEF WellFormed, SharedOK
  <1>2. ASSUME Return(w)
        PROVE  worker'[w] \in Worker /\ RecordOK(worker'[w])
    BY <1>2, SetRecord, Constants DEF Return
  <1>3. ASSUME NEW pc \in PCs, Loop(w, pc), k.pc # "idle",
               \/ pc \in {"sync", "merge"} /\ k.task = "sync"
               \/ pc \in {"parents", "sets", "revert", "unlock"} /\ k.task \in {"sync", "close"}
        PROVE  worker'[w] \in Worker /\ RecordOK(worker'[w])
    <2>1. worker'[w] = Looping(k, pc)
      BY <1>3, SetRecord DEF Loop, Looping
    <2>2. QED
      BY <1>1, <1>3, <2>1, LoopRecord
  <1>4. CASE Sync(w)
    <2>1. k.pc = "sync" /\ k.task = "sync"
      BY <1>1, <1>4 DEF Sync, At, RecordOK
    <2>2. ASSUME NEW a \in k.todo, NEW seen \in BOOLEAN, seen => a \in auto,
                 RewriteGet(w, a, seen)
          PROVE  worker'[w] \in Worker /\ RecordOK(worker'[w])
      BY <2>1, <2>2, RewriteRecord
    <2>3. QED
      BY <1>3, <1>4, <2>1, <2>2 DEF Sync, PCs
  <1>5. CASE Rewrite(w)
    <2>1. /\ worker'[w] = [k EXCEPT !.pc = k.then, !.then = "idle", !.app = NoApp,
                                    !.seen = FALSE]
          /\ k.pc = "rewrite"
      BY <1>5, SetRecord DEF Rewrite, At
    <2>2. k.then \in {"sync", "revert"} /\ (k.task = "close" => k.then = "revert")
      BY <1>1, <2>1 DEF RecordOK
    <2>3. /\ worker'[w] \in Worker
          /\ worker'[w].pc = k.then /\ worker'[w].task = k.task /\ worker'[w].pr = k.pr
          /\ worker'[w].listed = k.listed /\ worker'[w].copy = k.copy
          /\ worker'[w].todo = k.todo
      BY <1>1, <2>1 DEF Worker, PCs
    <2>4. QED
      BY <1>1, <2>1, <2>2, <2>3 DEF RecordOK
  <1>6. CASE Merge(w)
    <2>1. k.pc = "merge" /\ k.task = "sync"
      BY <1>1, <1>6 DEF Merge, At, RecordOK
    <2>2. QED
      BY <1>2, <1>3, <1>6, <2>1 DEF Merge, PCs
  <1>7. CASE Relist(w)
    <2> DEFINE l == List(w, k.pr, Held(k.pr))
    <2>1. worker'[w] = [l EXCEPT !.pc = "children"] /\ k.pc = "list"
      BY <1>7, SetRecord DEF Relist, At
    <2>2. k.task = "sync" /\ k.pr \in PRs
      BY <1>1, <2>1 DEF RecordOK
    <2>3. /\ l \in Worker /\ l.listed = Held(k.pr) /\ l.todo = Held(k.pr) /\ l.pr = k.pr
          /\ l.task = k.task
          /\ \A a \in Apps : l.copy[a] = IF a \in Held(k.pr) THEN lock[a] ELSE NoLock
      BY <2>2, ListRecord DEF Held
    <2>4. \A a \in Apps : l.copy[a].saved => a \in Automated
      BY <2>3 DEF WellFormed, SharedOK, LockOK, NoLock
    <2> HIDE DEF l
    <2>5. /\ worker'[w] \in Worker /\ worker'[w].pc = "children" /\ worker'[w].task = l.task
          /\ worker'[w].pr = l.pr /\ worker'[w].listed = l.listed /\ worker'[w].todo = l.todo
          /\ worker'[w].copy = l.copy
      BY <2>1, <2>3 DEF Worker, PCs
    <2>6. QED
      BY <2>2, <2>3, <2>4, <2>5 DEF RecordOK
  <1>8. ASSUME NEW pc \in {"children", "parents"}, NEW S, NEW next \in {"parents", "sets"},
               RestoreApps(w, pc, S, next)
        PROVE  worker'[w] \in Worker /\ RecordOK(worker'[w])
    <2>1. k.pc = pc /\ k.task \in {"sync", "close"}
      BY <1>1, <1>8 DEF RestoreApps, At, RecordOK
    <2>2. CASE Loop(w, next)
      BY <1>3, <2>1, <2>2 DEF PCs
    <2>3. CASE \E a : Set(w, [k EXCEPT !.todo = @ \ {a}])
      BY <2>1, <2>3, TakeRecord
    <2>4. QED
      BY <1>8, <2>2, <2>3 DEF RestoreApps
  <1>9. CASE RestoreChildren(w) \/ RestoreParents(w)
    BY <1>8, <1>9 DEF RestoreChildren, RestoreParents
  <1>10. CASE RestoreSet(w)
    <2>1. k.pc = "sets" /\ k.task \in {"sync", "close"} /\ k.pr \in PRs
      BY <1>1, <1>10 DEF RestoreSet, At, RecordOK
    <2>2. CASE \E pc \in {"revert", "unlock"} : Loop(w, pc)
      BY <1>3, <2>1, <2>2 DEF PCs
    <2>3. CASE \E a : Set(w, [k EXCEPT !.todo = @ \ {a}])
      BY <2>1, <2>3, TakeRecord
    <2>4. ASSUME NEW a \in k.todo, <<Owner[a], k.pr>> \in kept,
                 Set(w, [k EXCEPT !.pc = "forget", !.app = a, !.todo = @ \ {a}])
          PROVE  worker'[w] \in Worker /\ RecordOK(worker'[w])
      <3> DEFINE left == k.todo \ {a}
      <3>1. left \in SUBSET Apps /\ left \subseteq k.todo /\ a \in Apps
        BY <1>1, <2>4 DEF Worker
      <3>5. Owner[a] # NoSet
        BY <2>4, AutoSyncAssumption DEF WellFormed, SharedOK
      <3>2. worker'[w] = [k EXCEPT !.pc = "forget", !.app = a, !.todo = left]
        BY <2>4, SetRecord
      <3> HIDE DEF left
      <3>3. /\ worker'[w] \in Worker /\ worker'[w].pc = "forget" /\ worker'[w].task = k.task
            /\ worker'[w].pr = k.pr /\ worker'[w].listed = k.listed
            /\ worker'[w].todo = left /\ worker'[w].copy = k.copy /\ worker'[w].app = a
        BY <1>1, <3>1, <3>2 DEF Worker, PCs
      <3>4. QED
        BY <1>1, <2>1, <3>1, <3>3, <3>5 DEF RecordOK
    <2>5. QED
      BY <1>10, <2>2, <2>3, <2>4 DEF RestoreSet
  <1>11. CASE ForgetSet(w)
    <2>1. worker'[w] = [k EXCEPT !.pc = "sets", !.app = NoApp] /\ k.pc = "forget"
      BY <1>11, SetRecord DEF ForgetSet, At
    <2>2. QED
      BY <1>1, <2>1 DEF RecordOK, Worker, PCs
  <1>12. CASE Revert(w)
    <2>1. k.pc = "revert" /\ k.task \in {"sync", "close"}
      BY <1>1, <1>12 DEF Revert, At, RecordOK
    <2>2. ASSUME NEW a \in k.todo, RewriteGet(w, a, a \in auto)
          PROVE  worker'[w] \in Worker /\ RecordOK(worker'[w])
      <3>1. CASE a \in auto
        <4>1. (a \in auto) = TRUE
          BY <3>1
        <4>2. RewriteGet(w, a, TRUE)
          BY <2>2, <4>1, Zenon
        <4>3. QED
          BY <2>1, <3>1, <4>2, RewriteRecord
      <3>2. CASE a \notin auto
        <4>1. (a \in auto) = FALSE
          BY <3>2
        <4>2. RewriteGet(w, a, FALSE)
          BY <2>2, <4>1, Zenon
        <4>3. QED
          BY <2>1, <4>2, RewriteRecord
      <3>3. QED
        BY <3>1, <3>2
    <2>3. CASE k.task # "close" /\ Go(w, "list")
      <3>1. worker'[w] = [k EXCEPT !.pc = "list"]
        BY <2>3, GoRecord, SetRecord
      <3>2. QED
        BY <1>1, <2>1, <2>3, <3>1 DEF RecordOK, Worker, PCs
    <2>4. QED
      BY <1>3, <1>12, <2>1, <2>2, <2>3 DEF Revert, PCs
  <1>13. CASE Unlock(w)
    <2>1. k.pc = "unlock"
      BY <1>13 DEF Unlock, At
    <2>2. CASE \E a : Set(w, [k EXCEPT !.todo = @ \ {a}])
      BY <2>1, <2>2, TakeRecord
    <2>3. QED
      BY <1>2, <1>13, <2>2 DEF Unlock
  <1>14. QED
    BY <1>4, <1>5, <1>6, <1>7, <1>9, <1>10, <1>11, <1>12, <1>13
-----------------------------------------------------------------------------

\* What the steps do to the shared state.
LEMMA LockChanges ==
    ASSUME SharedOK, NEW a \in Apps, NEW l \in Lock, lock' = [lock EXCEPT ![a] = l],
           l.pr = NoPR => l = NoLock, l.named => Owner[a] # NoSet, l.saved => a \in Automated
    PROVE  lock' \in [Apps -> Lock] /\ \A b \in Apps : LockOK(b)'
  <1>1. lock' \in [Apps -> Lock] /\ \A b \in Apps : lock'[b] = IF b = a THEN l ELSE lock[b]
    BY DEF SharedOK
  <1>2. QED
    BY <1>1 DEF SharedOK, LockOK

LEMMA LockFreed ==
    ASSUME SharedOK, NEW a \in Apps, NEW p,
           \/ lock' = [lock EXCEPT ![a] = NoLock]
           \/ lock' = IF lock[a].pr = p THEN [lock EXCEPT ![a] = NoLock] ELSE lock
    PROVE  lock' \in [Apps -> Lock] /\ \A b \in Apps : LockOK(b)'
  <1>1. CASE lock' = lock
    BY <1>1 DEF SharedOK, LockOK
  <1>2. CASE lock' = [lock EXCEPT ![a] = NoLock]
    BY <1>2, LockChanges, Constants DEF NoLock
  <1>3. QED
    BY <1>1, <1>2

LEMMA BeginShared ==
    ASSUME WellFormed, NEW w \in Workers, Begin(w)
    PROVE  SharedOK'
  <1> USE DEF WellFormed
  <1>1. ASSUME NEW p \in PRs, NEW a \in Apps, Plan(w, p, a)
        PROVE  SharedOK'
    <2> DEFINE l == IF lock[a] = NoLock THEN NewLock(p, TRUE)
                    ELSE [lock[a] EXCEPT !.planned = TRUE]
    <2>1. lock' = [lock EXCEPT ![a] = l]
      BY <1>1 DEF Plan
    <2>2. CASE lock[a] = NoLock
      <3>1. l = NewLock(p, TRUE) /\ l \in Lock
        BY <2>2, Constants
      <3>2. l.pr = p /\ ~l.named /\ ~l.saved
        BY <3>1 DEF NewLock, NoLock
      <3> HIDE DEF l
      <3>3. lock' \in [Apps -> Lock] /\ \A b \in Apps : LockOK(b)'
        BY <2>1, <3>1, <3>2, LockChanges, AutoSyncAssumption
      <3>4. QED
        BY <1>1, <3>3 DEF Plan, SharedOK
    <2>3. CASE lock[a] # NoLock
      <3>1. lock[a] \in Lock /\ LockOK(a)
        BY DEF SharedOK
      <3>2. /\ l \in Lock /\ l.pr = lock[a].pr /\ l.named = lock[a].named
            /\ l.saved = lock[a].saved
        BY <2>3, <3>1 DEF Lock
      <3> HIDE DEF l
      <3>3. lock' \in [Apps -> Lock] /\ \A b \in Apps : LockOK(b)'
        BY <2>1, <2>3, <3>1, <3>2, LockChanges DEF LockOK
      <3>4. QED
        BY <1>1, <3>3 DEF Plan, SharedOK
    <2>4. QED
      BY <2>2, <2>3
  <1>2. ASSUME NEW p \in PRs, NEW a \in Apps, BeginRollback(w, p, a)
        PROVE  SharedOK'
    BY <1>2 DEF BeginRollback, SharedOK, Excuse, Affected, Members, LockOK
  <1>3. ASSUME NEW p \in PRs, BeginSync(w, p) \/ BeginRollbackAll(w, p) \/ BeginUnlockAll(w, p)
        PROVE  SharedOK'
    BY <1>3 DEF BeginSync, BeginRollbackAll, BeginUnlockAll, SharedOK, LockOK
  <1>4. QED
    BY <1>1, <1>2, <1>3 DEF Begin

LEMMA DisableShared ==
    ASSUME WellFormed, NEW w \in Workers,
           \/ BuildParentMap(w) \/ NextApp(w) \/ DisableGet(w) \/ DisablePut(w)
           \/ DisableFails(w) \/ Save(w) \/ SetGet(w) \/ SetPut(w) \/ SetStore(w)
           \/ FindParents(w) \/ LockParent(w)
    PROVE  SharedOK'
  <1> DEFINE k == worker[w]
             a == k.app
  <1>1. /\ k \in Worker /\ RecordOK(k) /\ SharedOK
        /\ \A b \in Apps : LockOK(b) /\ lock[b] \in Lock /\ Owner[b] \in AppSets \union {NoSet}
        /\ \A b \in Apps : Affected(b) \subseteq Apps
    BY Constants DEF WellFormed, SharedOK, Affected, Members
  <1>2. CASE BuildParentMap(w) \/ NextApp(w) \/ DisableGet(w) \/ SetGet(w) \/ FindParents(w)
    BY <1>1, <1>2 DEF BuildParentMap, NextApp, DisableGet, SetGet, FindParents, SharedOK, LockOK
  <1>3. CASE DisablePut(w) \/ SetPut(w)
    BY <1>1, <1>3 DEF DisablePut, SetPut, SharedOK, LockOK
  <1>4. CASE DisableFails(w)
    <2>1. a \in Apps
      BY <1>1, <1>4 DEF DisableFails, At, RecordOK
    <2>2. /\ \/ lock' = lock
             \/ lock' = IF lock[a].pr = k.pr THEN [lock EXCEPT ![a] = NoLock] ELSE lock
          /\ auto' = auto /\ kept' = kept /\ excused' \subseteq Apps
      BY <1>1, <1>4, <2>1 DEF DisableFails, Excuse, SharedOK
    <2>3. lock' \in [Apps -> Lock] /\ \A b \in Apps : LockOK(b)'
      <3>1. CASE lock' = lock
        BY <1>1, <3>1 DEF SharedOK, LockOK
      <3>2. QED
        BY <1>1, <2>1, <2>2, <3>1, LockFreed
    <2>4. QED
      BY <1>1, <2>2, <2>3 DEF SharedOK
  <1>5. CASE Save(w)
    <2>1. a \in Apps /\ a \in Automated
      BY <1>1, <1>5 DEF Save, At, RecordOK
    <2> DEFINE named == Named(w, lock[a])
               parent == lock[a].parent \/ k.asParent
               l == [lock[a] EXCEPT !.saved = TRUE, !.named = named, !.parent = parent]
    <2>2. auto' = auto /\ kept' = kept /\ excused' \subseteq Apps
      BY <1>1, <1>5, <2>1 DEF Save, Excuse, SharedOK
    <2>3. CASE lock' = lock
      BY <1>1, <2>2, <2>3 DEF SharedOK, LockOK
    <2>4. CASE /\ lock[a] # NoLock
               /\ lock' = [lock EXCEPT ![a].saved = TRUE, ![a].named = named,
                                       ![a].parent = @ \/ k.asParent]
      <3>1. lock[a] \in Lock /\ LockOK(a)
        BY <1>1, <2>1
      <3>2. named \in BOOLEAN /\ parent \in BOOLEAN /\ (named => Owner[a] # NoSet)
        BY <1>1, <2>1, <3>1 DEF Named, Lock, Worker, LockOK
      <3>3. lock' = [lock EXCEPT ![a] = l]
        BY <1>1, <2>1, <2>4 DEF SharedOK, Lock
      <3>4. l \in Lock /\ l.pr = lock[a].pr /\ l.named = named
        <4> HIDE DEF named, parent
        <4>1. QED
          BY <3>1, <3>2 DEF Lock
      <3> HIDE DEF l, named
      <3>5. lock' \in [Apps -> Lock] /\ \A b \in Apps : LockOK(b)'
        BY <1>1, <2>1, <2>4, <3>1, <3>2, <3>3, <3>4, LockChanges DEF LockOK
      <3>6. QED
        BY <1>1, <2>2, <3>5 DEF SharedOK
    <2>5. QED
      BY <1>5, <2>3, <2>4 DEF Save
  <1>6. CASE SetStore(w)
    <2>1. Owner[a] \in AppSets /\ Owner[a] \in Automated /\ k.pr \in PRs
      BY <1>1, <1>6 DEF SetStore, At, RecordOK, Template
    <2>2. /\ kept' \subseteq kept \union {<<Owner[a], k.pr>>}
          /\ auto' = auto /\ lock' = lock /\ excused' \subseteq Apps
      BY <1>1, <1>6 DEF SetStore, Excuse, Members, SharedOK
    <2>3. \A s \in AppSets, p \in PRs : <<s, p>> \in kept' => s \in Automated
      BY <1>1, <2>1, <2>2 DEF SharedOK
    <2>4. kept' \subseteq AppSets \X PRs
      BY <1>1, <2>1, <2>2 DEF SharedOK
    <2>5. QED
      BY <1>1, <2>2, <2>3, <2>4 DEF SharedOK, LockOK
  <1>7. CASE LockParent(w)
    <2>1. auto' = auto /\ kept' = kept /\ excused' = excused /\ k.pr \in PRs
      BY <1>1, <1>7 DEF LockParent, At, RecordOK
    <2>2. CASE lock' = lock
      BY <1>1, <2>1, <2>2 DEF SharedOK, LockOK
    <2>3. CASE \E b \in k.up : lock' = [lock EXCEPT ![b] = NewLock(k.pr, FALSE)]
      <3>1. PICK b \in k.up : lock' = [lock EXCEPT ![b] = NewLock(k.pr, FALSE)]
        BY <2>3
      <3>2. b \in Apps
        BY <1>1, <3>1 DEF Worker
      <3>3. LET l == NewLock(k.pr, FALSE) IN
            l \in Lock /\ l.pr = k.pr /\ ~l.named /\ ~l.saved
        BY <2>1, Constants DEF NewLock, NoLock
      <3>4. lock' \in [Apps -> Lock] /\ \A c \in Apps : LockOK(c)'
        BY <1>1, <2>1, <3>1, <3>2, <3>3, LockChanges, AutoSyncAssumption
      <3>5. QED
        BY <1>1, <2>1, <3>4 DEF SharedOK
    <2>4. QED
      BY <1>7, <2>2, <2>3 DEF LockParent
  <1>8. QED
    BY <1>2, <1>3, <1>4, <1>5, <1>6, <1>7

LEMMA RestoreShared ==
    ASSUME WellFormed, NEW w \in Workers,
           \/ Sync(w) \/ Rewrite(w) \/ Merge(w) \/ Relist(w)
           \/ RestoreChildren(w) \/ RestoreParents(w) \/ RestoreSet(w) \/ ForgetSet(w)
           \/ Revert(w) \/ Unlock(w)
    PROVE  SharedOK'
  <1> DEFINE k == worker[w]
  <1>1. k \in Worker /\ RecordOK(k) /\ SharedOK /\ \A s : Members(s) \subseteq Apps
    BY DEF WellFormed, Members
  <1>2. CASE Sync(w) \/ Merge(w) \/ Relist(w) \/ Revert(w)
    BY <1>1, <1>2 DEF Sync, Merge, Relist, Revert, SharedOK, LockOK
  <1>3. CASE Rewrite(w)
    <2>1. k.seen => k.app \in Apps /\ k.app \in Automated
      BY <1>1, <1>3 DEF Rewrite, At, RecordOK
    <2>2. QED
      BY <1>1, <1>3, <2>1 DEF Rewrite, SharedOK, LockOK
  <1>4. ASSUME NEW pc, NEW S, NEW next, RestoreApps(w, pc, S, next)
        PROVE  SharedOK'
    <2>1. \A a \in k.todo : a \in Apps /\ (k.copy[a].saved => a \in Automated)
      BY <1>1 DEF Worker, RecordOK
    <2>2. auto' \subseteq (Apps \union AppSets) \intersect Automated /\ excused' \subseteq Apps
      BY <1>1, <1>4, <2>1 DEF RestoreApps, SharedOK, Excuse
    <2>3. QED
      BY <1>1, <1>4, <2>2 DEF RestoreApps, SharedOK, LockOK
  <1>5. CASE RestoreChildren(w) \/ RestoreParents(w)
    BY <1>4, <1>5 DEF RestoreChildren, RestoreParents
  <1>6. CASE RestoreSet(w)
    <2>1. k.pr \in PRs /\ \A a \in k.todo : a \in Apps
      BY <1>1, <1>6 DEF RestoreSet, At, RecordOK, Worker
    <2>2. ASSUME NEW a \in k.todo, <<Owner[a], k.pr>> \in kept
          PROVE  Owner[a] \in AppSets /\ Owner[a] \in Automated
      BY <1>1, <2>1, <2>2 DEF SharedOK
    <2>3. auto' \subseteq (Apps \union AppSets) \intersect Automated /\ excused' \subseteq Apps
      BY <1>1, <1>6, <2>2 DEF RestoreSet, SharedOK, Excuse
    <2>4. QED
      BY <1>1, <1>6, <2>3 DEF RestoreSet, SharedOK, LockOK
  <1>7. CASE ForgetSet(w)
    BY <1>1, <1>7 DEF ForgetSet, SharedOK, LockOK
  <1>8. CASE Unlock(w)
    <2>1. auto' = auto /\ kept' = kept /\ excused' = excused
      BY <1>8 DEF Unlock
    <2>2. lock' \in [Apps -> Lock] /\ \A b \in Apps : LockOK(b)'
      <3>1. CASE lock' = lock
        BY <1>1, <3>1 DEF SharedOK, LockOK
      <3>2. CASE \E a \in k.todo :
                   lock' = IF lock[a].pr = k.pr THEN [lock EXCEPT ![a] = NoLock] ELSE lock
        BY <1>1, <3>2, LockFreed DEF Worker
      <3>3. QED
        BY <1>8, <3>1, <3>2 DEF Unlock
    <2>3. QED
      BY <1>1, <2>1, <2>2 DEF SharedOK
  <1>9. QED
    BY <1>2, <1>3, <1>5, <1>6, <1>7, <1>8

LEMMA OtherShared ==
    ASSUME WellFormed,
           \/ \E w \in Workers : Crash(w)
           \/ \E a \in Apps : Release(a) \/ SyncParent(a)
           \/ \E s \in AppSets : Reconcile(s)
           \/ \E s \in AppSets, p \in PRs : KeyExpires(s, p)
    PROVE  SharedOK'
  <1>1. SharedOK /\ \A s : Members(s) \subseteq Apps
    BY DEF WellFormed, Members
  <1>2. ASSUME NEW w \in Workers, Crash(w)
        PROVE  SharedOK'
    <2>1. At(w, "save") => worker[w].app \in Apps
      BY DEF WellFormed, RecordOK, At
    <2>2. excused' \subseteq Apps
      BY <1>1, <1>2, <2>1 DEF Crash, Excuse, SharedOK
    <2>3. QED
      BY <1>1, <1>2, <2>2 DEF Crash, SharedOK, LockOK
  <1>3. ASSUME NEW a \in Apps, Release(a)
        PROVE  SharedOK'
    <2>1. lock' \in [Apps -> Lock] /\ \A b \in Apps : LockOK(b)'
      BY <1>1, <1>3, LockFreed DEF Release
    <2>2. QED
      BY <1>1, <1>3, <2>1 DEF Release, Excuse, Affected, SharedOK
  <1>4. ASSUME NEW a \in Apps, SyncParent(a)
        PROVE  SharedOK'
    BY <1>1, <1>4 DEF SyncParent, SharedOK, LockOK
  <1>5. ASSUME NEW s \in AppSets, Reconcile(s)
        PROVE  SharedOK'
    <2>1. s \in auto => Members(s) \subseteq Automated
      BY <1>1, AutoSyncAssumption DEF Members, SharedOK
    <2>2. QED
      BY <1>1, <1>5, <2>1 DEF Reconcile, SharedOK, LockOK
  <1>6. ASSUME NEW s \in AppSets, NEW p \in PRs, KeyExpires(s, p)
        PROVE  SharedOK'
    BY <1>1, <1>6 DEF KeyExpires, Excuse, SharedOK, LockOK
  <1>7. QED
    BY <1>2, <1>3, <1>4, <1>5, <1>6

LEMMA InitWellFormed == Init => WellFormed
  <1>1. SUFFICES ASSUME Init
                 PROVE  WellFormed
    OBVIOUS
  <1>2. SharedOK
    BY <1>1, Constants, AutoSyncAssumption DEF Init, SharedOK, LockOK, Copies, NoLock
  <1>3. worker \in [Workers -> Worker] /\ \A w \in Workers : RecordOK(worker[w])
    BY <1>1, Constants DEF Init
  <1>4. QED
    BY <1>2, <1>3 DEF WellFormed

\* A step is of one worker, which changes its own record only, or of none.
LEMMA OneWorker ==
    ASSUME WellFormed, NEW w \in Workers, Begin(w) \/ Step(w) \/ Crash(w)
    PROVE  /\ \A v \in Workers \ {w} : worker'[v] = worker[v]
           /\ worker'[w] \in Worker /\ RecordOK(worker'[w]) /\ worker' \in [Workers -> Worker]
  <1>1. CASE \E r : Set(w, r)
    <2>1. \A v \in Workers \ {w} : worker'[v] = worker[v]
      BY <1>1, SetRecord
    <2>2. worker'[w] \in Worker /\ RecordOK(worker'[w])
      <3>1. CASE Crash(w)
        BY <3>1, SetRecord, Constants DEF Crash, Return
      <3>2. CASE Step(w)
        BY <3>2, DisableRecords, RestoreRecords DEF Step
      <3>3. CASE Begin(w)
        <4>1. CASE \E p \in PRs, a \in Apps : Plan(w, p, a)
          BY <4>1 DEF Plan, WellFormed
        <4>2. QED
          BY <3>3, <4>1, BeginRecords DEF Begin
      <3>4. QED
        BY <3>1, <3>2, <3>3
    <2>3. QED
      BY <1>1, <2>1, <2>2 DEF Set, WellFormed
  <1>2. CASE worker' = worker
    BY <1>2 DEF WellFormed
  <1>3. CASE Begin(w) \/ Crash(w)
    BY <1>1, <1>2, <1>3 DEF Begin, BeginSync, BeginRollbackAll, BeginUnlockAll, BeginRollback,
          Plan, Crash, Return
  <1>4. CASE Step(w)
    <2>1. ASSUME NEW pc, Go(w, pc)
          PROVE  \E r : Set(w, r)
      BY <2>1, GoRecord
    <2>2. \E r : Set(w, r)
      <3>1. CASE NextApp(w) \/ BuildParentMap(w)
        BY <3>1 DEF NextApp, BuildParentMap, Loop, Return
      <3>2. CASE DisableGet(w) \/ DisablePut(w) \/ DisableFails(w)
        BY <2>1, <3>2 DEF DisableGet, DisablePut, DisableFails, Return
      <3>3. CASE Save(w)
        BY <2>1, <3>3 DEF Save, Return
      <3>4. CASE SetGet(w) \/ SetPut(w) \/ SetStore(w)
        BY <2>1, <3>4 DEF SetGet, SetPut, SetStore
      <3>5. CASE FindParents(w) \/ LockParent(w)
        BY <3>5 DEF FindParents, LockParent
      <3>6. CASE Sync(w) \/ Rewrite(w) \/ Merge(w) \/ Relist(w)
        BY <3>6 DEF Sync, Rewrite, Merge, Relist, RewriteGet, Loop, Return
      <3>7. CASE RestoreChildren(w) \/ RestoreParents(w)
        BY <3>7 DEF RestoreChildren, RestoreParents, RestoreApps, Loop
      <3>8. CASE RestoreSet(w) \/ ForgetSet(w)
        BY <3>8 DEF RestoreSet, ForgetSet, Loop
      <3>9. CASE Revert(w) \/ Unlock(w)
        BY <2>1, <3>9 DEF Revert, Unlock, RewriteGet, Loop, Return
      <3>10. QED
        BY <1>4, <3>1, <3>2, <3>3, <3>4, <3>5, <3>6, <3>7, <3>8, <3>9 DEF Step
    <2>3. QED
      BY <1>1, <2>2
  <1>5. QED
    BY <1>3, <1>4

LEMMA NextWellFormed == WellFormed /\ [Next]_vars => WellFormed'
  <1>1. SUFFICES ASSUME WellFormed, [Next]_vars
                 PROVE  WellFormed'
    OBVIOUS
  <1>2. ASSUME NEW w \in Workers, Begin(w) \/ Step(w) \/ Crash(w)
        PROVE  WellFormed'
    <2>1. SharedOK'
      BY <1>1, <1>2, BeginShared, DisableShared, RestoreShared, OtherShared DEF Step
    <2>2. QED
      BY <1>1, <1>2, <2>1, OneWorker DEF WellFormed
  <1>3. CASE \/ \E a \in Apps : Release(a) \/ SyncParent(a)
             \/ \E s \in AppSets : Reconcile(s)
             \/ \E s \in AppSets, p \in PRs : KeyExpires(s, p)
    <2>1. SharedOK' /\ worker' = worker
      BY <1>1, <1>3, OtherShared DEF Release, SyncParent, Reconcile, KeyExpires
    <2>2. QED
      BY <1>1, <2>1 DEF WellFormed
  <1>4. CASE UNCHANGED vars
    BY <1>1, <1>4 DEF vars, WellFormed, SharedOK, LockOK
  <1>5. QED
    BY <1>1, <1>2, <1>3, <1>4 DEF Next

\* Every reachable state is well formed.
THEOREM AlwaysWellFormed == Spec => []WellFormed
  BY InitWellFormed, NextWellFormed, PTL DEF Spec

\* The locks, the keys and the workers' records hold what the code may put there, at every
\* step of a sync, a rollback, an unlock and the faults between them.
THEOREM TypeCorrect == Spec => []TypeOK
  <1>1. WellFormed => TypeOK
    BY DEF WellFormed, SharedOK, TypeOK
  <1>2. QED
    BY <1>1, AlwaysWellFormed, PTL

\* autosync.go restores only what it disabled: no application and no template that had no
\* auto-sync to begin with ever gets it, whatever fails and whatever overlaps.
THEOREM NothingAdded == Spec => [](auto \subseteq Automated)
  <1>1. WellFormed => auto \subseteq Automated
    BY DEF WellFormed, SharedOK
  <1>2. QED
    BY <1>1, AlwaysWellFormed, PTL

-----------------------------------------------------------------------------

(* Why nothing is forgotten.  Where the tasks of a pull request do not overlap, only its *)
(* own task changes what the locks and the keys of a pull request remember, unless an    *)
(* unlock or a fault took the lock away, which excuses everything the lock stood for.    *)

\* The automated applications that no ApplicationSet generates: their policies are their own.
Plain == {a \in Apps \intersect Automated : Owner[a] = NoSet}

Lost(a) == Affected(a) \subseteq excused
Back(a) == a \in auto \/ a \in excused
Carries(p, a) == lock[a].pr = p /\ lock[a].named
KeptBy(p, a) == <<Owner[a], p>> \in kept

Apart == \A v, w \in Workers :
    v # w /\ worker[v].pr = worker[w].pr => worker[v].pr = NoPR

\* The applications whose locks a worker takes to be its pull request's.
Relies(w) ==
    LET k == worker[w] IN
    IF k.pc = "unlock" THEN k.todo
    ELSE k.listed \union (IF k.pc \in {"get", "put", "save"} \union Template THEN {k.app} ELSE {})

Holding(w) == \A a \in Relies(w) : lock[a].pr = worker[w].pr \/ Lost(a)

\* A sync has saved what it went through, and once it is through, every policy.
Remembering(w) ==
    LET k == worker[w] IN
    k.task = "sync" =>
      /\ k.pc \in Disables =>
           \A a \in (k.listed \intersect Plain) \ k.todo :
              lock[a].saved \/ a \in excused \/ (k.pc \in {"get", "put", "save"} /\ k.app = a)
      /\ k.pc \in Syncs \union {"revert", "rewrite"} =>
           \A a \in k.listed \intersect Plain : lock[a].saved \/ a \in excused

\* A restore gives back every policy before the first lock is released.
Restoring(w) ==
    LET k == worker[w]
        closing == k.task = "close" /\ k.pc \in {"revert", "rewrite"}
    IN
    /\ k.pc = "children" => \A a \in k.listed \intersect Plain :
          Back(a) \/ (k.copy[a].saved /\ (a \in k.todo \/ k.copy[a].parent))
    /\ k.pc = "parents" => \A a \in k.listed \intersect Plain :
          Back(a) \/ (k.copy[a].saved /\ a \in k.todo /\ k.copy[a].parent)
    /\ k.pc \in {"sets", "forget"} \/ closing => \A a \in k.listed \intersect Plain : Back(a)
    /\ closing /\ k.pc = "rewrite" /\ k.app \in Plain => k.seen \/ k.app \in excused
    /\ k.pc = "unlock" => \A a \in k.todo \intersect Plain : Back(a)

\* A template is only switched off under a lock that names it, and a lock that names a
\* template whose policy is kept is only released after the template has it back.
Naming(w) ==
    LET k == worker[w]
        closing == k.task = "close" /\ k.pc \in {"revert", "rewrite"}
    IN
    /\ k.pc \in Template => lock[k.app].named \/ Lost(k.app)
    /\ k.pc \in {"children", "parents", "sets", "forget"} =>
          \A a \in Apps : Carries(k.pr, a) => Lost(a) \/ (a \in k.listed /\ k.copy[a].named)
    /\ k.pc \in {"sets", "forget"} =>
          \A a \in Apps : Carries(k.pr, a) /\ KeptBy(k.pr, a) =>
             Lost(a) \/ a \in k.todo \/ (k.pc = "forget" /\ Owner[k.app] = Owner[a])
    /\ k.pc = "unlock" \/ closing =>
          \A a \in Apps : Carries(k.pr, a) /\ KeptBy(k.pr, a) => Lost(a)

Sound(w) == Holding(w) /\ Remembering(w) /\ Restoring(w) /\ Naming(w)

PlainKept == \A a \in Plain \ excused : a \in auto \/ lock[a].saved \/ Saving(a)

Storing(s) == \E w \in Workers : At(w, "set.store") /\ Owner[worker[w].app] = s
Forgetting(s, p) ==
    \E w \in Workers : At(w, "forget") /\ worker[w].pr = p /\ Owner[worker[w].app] = s
Keeper(s, p) == /\ <<s, p>> \in kept /\ ~Forgetting(s, p)
                /\ \E a \in Members(s) : Carries(p, a)
SetKept == \A s \in Automated \intersect AppSets :
    s \in auto \/ Storing(s) \/ (\E p \in PRs : Keeper(s, p)) \/ Members(s) \subseteq excused

Remembered == WellFormed /\ Apart /\ PlainKept /\ SetKept /\ \A w \in Workers : Sound(w)

-----------------------------------------------------------------------------

LEMMA IdleSound ==
    /\ \A w \in Workers : worker[w] = Idle => Sound(w)
    /\ \A w \in Workers : worker'[w] = Idle => Sound(w)'
  <1>1. Idle.pc = "idle" /\ Idle.listed = {} /\ Idle.task = "none"
    BY DEF Idle
  <1>2. ASSUME NEW w \in Workers, worker[w] = Idle
        PROVE  Sound(w)
    BY <1>1, <1>2 DEF Sound, Holding, Relies, Remembering, Restoring, Naming, Template
  <1>3. ASSUME NEW w \in Workers, worker'[w] = Idle
        PROVE  Sound(w)'
    BY <1>1, <1>3 DEF Sound, Holding, Relies, Remembering, Restoring, Naming, Template
  <1>4. QED
    BY <1>2, <1>3

\* What a step on behalf of the pull request q does to what the others rely on.
Touches(q) ==
    /\ excused \subseteq excused'
    /\ \A a \in Apps : \/ lock'[a] = lock[a]
                       \/ lock[a].pr \in {NoPR, q} /\ lock'[a].pr \in {NoPR, q}
                       \/ Lost(a)'
    /\ \A a \in Plain : a \in auto => Back(a)' \/ lock[a].pr = q
    /\ \A s, p : <<s, p>> \in kept' => <<s, p>> \in kept \/ p = q

LEMMA LostStays ==
    ASSUME excused \subseteq excused', NEW a
    PROVE  Lost(a) => Lost(a)'
  BY DEF Lost, Affected, Members

LEMMA LostExcused ==
    /\ \A a : Lost(a) => a \in excused
    /\ \A a : Lost(a)' => a \in excused'
  BY DEF Lost, Affected

\* What no task of the pull request touches stays as sound as it was.
LEMMA OthersSound ==
    ASSUME WellFormed, NEW v \in Workers, Sound(v), worker'[v] = worker[v],
           NEW q, q # worker[v].pr, Touches(q)
    PROVE  Sound(v)'
  <1> DEFINE k == worker[v]
             p == k.pr
  <1>1. CASE k.pc = "idle"
    BY <1>1, IdleSound DEF WellFormed, RecordOK
  <1>2. CASE k.pc # "idle"
    <2>1. p \in PRs /\ p # NoPR /\ p # q /\ worker'[v] = k /\ k \in Worker /\ k.todo \subseteq k.listed
      BY <1>2, AutoSyncAssumption DEF WellFormed, RecordOK
    <2>2. excused \subseteq excused' /\ \A a \in Apps : Lost(a) => Lost(a)'
      BY LostStays DEF Touches
    <2>3. ASSUME NEW a \in Apps, lock[a].pr = p \/ lock'[a].pr = p
          PROVE  lock'[a] = lock[a] \/ Lost(a)'
      BY <2>1, <2>3 DEF Touches
    <2>4. \A a \in Apps : KeptBy(p, a)' => KeptBy(p, a)
      BY <2>1 DEF Touches, KeptBy
    <2>5. \A a \in Apps : Carries(p, a)' => Carries(p, a) \/ Lost(a)'
      BY <2>1, <2>3 DEF Carries
    <2>6. Relies(v)' = Relies(v) /\ Relies(v) \subseteq Apps
      BY <2>1 DEF Relies, WellFormed, RecordOK, Worker, Template
    <2>7. \A a \in Relies(v) : (lock'[a] = lock[a] /\ lock[a].pr = p) \/ Lost(a)'
      BY <2>2, <2>3, <2>6 DEF Sound, Holding
    <2>8. \A a \in Relies(v) : a \in Plain /\ Back(a) => Back(a)'
      <3>1. ASSUME NEW a \in Relies(v), a \in Plain, a \in auto
            PROVE  Back(a)'
        BY <2>1, <2>7, <3>1, LostExcused DEF Touches, Back
      <3>2. QED
        BY <2>2, <3>1 DEF Back
    <2>9. Holding(v)'
      BY <2>1, <2>6, <2>7 DEF Holding
    <2>10. Remembering(v)'
      <3>1. \A a \in k.listed : k.pc # "unlock" /\ (lock[a].saved \/ a \in excused) =>
                                   lock'[a].saved \/ a \in excused'
        BY <2>2, <2>7, LostExcused DEF Relies
      <3>2. QED
        BY <2>1, <2>2, <3>1 DEF Sound, Remembering, Disables, Syncs
    <2>11. Restoring(v)'
      <3>1. k.pc # "unlock" => \A a \in k.listed \intersect Plain : Back(a) => Back(a)'
        BY <2>8 DEF Relies
      <3>2. k.pc = "unlock" => \A a \in k.todo \intersect Plain : Back(a) => Back(a)'
        BY <2>8 DEF Relies
      <3> HIDE DEF p
      <3>3. QED
        BY <2>1, <2>2, <3>1, <3>2 DEF Sound, Restoring
    <2>12. Naming(v)'
      <3>1. k.pc \in Template =>
               \E a \in Relies(v) : a = k.app /\ (lock'[a].named \/ Lost(a)')
        <4>1. k.pc \in Template => k.app \in Relies(v) /\ (lock[k.app].named \/ Lost(k.app))
          BY DEF Sound, Naming, Relies, Template
        <4>2. QED
          BY <2>2, <2>6, <2>7, <4>1
      <3>2. k.pc \in {"children", "parents", "sets", "forget"} =>
               \A a \in Apps : Carries(p, a)' => Lost(a)' \/ (a \in k.listed /\ k.copy[a].named)
        BY <2>2, <2>5 DEF Sound, Naming
      <3>3. k.pc \in {"sets", "forget"} =>
               \A a \in Apps : Carries(p, a)' /\ KeptBy(p, a)' =>
                  Lost(a)' \/ a \in k.todo \/ (k.pc = "forget" /\ Owner[k.app] = Owner[a])
        BY <2>2, <2>4, <2>5 DEF Sound, Naming
      <3>4. k.pc = "unlock" \/ (k.task = "close" /\ k.pc \in {"revert", "rewrite"}) =>
               \A a \in Apps : Carries(p, a)' /\ KeptBy(p, a)' => Lost(a)'
        BY <2>2, <2>4, <2>5 DEF Sound, Naming
      <3>5. QED
        BY <2>1, <3>1, <3>2, <3>3, <3>4 DEF Naming, Carries, KeptBy, Lost, Affected
    <2>13. QED
      BY <2>9, <2>10, <2>11, <2>12 DEF Sound
  <1>3. QED
    BY <1>1, <1>2

LEMMA BeginTouches ==
    ASSUME WellFormed, NEW w \in Workers, NEW p \in PRs,
           \/ BeginSync(w, p) \/ BeginRollbackAll(w, p) \/ BeginUnlockAll(w, p)
           \/ \E a \in Apps : Plan(w, p, a) \/ BeginRollback(w, p, a)
    PROVE  Touches(p) /\ \A v \in Workers : OneTaskPerPR => worker[v].pr # p
  <1>1. CASE \E a \in Apps : Plan(w, p, a)
    <2>1. PICK a \in Apps : Plan(w, p, a)
      BY <1>1
    <2> DEFINE l == IF lock[a] = NoLock THEN NewLock(p, TRUE)
                    ELSE [lock[a] EXCEPT !.planned = TRUE]
    <2>2. lock[a] \in Lock
      BY DEF WellFormed, SharedOK
    <2>3. l.pr \in {NoPR, p}
      BY <2>1, <2>2 DEF Plan, NewLock, NoLock, Lock
    <2>4. lock' = [lock EXCEPT ![a] = l]
      BY <2>1 DEF Plan
    <2> HIDE DEF l
    <2>5. \A b \in Apps : lock'[b] = IF b = a THEN l ELSE lock[b]
      BY <2>4 DEF WellFormed, SharedOK
    <2>6. QED
      BY <2>1, <2>3, <2>5 DEF Plan, May, Touches, Back
  <1>2. CASE \E a \in Apps : BeginRollback(w, p, a)
    BY <1>2 DEF BeginRollback, May, Touches, Excuse, Back
  <1>3. CASE BeginSync(w, p) \/ BeginRollbackAll(w, p) \/ BeginUnlockAll(w, p)
    BY <1>3 DEF BeginSync, BeginRollbackAll, BeginUnlockAll, May, Touches, Back
  <1>4. QED
    BY <1>1, <1>2, <1>3

LEMMA FreedTouches ==
    ASSUME WellFormed, NEW a \in Apps, NEW p,
           lock' = IF lock[a].pr = p THEN [lock EXCEPT ![a] = NoLock] ELSE lock
    PROVE  \A b \in Apps :
              \/ lock'[b] = lock[b]
              \/ b = a /\ lock[b].pr = p /\ lock'[b] = NoLock
  BY DEF WellFormed, SharedOK

LEMMA SavedLock ==
    ASSUME WellFormed, NEW w \in Workers, NEW a \in Apps, a = worker[w].app,
           lock' = [lock EXCEPT ![a].saved = TRUE, ![a].named = Named(w, lock[a]),
                                ![a].parent = @ \/ worker[w].asParent]
    PROVE  /\ \A b \in Apps \ {a} : lock'[b] = lock[b]
           /\ lock'[a].pr = lock[a].pr /\ lock'[a].saved /\ lock'[a].named = Named(w, lock[a])
  <1> DEFINE named == Named(w, lock[a])
             parent == lock[a].parent \/ worker[w].asParent
             l == [lock[a] EXCEPT !.saved = TRUE, !.named = named, !.parent = parent]
  <1>1. lock \in [Apps -> Lock] /\ worker[w] \in Worker
    BY DEF WellFormed, SharedOK
  <1>2. lock' = [lock EXCEPT ![a] = l]
    BY <1>1 DEF Lock
  <1>3. l.pr = lock[a].pr /\ l.saved /\ l.named = named
    <2> HIDE DEF named, parent
    <2>1. QED
      BY <1>1 DEF Lock
  <1> HIDE DEF l
  <1>4. QED
    BY <1>1, <1>2, <1>3

LEMMA StepTouches ==
    ASSUME WellFormed, NEW w \in Workers, Holding(w), Step(w)
    PROVE  Touches(worker[w].pr)
  <1> DEFINE k == worker[w]
             a == k.app
             p == k.pr
  <1>1. k \in Worker /\ RecordOK(k) /\ NoLock.pr = NoPR
    BY DEF WellFormed, NoLock
  <1>2. CASE BuildParentMap(w) \/ NextApp(w) \/ DisableGet(w) \/ SetGet(w) \/ FindParents(w)
    BY <1>2 DEF BuildParentMap, NextApp, DisableGet, SetGet, FindParents, Touches, Back
  <1>3. CASE Sync(w) \/ Merge(w) \/ Relist(w) \/ Revert(w)
    BY <1>3 DEF Sync, Merge, Relist, Revert, Touches, Back
  <1>4. CASE DisablePut(w) \/ Rewrite(w)
    <2>1. a \in Relies(w)
      BY <1>1, <1>4 DEF DisablePut, Rewrite, At, Relies, RecordOK
    <2>2. lock[a].pr = p \/ a \in excused
      BY <2>1, LostExcused DEF Holding
    <2>3. QED
      BY <1>4, <2>2 DEF DisablePut, Rewrite, Touches, Back
  <1>5. CASE DisableFails(w)
    <2>1. a \in Apps
      BY <1>1, <1>5 DEF DisableFails, At, RecordOK
    <2>2. CASE lock' = lock
      BY <1>5, <2>2 DEF DisableFails, Touches, Back, Excuse
    <2>3. CASE lock' = IF lock[a].pr = p THEN [lock EXCEPT ![a] = NoLock] ELSE lock
      <3>1. \A b \in Apps : lock'[b] = lock[b] \/ (lock[b].pr = p /\ lock'[b].pr = NoPR)
        BY <1>1, <2>1, <2>3, FreedTouches
      <3>2. QED
        BY <1>5, <3>1 DEF DisableFails, Touches, Back, Excuse
    <2>4. QED
      BY <1>5, <2>2, <2>3 DEF DisableFails
  <1>6. CASE Save(w)
    <2>1. a \in Apps /\ a \in Relies(w)
      BY <1>1, <1>6 DEF Save, At, RecordOK, Relies
    <2>2. auto' = auto /\ kept' = kept /\ excused \subseteq excused'
      BY <1>6 DEF Save, Excuse
    <2>3. CASE lock' = lock
      BY <2>2, <2>3 DEF Touches, Back
    <2>4. CASE lock' = [lock EXCEPT ![a].saved = TRUE, ![a].named = Named(w, lock[a]),
                                    ![a].parent = @ \/ k.asParent]
      <3>1. PICK c \in Apps : c = a
        BY <2>1
      <3>2. (\A b \in Apps \ {c} : lock'[b] = lock[b]) /\ lock'[c].pr = lock[c].pr
        BY <2>4, <3>1, SavedLock
      <3>3. lock[c].pr = p \/ Lost(c)'
        BY <2>1, <2>2, <3>1, LostStays DEF Holding
      <3>4. QED
        BY <2>2, <3>2, <3>3 DEF Touches, Back
    <2>5. QED
      BY <1>6, <2>3, <2>4 DEF Save
  <1>7. CASE SetPut(w)
    <2>1. Owner[a] \in AppSets
      BY <1>1, <1>7, Constants DEF SetPut, At, RecordOK, Template
    <2>2. Owner[a] \notin Plain
      BY <2>1, AutoSyncAssumption DEF Plain
    <2>3. QED
      BY <1>7, <2>2 DEF SetPut, Touches, Back
  <1>8. CASE SetStore(w)
    BY <1>8 DEF SetStore, Touches, Back, Excuse
  <1>9. CASE LockParent(w)
    <2>1. auto' = auto /\ kept' = kept /\ excused' = excused
      BY <1>9 DEF LockParent
    <2>2. CASE lock' = lock
      BY <2>1, <2>2 DEF Touches, Back
    <2>3. CASE \E b \in k.up : /\ lock[b].pr \in {NoPR, p}
                               /\ lock' = [lock EXCEPT ![b] = NewLock(p, FALSE)]
      <3>1. NewLock(p, FALSE).pr = p
        BY DEF NewLock, NoLock
      <3>2. \A b \in Apps : lock'[b] = lock[b] \/ (lock[b].pr \in {NoPR, p} /\ lock'[b].pr = p)
        BY <1>1, <2>3, <3>1 DEF WellFormed, SharedOK, Worker
      <3>3. QED
        BY <2>1, <3>2 DEF Touches, Back
    <2>4. QED
      BY <1>9, <2>2, <2>3 DEF LockParent
  <1>10. ASSUME NEW pc, NEW S, NEW next, RestoreApps(w, pc, S, next)
         PROVE  Touches(p)
    BY <1>10 DEF RestoreApps, Touches, Back, Excuse
  <1>11. CASE RestoreChildren(w) \/ RestoreParents(w)
    BY <1>10, <1>11 DEF RestoreChildren, RestoreParents
  <1>12. CASE RestoreSet(w) \/ ForgetSet(w)
    BY <1>12 DEF RestoreSet, ForgetSet, Touches, Back, Excuse
  <1>13. CASE Unlock(w)
    <2>1. auto' = auto /\ kept' = kept /\ excused' = excused
      BY <1>13 DEF Unlock
    <2>2. CASE lock' = lock
      BY <2>1, <2>2 DEF Touches, Back
    <2>3. CASE \E b \in k.todo :
                 lock' = IF lock[b].pr = p THEN [lock EXCEPT ![b] = NoLock] ELSE lock
      <3>1. PICK b \in Apps :
               lock' = IF lock[b].pr = p THEN [lock EXCEPT ![b] = NoLock] ELSE lock
        BY <1>1, <2>3 DEF Worker
      <3>2. \A c \in Apps : lock'[c] = lock[c] \/ (lock[c].pr = p /\ lock'[c].pr = NoPR)
        BY <1>1, <3>1, FreedTouches
      <3>3. QED
        BY <2>1, <3>2 DEF Touches, Back
    <2>4. QED
      BY <1>13, <2>2, <2>3 DEF Unlock
  <1>14. QED
    BY <1>2, <1>3, <1>4, <1>5, <1>6, <1>7, <1>8, <1>9, <1>11, <1>12, <1>13 DEF Step

LEMMA OtherTouches ==
    ASSUME WellFormed,
           \/ \E w \in Workers : Crash(w)
           \/ \E a \in Apps : Release(a) \/ SyncParent(a)
           \/ \E s \in AppSets : Reconcile(s)
           \/ \E s \in AppSets, p \in PRs : KeyExpires(s, p)
    PROVE  Touches(NoPR)
  <1>1. CASE \E w \in Workers : Crash(w)
    BY <1>1 DEF Crash, Touches, Back, Excuse
  <1>2. ASSUME NEW a \in Apps, Release(a)
        PROVE  Touches(NoPR)
    <2>1. \A b \in Apps \ {a} : lock'[b] = lock[b]
      BY <1>2 DEF Release, WellFormed, SharedOK
    <2>2. Lost(a)'
      BY <1>2 DEF Release, Excuse, Lost, Affected, Members
    <2>3. QED
      BY <1>2, <2>1, <2>2 DEF Release, Touches, Back, Excuse
  <1>3. CASE \E a \in Apps : SyncParent(a)
    BY <1>3 DEF SyncParent, Touches, Back
  <1>4. CASE \E s \in AppSets : Reconcile(s)
    BY <1>4 DEF Reconcile, Members, Plain, Touches, Back
  <1>5. CASE \E s \in AppSets, p \in PRs : KeyExpires(s, p)
    BY <1>5 DEF KeyExpires, Touches, Back, Excuse
  <1>6. QED
    BY <1>1, <1>2, <1>3, <1>4, <1>5

-----------------------------------------------------------------------------

\* What a worker goes on with.
Continues(r, k) ==
    r.task = k.task /\ r.pr = k.pr /\ r.listed = k.listed /\ r.copy = k.copy

LEMMA BeginMoves ==
    ASSUME WellFormed, NEW w \in Workers, NEW p \in PRs
    PROVE  /\ BeginSync(w, p) \/ BeginRollbackAll(w, p) =>
                LET r == worker'[w] IN
                /\ r.pc = "map" /\ r.pr = p /\ r.listed \subseteq Held(p) /\ r.todo = r.listed
           /\ \A a \in Apps : BeginRollback(w, p, a) =>
                LET r == worker'[w] IN
                /\ r.pc = "get" /\ r.pr = p /\ r.listed = {} /\ r.app = a /\ r.task = "rollback"
           /\ BeginUnlockAll(w, p) =>
                LET r == worker'[w] IN
                /\ r.pc = "children" /\ r.pr = p /\ r.listed = Held(p) /\ r.todo = Held(p)
                /\ r.task = "close" /\ \A a \in Held(p) : r.copy[a] = lock[a]
           /\ Relist(w) /\ worker[w].pr = p =>
                LET r == worker'[w] IN
                /\ r.pc = "children" /\ r.pr = p /\ r.listed = Held(p) /\ r.todo = Held(p)
                /\ r.task = worker[w].task /\ \A a \in Held(p) : r.copy[a] = lock[a]
  <1>1. ASSUME NEW task, NEW S \in SUBSET Held(p), Set(w, Disabling(task, p, S))
        PROVE  LET r == worker'[w] IN
               r.pc = "map" /\ r.pr = p /\ r.listed \subseteq Held(p) /\ r.todo = r.listed
    <2>1. worker'[w] = Disabling(task, p, S)
      BY <1>1, SetRecord
    <2>2. QED
      BY <2>1 DEF Disabling, Idle
  <1>2. ASSUME BeginSync(w, p)
        PROVE  LET r == worker'[w] IN
               r.pc = "map" /\ r.pr = p /\ r.listed \subseteq Held(p) /\ r.todo = r.listed
    <2>1. PICK S \in SUBSET Held(p) : Set(w, Disabling("sync", p, S))
      BY <1>2 DEF BeginSync
    <2>2. QED
      BY <1>1, <2>1
  <1>3. ASSUME BeginRollbackAll(w, p)
        PROVE  LET r == worker'[w] IN
               r.pc = "map" /\ r.pr = p /\ r.listed \subseteq Held(p) /\ r.todo = r.listed
    BY <1>1, <1>3 DEF BeginRollbackAll
  <1>4. ASSUME NEW a \in Apps, BeginRollback(w, p, a)
        PROVE  LET r == worker'[w] IN
               r.pc = "get" /\ r.pr = p /\ r.listed = {} /\ r.app = a /\ r.task = "rollback"
    <2>1. worker'[w] = [Idle EXCEPT !.pc = "get", !.task = "rollback", !.pr = p, !.app = a,
                                    !.visited = {a}]
      BY <1>4, SetRecord DEF BeginRollback
    <2>2. QED
      BY <2>1 DEF Idle
  <1> DEFINE l == List(w, p, Held(p))
  <1>5. /\ l \in Worker /\ l.listed = Held(p) /\ l.todo = Held(p) /\ l.pr = p
        /\ l.task = worker[w].task /\ \A a \in Held(p) : l.copy[a] = lock[a]
    BY ListRecord DEF Held
  <1>6. BeginUnlockAll(w, p) => worker'[w] = [l EXCEPT !.pc = "children", !.task = "close"]
    BY SetRecord DEF BeginUnlockAll
  <1>7. Relist(w) /\ worker[w].pr = p => worker'[w] = [l EXCEPT !.pc = "children"]
    BY SetRecord DEF Relist
  <1> HIDE DEF l
  <1>8. ASSUME BeginUnlockAll(w, p)
        PROVE  LET r == worker'[w] IN
               /\ r.pc = "children" /\ r.pr = p /\ r.listed = Held(p) /\ r.todo = Held(p)
               /\ r.task = "close" /\ \A a \in Held(p) : r.copy[a] = lock[a]
    BY <1>5, <1>6, <1>8 DEF Worker
  <1>9. ASSUME Relist(w), worker[w].pr = p
        PROVE  LET r == worker'[w] IN
               /\ r.pc = "children" /\ r.pr = p /\ r.listed = Held(p) /\ r.todo = Held(p)
               /\ r.task = worker[w].task /\ \A a \in Held(p) : r.copy[a] = lock[a]
    BY <1>5, <1>7, <1>9 DEF Worker
  <1>10. QED
    BY <1>2, <1>3, <1>4, <1>8, <1>9

LEMMA ReturnMoves ==
    ASSUME WellFormed, NEW w \in Workers, Return(w)
    PROVE  worker'[w] = Idle /\ worker'[w].pc = "idle"
  <1>1. worker'[w] = Idle
    BY SetRecord DEF Return
  <1>2. QED
    BY <1>1 DEF Idle

LEMMA LoopMoves ==
    ASSUME WellFormed, NEW w \in Workers, NEW pc, Loop(w, pc)
    PROVE  Continues(worker'[w], worker[w]) /\ worker'[w].pc = pc
           /\ worker'[w].todo = worker[w].listed
  <1>1. worker'[w] = Looping(worker[w], pc)
    BY SetRecord DEF Loop, Looping
  <1>2. QED
    BY <1>1 DEF Looping, Idle, Continues

LEMMA GoMoves ==
    ASSUME WellFormed, NEW w \in Workers, NEW pc, Go(w, pc)
    PROVE  Continues(worker'[w], worker[w]) /\ worker'[w].pc = pc
           /\ worker'[w].todo = worker[w].todo /\ worker'[w].app = worker[w].app
  <1>1. worker'[w] = [worker[w] EXCEPT !.pc = pc] /\ worker[w] \in Worker
    BY GoRecord, SetRecord DEF WellFormed
  <1>2. QED
    BY <1>1 DEF Worker, Continues

LEMMA TakeMoves ==
    ASSUME WellFormed, NEW w \in Workers, NEW a, Set(w, [worker[w] EXCEPT !.todo = @ \ {a}])
    PROVE  Continues(worker'[w], worker[w]) /\ worker'[w].pc = worker[w].pc
           /\ worker'[w].todo = worker[w].todo \ {a} /\ worker'[w].app = worker[w].app
  BY TakeRecord DEF Continues

LEMMA MapMoves ==
    ASSUME WellFormed, NEW w \in Workers, BuildParentMap(w)
    PROVE  Continues(worker'[w], worker[w]) /\ worker'[w].pc = "next"
           /\ worker'[w].todo = worker[w].todo
  <1>0. worker[w] \in Worker
    BY DEF WellFormed
  <1>1. worker'[w] = [worker[w] EXCEPT !.pc = "next", !.parentMap = auto \intersect Apps]
    BY SetRecord DEF BuildParentMap
  <1>2. QED
    BY <1>0, <1>1 DEF Worker, Continues

LEMMA NextMoves ==
    ASSUME WellFormed, NEW w \in Workers, NextApp(w)
    PROVE  \/ worker'[w] = Idle
           \/ /\ Continues(worker'[w], worker[w]) /\ worker'[w].pc = "sync"
              /\ worker[w].todo = {} /\ worker[w].task = "sync"
              /\ worker'[w].todo = worker[w].listed
           \/ \E a \in worker[w].todo :
                /\ Continues(worker'[w], worker[w]) /\ worker'[w].pc = "get"
                /\ worker'[w].app = a /\ worker'[w].todo = worker[w].todo \ {a}
  <1>0. worker[w] \in Worker
    BY DEF WellFormed
  <1>1. CASE Return(w)
    BY <1>1, SetRecord DEF Return
  <1>2. CASE worker[w].todo = {} /\ worker[w].task = "sync" /\ Loop(w, "sync")
    BY <1>2, LoopMoves
  <1>3. CASE \E a \in worker[w].todo :
               Set(w, [worker[w] EXCEPT !.pc = "get", !.app = a, !.asParent = FALSE,
                                        !.todo = @ \ {a}])
    <2>1. PICK a \in worker[w].todo :
             worker'[w] = [worker[w] EXCEPT !.pc = "get", !.app = a, !.asParent = FALSE,
                                            !.todo = @ \ {a}]
      BY <1>3, SetRecord
    <2>2. QED
      BY <1>0, <2>1 DEF Worker, Continues
  <1>4. QED
    BY <1>1, <1>2, <1>3 DEF NextApp

LEMMA SetGetMoves ==
    ASSUME WellFormed, NEW w \in Workers, SetGet(w)
    PROVE  Continues(worker'[w], worker[w]) /\ worker'[w].pc \in {"set.put", "find"}
           /\ worker'[w].todo = worker[w].todo /\ worker'[w].app = worker[w].app
  <1>0. worker[w] \in Worker
    BY DEF WellFormed
  <1>1. PICK pc \in {"set.put", "find"} :
           worker'[w] = [worker[w] EXCEPT !.pc = pc, !.sets = @ \union {Owner[worker[w].app]}]
    BY SetRecord DEF SetGet
  <1>2. QED
    BY <1>0, <1>1 DEF Worker, Continues

LEMMA FindMoves ==
    ASSUME WellFormed, NEW w \in Workers, FindParents(w)
    PROVE  Continues(worker'[w], worker[w]) /\ worker'[w].pc = "up"
           /\ worker'[w].todo = worker[w].todo
  <1>0. worker[w] \in Worker
    BY DEF WellFormed
  <1>1. PICK found :
           worker'[w] = [worker[w] EXCEPT !.pc = "up", !.visited = @ \union {worker[w].app},
                                          !.up = @ \union found]
    BY SetRecord DEF FindParents
  <1>2. QED
    BY <1>0, <1>1 DEF Worker, Continues

LEMMA UpMoves ==
    ASSUME WellFormed, NEW w \in Workers, LockParent(w)
    PROVE  /\ Continues(worker'[w], worker[w]) /\ worker'[w].todo = worker[w].todo
           /\ \/ worker'[w].pc \in {"next", "up"} /\ lock' = lock
              \/ \E a \in Apps :
                   /\ worker'[w].pc = "get" /\ worker'[w].app = a
                   /\ lock[a].pr \in {NoPR, worker[w].pr} /\ lock'[a].pr = worker[w].pr
                   /\ lock[a].pr # NoPR => lock'[a] = lock[a]
                   /\ \A b \in Apps \ {a} : lock'[b] = lock[b]
  <1> DEFINE k == worker[w]
  <1>1. k \in Worker /\ k.pc = "up"
    BY DEF WellFormed, LockParent, At
  <1>2. CASE /\ Set(w, [k EXCEPT !.pc = "next", !.app = NoApp, !.asParent = FALSE, !.up = {}])
             /\ UNCHANGED lock
    <2>1. worker'[w] = [k EXCEPT !.pc = "next", !.app = NoApp, !.asParent = FALSE, !.up = {}]
      BY <1>2, SetRecord
    <2>2. QED
      BY <1>1, <1>2, <2>1 DEF Worker, Continues
  <1>3. CASE \E a : Set(w, [k EXCEPT !.up = @ \ {a}]) /\ UNCHANGED lock
    <2>1. PICK a : worker'[w] = [k EXCEPT !.up = @ \ {a}] /\ UNCHANGED lock
      BY <1>3, SetRecord
    <2>2. QED
      BY <1>1, <2>1 DEF Worker, Continues
  <1>4. ASSUME NEW a \in k.up, lock[a].pr \in {NoPR, k.pr},
               lock' = IF lock[a].pr = k.pr THEN lock
                       ELSE [lock EXCEPT ![a] = NewLock(k.pr, FALSE)],
               Set(w, [k EXCEPT !.pc = "get", !.app = a, !.asParent = TRUE, !.up = @ \ {a}])
        PROVE  /\ Continues(worker'[w], k) /\ worker'[w].todo = k.todo
               /\ a \in Apps /\ worker'[w].pc = "get" /\ worker'[w].app = a
               /\ lock[a].pr \in {NoPR, k.pr} /\ lock'[a].pr = k.pr
               /\ lock[a].pr # NoPR => lock'[a] = lock[a]
               /\ \A b \in Apps \ {a} : lock'[b] = lock[b]
    <2>1. worker'[w] = [k EXCEPT !.pc = "get", !.app = a, !.asParent = TRUE, !.up = @ \ {a}]
      BY <1>4, SetRecord
    <2>2. Continues(worker'[w], k) /\ worker'[w].todo = k.todo /\ worker'[w].pc = "get"
          /\ worker'[w].app = a
      BY <1>1, <2>1 DEF Worker, Continues
    <2>3. a \in Apps /\ lock \in [Apps -> Lock] /\ NewLock(k.pr, FALSE).pr = k.pr
      BY <1>1 DEF Worker, WellFormed, SharedOK, NewLock, NoLock
    <2>4. QED
      BY <1>4, <2>2, <2>3
  <1>5. QED
    BY <1>2, <1>3, <1>4 DEF LockParent

LEMMA RewriteMoves ==
    ASSUME WellFormed, NEW w \in Workers, Rewrite(w)
    PROVE  Continues(worker'[w], worker[w]) /\ worker'[w].pc = worker[w].then
           /\ worker[w].then \in {"sync", "revert"} /\ worker'[w].todo = worker[w].todo
  <1>0. worker[w] \in Worker
    BY DEF WellFormed
  <1>1. worker'[w] = [worker[w] EXCEPT !.pc = worker[w].then, !.then = "idle", !.app = NoApp,
                                       !.seen = FALSE]
    BY SetRecord DEF Rewrite
  <1>2. worker[w].then \in {"sync", "revert"}
    BY DEF WellFormed, RecordOK, Rewrite, At
  <1>3. QED
    BY <1>0, <1>1, <1>2 DEF Worker, Continues

LEMMA RewriteGetMoves ==
    ASSUME WellFormed, NEW w \in Workers, NEW a, NEW seen, RewriteGet(w, a, seen)
    PROVE  Continues(worker'[w], worker[w]) /\ worker'[w].pc = "rewrite"
           /\ worker'[w].app = a /\ worker'[w].seen = seen
           /\ worker'[w].todo = worker[w].todo \ {a}
  <1>0. worker[w] \in Worker
    BY DEF WellFormed
  <1>1. worker'[w] = [worker[w] EXCEPT !.pc = "rewrite", !.then = worker[w].pc, !.app = a,
                                       !.seen = seen, !.todo = @ \ {a}]
    BY SetRecord DEF RewriteGet
  <1>2. QED
    BY <1>0, <1>1 DEF Worker, Continues

LEMMA ForgetMoves ==
    ASSUME WellFormed, NEW w \in Workers
    PROVE  /\ \A a : Set(w, [worker[w] EXCEPT !.pc = "forget", !.app = a, !.todo = @ \ {a}]) =>
                 /\ Continues(worker'[w], worker[w]) /\ worker'[w].pc = "forget"
                 /\ worker'[w].app = a /\ worker'[w].todo = worker[w].todo \ {a}
           /\ ForgetSet(w) =>
                 /\ Continues(worker'[w], worker[w]) /\ worker'[w].pc = "sets"
                 /\ worker'[w].todo = worker[w].todo
  <1>0. worker[w] \in Worker
    BY DEF WellFormed
  <1>1. ASSUME NEW a, Set(w, [worker[w] EXCEPT !.pc = "forget", !.app = a, !.todo = @ \ {a}])
        PROVE  /\ Continues(worker'[w], worker[w]) /\ worker'[w].pc = "forget"
               /\ worker'[w].app = a /\ worker'[w].todo = worker[w].todo \ {a}
    <2>1. worker'[w] = [worker[w] EXCEPT !.pc = "forget", !.app = a, !.todo = @ \ {a}]
      BY <1>1, SetRecord
    <2>2. QED
      BY <1>0, <2>1 DEF Worker, Continues
  <1>2. ASSUME ForgetSet(w)
        PROVE  /\ Continues(worker'[w], worker[w]) /\ worker'[w].pc = "sets"
               /\ worker'[w].todo = worker[w].todo
    <2>1. worker'[w] = [worker[w] EXCEPT !.pc = "sets", !.app = NoApp]
      BY <1>2, SetRecord DEF ForgetSet
    <2>2. QED
      BY <1>0, <2>1 DEF Worker, Continues
  <1>3. QED
    BY <1>1, <1>2

\* A task keeps its pull request until it ends.
LEMMA KeepsPR ==
    ASSUME WellFormed, NEW w \in Workers, Step(w) \/ Crash(w)
    PROVE  worker'[w].pr \in {worker[w].pr, NoPR}
  <1>1. CASE Continues(worker'[w], worker[w])
    BY <1>1 DEF Continues
  <1>2. CASE worker'[w] = Idle
    BY <1>2 DEF Idle
  <1>3. CASE BuildParentMap(w) \/ NextApp(w) \/ SetGet(w) \/ FindParents(w) \/ LockParent(w)
    BY <1>1, <1>2, <1>3, MapMoves, NextMoves, SetGetMoves, FindMoves, UpMoves
  <1>4. CASE \/ DisableGet(w) \/ DisablePut(w) \/ DisableFails(w) \/ Save(w) \/ SetPut(w)
             \/ SetStore(w) \/ Crash(w)
    <2>1. Return(w) \/ \E pc : Go(w, pc)
      BY <1>4 DEF DisableGet, DisablePut, DisableFails, Save, SetPut, SetStore, Crash
    <2>2. QED
      BY <1>1, <1>2, <2>1, GoMoves, ReturnMoves
  <1>5. CASE Sync(w) \/ Rewrite(w) \/ Merge(w) \/ Revert(w) \/ Unlock(w)
    <2>1. \/ Return(w)
          \/ Rewrite(w)
          \/ \E pc : Loop(w, pc) \/ Go(w, pc)
          \/ \E a : Set(w, [worker[w] EXCEPT !.todo = @ \ {a}])
          \/ \E a, seen : RewriteGet(w, a, seen)
      BY <1>5 DEF Sync, Merge, Revert, Unlock
    <2>2. QED
      BY <1>1, <1>2, <2>1, ReturnMoves, RewriteMoves, LoopMoves, GoMoves, TakeMoves, RewriteGetMoves
  <1>6. CASE Relist(w)
    <2>1. worker[w].pr \in PRs
      BY <1>6 DEF Relist, At, WellFormed, RecordOK
    <2>2. QED
      BY <1>6, <2>1, BeginMoves
  <1>7. CASE RestoreChildren(w) \/ RestoreParents(w) \/ RestoreSet(w) \/ ForgetSet(w)
    <2>1. \/ ForgetSet(w)
          \/ \E pc : Loop(w, pc)
          \/ \E a : Set(w, [worker[w] EXCEPT !.todo = @ \ {a}])
          \/ \E a : Set(w, [worker[w] EXCEPT !.pc = "forget", !.app = a, !.todo = @ \ {a}])
      BY <1>7 DEF RestoreChildren, RestoreParents, RestoreApps, RestoreSet
    <2>2. QED
      BY <1>1, <2>1, LoopMoves, TakeMoves, ForgetMoves
  <1>8. QED
    BY <1>3, <1>4, <1>5, <1>6, <1>7 DEF Step

LEMMA OthersStaySound ==
    ASSUME Remembered, OneTaskPerPR, NEW w \in Workers, Begin(w) \/ Step(w) \/ Crash(w)
    PROVE  \A v \in Workers \ {w} : Sound(v)'
  <1> USE DEF Remembered
  <1>1. SUFFICES ASSUME NEW v \in Workers \ {w}
                 PROVE  Sound(v)'
    OBVIOUS
  <1>2. worker'[v] = worker[v]
    BY OneWorker
  <1>3. CASE worker[v].pc = "idle"
    BY <1>2, <1>3, IdleSound DEF WellFormed, RecordOK
  <1>4. CASE worker[v].pc # "idle"
    <2>1. worker[v].pr \in PRs /\ worker[v].pr # NoPR
      BY <1>4, AutoSyncAssumption DEF WellFormed, RecordOK
    <2>2. CASE Begin(w)
      <3>1. PICK p \in PRs : \/ BeginSync(w, p) \/ BeginRollbackAll(w, p) \/ BeginUnlockAll(w, p)
                             \/ \E a \in Apps : Plan(w, p, a) \/ BeginRollback(w, p, a)
        BY <2>2 DEF Begin
      <3>2. Touches(p) /\ worker[v].pr # p
        BY <3>1, BeginTouches
      <3>3. QED
        BY <1>2, <3>2, OthersSound
    <2>3. CASE Step(w)
      <3>1. PICK p : p = worker[w].pr
        OBVIOUS
      <3>2. Touches(worker[w].pr)
        BY <2>3, StepTouches DEF Sound
      <3>3. Touches(p)
        BY <3>1, <3>2 DEF Touches
      <3>4. p # worker[v].pr
        BY <2>1, <3>1 DEF Apart
      <3>5. QED
        BY <1>2, <3>3, <3>4, OthersSound
    <2>4. CASE Crash(w)
      BY <1>2, <2>1, <2>4, OtherTouches, OthersSound
    <2>5. QED
      BY <2>2, <2>3, <2>4
  <1>5. QED
    BY <1>3, <1>4

LEMMA AllStaySound ==
    ASSUME Remembered,
           \/ \E a \in Apps : Release(a) \/ SyncParent(a)
           \/ \E s \in AppSets : Reconcile(s)
           \/ \E s \in AppSets, p \in PRs : KeyExpires(s, p)
    PROVE  \A v \in Workers : Sound(v)'
  <1> USE DEF Remembered
  <1>1. SUFFICES ASSUME NEW v \in Workers
                 PROVE  Sound(v)'
    OBVIOUS
  <1>2. worker' = worker
    BY DEF Release, SyncParent, Reconcile, KeyExpires
  <1>3. CASE worker[v].pc = "idle"
    BY <1>2, <1>3, IdleSound DEF WellFormed, RecordOK
  <1>4. CASE worker[v].pc # "idle"
    <2>1. worker[v].pr # NoPR
      BY <1>4, AutoSyncAssumption DEF WellFormed, RecordOK
    <2>2. QED
      BY <1>2, <2>1, OtherTouches, OthersSound
  <1>5. QED
    BY <1>3, <1>4

LEMMA StaysApart ==
    ASSUME Remembered, OneTaskPerPR, [Next]_vars
    PROVE  Apart'
  <1> USE DEF Remembered
  <1>1. CASE UNCHANGED vars
    BY <1>1 DEF vars, Apart
  <1>2. CASE \/ \E a \in Apps : Release(a) \/ SyncParent(a)
             \/ \E s \in AppSets : Reconcile(s)
             \/ \E s \in AppSets, p \in PRs : KeyExpires(s, p)
    BY <1>2 DEF Release, SyncParent, Reconcile, KeyExpires, Apart
  <1>3. ASSUME NEW w \in Workers, Begin(w) \/ Step(w) \/ Crash(w)
        PROVE  Apart'
    <2>1. \A v \in Workers \ {w} : worker'[v] = worker[v]
      BY <1>3, OneWorker
    <2>2. worker'[w].pr \in {worker[w].pr, NoPR} \/ \A v \in Workers : worker[v].pr # worker'[w].pr
      <3>1. CASE Step(w) \/ Crash(w)
        BY <3>1, KeepsPR
      <3>2. CASE Begin(w)
        <4>1. PICK p \in PRs : \/ BeginSync(w, p) \/ BeginRollbackAll(w, p) \/ BeginUnlockAll(w, p)
                               \/ \E a \in Apps : Plan(w, p, a) \/ BeginRollback(w, p, a)
          BY <3>2 DEF Begin
        <4>2. \A v \in Workers : worker[v].pr # p
          BY <4>1, BeginTouches
        <4>3. worker'[w].pr = p \/ worker'[w] = worker[w]
          BY <4>1, BeginMoves DEF Plan
        <4>4. QED
          BY <4>2, <4>3
      <3>3. QED
        BY <1>3, <3>1, <3>2
    <2>3. QED
      BY <2>1, <2>2 DEF Apart
  <1>4. QED
    BY <1>1, <1>2, <1>3 DEF Next

-----------------------------------------------------------------------------

\* A step that takes no application's policy away and forgets none, and the same of templates.
GentleToApps ==
    /\ excused \subseteq excused' /\ auto \intersect Plain \subseteq auto'
    /\ \A a \in Apps : Lost(a)' \/ lock[a].pr = NoPR \/ (lock[a].saved => lock'[a].saved)
    /\ \A v \in Workers : worker'[v] = worker[v] \/ worker[v].pc # "save"

GentleToSets ==
    /\ excused \subseteq excused' /\ auto \intersect AppSets \subseteq auto' /\ kept \subseteq kept'
    /\ \A a \in Apps : \/ Lost(a)'
                       \/ lock[a].pr = NoPR
                       \/ lock'[a].pr = lock[a].pr /\ (lock[a].named => lock'[a].named)
    /\ \A v \in Workers : \/ worker'[v] = worker[v]
                          \/ worker[v].pc # "set.store" /\ worker'[v].pc # "forget"

LEMMA FreeLocks ==
    ASSUME WellFormed
    PROVE  \A a \in Apps : lock[a].pr = NoPR => ~lock[a].saved /\ ~lock[a].named
  BY DEF WellFormed, SharedOK, LockOK, NoLock

LEMMA GentleKeepsApps ==
    ASSUME WellFormed, PlainKept, GentleToApps
    PROVE  PlainKept'
  <1>1. SUFFICES ASSUME NEW a \in Plain, a \notin excused'
                 PROVE  a \in auto' \/ lock'[a].saved \/ Saving(a)'
    BY DEF PlainKept, Plain
  <1>2. a \in auto \/ lock[a].saved \/ Saving(a)
    BY <1>1 DEF PlainKept, GentleToApps
  <1>3. lock[a].saved => lock'[a].saved
    BY <1>1, FreeLocks, LostExcused DEF GentleToApps, Plain
  <1>4. Saving(a) => Saving(a)'
    BY DEF GentleToApps, Saving, At
  <1>5. QED
    BY <1>2, <1>3, <1>4 DEF GentleToApps, Plain

\* What a step must do to a kept policy to take it away.
LEMMA KeeperStays ==
    ASSUME WellFormed, NEW s, NEW p \in PRs, Keeper(s, p), <<s, p>> \in kept',
           Forgetting(s, p)' => Forgetting(s, p), ~(Members(s) \subseteq excused'),
           \A a \in Apps : \/ Lost(a)'
                           \/ lock[a].pr # p
                           \/ lock'[a].pr = lock[a].pr /\ (lock[a].named => lock'[a].named)
    PROVE  Keeper(s, p)'
  <1>1. PICK a \in Members(s) : Carries(p, a)
    BY DEF Keeper
  <1>2. a \in Apps /\ ~(Lost(a)')
    BY DEF Members, Lost, Affected
  <1>3. Carries(p, a)'
    BY <1>1, <1>2 DEF Carries
  <1>4. QED
    BY <1>1, <1>3 DEF Keeper, Members

LEMMA GentleKeepsSets ==
    ASSUME WellFormed, SetKept, GentleToSets
    PROVE  SetKept'
  <1>1. SUFFICES ASSUME NEW s \in Automated \intersect AppSets, ~(Members(s) \subseteq excused')
                 PROVE  s \in auto' \/ Storing(s)' \/ \E p \in PRs : Keeper(s, p)'
    BY DEF SetKept, Members
  <1>2. s \in auto \/ Storing(s) \/ \E p \in PRs : Keeper(s, p)
    BY <1>1 DEF SetKept, GentleToSets
  <1>3. Storing(s) => Storing(s)'
    BY DEF GentleToSets, Storing, At
  <1>4. ASSUME NEW p \in PRs, Keeper(s, p)
        PROVE  Keeper(s, p)'
    <2>1. Forgetting(s, p)' => Forgetting(s, p)
      BY DEF GentleToSets, Forgetting, At
    <2>2. <<s, p>> \in kept'
      BY <1>4 DEF Keeper, GentleToSets
    <2>3. p # NoPR
      BY AutoSyncAssumption
    <2>4. QED
      BY <1>1, <1>4, <2>1, <2>2, <2>3, KeeperStays DEF GentleToSets
  <1>5. QED
    BY <1>2, <1>3, <1>4 DEF GentleToSets

\* A step of one worker that changes no lock.
LEMMA QuietStep ==
    ASSUME WellFormed, NEW w \in Workers, \A v \in Workers \ {w} : worker'[v] = worker[v],
           lock' = lock, excused \subseteq excused'
    PROVE  /\ auto \intersect Plain \subseteq auto' /\ worker[w].pc # "save" => GentleToApps
           /\ auto \intersect AppSets \subseteq auto' /\ kept \subseteq kept'
              /\ worker[w].pc # "set.store" /\ worker'[w].pc # "forget" => GentleToSets
  BY DEF GentleToApps, GentleToSets

LEMMA BeginKeeps ==
    ASSUME Remembered, NEW w \in Workers, Begin(w)
    PROVE  PlainKept' /\ SetKept'
  <1> USE DEF Remembered
  <1>1. \A v \in Workers \ {w} : worker'[v] = worker[v]
    BY OneWorker
  <1>2. ASSUME NEW p \in PRs, NEW a \in Apps, Plan(w, p, a)
        PROVE  GentleToApps /\ GentleToSets
    <2>1. lock \in [Apps -> Lock] /\ NoLock.pr = NoPR
      BY DEF WellFormed, SharedOK, NoLock
    <2>2. CASE lock[a] = NoLock
      <3>1. \A b \in Apps \ {a} : lock'[b] = lock[b]
        BY <1>2, <2>1 DEF Plan
      <3>2. QED
        BY <1>2, <2>1, <2>2, <3>1 DEF Plan, GentleToApps, GentleToSets
    <2>3. CASE lock[a] # NoLock
      <3>1. lock' = [lock EXCEPT ![a] = [lock[a] EXCEPT !.planned = TRUE]]
        BY <1>2, <2>3 DEF Plan
      <3>2. \A b \in Apps : /\ lock'[b].pr = lock[b].pr /\ lock'[b].saved = lock[b].saved
                            /\ lock'[b].named = lock[b].named
        BY <2>1, <3>1 DEF Lock
      <3>3. QED
        BY <1>2, <3>2 DEF Plan, GentleToApps, GentleToSets
    <2>4. QED
      BY <2>2, <2>3
  <1>3. ASSUME NEW p \in PRs, BeginSync(w, p) \/ BeginRollbackAll(w, p) \/ BeginUnlockAll(w, p)
        PROVE  GentleToApps /\ GentleToSets
    <2>1. worker[w].pc = "idle" /\ worker'[w].pc \in {"map", "children"}
      BY <1>3, BeginMoves DEF BeginSync, BeginRollbackAll, BeginUnlockAll, May, At
    <2>2. QED
      BY <1>1, <1>3, <2>1, QuietStep DEF BeginSync, BeginRollbackAll, BeginUnlockAll
  <1>4. ASSUME NEW p \in PRs, NEW a \in Apps, BeginRollback(w, p, a)
        PROVE  GentleToApps /\ GentleToSets
    <2>1. worker[w].pc = "idle" /\ worker'[w].pc = "get"
      BY <1>4, BeginMoves DEF BeginRollback, May, At
    <2>2. QED
      BY <1>1, <1>4, <2>1, QuietStep DEF BeginRollback, Excuse
  <1>5. QED
    BY <1>2, <1>3, <1>4, GentleKeepsApps, GentleKeepsSets DEF Begin

LEMMA DisableKeeps ==
    ASSUME Remembered, NEW w \in Workers,
           \/ BuildParentMap(w) \/ NextApp(w) \/ DisableGet(w) \/ DisablePut(w)
           \/ DisableFails(w) \/ Save(w) \/ SetGet(w) \/ SetPut(w) \/ SetStore(w)
           \/ FindParents(w) \/ LockParent(w)
    PROVE  PlainKept' /\ SetKept'
  <1> USE DEF Remembered
  <1> DEFINE k == worker[w]
             r == worker'[w]
  <1>1. /\ k \in Worker /\ RecordOK(k) /\ Sound(w)
        /\ \A v \in Workers \ {w} : worker'[v] = worker[v]
    BY OneWorker DEF WellFormed, Step
  <1>2. ASSUME auto' = auto, kept' = kept, lock' = lock, excused \subseteq excused',
               k.pc \notin {"save", "set.store"}, r.pc # "forget"
        PROVE  PlainKept' /\ SetKept'
    BY <1>1, <1>2, QuietStep, GentleKeepsApps, GentleKeepsSets
  <1>3. CASE BuildParentMap(w)
    BY <1>2, <1>3, MapMoves DEF BuildParentMap, At
  <1>4. CASE NextApp(w)
    <2>1. r.pc # "forget"
      BY <1>4, NextMoves DEF Idle
    <2>2. QED
      BY <1>2, <1>4, <2>1 DEF NextApp, At
  <1>5. CASE DisableGet(w)
    <2>1. r.pc # "forget"
      BY <1>5, GoMoves DEF DisableGet
    <2>2. QED
      BY <1>2, <1>5, <2>1 DEF DisableGet, At
  <1>6. CASE DisablePut(w)
    <2>1. k.pc = "put" /\ r.pc = "save" /\ r.app = k.app /\ k.app \in Apps /\ auto' = auto \ {k.app}
          /\ UNCHANGED <<lock, kept, excused>>
      BY <1>1, <1>6, GoMoves DEF DisablePut, At, RecordOK
    <2>2. PlainKept'
      <3>1. \A a : Saving(a) \/ a = k.app => Saving(a)'
        BY <1>1, <2>1 DEF Saving, At
      <3>2. QED
        BY <2>1, <3>1 DEF PlainKept, Plain
    <2>3. SetKept'
      <3>1. auto \intersect AppSets \subseteq auto'
        BY <2>1, AutoSyncAssumption
      <3>2. QED
        BY <1>1, <2>1, <3>1, QuietStep, GentleKeepsSets
    <2>4. QED
      BY <2>2, <2>3
  <1>7. CASE DisableFails(w)
    <2>0. r.pc # "forget"
      BY <1>7, GoMoves, ReturnMoves DEF DisableFails
    <2>1. r.pc # "forget" /\ k.pc \notin {"save", "set.store"} /\ k.app \in Apps
      BY <1>1, <1>7, <2>0 DEF DisableFails, At, RecordOK
    <2>2. auto' = auto /\ kept' = kept /\ excused \subseteq excused'
      BY <1>7 DEF DisableFails, Excuse
    <2>3. CASE lock' = lock
      BY <1>2, <2>1, <2>2, <2>3
    <2>4. CASE k.asParent
      <3>1. PICK a \in Apps : a = k.app
        BY <2>1
      <3>2. Lost(a)'
        BY <1>7, <2>4, <3>1 DEF DisableFails, Excuse, Lost, Affected, Members
      <3>3. \A b \in Apps \ {a} : lock'[b] = lock[b]
        BY <1>7, <2>4, <3>1 DEF DisableFails, WellFormed, SharedOK
      <3>4. GentleToApps /\ GentleToSets
        BY <1>1, <2>1, <2>2, <3>2, <3>3 DEF GentleToApps, GentleToSets
      <3>5. QED
        BY <3>4, GentleKeepsApps, GentleKeepsSets
    <2>5. QED
      BY <1>7, <2>3, <2>4 DEF DisableFails
  <1>8. CASE Save(w)
    <2>0. r.pc # "forget"
      BY <1>8, GoMoves, ReturnMoves DEF Save
    <2>1. /\ k.pc = "save" /\ k.app \in Apps /\ r.pc # "forget" /\ auto' = auto /\ kept' = kept
          /\ excused \subseteq excused'
      BY <1>1, <1>8, <2>0 DEF Save, At, RecordOK, Excuse
    <2>2. PICK a \in Apps : a = k.app
      BY <2>1
    <2>3. \A b : Saving(b) => b = a \/ Saving(b)'
      BY <1>1, <2>2 DEF Saving, At
    <2>4. CASE lock' = lock /\ Excuse(Affected(a))
      <3>1. PlainKept'
        BY <2>1, <2>3, <2>4 DEF PlainKept, Plain, Excuse, Affected
      <3>2. SetKept'
        BY <1>1, <2>1, <2>4, QuietStep, GentleKeepsSets
      <3>3. QED
        BY <3>1, <3>2
    <2>5. CASE /\ lock' = [lock EXCEPT ![a].saved = TRUE, ![a].named = Named(w, lock[a]),
                                       ![a].parent = @ \/ k.asParent]
               /\ UNCHANGED excused
      <3>1. /\ \A b \in Apps \ {a} : lock'[b] = lock[b]
            /\ lock'[a].pr = lock[a].pr /\ lock'[a].saved /\ lock'[a].named = Named(w, lock[a])
        BY <2>2, <2>5, SavedLock
      <3>2. lock[a].named => lock'[a].named
        BY <2>2, <3>1 DEF Named, WellFormed, SharedOK, LockOK
      <3>3. PlainKept'
        BY <2>1, <2>3, <2>5, <3>1 DEF PlainKept, Plain
      <3>4. GentleToSets
        BY <1>1, <2>1, <2>5, <3>1, <3>2 DEF GentleToSets
      <3>5. QED
        BY <3>3, <3>4, GentleKeepsSets
    <2>6. QED
      BY <1>8, <2>2, <2>4, <2>5 DEF Save
  <1>9. CASE SetGet(w)
    BY <1>2, <1>9, SetGetMoves DEF SetGet, At
  <1>10. CASE SetPut(w)
    <2>1. /\ k.pc = "set.put" /\ r.app = k.app /\ r.pc # "forget"
          /\ UNCHANGED <<lock, kept, excused>>
      BY <1>10, GoMoves DEF SetPut, At
    <2>2. CASE auto' = auto
      BY <1>2, <2>1, <2>2
    <2>3. CASE r.pc = "set.store" /\ auto' = auto \ {Owner[k.app]}
      <3>1. Owner[k.app] \in AppSets
        BY <1>1, <2>1, Constants DEF RecordOK, Template
      <3>2. PlainKept'
        <4>1. auto \intersect Plain \subseteq auto'
          BY <2>3, <3>1, AutoSyncAssumption DEF Plain
        <4>2. QED
          BY <1>1, <2>1, <4>1, QuietStep, GentleKeepsApps
      <3>3. SetKept'
        <4>1. \A s : Storing(s) \/ s = Owner[k.app] => Storing(s)'
          BY <1>1, <2>1, <2>3 DEF Storing, At
        <4>2. \A s, p : Keeper(s, p) => Keeper(s, p)'
          BY <1>1, <2>1 DEF Keeper, Forgetting, At, Carries, Members
        <4>3. QED
          BY <2>1, <2>3, <4>1, <4>2 DEF SetKept, Members
      <3>4. QED
        BY <3>2, <3>3
    <2>4. QED
      BY <1>10, <2>2, <2>3, GoMoves DEF SetPut
  <1>11. CASE SetStore(w)
    <2>1. /\ k.pc = "set.store" /\ r.pc = "find" /\ UNCHANGED <<auto, lock>>
          /\ excused \subseteq excused' /\ kept \subseteq kept'
      BY <1>11, GoMoves DEF SetStore, At, Excuse
    <2>2. PlainKept'
      BY <1>1, <2>1, QuietStep, GentleKeepsApps
    <2>3. SetKept'
      <3>1. PICK s \in AppSets, p \in PRs, a \in Apps : s = Owner[k.app] /\ p = k.pr /\ a = k.app
        BY <1>1, <2>1, Constants DEF RecordOK, Template
      <3>2. \A t : Storing(t) => t = s \/ Storing(t)'
        BY <1>1, <2>1, <3>1 DEF Storing, At
      <3>3. \A t, q : Keeper(t, q) => Keeper(t, q)'
        BY <1>1, <2>1 DEF Keeper, Forgetting, At, Carries, Members
      <3>4. Members(s) \subseteq excused' \/ Keeper(s, p)'
        <4>1. CASE Excuse(Members(s))
          BY <4>1 DEF Excuse
        <4>2. CASE kept' = kept \union {<<s, p>>} /\ UNCHANGED excused
          <5>1. a \in Relies(w) /\ (lock[a].named \/ Lost(a))
            BY <1>1, <2>1, <3>1 DEF Relies, Template, Sound, Naming
          <5>2. Carries(p, a) \/ Lost(a)
            BY <1>1, <3>1, <5>1 DEF Sound, Holding, Carries
          <5>3. s # NoSet /\ p # NoPR
            BY AutoSyncAssumption
          <5>4. ~(Forgetting(s, p)')
            BY <1>1, <2>1, <3>1, <5>3 DEF Forgetting, At, Apart
          <5>5. CASE Lost(a)
            BY <3>1, <4>2, <5>5 DEF Lost, Affected
          <5>6. CASE Carries(p, a)
            BY <2>1, <3>1, <4>2, <5>3, <5>4, <5>6 DEF Keeper, Carries, Members
          <5>7. QED
            BY <5>2, <5>5, <5>6
        <4>3. QED
          BY <1>11, <3>1, <4>1, <4>2 DEF SetStore
      <3>5. QED
        BY <2>1, <3>2, <3>3, <3>4 DEF SetKept, Members
    <2>4. QED
      BY <2>2, <2>3
  <1>12. CASE FindParents(w)
    BY <1>2, <1>12, FindMoves DEF FindParents, At
  <1>13. CASE LockParent(w)
    <2>1. UNCHANGED <<auto, kept, excused>> /\ k.pc = "up" /\ r.pc # "forget"
      BY <1>13, UpMoves DEF LockParent, At
    <2>2. \A b \in Apps : lock'[b] = lock[b] \/ lock[b].pr = NoPR
      BY <1>13, UpMoves
    <2>3. GentleToApps /\ GentleToSets
      BY <1>1, <2>1, <2>2 DEF GentleToApps, GentleToSets
    <2>4. QED
      BY <2>3, GentleKeepsApps, GentleKeepsSets
  <1>14. QED
    BY <1>3, <1>4, <1>5, <1>6, <1>7, <1>8, <1>9, <1>10, <1>11, <1>12, <1>13

LEMMA RestoreKeeps ==
    ASSUME Remembered, NEW w \in Workers,
           \/ Sync(w) \/ Rewrite(w) \/ Merge(w) \/ Relist(w)
           \/ RestoreChildren(w) \/ RestoreParents(w) \/ RestoreSet(w) \/ ForgetSet(w)
           \/ Revert(w) \/ Unlock(w)
    PROVE  PlainKept' /\ SetKept'
  <1> USE DEF Remembered
  <1> DEFINE k == worker[w]
             r == worker'[w]
  <1>1. /\ k \in Worker /\ RecordOK(k) /\ Sound(w)
        /\ \A v \in Workers \ {w} : worker'[v] = worker[v]
    BY OneWorker DEF WellFormed, Step
  <1>2. ASSUME auto \subseteq auto', kept' = kept, lock' = lock, excused \subseteq excused',
               k.pc \notin {"save", "set.store"}, r.pc # "forget"
        PROVE  PlainKept' /\ SetKept'
    <2>1. auto \intersect Plain \subseteq auto' /\ auto \intersect AppSets \subseteq auto'
      BY <1>2
    <2>2. QED
      BY <1>1, <1>2, <2>1, QuietStep, GentleKeepsApps, GentleKeepsSets
  <1>3. CASE Sync(w)
    <2>1. r.pc # "forget"
      BY <1>3, RewriteGetMoves, LoopMoves DEF Sync
    <2>2. QED
      BY <1>2, <1>3, <2>1 DEF Sync, At
  <1>4. CASE Rewrite(w)
    <2>1. /\ k.pc = "rewrite" /\ r.pc \in {"sync", "revert"} /\ UNCHANGED <<lock, kept, excused>>
          /\ auto' = IF k.seen THEN auto \union {k.app} ELSE auto \ {k.app}
      BY <1>4, RewriteMoves DEF Rewrite, At
    <2>2. k.app \in k.listed /\ k.app \in Apps /\ k.task \in {"sync", "close"}
      BY <1>1, <2>1 DEF RecordOK
    <2>3. PlainKept'
      <3>1. CASE k.seen
        BY <1>2, <2>1, <3>1
      <3>2. CASE ~k.seen
        <4>1. k.app \in Plain => lock[k.app].saved \/ k.app \in excused
          BY <1>1, <2>1, <2>2, <3>2 DEF Sound, Remembering, Restoring
        <4>2. \A a : Saving(a) => Saving(a)'
          BY <1>1, <2>1 DEF Saving, At
        <4>3. QED
          BY <2>1, <3>2, <4>1, <4>2 DEF PlainKept, Plain
      <3>3. QED
        BY <3>1, <3>2
    <2>4. SetKept'
      <3>1. auto \intersect AppSets \subseteq auto'
        BY <2>1, <2>2, AutoSyncAssumption
      <3>2. QED
        BY <1>1, <2>1, <3>1, QuietStep, GentleKeepsSets
    <2>5. QED
      BY <2>3, <2>4
  <1>5. CASE Merge(w)
    <2>1. r.pc # "forget"
      BY <1>5, ReturnMoves, LoopMoves DEF Merge
    <2>2. QED
      BY <1>2, <1>5, <2>1 DEF Merge, At
  <1>6. CASE Relist(w)
    <2>1. k.pc = "list" /\ k.pr \in PRs
      BY <1>1, <1>6 DEF Relist, At, RecordOK, Syncs
    <2>2. r.pc # "forget"
      BY <1>6, <2>1, BeginMoves
    <2>3. QED
      BY <1>2, <1>6, <2>1, <2>2 DEF Relist
  <1>7. ASSUME NEW pc \in {"children", "parents"}, NEW S, NEW next \in {"parents", "sets"},
               RestoreApps(w, pc, S, next)
        PROVE  PlainKept' /\ SetKept'
    <2>1. k.pc = pc
      BY <1>7 DEF RestoreApps, At
    <2>2. r.pc # "forget"
      BY <1>7, <2>1, TakeMoves, LoopMoves DEF RestoreApps
    <2>3. auto \subseteq auto' /\ kept' = kept /\ lock' = lock /\ excused \subseteq excused'
      BY <1>7 DEF RestoreApps, Excuse
    <2>4. QED
      BY <1>2, <2>1, <2>2, <2>3
  <1>8. CASE RestoreChildren(w) \/ RestoreParents(w)
    BY <1>7, <1>8 DEF RestoreChildren, RestoreParents
  <1>9. CASE RestoreSet(w)
    <2>1. /\ k.pc = "sets" /\ k.pr \in PRs /\ kept' = kept /\ lock' = lock /\ auto \subseteq auto'
          /\ excused \subseteq excused'
      BY <1>1, <1>9 DEF RestoreSet, At, RecordOK, Restores, Excuse
    <2>2. CASE r.pc # "forget"
      BY <1>2, <2>1, <2>2
    <2>3. CASE \E a \in k.todo :
                 /\ <<Owner[a], k.pr>> \in kept
                 /\ Set(w, [k EXCEPT !.pc = "forget", !.app = a, !.todo = @ \ {a}])
                 /\ Owner[a] \in auto' \/ Members(Owner[a]) \subseteq excused'
      <3>1. PICK a \in k.todo :
                 /\ <<Owner[a], k.pr>> \in kept /\ r.pc = "forget" /\ r.app = a
                 /\ Owner[a] \in auto' \/ Members(Owner[a]) \subseteq excused'
        BY <2>3, ForgetMoves
      <3>2. PlainKept'
        <4>1. auto \intersect Plain \subseteq auto'
          BY <2>1
        <4>2. QED
          BY <1>1, <2>1, <4>1, QuietStep, GentleKeepsApps
      <3>3. \A s, p : Forgetting(s, p)' => s = Owner[a] \/ Forgetting(s, p)
        BY <1>1, <2>1, <3>1 DEF Forgetting, At
      <3>4. \A s : Storing(s) => Storing(s)'
        BY <1>1, <2>1 DEF Storing, At
      <3>5. \A s, p : Keeper(s, p) => Keeper(s, p)' \/ s = Owner[a]
        BY <2>1, <3>3 DEF Keeper, Carries, Members
      <3>6. SetKept'
        BY <2>1, <3>1, <3>4, <3>5 DEF SetKept, Members
      <3>7. QED
        BY <3>2, <3>6
    <2>4. ASSUME r.pc = "forget"
          PROVE  \E a \in k.todo :
                   /\ <<Owner[a], k.pr>> \in kept
                   /\ Set(w, [k EXCEPT !.pc = "forget", !.app = a, !.todo = @ \ {a}])
                   /\ Owner[a] \in auto' \/ Members(Owner[a]) \subseteq excused'
      <3>1. ASSUME NEW a, Set(w, [k EXCEPT !.todo = @ \ {a}])
            PROVE  FALSE
        BY <2>1, <2>4, <3>1, TakeMoves
      <3>2. ASSUME NEW pc \in {"revert", "unlock"}, Loop(w, pc)
            PROVE  FALSE
        BY <2>4, <3>2, LoopMoves
      <3>3. QED
        BY <1>9, <3>1, <3>2 DEF RestoreSet, Excuse
    <2>5. QED
      BY <2>2, <2>3, <2>4
  <1>10. CASE ForgetSet(w)
    <2>1. /\ k.pc = "forget" /\ r.pc = "sets" /\ UNCHANGED <<auto, lock, excused>>
          /\ kept' = kept \ {<<Owner[k.app], k.pr>>}
      BY <1>10, ForgetMoves DEF ForgetSet, At
    <2>2. PlainKept'
      BY <1>1, <2>1, QuietStep, GentleKeepsApps
    <2>3. \A s : Storing(s) => Storing(s)'
      BY <1>1, <2>1 DEF Storing, At
    <2>4. Forgetting(Owner[k.app], k.pr) /\ \A s, p : Forgetting(s, p)' => Forgetting(s, p)
      BY <1>1, <2>1 DEF Forgetting, At
    <2>5. \A s, p : Keeper(s, p) => Keeper(s, p)'
      BY <2>1, <2>4 DEF Keeper, Carries, Members
    <2>6. SetKept'
      BY <2>1, <2>3, <2>5 DEF SetKept, Members
    <2>7. QED
      BY <2>2, <2>6
  <1>11. CASE Revert(w)
    <2>1. r.pc # "forget"
      BY <1>11, RewriteGetMoves, LoopMoves, GoMoves DEF Revert
    <2>2. QED
      BY <1>2, <1>11, <2>1 DEF Revert, At
  <1>12. CASE Unlock(w)
    <2>1. k.pc = "unlock" /\ k.pr \in PRs /\ UNCHANGED <<auto, kept, excused>>
      BY <1>1, <1>12 DEF Unlock, At, RecordOK, Restores
    <2>2. r.pc # "forget"
      BY <1>12, <2>1, ReturnMoves, TakeMoves DEF Unlock
    <2>3. CASE lock' = lock
      BY <1>2, <2>1, <2>2, <2>3
    <2>4. CASE \E a \in k.todo :
                 lock' = IF lock[a].pr = k.pr THEN [lock EXCEPT ![a] = NoLock] ELSE lock
      <3>1. PICK a \in k.todo :
                 lock' = IF lock[a].pr = k.pr THEN [lock EXCEPT ![a] = NoLock] ELSE lock
        BY <2>4
      <3>2. a \in Apps
        BY <1>1 DEF Worker
      <3>3. \A b \in Apps : lock'[b] = lock[b] \/ (b = a /\ lock[b].pr = k.pr)
        BY <3>1, <3>2, FreedTouches
      <3>4. PlainKept'
        <4>1. a \in Plain => Back(a)
          BY <1>1, <2>1 DEF Sound, Restoring
        <4>2. \A b : Saving(b) => Saving(b)'
          BY <1>1, <2>1 DEF Saving, At
        <4>3. QED
          BY <2>1, <3>3, <4>1, <4>2 DEF PlainKept, Plain, Back
      <3>5. SetKept'
        <4>1. Carries(k.pr, a) /\ KeptBy(k.pr, a) => Lost(a)
          BY <1>1, <2>1, <3>2 DEF Sound, Naming
        <4>2. \A s : Storing(s) => Storing(s)'
          BY <1>1, <2>1 DEF Storing, At
        <4>3. \A s, p : Forgetting(s, p)' => Forgetting(s, p)
          BY <1>1, <2>1, <2>2 DEF Forgetting, At
        <4>4. ASSUME NEW s \in AppSets, NEW p, Keeper(s, p)
              PROVE  Keeper(s, p)' \/ Members(s) \subseteq excused
          <5>1. PICK b \in Members(s) : Carries(p, b)
            BY <4>4 DEF Keeper
          <5>2. b \in Apps /\ Owner[b] = s /\ <<s, p>> \in kept
            BY <4>4 DEF Members, Keeper
          <5>3. CASE lock'[b] = lock[b]
            BY <2>1, <4>3, <4>4, <5>1, <5>3 DEF Keeper, Carries, Members
          <5>4. CASE b = a /\ lock[b].pr = k.pr
            BY <4>1, <5>1, <5>2, <5>4 DEF Carries, KeptBy, Lost, Affected
          <5>5. QED
            BY <3>3, <5>2, <5>3, <5>4
        <4>5. QED
          BY <2>1, <4>2, <4>4 DEF SetKept, Members
      <3>6. QED
        BY <3>4, <3>5
    <2>5. QED
      BY <1>12, <2>3, <2>4 DEF Unlock
  <1>13. QED
    BY <1>3, <1>4, <1>5, <1>6, <1>8, <1>9, <1>10, <1>11, <1>12

LEMMA OtherKeeps ==
    ASSUME Remembered,
           \/ \E w \in Workers : Crash(w)
           \/ \E a \in Apps : Release(a) \/ SyncParent(a)
           \/ \E s \in AppSets : Reconcile(s)
           \/ \E s \in AppSets, p \in PRs : KeyExpires(s, p)
    PROVE  PlainKept' /\ SetKept'
  <1> USE DEF Remembered
  <1>1. ASSUME NEW w \in Workers, Crash(w)
        PROVE  PlainKept' /\ SetKept'
    <2>1. /\ \A v \in Workers \ {w} : worker'[v] = worker[v]
          /\ worker'[w].pc = "idle" /\ UNCHANGED <<auto, lock, kept>>
          /\ excused \subseteq excused'
      BY <1>1, OneWorker, ReturnMoves DEF Crash, Excuse
    <2>2. \A a : Saving(a) => Saving(a)' \/ a \in excused'
      BY <1>1, <2>1 DEF Saving, At, Crash, Excuse
    <2>3. \A s : Storing(s) => Storing(s)' \/ Members(s) \subseteq excused'
      BY <1>1, <2>1 DEF Storing, At, Crash, Excuse
    <2>4. \A s, p : Keeper(s, p) => Keeper(s, p)'
      BY <2>1 DEF Keeper, Forgetting, At, Carries, Members
    <2>5. PlainKept'
      BY <2>1, <2>2 DEF PlainKept, Plain
    <2>6. SetKept'
      BY <2>1, <2>3, <2>4 DEF SetKept, Members
    <2>7. QED
      BY <2>5, <2>6
  <1>2. ASSUME NEW a \in Apps, Release(a)
        PROVE  PlainKept' /\ SetKept'
    <2>1. \A b \in Apps \ {a} : lock'[b] = lock[b]
      BY <1>2 DEF Release, WellFormed, SharedOK
    <2>2. Lost(a)'
      BY <1>2 DEF Release, Excuse, Lost, Affected, Members
    <2>3. GentleToApps /\ GentleToSets
      BY <1>2, <2>1, <2>2 DEF Release, Excuse, GentleToApps, GentleToSets
    <2>4. QED
      BY <2>3, GentleKeepsApps, GentleKeepsSets
  <1>3. ASSUME NEW a \in Apps, SyncParent(a)
        PROVE  PlainKept' /\ SetKept'
    <2>1. GentleToApps /\ GentleToSets
      BY <1>3 DEF SyncParent, GentleToApps, GentleToSets
    <2>2. QED
      BY <2>1, GentleKeepsApps, GentleKeepsSets
  <1>4. ASSUME NEW s \in AppSets, Reconcile(s)
        PROVE  PlainKept' /\ SetKept'
    <2>1. Members(s) \intersect Plain = {} /\ Members(s) \intersect AppSets = {}
      BY AutoSyncAssumption DEF Members, Plain
    <2>2. GentleToApps /\ GentleToSets
      BY <1>4, <2>1 DEF Reconcile, GentleToApps, GentleToSets
    <2>3. QED
      BY <2>2, GentleKeepsApps, GentleKeepsSets
  <1>5. ASSUME NEW s \in AppSets, NEW p \in PRs, KeyExpires(s, p)
        PROVE  PlainKept' /\ SetKept'
    <2>1. /\ UNCHANGED <<auto, lock, worker>> /\ kept' = kept \ {<<s, p>>}
          /\ excused' = excused \union Members(s)
      BY <1>5 DEF KeyExpires, Excuse
    <2>2. GentleToApps
      BY <2>1 DEF GentleToApps
    <2>3. \A t, q : Keeper(t, q) => t = s \/ Keeper(t, q)'
      BY <2>1 DEF Keeper, Forgetting, At, Carries, Members
    <2>4. \A t : Storing(t) => Storing(t)'
      BY <2>1 DEF Storing, At
    <2>5. SetKept'
      BY <2>1, <2>3, <2>4 DEF SetKept, Members
    <2>6. QED
      BY <2>2, <2>5, GentleKeepsApps
  <1>6. QED
    BY <1>1, <1>2, <1>3, <1>4, <1>5

-----------------------------------------------------------------------------

\* An application that another task is saving has lost the lock the task relied on.
LEMMA SavingElsewhere ==
    ASSUME Remembered, NEW w \in Workers, worker[w].pc # "save", NEW p,
           \A v \in Workers \ {w} : worker[v].pr # p,
           NEW a \in Apps, lock[a].pr = p \/ Lost(a), Saving(a)
    PROVE  a \in excused
  <1>1. PICK v \in Workers : worker[v].pc = "save" /\ worker[v].app = a
    BY DEF Saving, At
  <1>2. a \in Relies(v) /\ v # w
    BY <1>1 DEF Relies
  <1>3. Lost(a)
    BY <1>2 DEF Remembered, Sound, Holding
  <1>4. QED
    BY <1>3, LostExcused

LEMMA NoOneElse ==
    ASSUME Remembered, NEW w \in Workers, worker[w].pc # "idle"
    PROVE  worker[w].pr \in PRs /\ \A v \in Workers \ {w} : worker[v].pr # worker[w].pr
  BY AutoSyncAssumption DEF Remembered, WellFormed, RecordOK, Apart

\* What there is to say of a worker that disables, and of one that begins a restore.
LEMMA DisablingSound ==
    ASSUME NEW w \in Workers, worker'[w].pc \in Disables,
           \A a \in Relies(w)' : lock'[a].pr = worker'[w].pr \/ Lost(a)',
           worker'[w].task = "sync" =>
              \A a \in (worker'[w].listed \intersect Plain) \ worker'[w].todo :
                 \/ lock'[a].saved \/ a \in excused'
                 \/ worker'[w].pc \in {"get", "put", "save"} /\ worker'[w].app = a,
           worker'[w].pc \in Template =>
              \E a \in Apps : a = worker'[w].app /\ (lock'[a].named \/ Lost(a)')
    PROVE  Sound(w)'
  <1>1. Holding(w)'
    BY DEF Holding
  <1>2. Remembering(w)'
    BY DEF Remembering, Disables, Syncs
  <1>3. Restoring(w)'
    BY DEF Restoring, Disables
  <1>4. Naming(w)'
    <2>1. worker'[w].pc \in Template => (lock[worker[w].app].named \/ Lost(worker[w].app))'
      BY DEF Lost, Affected
    <2>2. QED
      BY <2>1 DEF Naming, Disables
  <1>5. QED
    BY <1>1, <1>2, <1>3, <1>4 DEF Sound

LEMMA ListingSound ==
    ASSUME Remembered, NEW w \in Workers, NEW p \in PRs,
           \A v \in Workers \ {w} : worker[v].pr # p, worker[w].pc # "save",
           worker'[w].pc = "children", worker'[w].pr = p, worker'[w].task # "none",
           worker'[w].listed = Held(p), worker'[w].todo = Held(p),
           \A a \in Held(p) : worker'[w].copy[a] = lock[a],
           UNCHANGED <<auto, lock, kept, excused>>
    PROVE  Sound(w)'
  <1>1. \A a \in Held(p) : a \in Apps /\ lock[a].pr = p
    BY DEF Held
  <1>2. Holding(w)'
    BY <1>1 DEF Holding, Relies, Template
  <1>3. Remembering(w)'
    BY DEF Remembering, Disables, Syncs
  <1>4. \A a \in Held(p) \intersect Plain : Back(a)' \/ lock[a].saved
    BY <1>1, SavingElsewhere DEF Remembered, PlainKept, Back
  <1>5. Restoring(w)'
    BY <1>4 DEF Restoring, Back
  <1>6. Naming(w)'
    BY DEF Naming, Carries, Held, Template
  <1>7. QED
    BY <1>2, <1>3, <1>5, <1>6 DEF Sound

LEMMA BeginSound ==
    ASSUME Remembered, OneTaskPerPR, NEW w \in Workers, Begin(w)
    PROVE  Sound(w)'
  <1> USE DEF Remembered
  <1>1. PICK p \in PRs : \/ BeginSync(w, p) \/ BeginRollbackAll(w, p) \/ BeginUnlockAll(w, p)
                         \/ \E a \in Apps : Plan(w, p, a) \/ BeginRollback(w, p, a)
    BY DEF Begin
  <1>2. worker[w].pc = "idle" /\ \A v \in Workers : worker[v].pr # p
    BY <1>1, BeginTouches DEF BeginSync, BeginRollbackAll, BeginUnlockAll, Plan, BeginRollback, May, At
  <1>3. CASE \E a \in Apps : Plan(w, p, a)
    BY <1>2, <1>3, IdleSound DEF Plan, WellFormed, RecordOK
  <1>4. CASE BeginSync(w, p) \/ BeginRollbackAll(w, p)
    <2>1. LET r == worker'[w] IN
          r.pc = "map" /\ r.pr = p /\ r.listed \subseteq Held(p) /\ r.todo = r.listed
      BY <1>4, BeginMoves
    <2>2. lock' = lock
      BY <1>4 DEF BeginSync, BeginRollbackAll
    <2>3. \A a \in Relies(w)' : lock'[a].pr = p
      BY <2>1, <2>2 DEF Relies, Held, Template
    <2>4. QED
      BY <2>1, <2>3, DisablingSound DEF Disables, Template
  <1>5. ASSUME NEW a \in Apps, BeginRollback(w, p, a)
        PROVE  Sound(w)'
    <2>1. LET r == worker'[w] IN
          r.pc = "get" /\ r.pr = p /\ r.listed = {} /\ r.app = a /\ r.task = "rollback"
      BY <1>5, BeginMoves
    <2>2. lock'[a].pr = p \/ Lost(a)'
      BY <1>5 DEF BeginRollback, Excuse, Lost, Affected, Members
    <2>3. Relies(w)' = {a}
      BY <2>1 DEF Relies
    <2>4. QED
      BY <2>1, <2>2, <2>3, DisablingSound DEF Disables, Template
  <1>6. CASE BeginUnlockAll(w, p)
    <2>1. LET r == worker'[w] IN
          /\ r.pc = "children" /\ r.pr = p /\ r.listed = Held(p) /\ r.todo = Held(p)
          /\ r.task = "close" /\ \A a \in Held(p) : r.copy[a] = lock[a]
      BY <1>6, BeginMoves
    <2>2. UNCHANGED <<auto, lock, kept, excused>>
      BY <1>6 DEF BeginUnlockAll
    <2>3. QED
      BY <1>2, <2>1, <2>2, ListingSound
  <1>7. QED
    BY <1>1, <1>3, <1>4, <1>5, <1>6

LEMMA DisableSound ==
    ASSUME Remembered, NEW w \in Workers,
           \/ BuildParentMap(w) \/ NextApp(w) \/ DisableGet(w) \/ DisablePut(w)
           \/ DisableFails(w) \/ Save(w) \/ SetGet(w) \/ SetPut(w) \/ SetStore(w)
           \/ FindParents(w) \/ LockParent(w)
    PROVE  Sound(w)'
  <1> USE DEF Remembered
  <1> DEFINE k == worker[w]
             r == worker'[w]
             Mine(a) == lock[a].pr = k.pr \/ Lost(a)
             Safe(a) == lock[a].saved \/ a \in excused
  <1>1. /\ k \in Worker /\ RecordOK(k) /\ Holding(w) /\ Remembering(w) /\ Naming(w)
        /\ k.listed \subseteq Apps
    BY DEF WellFormed, Sound, Worker
  <1>2. k.pc \in Disables
    BY DEF BuildParentMap, NextApp, DisableGet, DisablePut, DisableFails, Save, SetGet, SetPut,
           SetStore, FindParents, LockParent, At, Disables
  <1>3. /\ \A a \in k.listed : Mine(a)
        /\ k.pc \in {"get", "put", "save"} \union Template => k.app \in Apps /\ Mine(k.app)
        /\ k.task = "sync" => \A a \in (k.listed \intersect Plain) \ k.todo :
              Safe(a) \/ (k.pc \in {"get", "put", "save"} /\ a = k.app)
    BY <1>1, <1>2 DEF Holding, Relies, Remembering, RecordOK, Disables, Template
  <1>4. CASE worker'[w] = Idle
    BY <1>4, IdleSound
  \* What is left to say of a step that goes on disabling.
  <1>5. ASSUME Continues(r, k), r.pc \in Disables \ Template, r.todo = k.todo,
               excused \subseteq excused',
               \A a \in k.listed : \/ Lost(a)'
                                   \/ lock'[a].pr = lock[a].pr /\ (lock[a].saved => lock'[a].saved)
                                   \/ lock'[a].pr = k.pr /\ ~lock[a].saved,
               r.pc \in {"get", "put", "save"} =>
                  \E a \in Apps : r.app = a /\ (lock'[a].pr = k.pr \/ Lost(a)'),
               k.pc \in {"get", "put", "save"} /\ k.app \in k.listed \intersect Plain =>
                  \E a \in Apps : k.app = a /\
                     (lock'[a].saved \/ a \in excused'
                        \/ (r.pc \in {"get", "put", "save"} /\ r.app = a))
         PROVE  Sound(w)'
    <2>1. \A a \in k.listed : lock'[a].pr = k.pr \/ Lost(a)'
      BY <1>1, <1>3, <1>5, LostStays
    <2>2. \A a \in Relies(w)' : lock'[a].pr = r.pr \/ Lost(a)'
      <3>1. SUFFICES ASSUME NEW a \in Relies(w)'
                     PROVE  lock'[a].pr = r.pr \/ Lost(a)'
        OBVIOUS
      <3>2. a \in r.listed \/ (a = r.app /\ r.pc \in {"get", "put", "save"})
        BY <1>5 DEF Relies, Disables, Template
      <3>3. QED
        BY <1>5, <2>1, <3>2 DEF Continues
    <2>3. r.task = "sync" => \A a \in (r.listed \intersect Plain) \ r.todo :
             lock'[a].saved \/ a \in excused' \/ (r.pc \in {"get", "put", "save"} /\ r.app = a)
      BY <1>3, <1>5, LostExcused DEF Continues
    <2>4. QED
      BY <1>5, <2>2, <2>3, DisablingSound
  <1>6. CASE BuildParentMap(w)
    BY <1>5, <1>6, MapMoves DEF BuildParentMap, At, Disables, Template
  <1>7. CASE NextApp(w)
    <2>1. UNCHANGED <<lock, excused>> /\ k.pc = "next"
      BY <1>7 DEF NextApp, At
    <2>2. CASE \E a \in k.todo : /\ Continues(r, k) /\ r.pc = "get" /\ r.app = a
                                 /\ r.todo = k.todo \ {a}
      <3>1. PICK a \in k.todo : /\ Continues(r, k) /\ r.pc = "get" /\ r.app = a
                                /\ r.todo = k.todo \ {a}
        BY <2>2
      <3>2. a \in k.listed
        BY <1>1 DEF RecordOK
      <3>3. \A b \in Relies(w)' : lock'[b].pr = r.pr \/ Lost(b)'
        BY <1>3, <2>1, <3>1, <3>2, LostStays DEF Relies, Continues, Template
      <3>4. r.task = "sync" => \A b \in (r.listed \intersect Plain) \ r.todo :
               lock'[b].saved \/ b \in excused' \/ (r.pc = "get" /\ r.app = b)
        BY <1>3, <2>1, <3>1 DEF Continues
      <3>5. QED
        BY <3>1, <3>3, <3>4, DisablingSound DEF Disables, Template
    <2>3. CASE /\ Continues(r, k) /\ r.pc = "sync" /\ k.todo = {} /\ k.task = "sync"
               /\ r.todo = k.listed
      <3>1. Holding(w)'
        BY <1>3, <2>1, <2>3, LostStays DEF Holding, Relies, Continues, Template
      <3>2. Remembering(w)'
        BY <1>3, <2>1, <2>3 DEF Remembering, Continues, Disables
      <3>3. Restoring(w)' /\ Naming(w)'
        BY <2>3 DEF Restoring, Naming, Continues, Template
      <3>4. QED
        BY <3>1, <3>2, <3>3 DEF Sound
    <2>4. QED
      BY <1>4, <1>7, <2>2, <2>3, NextMoves
  <1>8. CASE DisableGet(w)
    <2>1. UNCHANGED <<auto, lock, excused>> /\ k.pc = "get" /\ Continues(r, k)
          /\ r.todo = k.todo /\ r.app = k.app /\ r.pc = IF k.app \in auto THEN "put" ELSE "find"
      BY <1>8, GoMoves DEF DisableGet, At
    <2>2. PICK a \in Apps : a = k.app /\ Mine(a)
      BY <1>3, <2>1
    <2>3. CASE a \in auto
      BY <1>5, <2>1, <2>2, <2>3, LostStays DEF Disables, Template
    <2>4. CASE a \notin auto
      <3>1. a \in Plain => Safe(a)
        <4>1. \A v \in Workers \ {w} : worker[v].pr # k.pr
          BY <2>1, NoOneElse
        <4>2. Saving(a) => a \in excused
          BY <2>1, <2>2, <4>1, SavingElsewhere
        <4>3. QED
          BY <2>4, <4>2 DEF PlainKept
      <3>2. QED
        BY <1>5, <2>1, <2>2, <2>4, <3>1 DEF Disables, Template
    <2>5. QED
      BY <2>3, <2>4
  <1>9. CASE DisablePut(w)
    <2>1. UNCHANGED <<lock, excused>> /\ k.pc = "put" /\ Continues(r, k)
          /\ r.todo = k.todo /\ r.app = k.app /\ r.pc = "save"
      BY <1>9, GoMoves DEF DisablePut, At
    <2>2. PICK a \in Apps : a = k.app /\ Mine(a)
      BY <1>3, <2>1
    <2>3. QED
      BY <1>5, <2>1, <2>2, LostStays DEF Disables, Template
  <1>10. CASE DisableFails(w)
    <2>1. k.pc \in {"get", "put"} /\ excused \subseteq excused'
      BY <1>10 DEF DisableFails, At, Excuse
    <2>2. CASE Return(w)
      BY <1>4, <2>2, ReturnMoves
    <2>3. CASE /\ Go(w, "up") /\ Excuse(Affected(k.app))
               /\ lock' = IF lock[k.app].pr = k.pr THEN [lock EXCEPT ![k.app] = NoLock] ELSE lock
      <3>1. PICK a \in Apps : a = k.app
        BY <1>3, <2>1
      <3>2. \A b \in Apps : lock'[b] = lock[b] \/ b = a
        BY <2>3, <3>1, FreedTouches
      <3>3. Lost(a)' /\ a \in excused'
        BY <2>3, <3>1 DEF Excuse, Lost, Affected, Members
      <3>4. Continues(r, k) /\ r.pc = "up" /\ r.todo = k.todo
        BY <2>3, GoMoves
      <3>5. QED
        BY <1>1, <1>5, <2>1, <3>1, <3>2, <3>3, <3>4 DEF Disables, Template
    <2>4. QED
      BY <1>10, <2>2, <2>3 DEF DisableFails
  <1>11. CASE Save(w)
    <2>1. k.pc = "save"
      BY <1>11 DEF Save, At
    <2>2. PICK a \in Apps : a = k.app /\ Mine(a)
      BY <1>3, <2>1
    <2>3. CASE Return(w)
      BY <1>4, <2>3, ReturnMoves
    <2>4. CASE Go(w, "find") /\ UNCHANGED lock /\ Excuse(Affected(a))
      <3>1. a \in excused' /\ excused \subseteq excused'
        BY <2>4 DEF Excuse, Affected
      <3>2. Continues(r, k) /\ r.pc = "find" /\ r.todo = k.todo
        BY <2>4, GoMoves
      <3>3. QED
        BY <1>5, <2>2, <2>4, <3>1, <3>2 DEF Disables, Template
    <2>5. ASSUME lock' = [lock EXCEPT ![a].saved = TRUE, ![a].named = Named(w, lock[a]),
                                      ![a].parent = @ \/ k.asParent],
                 UNCHANGED excused, NEW pc, Go(w, pc),
                 \/ pc = "find"
                 \/ pc = "set.get" /\ SetLeft(w) /\ ~k.asParent
          PROVE  Sound(w)'
      <3>1. /\ \A b \in Apps \ {a} : lock'[b] = lock[b]
            /\ lock'[a].pr = lock[a].pr /\ lock'[a].saved /\ lock'[a].named = Named(w, lock[a])
        BY <2>2, <2>5, SavedLock
      <3>2. Continues(r, k) /\ r.pc = pc /\ r.todo = k.todo /\ r.app = k.app
        BY <2>5, GoMoves
      <3>3. \A b \in k.listed : lock'[b].pr = lock[b].pr /\ (lock[b].saved => lock'[b].saved)
        BY <1>1, <3>1
      <3>4. CASE pc = "find"
        BY <1>5, <2>2, <2>5, <3>1, <3>2, <3>3, <3>4 DEF Disables, Template
      <3>5. CASE pc = "set.get" /\ SetLeft(w) /\ ~k.asParent
        <4>1. Named(w, lock[a])
          BY <3>5 DEF Named, SetLeft
        <4>2. \A b \in Relies(w)' : lock'[b].pr = r.pr \/ Lost(b)'
          <5>1. \A b \in Relies(w)' : b \in k.listed \/ b = a
            BY <2>2, <3>2, <3>5 DEF Relies, Continues, Template
          <5>2. QED
            BY <1>3, <2>2, <2>5, <3>1, <3>2, <3>3, <5>1, LostStays DEF Continues
        <4>3. r.task = "sync" => \A b \in (r.listed \intersect Plain) \ r.todo :
                 lock'[b].saved \/ b \in excused'
          BY <1>3, <2>2, <2>5, <3>1, <3>2, <3>3 DEF Continues
        <4>4. QED
          BY <2>2, <3>1, <3>2, <3>5, <4>1, <4>2, <4>3, DisablingSound DEF Disables, Template
      <3>6. QED
        BY <2>5, <3>4, <3>5
    <2>6. QED
      BY <1>11, <2>2, <2>3, <2>4, <2>5 DEF Save
  <1>12. CASE SetGet(w) \/ SetPut(w)
    <2>1. /\ k.pc \in Template /\ UNCHANGED <<lock, excused>> /\ Continues(r, k)
          /\ r.pc \in {"set.put", "set.store", "find"} /\ r.todo = k.todo /\ r.app = k.app
      BY <1>12, SetGetMoves, GoMoves DEF SetGet, SetPut, At, Template
    <2>2. PICK a \in Apps : a = k.app /\ Mine(a)
      BY <1>3, <2>1
    <2>3. lock[a].named \/ Lost(a)
      BY <1>1, <2>1, <2>2 DEF Naming
    <2>4. \A b \in Relies(w)' : b \in k.listed \/ b = a
      BY <2>1, <2>2 DEF Relies, Continues, Template
    <2>5. \A b \in Relies(w)' : lock'[b].pr = r.pr \/ Lost(b)'
      BY <1>3, <2>1, <2>2, <2>4, LostStays DEF Continues
    <2>6. r.task = "sync" => \A b \in (r.listed \intersect Plain) \ r.todo :
             lock'[b].saved \/ b \in excused'
      BY <1>3, <2>1 DEF Continues, Template
    <2>7. QED
      BY <2>1, <2>2, <2>3, <2>5, <2>6, LostStays, DisablingSound DEF Disables
  <1>13. CASE SetStore(w)
    <2>1. /\ k.pc = "set.store" /\ UNCHANGED lock /\ Continues(r, k) /\ r.pc = "find"
          /\ r.todo = k.todo /\ excused \subseteq excused'
      BY <1>13, GoMoves DEF SetStore, At, Excuse
    <2>2. QED
      BY <1>5, <2>1 DEF Disables, Template
  <1>14. CASE FindParents(w)
    BY <1>5, <1>14, FindMoves DEF FindParents, At, Disables, Template
  <1>15. CASE LockParent(w)
    <2>1. k.pc = "up" /\ UNCHANGED excused /\ Continues(r, k) /\ r.todo = k.todo
      BY <1>15, UpMoves DEF LockParent, At
    <2>2. CASE r.pc \in {"next", "up"} /\ lock' = lock
      BY <1>5, <2>1, <2>2 DEF Disables, Template
    <2>3. CASE \E a \in Apps :
                 /\ r.pc = "get" /\ r.app = a
                 /\ lock[a].pr \in {NoPR, k.pr} /\ lock'[a].pr = k.pr
                 /\ lock[a].pr # NoPR => lock'[a] = lock[a]
                 /\ \A b \in Apps \ {a} : lock'[b] = lock[b]
      <3>1. PICK a \in Apps :
                 /\ r.pc = "get" /\ r.app = a
                 /\ lock[a].pr \in {NoPR, k.pr} /\ lock'[a].pr = k.pr
                 /\ lock[a].pr # NoPR => lock'[a] = lock[a]
                 /\ \A b \in Apps \ {a} : lock'[b] = lock[b]
        BY <2>3
      <3>2. \A b \in k.listed :
               \/ lock'[b].pr = lock[b].pr /\ (lock[b].saved => lock'[b].saved)
               \/ lock'[b].pr = k.pr /\ ~lock[b].saved
        BY <1>1, <3>1, FreeLocks
      <3>3. QED
        BY <1>5, <2>1, <3>1, <3>2 DEF Disables, Template
    <2>4. QED
      BY <1>15, <2>2, <2>3, UpMoves
  <1>16. QED
    BY <1>6, <1>7, <1>8, <1>9, <1>10, <1>11, <1>12, <1>13, <1>14, <1>15

\* A step of a restore: what a worker holds it goes on holding, and it needs nothing else.
LEMMA RestoringHolds ==
    ASSUME Remembered, NEW w \in Workers, Continues(worker'[w], worker[w]),
           worker[w].pc \in {"children", "parents", "sets", "forget", "revert", "rewrite", "sync",
                             "merge"},
           worker'[w].pc \notin {"get", "put", "save"} \union Template,
           worker'[w].todo \subseteq worker'[w].listed,
           lock' = lock, excused \subseteq excused'
    PROVE  Holding(w)'
  <1>1. \A a \in worker[w].listed : lock[a].pr = worker[w].pr \/ Lost(a)
    BY DEF Remembered, Sound, Holding, Relies, Template
  <1>2. Relies(w)' \subseteq worker[w].listed
    BY DEF Relies, Continues
  <1>3. QED
    BY <1>1, <1>2, LostStays DEF Holding, Continues

LEMMA SyncSound ==
    ASSUME Remembered, OneTaskPerPR, NEW w \in Workers,
           Sync(w) \/ Rewrite(w) \/ Merge(w) \/ Relist(w) \/ Revert(w)
    PROVE  Sound(w)'
  <1> USE DEF Remembered
  <1> DEFINE k == worker[w]
             r == worker'[w]
  <1>1. /\ k \in Worker /\ RecordOK(k) /\ Sound(w) /\ r \in Worker /\ RecordOK(r)
        /\ r.todo \subseteq r.listed
    BY OneWorker DEF WellFormed, Step, RecordOK
  <1>2. UNCHANGED <<lock, kept, excused>>
    BY DEF Sync, Rewrite, Merge, Relist, Revert
  <1>3. CASE r = Idle
    BY <1>3, IdleSound
  \* A sync that has gone through the disabling keeps what it knows.
  <1>4. ASSUME Continues(r, k), k.task = "sync", k.pc \in {"sync", "merge", "revert", "rewrite"},
               r.pc \in {"sync", "merge", "revert", "rewrite", "list"}
        PROVE  Sound(w)'
    <2>1. Holding(w)'
      BY <1>1, <1>2, <1>4, RestoringHolds DEF Template
    <2>2. Remembering(w)'
      BY <1>1, <1>2, <1>4 DEF Sound, Remembering, Continues, Disables, Syncs
    <2>3. Restoring(w)' /\ Naming(w)'
      BY <1>4 DEF Restoring, Naming, Continues, Template
    <2>4. QED
      BY <2>1, <2>2, <2>3 DEF Sound
  <1>5. CASE Sync(w)
    <2>1. k.pc = "sync" /\ k.task = "sync"
      BY <1>1, <1>5 DEF Sync, At, RecordOK, Syncs
    <2>2. Continues(r, k) /\ r.pc \in {"rewrite", "merge"}
      BY <1>5, RewriteGetMoves, LoopMoves DEF Sync
    <2>3. QED
      BY <1>4, <2>1, <2>2
  <1>6. CASE Merge(w)
    <2>1. k.pc = "merge" /\ k.task = "sync"
      BY <1>1, <1>6 DEF Merge, At, RecordOK, Syncs
    <2>2. r = Idle \/ (Continues(r, k) /\ r.pc = "revert")
      BY <1>6, ReturnMoves, LoopMoves DEF Merge
    <2>3. QED
      BY <1>3, <1>4, <2>1, <2>2
  <1>7. CASE Relist(w)
    <2>1. k.pc = "list" /\ k.task = "sync" /\ k.pr \in PRs /\ UNCHANGED <<auto, lock, kept, excused>>
      BY <1>1, <1>7 DEF Relist, At, RecordOK, Syncs
    <2>2. PICK p \in PRs : p = k.pr
      BY <2>1
    <2>3. \A v \in Workers \ {w} : worker[v].pr # p
      BY <2>1, <2>2, NoOneElse
    <2>4. /\ r.pc = "children" /\ r.pr = p /\ r.listed = Held(p) /\ r.todo = Held(p)
          /\ r.task = k.task /\ \A a \in Held(p) : r.copy[a] = lock[a]
      BY <1>7, <2>2, BeginMoves
    <2>5. QED
      BY <2>1, <2>3, <2>4, ListingSound
  <1>8. CASE Rewrite(w)
    <2>1. /\ k.pc = "rewrite" /\ Continues(r, k) /\ r.pc = k.then /\ k.task \in {"sync", "close"}
          /\ k.then \in {"sync", "revert"} /\ (k.task = "close" => k.then = "revert")
          /\ auto' = IF k.seen THEN auto \union {k.app} ELSE auto \ {k.app}
      BY <1>1, <1>8, RewriteMoves DEF Rewrite, At, RecordOK
    <2>2. CASE k.task = "sync"
      BY <1>4, <2>1, <2>2
    <2>3. CASE k.task = "close"
      <3>1. Holding(w)'
        BY <1>1, <1>2, <2>1, <2>3, RestoringHolds DEF Template
      <3>2. Remembering(w)'
        BY <2>3, <2>1 DEF Remembering, Continues
      <3>3. \A a \in k.listed \intersect Plain : Back(a)'
        BY <1>1, <1>2, <2>1, <2>3 DEF Sound, Restoring, Back
      <3>4. Restoring(w)'
        BY <2>1, <2>3, <3>3 DEF Restoring, Continues
      <3>5. Naming(w)'
        BY <1>1, <1>2, <2>1, <2>3
           DEF Sound, Naming, Continues, Carries, KeptBy, Lost, Affected, Members, Template
      <3>6. QED
        BY <3>1, <3>2, <3>4, <3>5 DEF Sound
    <2>4. QED
      BY <2>1, <2>2, <2>3
  <1>9. CASE Revert(w)
    <2>1. k.pc = "revert" /\ k.task \in {"sync", "close"} /\ auto' = auto
      BY <1>1, <1>9 DEF Revert, At, RecordOK
    <2>2. CASE k.task = "sync"
      <3>1. Continues(r, k) /\ r.pc \in {"rewrite", "list"}
        BY <1>9, <2>2, RewriteGetMoves, GoMoves DEF Revert
      <3>2. QED
        BY <1>4, <2>1, <2>2, <3>1
    <2>3. CASE k.task = "close"
      <3>1. /\ Continues(r, k)
            /\ \/ r.pc = "rewrite" /\ r.app \in k.todo /\ r.seen = (r.app \in auto)
               \/ r.pc = "unlock" /\ r.todo = k.listed
        BY <1>9, <2>3, RewriteGetMoves, LoopMoves DEF Revert
      <3>2. Holding(w)'
        BY <1>1, <1>2, <2>1, <3>1, RestoringHolds DEF Template
      <3>3. Remembering(w)'
        BY <2>3, <3>1 DEF Remembering, Continues
      <3>4. \A a \in k.listed \intersect Plain : Back(a)'
        BY <1>1, <1>2, <2>1, <2>3 DEF Sound, Restoring, Back
      <3>5. Restoring(w)'
        <4>1. CASE r.pc = "unlock"
          BY <3>1, <3>4, <4>1 DEF Restoring, Continues
        <4>2. CASE r.pc = "rewrite" /\ r.app \in k.todo
          <5>1. r.app \in k.listed
            BY <1>1, <4>2 DEF RecordOK
          <5>2. r.app \in Plain => r.seen \/ r.app \in excused'
            <6>1. ASSUME r.app \in Plain
                  PROVE  r.app \in auto \/ r.app \in excused'
              BY <2>1, <3>4, <5>1, <6>1 DEF Back
            <6>2. r.app \in auto => r.seen
              BY <3>1, <4>2
            <6>3. QED
              BY <6>1, <6>2
          <5>3. QED
            BY <3>1, <3>4, <4>2, <5>2 DEF Restoring, Continues
        <4>3. QED
          BY <3>1, <4>1, <4>2
      <3>6. Naming(w)'
        BY <1>1, <1>2, <2>1, <2>3, <3>1
           DEF Sound, Naming, Continues, Carries, KeptBy, Lost, Affected, Members, Template
      <3>7. QED
        BY <3>2, <3>3, <3>5, <3>6 DEF Sound
    <2>4. QED
      BY <2>1, <2>2, <2>3
  <1>10. QED
    BY <1>5, <1>6, <1>7, <1>8, <1>9

LEMMA RestoreSound ==
    ASSUME Remembered, NEW w \in Workers,
           RestoreChildren(w) \/ RestoreParents(w) \/ RestoreSet(w) \/ ForgetSet(w) \/ Unlock(w)
    PROVE  Sound(w)'
  <1> USE DEF Remembered
  <1> DEFINE k == worker[w]
             r == worker'[w]
  <1>1. /\ k \in Worker /\ RecordOK(k) /\ Sound(w) /\ r \in Worker /\ RecordOK(r)
        /\ r.todo \subseteq r.listed /\ k.todo \subseteq k.listed /\ k.listed \subseteq Apps
    BY OneWorker DEF WellFormed, Step, RecordOK, Worker
  <1>2. excused \subseteq excused' /\ \A a \in Apps : Lost(a) => Lost(a)'
    BY LostStays DEF RestoreChildren, RestoreParents, RestoreApps, RestoreSet, ForgetSet, Unlock,
                     Excuse
  <1>3. CASE r = Idle
    BY <1>3, IdleSound
  <1>4. ASSUME r.pc \in {"children", "parents", "sets", "forget", "unlock"}
        PROVE  Remembering(w)'
    BY <1>4 DEF Remembering, Disables, Syncs
  \* The locks and the keys a restore has looked at.
  <1>5. ASSUME lock' = lock, kept' \subseteq kept
        PROVE  \A p : \A a \in Apps : /\ Carries(p, a)' => Carries(p, a)
                                      /\ KeptBy(p, a)' => KeptBy(p, a)
    BY <1>5 DEF Carries, KeptBy
  <1>6. CASE RestoreChildren(w) \/ RestoreParents(w)
    <2>1. /\ k.pc \in {"children", "parents"} /\ UNCHANGED <<lock, kept>> /\ auto \subseteq auto'
          /\ RestoreChildren(w) => k.pc = "children"
          /\ RestoreParents(w) => k.pc = "parents"
      BY <1>6 DEF RestoreChildren, RestoreParents, RestoreApps, At
    <2>2. /\ Continues(r, k)
          /\ \/ /\ r.pc = k.pc
                /\ \E a \in k.todo : r.todo = k.todo \ {a} /\ Back(a)'
             \/ /\ r.todo = k.listed
                /\ k.pc = "children" /\ r.pc = "parents"
                /\ \A a \in k.todo : k.copy[a].saved => k.copy[a].parent
             \/ /\ r.todo = k.listed
                /\ k.pc = "parents" /\ r.pc = "sets"
                /\ \A a \in k.todo : k.copy[a].saved => ~k.copy[a].parent
      <3>1. ASSUME NEW pc, NEW S, NEW next, RestoreApps(w, pc, S, next)
            PROVE  \/ /\ Continues(r, k) /\ r.pc = k.pc
                      /\ \E a \in k.todo : r.todo = k.todo \ {a} /\ Back(a)'
                   \/ /\ Continues(r, k) /\ r.pc = next /\ r.todo = k.listed
                      /\ \A a \in k.todo \intersect S : ~k.copy[a].saved
        <4>1. CASE \E a \in k.todo : Set(w, [k EXCEPT !.todo = @ \ {a}]) /\ Back(a)'
          BY <4>1, TakeMoves
        <4>2. CASE Loop(w, next) /\ \A a \in k.todo \intersect S : ~k.copy[a].saved
          BY <4>2, LoopMoves
        <4>3. QED
          BY <3>1, <4>1, <4>2 DEF RestoreApps, Back, Excuse
      <3>2. CASE RestoreChildren(w)
        BY <1>1, <2>1, <3>1, <3>2 DEF RestoreChildren, ParentLocks
      <3>3. CASE RestoreParents(w)
        BY <1>1, <2>1, <3>1, <3>3 DEF RestoreParents, ParentLocks
      <3>4. QED
        BY <1>6, <3>2, <3>3
    <2>3. Holding(w)'
      BY <1>1, <1>2, <2>1, <2>2, RestoringHolds DEF Template
    <2>4. \A a \in Apps : Back(a) => Back(a)'
      BY <1>2, <2>1 DEF Back
    <2>5. k.pc = "children" => \A a \in k.listed \intersect Plain :
             Back(a) \/ (k.copy[a].saved /\ (a \in k.todo \/ k.copy[a].parent))
      BY <1>1 DEF Sound, Restoring
    <2>6. k.pc = "parents" => \A a \in k.listed \intersect Plain :
             Back(a) \/ (k.copy[a].saved /\ a \in k.todo /\ k.copy[a].parent)
      BY <1>1 DEF Sound, Restoring
    <2>7. Restoring(w)'
      <3>1. CASE r.pc = "children"
        <4>1. \A a \in k.listed \intersect Plain :
                 Back(a)' \/ (k.copy[a].saved /\ (a \in r.todo \/ k.copy[a].parent))
          BY <1>1, <2>1, <2>2, <2>4, <2>5, <3>1
        <4>2. QED
          BY <2>2, <3>1, <4>1 DEF Restoring, Continues
      <3>2. CASE r.pc = "parents"
        <4>1. \A a \in k.listed \intersect Plain :
                 Back(a)' \/ (k.copy[a].saved /\ a \in r.todo /\ k.copy[a].parent)
          BY <1>1, <2>1, <2>2, <2>4, <2>5, <2>6, <3>2
        <4>2. QED
          BY <2>2, <3>2, <4>1 DEF Restoring, Continues
      <3>3. CASE r.pc = "sets"
        <4>1. \A a \in k.listed \intersect Plain : Back(a)'
          BY <1>1, <2>1, <2>2, <2>4, <2>6, <3>3
        <4>2. QED
          BY <2>2, <3>3, <4>1 DEF Restoring, Continues
      <3>4. QED
        BY <2>1, <2>2, <3>1, <3>2, <3>3
    <2>8. Naming(w)'
      <3>1. \A a \in Apps : Carries(k.pr, a) => Lost(a) \/ (a \in k.listed /\ k.copy[a].named)
        BY <1>1, <2>1 DEF Sound, Naming
      <3>2. \A a \in Apps : Carries(k.pr, a) => Lost(a)' \/ (a \in r.listed /\ r.copy[a].named)
        BY <1>2, <2>2, <3>1 DEF Continues
      <3>3. r.pc = "sets" => r.todo = r.listed
        BY <2>1, <2>2 DEF Continues
      <3>4. QED
        BY <2>1, <2>2, <3>2, <3>3
           DEF Naming, Continues, Carries, KeptBy, Lost, Affected, Members, Template
    <2>9. QED
      BY <1>4, <2>1, <2>2, <2>3, <2>7, <2>8 DEF Sound
  <1>7. CASE RestoreSet(w)
    <2>1. /\ k.pc = "sets" /\ UNCHANGED <<lock, kept>> /\ auto \subseteq auto'
          /\ k.task \in {"sync", "close"}
      BY <1>1, <1>7 DEF RestoreSet, At, RecordOK, Restores
    <2>2. \A a \in k.listed \intersect Plain : Back(a)'
      BY <1>1, <1>2, <2>1 DEF Sound, Restoring, Back
    <2>3. \A a \in Apps : Carries(k.pr, a) => Lost(a) \/ (a \in k.listed /\ k.copy[a].named)
      BY <1>1, <2>1 DEF Sound, Naming
    <2>4. \A a \in Apps : Carries(k.pr, a) /\ KeptBy(k.pr, a) => Lost(a) \/ a \in k.todo
      BY <1>1, <2>1 DEF Sound, Naming
    \* The next application: its template's key is gone through, or there is none.
    <2>5. CASE \E a \in k.todo :
                  /\ Set(w, [k EXCEPT !.pc = "forget", !.app = a, !.todo = @ \ {a}])
      <3>1. PICK a \in k.todo :
                  Continues(r, k) /\ r.pc = "forget" /\ r.app = a /\ r.todo = k.todo \ {a}
        BY <2>5, ForgetMoves
      <3>2. Holding(w)'
        BY <1>1, <1>2, <2>1, <3>1, RestoringHolds DEF Template
      <3>3. Restoring(w)'
        BY <2>2, <3>1 DEF Restoring, Continues
      <3>4. \A b \in Apps : Carries(k.pr, b) => Lost(b)' \/ (b \in k.listed /\ k.copy[b].named)
        BY <1>2, <2>3
      <3>5. \A b \in Apps : Carries(k.pr, b) /\ KeptBy(k.pr, b) =>
                Lost(b)' \/ b \in r.todo \/ Owner[a] = Owner[b]
        BY <1>2, <2>4, <3>1
      <3>6. Naming(w)'
        BY <2>1, <3>1, <3>4, <3>5
           DEF Naming, Continues, Carries, KeptBy, Lost, Affected, Members, Template
      <3>7. QED
        BY <1>4, <3>1, <3>2, <3>3, <3>6 DEF Sound
    <2>6. ASSUME NEW a \in k.todo, Set(w, [k EXCEPT !.todo = @ \ {a}]),
                 Carries(k.pr, a) /\ KeptBy(k.pr, a) => Lost(a)'
          PROVE  Sound(w)'
      <3>1. Continues(r, k) /\ r.pc = "sets" /\ r.todo = k.todo \ {a}
        BY <2>1, <2>6, TakeMoves
      <3>2. Holding(w)'
        BY <1>1, <1>2, <2>1, <3>1, RestoringHolds DEF Template
      <3>3. Restoring(w)'
        BY <2>2, <3>1 DEF Restoring, Continues
      <3>4. \A b \in Apps : Carries(k.pr, b) => Lost(b)' \/ (b \in k.listed /\ k.copy[b].named)
        BY <1>2, <2>3
      <3>5. \A b \in Apps : Carries(k.pr, b) /\ KeptBy(k.pr, b) => Lost(b)' \/ b \in r.todo
        BY <1>2, <2>4, <2>6, <3>1
      <3>6. Naming(w)'
        BY <2>1, <3>1, <3>4, <3>5
           DEF Naming, Continues, Carries, KeptBy, Lost, Affected, Members, Template
      <3>7. QED
        BY <1>4, <3>1, <3>2, <3>3, <3>6 DEF Sound
    <2>7. ASSUME NEW a \in k.todo, <<Owner[a], k.pr>> \in kept, Excuse(Members(Owner[a]))
          PROVE  Lost(a)'
      <3>1. Owner[a] # NoSet /\ a \in Apps
        BY <1>1, <2>7, AutoSyncAssumption DEF WellFormed, SharedOK
      <3>2. QED
        BY <2>7, <3>1 DEF Excuse, Lost, Affected, Members
    <2>8. ASSUME NEW a \in k.todo, ~(k.copy[a].named /\ <<Owner[a], k.pr>> \in kept)
          PROVE  Carries(k.pr, a) /\ KeptBy(k.pr, a) => Lost(a)'
      BY <1>1, <1>2, <2>3, <2>8 DEF KeptBy
    <2>9. CASE k.todo = {} /\ Loop(w, IF k.task = "close" THEN "revert" ELSE "unlock")
      <3>1. /\ Continues(r, k) /\ r.todo = k.listed
            /\ \/ r.pc = "revert" /\ k.task = "close"
               \/ r.pc = "unlock" /\ k.task = "sync"
        BY <2>1, <2>9, LoopMoves
      <3>2. Holding(w)'
        BY <1>1, <1>2, <2>1, <3>1, RestoringHolds DEF Template
      <3>3. Restoring(w)'
        BY <2>2, <3>1 DEF Restoring, Continues
      <3>4. Remembering(w)'
        BY <3>1 DEF Remembering, Continues, Disables, Syncs
      <3>5. \A b \in Apps : Carries(k.pr, b) /\ KeptBy(k.pr, b) => Lost(b)'
        BY <1>2, <2>4, <2>9
      <3>6. Naming(w)'
        BY <2>1, <3>1, <3>5
           DEF Naming, Continues, Carries, KeptBy, Lost, Affected, Members, Template
      <3>7. QED
        BY <3>2, <3>3, <3>4, <3>6 DEF Sound
    <2>10. QED
      BY <1>7, <2>5, <2>6, <2>7, <2>8, <2>9 DEF RestoreSet
  <1>8. CASE ForgetSet(w)
    <2>1. /\ k.pc = "forget" /\ UNCHANGED <<auto, lock, excused>>
          /\ kept' = kept \ {<<Owner[k.app], k.pr>>}
          /\ Continues(r, k) /\ r.pc = "sets" /\ r.todo = k.todo
      BY <1>8, ForgetMoves DEF ForgetSet, At
    <2>2. Holding(w)'
      BY <1>1, <2>1, RestoringHolds DEF Template
    <2>3. Restoring(w)'
      BY <1>1, <2>1 DEF Sound, Restoring, Continues, Back
    <2>4. \A a \in Apps : Carries(k.pr, a) => Lost(a) \/ (a \in k.listed /\ k.copy[a].named)
      BY <1>1, <2>1 DEF Sound, Naming
    <2>5. \A a \in Apps : Carries(k.pr, a) /\ <<Owner[a], k.pr>> \in kept' =>
             Lost(a) \/ a \in k.todo
      BY <1>1, <2>1 DEF Sound, Naming, KeptBy
    <2>6. Naming(w)'
      BY <2>1, <2>4, <2>5 DEF Naming, Continues, Carries, KeptBy, Lost, Affected, Members, Template
    <2>7. QED
      BY <1>4, <2>1, <2>2, <2>3, <2>6 DEF Sound
  <1>9. CASE Unlock(w)
    <2>1. k.pc = "unlock" /\ UNCHANGED <<auto, kept, excused>>
      BY <1>9 DEF Unlock, At
    <2>2. CASE Return(w)
      BY <1>3, <2>2, ReturnMoves
    <2>3. CASE \E a \in k.todo :
                 /\ Set(w, [k EXCEPT !.todo = @ \ {a}])
                 /\ \/ lock' = IF lock[a].pr = k.pr THEN [lock EXCEPT ![a] = NoLock] ELSE lock
                    \/ lock' = lock
      <3>1. PICK a \in k.todo :
                 /\ Continues(r, k) /\ r.pc = "unlock" /\ r.todo = k.todo \ {a}
                 /\ \/ lock' = IF lock[a].pr = k.pr THEN [lock EXCEPT ![a] = NoLock] ELSE lock
                    \/ lock' = lock
        BY <2>1, <2>3, TakeMoves
      <3>2. \A b \in Apps : lock'[b] = lock[b] \/ (b = a /\ lock'[b] = NoLock)
        BY <1>1, <3>1, FreedTouches
      <3>3. Holding(w)'
        <4>1. \A b \in k.todo : lock[b].pr = k.pr \/ Lost(b)
          BY <1>1, <2>1 DEF Sound, Holding, Relies
        <4>2. \A b \in r.todo : lock'[b].pr = k.pr \/ Lost(b)'
          BY <1>1, <1>2, <3>1, <3>2, <4>1
        <4>3. QED
          BY <3>1, <4>2 DEF Holding, Relies, Continues
      <3>4. Restoring(w)'
        BY <1>1, <2>1, <3>1 DEF Sound, Restoring, Continues, Back
      <3>5. \A b \in Apps : Carries(k.pr, b) /\ KeptBy(k.pr, b) => Lost(b)'
        BY <1>1, <1>2, <2>1 DEF Sound, Naming
      <3>6. \A b \in Apps : lock'[b].named => lock'[b] = lock[b]
        BY <3>2 DEF NoLock
      <3>7. Naming(w)'
        BY <2>1, <3>1, <3>5, <3>6
           DEF Naming, Continues, Carries, KeptBy, Lost, Affected, Members, Template
      <3>8. QED
        BY <1>4, <3>1, <3>3, <3>4, <3>7 DEF Sound
    <2>4. QED
      BY <1>9, <2>2, <2>3 DEF Unlock
  <1>10. QED
    BY <1>6, <1>7, <1>8, <1>9

LEMMA InitRemembered == Init => Remembered
  <1>1. SUFFICES ASSUME Init
                 PROVE  Remembered
    OBVIOUS
  <1>2. WellFormed
    BY <1>1, InitWellFormed
  <1>3. Apart
    BY <1>1 DEF Init, Apart, Idle
  <1>4. PlainKept /\ SetKept
    BY <1>1 DEF Init, PlainKept, SetKept, Plain
  <1>5. \A w \in Workers : Sound(w)
    BY <1>1, IdleSound DEF Init
  <1>6. QED
    BY <1>2, <1>3, <1>4, <1>5 DEF Remembered

LEMMA NextRemembered ==
    ASSUME Remembered, OneTaskPerPR, [Next]_vars
    PROVE  Remembered'
  <1>1. WellFormed'
    BY NextWellFormed DEF Remembered
  <1>2. Apart'
    BY StaysApart
  <1>3. PlainKept' /\ SetKept' /\ \A v \in Workers : Sound(v)'
    <2>1. ASSUME NEW w \in Workers, Begin(w)
          PROVE  PlainKept' /\ SetKept' /\ \A v \in Workers : Sound(v)'
      BY <2>1, BeginKeeps, BeginSound, OthersStaySound
    <2>2. ASSUME NEW w \in Workers, Step(w)
          PROVE  PlainKept' /\ SetKept' /\ \A v \in Workers : Sound(v)'
      <3>1. PlainKept' /\ SetKept'
        BY <2>2, DisableKeeps, RestoreKeeps DEF Step
      <3>2. Sound(w)'
        BY <2>2, DisableSound, SyncSound, RestoreSound DEF Step
      <3>3. QED
        BY <2>2, <3>1, <3>2, OthersStaySound
    <2>3. ASSUME NEW w \in Workers, Crash(w)
          PROVE  PlainKept' /\ SetKept' /\ \A v \in Workers : Sound(v)'
      <3>1. Sound(w)'
        BY <2>3, ReturnMoves, IdleSound DEF Crash, Remembered
      <3>2. QED
        BY <2>3, <3>1, OtherKeeps, OthersStaySound
    <2>4. CASE \/ \E a \in Apps : Release(a) \/ SyncParent(a)
               \/ \E s \in AppSets : Reconcile(s)
               \/ \E s \in AppSets, p \in PRs : KeyExpires(s, p)
      BY <2>4, OtherKeeps, AllStaySound
    <2>5. CASE UNCHANGED vars
      <3>1. PlainKept' /\ SetKept'
        BY <2>5 DEF Remembered, vars, PlainKept, Saving, At, SetKept, Storing, Keeper, Forgetting,
                    Carries, Members
      <3>2. \A v \in Workers : Sound(v)'
        BY <2>5 DEF Remembered, vars, Sound, Holding, Relies, Remembering, Restoring, Naming, Lost,
                    Affected, Members, Back, Carries, KeptBy
      <3>3. QED
        BY <3>1, <3>2
    <2>6. QED
      BY <2>1, <2>2, <2>3, <2>4, <2>5 DEF Next
  <1>4. QED
    BY <1>1, <1>2, <1>3 DEF Remembered

\* Every reachable state remembers what it owes, where the tasks of a pull request do not
\* overlap.
THEOREM AlwaysRemembered ==
    ASSUME OneTaskPerPR
    PROVE  Spec => []Remembered
  <1>1. Remembered /\ [Next]_vars => Remembered'
    BY NextRemembered
  <1>2. QED
    BY <1>1, InitRemembered, PTL DEF Spec

\* plan.go: auto-sync "will be temporarily disabled during sync and restored when the PR is
\* merged or closed".  Whatever the applications, their parents and ApplicationSets, and the
\* number of pull requests and workers: the policy of an application that had auto-sync is
\* never forgotten, unless a fault or an unlock took away what remembered it.
THEOREM PoliciesAreKept ==
    ASSUME OneTaskPerPR
    PROVE  Spec => []PolicyKept
  <1>1. ASSUME Remembered
        PROVE  PolicyKept
    <2>1. SUFFICES ASSUME NEW a \in (Automated \intersect Apps) \ excused, a \notin Plain
                   PROVE  Owner[a] # NoSet /\ TemplateKept(Owner[a])
      BY <1>1 DEF Remembered, PlainKept, PolicyKept
    <2>2. /\ Owner[a] # NoSet /\ Owner[a] \in Automated \intersect AppSets
          /\ a \in Members(Owner[a])
      BY <2>1, AutoSyncAssumption DEF Plain, Members
    <2>3. PICK s \in Automated \intersect AppSets : s = Owner[a]
      BY <2>2
    <2>4. s \in auto \/ Storing(s) \/ \E p \in PRs : Keeper(s, p)
      BY <1>1, <2>2, <2>3 DEF Remembered, SetKept
    <2>5. QED
      BY <2>2, <2>3, <2>4 DEF TemplateKept, Storing, Keeper, Carries
  <1>2. QED
    BY <1>1, AlwaysRemembered, PTL

\* The policy of an ApplicationSet's template is on, or kept where the unlock of the pull
\* request that keeps it looks for it.
THEOREM TemplatesAreKept ==
    ASSUME OneTaskPerPR
    PROVE  Spec => []TemplatesKept
  <1>1. ASSUME Remembered
        PROVE  TemplatesKept
    <2>1. SUFFICES ASSUME NEW s \in Automated \intersect AppSets, ~(Members(s) \subseteq excused)
                   PROVE  TemplateKept(s)
      BY DEF TemplatesKept
    <2>2. s \in auto \/ Storing(s) \/ \E p \in PRs : Keeper(s, p)
      BY <1>1, <2>1 DEF Remembered, SetKept
    <2>3. QED
      BY <2>2 DEF TemplateKept, Storing, Keeper, Carries
  <1>2. QED
    BY <1>1, AlwaysRemembered, PTL

\* restoreAllAutoSync switches a parent's auto-sync on only after that of the children whose
\* policy the locks remember.
THEOREM ChildrenGoFirst ==
    ASSUME OneTaskPerPR
    PROVE  Spec => ChildrenFirst
  <1> DEFINE First(w) ==
        worker[w].pc \in {"children", "parents"} /\ worker'[w] # worker[w] =>
          \A c \in (worker[w].listed \ ParentLocks(w)) \ excused :
             /\ worker[w].copy[c].saved
             /\ Owner[c] = NoSet
             /\ \E a \in Parents[c] \intersect ParentLocks(w) : a \in auto' \ auto
             => c \in auto
  <1>1. ASSUME Remembered, [Next]_vars
        PROVE  [\A w \in Workers : First(w)]_vars
    <2>1. SUFFICES ASSUME Next, NEW w \in Workers, worker[w].pc \in {"children", "parents"},
                          worker'[w] # worker[w]
                   PROVE  First(w)
      BY <1>1
    <2>2. RestoreChildren(w) \/ RestoreParents(w) \/ Crash(w)
      <3>1. ASSUME NEW v \in Workers, Begin(v) \/ Step(v) \/ Crash(v)
            PROVE  v = w
        BY <1>1, <2>1, <3>1, OneWorker DEF Remembered
      <3>2. Begin(w) \/ Step(w) \/ Crash(w)
        BY <2>1, <3>1 DEF Next, Release, SyncParent, Reconcile, KeyExpires
      <3>3. CASE Begin(w)
        BY <2>1, <3>3 DEF Begin, BeginSync, BeginRollbackAll, BeginUnlockAll, BeginRollback, Plan,
                          May, At
      <3>4. CASE Step(w)
        <4>1. ~( \/ BuildParentMap(w) \/ NextApp(w) \/ DisableGet(w) \/ DisablePut(w)
                 \/ DisableFails(w) \/ Save(w) \/ SetGet(w) \/ SetPut(w) \/ SetStore(w)
                 \/ FindParents(w) \/ LockParent(w))
          BY <2>1 DEF BuildParentMap, NextApp, DisableGet, DisablePut, DisableFails, Save, SetGet,
                      SetPut, SetStore, FindParents, LockParent, At
        <4>2. ~( \/ Sync(w) \/ Rewrite(w) \/ Merge(w) \/ Relist(w) \/ RestoreSet(w)
                 \/ ForgetSet(w) \/ Revert(w) \/ Unlock(w))
          BY <2>1 DEF Sync, Rewrite, Merge, Relist, RestoreSet, ForgetSet, Revert, Unlock, At
        <4>3. QED
          BY <3>4, <4>1, <4>2 DEF Step
      <3>5. QED
        BY <3>2, <3>3, <3>4
    <2>3. CASE Crash(w)
      BY <2>3 DEF Crash
    <2>4. CASE RestoreChildren(w)
      BY <2>4 DEF RestoreChildren, RestoreApps
    <2>5. CASE RestoreParents(w)
      <3>1. SUFFICES ASSUME NEW c \in (worker[w].listed \ ParentLocks(w)) \ excused,
                            worker[w].copy[c].saved, Owner[c] = NoSet
                     PROVE  c \in auto
        OBVIOUS
      <3>2. c \in worker[w].listed \intersect Plain
        BY <1>1, <3>1 DEF Remembered, WellFormed, RecordOK, Worker, Plain
      <3>3. Back(c) \/ worker[w].copy[c].parent
        BY <1>1, <2>5, <3>2 DEF Remembered, Sound, Restoring, RestoreParents, RestoreApps, At
      <3>4. QED
        BY <3>1, <3>3 DEF ParentLocks, Back
    <2>6. QED
      BY <2>2, <2>3, <2>4, <2>5
  <1>2. QED
    BY <1>1, AlwaysRemembered, PTL DEF Spec, ChildrenFirst

==============================================================================
