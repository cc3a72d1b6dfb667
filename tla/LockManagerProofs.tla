-------------------------- MODULE LockManagerProofs --------------------------
(* Proofs about LockManager, for any sets of applications, pull requests and *)
(* workers, any lifetime of a lock and with or without failing calls.        *)
EXTENDS LockManager, TLAPS

\* A lock record is the free one, or it has a holder and at most a plan of the holder's number.
LockOK(l) == l = NoLock \/ /\ l.pr \in PRs
                           /\ l.plan = NoPR \/ Number[l.plan] = Number[l.pr]

\* The program counters at which a worker acts for a pull request.
ForPR == {"lock.get", "lock.refresh", "lock.set", "lock.index", "lock.expire", "getpr",
          "plan.get", "plan.set", "unlock.get", "list", "filter"}

\* What a worker has remembered, at each program counter that uses it.
WorkerOK(s) ==
    /\ s.pc \notin {"idle", "list", "filter"} => s.app \in Apps
    /\ s.pc \in ForPR \/ s.purpose \in {"sweep", "reclaim"} => s.pr \in PRs
    /\ LockOK(s.seen)
    /\ s.pc = "lock.refresh" => s.seen.pr = s.pr
    /\ s.pc = "lock.set" => s.seen = NoLock
    /\ s.pc = "plan.set" => s.seen # NoLock /\ Number[s.seen.pr] = Number[s.pr]
    /\ s.pc = "save.set" => s.seen # NoLock
    /\ s.pc = "force.srem" => s.seen # NoLock

WellFormed == /\ TypeOK
              /\ \A a \in Apps : LockOK(lock[a])
              /\ \A w \in Workers : WorkerOK(worker[w])

\* A step of one worker is fine when what it does to its own record is.
LEMMA WorkerStep ==
    ASSUME WellFormed, NEW w \in Workers, NEW s \in Worker, WorkerOK(s),
           worker' = [worker EXCEPT ![w] = s]
    PROVE  /\ worker' \in [Workers -> Worker]
           /\ \A v \in Workers : WorkerOK(worker'[v])
  BY DEF WellFormed, TypeOK

LEMMA WorkerUpdate ==
    ASSUME WellFormed, NEW w \in Workers
    PROVE  /\ worker[w] \in Worker /\ WorkerOK(worker[w])
           /\ \A pc \in PCs :
                /\ Go(w, pc) => worker' = [worker EXCEPT ![w] = [worker[w] EXCEPT !.pc = pc]]
                /\ Become(w, pc) =>
                     worker' = [worker EXCEPT ![w] = [worker[w] EXCEPT !.seen = NoLock, !.pc = pc]]
                /\ GetThen(w, pc) =>
                     worker' = [worker EXCEPT ![w] = [worker[w] EXCEPT
                                    !.seen = lock[worker[w].app], !.pc = pc]]
                /\ GetHolderThen(w, pc) =>
                     worker' = [worker EXCEPT ![w] = [worker[w] EXCEPT
                            !.seen = [NoLock EXCEPT !.pr = lock[worker[w].app].pr], !.pc = pc]]
  BY DEF WellFormed, TypeOK, Go, Become, GetThen, GetHolderThen, Worker, Lock, Holder, NoLock

LEMMA IdleOK == Idle \in Worker /\ WorkerOK(Idle)
  BY DEF Idle, Worker, WorkerOK, LockOK, NoLock, Lock, Holder, PCs, Purposes, ForPR

\* A step that leaves Redis alone preserves WellFormed when its worker's record is fine.
LEMMA LocalStep ==
    ASSUME WellFormed, NEW w \in Workers, NEW s \in Worker, WorkerOK(s),
           worker' = [worker EXCEPT ![w] = s], UNCHANGED <<redis, open, ghosts>>
    PROVE  WellFormed'
  <1>1. /\ worker' \in [Workers -> Worker]
        /\ \A v \in Workers : WorkerOK(worker'[v])
    BY WorkerStep
  <1>2. QED
    BY <1>1 DEF WellFormed, TypeOK, redis, ghosts

\* A step that writes a lock record does when the record is fine too.
LEMMA WriteStep ==
    ASSUME WellFormed, NEW w \in Workers, NEW s \in Worker, WorkerOK(s),
           worker' = [worker EXCEPT ![w] = s], worker[w].app \in Apps,
           NEW l \in Lock, LockOK(l), SetLock(w, l), claims' \in [Apps -> SUBSET PRs],
           UNCHANGED <<index, indexTTL, open>>
    PROVE  WellFormed'
  <1>1. /\ worker' \in [Workers -> Worker]
        /\ \A v \in Workers : WorkerOK(worker'[v])
    BY WorkerStep
  <1>2. /\ lock' \in [Apps -> Lock]
        /\ lockTTL' \in [Apps -> 0..LockTTL]
        /\ tainted' \subseteq Apps
        /\ \A a \in Apps : LockOK(lock'[a])
    BY LockAssumption DEF WellFormed, TypeOK, SetLock
  <1>3. QED
    BY <1>1, <1>2 DEF WellFormed, TypeOK

LEMMA StartWF ==
    ASSUME WellFormed, NEW w \in Workers, NEW pc, NEW p, NEW a \in Apps, NEW purpose,
           \/ pc = "lock.get" /\ p \in PRs /\ purpose \in {"plan", "parent"}
           \/ pc \in {"save.get", "force.get"} /\ p = NoPR /\ purpose = "none",
           Start(w, pc, p, a, purpose)
    PROVE  WellFormed'
  <1> DEFINE s == [Idle EXCEPT !.pc = pc, !.pr = p, !.app = a, !.purpose = purpose]
  <1>1. s \in Worker /\ WorkerOK(s)
    BY IdleOK DEF Idle, Worker, WorkerOK, LockOK, NoLock, Lock, Holder, PCs, Purposes, ForPR
  <1>2. worker' = [worker EXCEPT ![w] = s] /\ UNCHANGED <<redis, open, ghosts>>
    BY DEF Start
  <1>3. QED
    BY <1>1, <1>2, LocalStep

LEMMA BeginWF ==
    ASSUME WellFormed, NEW w \in Workers, Begin(w)
    PROVE  WellFormed'
  <1>1. CASE \E p \in PRs, a \in Apps : BeginPlan(w, p, a) \/ BeginLockParent(w, p, a)
    BY <1>1, StartWF DEF BeginPlan, BeginLockParent
  <1>2. CASE \E a \in Apps : BeginSavePolicy(w, a) \/ BeginForceUnlock(w, a)
    BY <1>2, StartWF DEF BeginSavePolicy, BeginForceUnlock
  <1>3. ASSUME NEW p \in PRs, BeginUnlock(w, p)
        PROVE  WellFormed'
    <2>1. PICK S \in SUBSET Apps :
             worker' = [worker EXCEPT ![w] = [Idle EXCEPT !.pc = "list", !.pr = p, !.todo = S]]
      BY <1>3 DEF BeginUnlock
    <2> DEFINE s == [Idle EXCEPT !.pc = "list", !.pr = p, !.todo = S]
    <2>2. s \in Worker /\ WorkerOK(s)
      BY IdleOK DEF Idle, Worker, WorkerOK, LockOK, NoLock, Lock, Holder, PCs, Purposes, ForPR
    <2>3. QED
      BY <1>3, <2>1, <2>2, LocalStep DEF BeginUnlock
  <1>4. QED
    BY <1>1, <1>2, <1>3 DEF Begin

\* Returning, and calling on with a record that is fine, are local steps.
LEMMA ReturnWF ==
    ASSUME WellFormed, NEW w \in Workers, Return(w), UNCHANGED <<redis, open, ghosts>>
    PROVE  WellFormed'
  BY IdleOK, LocalStep DEF Return

LEMMA AcquiredOK ==
    ASSUME WellFormed, NEW w \in Workers, worker[w].app \in Apps, worker[w].pr \in PRs,
           Acquired(w)
    PROVE  \E s \in Worker : WorkerOK(s) /\ worker' = [worker EXCEPT ![w] = s]
  <1> DEFINE c(pc, p) == [Idle EXCEPT !.pc = pc, !.pr = p, !.app = worker[w].app]
  <1>1. ASSUME NEW pc \in {"save.get", "unlock.get", "plan.get"}, NEW p \in Holder,
               pc = "save.get" \/ p \in PRs
        PROVE  c(pc, p) \in Worker /\ WorkerOK(c(pc, p))
    BY <1>1, IdleOK
    DEF Idle, Worker, WorkerOK, LockOK, NoLock, Lock, Holder, PCs, Purposes, ForPR
  <1>2. \/ worker' = [worker EXCEPT ![w] = Idle]
        \/ worker' = [worker EXCEPT ![w] = c("save.get", NoPR)]
        \/ worker' = [worker EXCEPT ![w] = c("unlock.get", worker[w].pr)]
        \/ worker' = [worker EXCEPT ![w] = c("plan.get", worker[w].pr)]
    BY DEF Acquired, Return, Call
  <1>3. NoPR \in Holder /\ worker[w].pr \in Holder
    BY DEF Holder
  <1>4. QED
    BY <1>1, <1>2, <1>3, IdleOK

LEMMA LockGetWF ==
    ASSUME WellFormed, NEW w \in Workers, LockGet(w)
    PROVE  WellFormed'
  <1> DEFINE r == worker[w]
             l == lock[r.app]
             see(pc) == [r EXCEPT !.seen = l, !.pc = pc]
             seeHolder(pc) == [r EXCEPT !.seen = [NoLock EXCEPT !.pr = l.pr], !.pc = pc]
  <1>1. r \in Worker /\ WorkerOK(r) /\ r.pc = "lock.get" /\ r.app \in Apps /\ r.pr \in PRs
    BY WorkerUpdate DEF LockGet, At, WorkerOK, ForPR
  <1>2. l \in Lock /\ LockOK(l)
    BY <1>1 DEF WellFormed, TypeOK
  <1>3. CASE HeldByPR(l, r.pr) /\ GetThen(w, "lock.refresh")
    <2>1. worker' = [worker EXCEPT ![w] = see("lock.refresh")]
      BY <1>3, WorkerUpdate DEF PCs
    <2>2. see("lock.refresh") \in Worker /\ WorkerOK(see("lock.refresh"))
      BY <1>1, <1>2, <1>3 DEF HeldByPR, Worker, WorkerOK, PCs, ForPR
    <2>3. QED
      BY <2>1, <2>2, LocalStep DEF LockGet
  <1>4. CASE l = NoLock /\ GetThen(w, "lock.set")
    <2>1. worker' = [worker EXCEPT ![w] = see("lock.set")]
      BY <1>4, WorkerUpdate DEF PCs
    <2>2. see("lock.set") \in Worker /\ WorkerOK(see("lock.set"))
      BY <1>1, <1>2, <1>4 DEF Worker, WorkerOK, PCs, ForPR
    <2>3. QED
      BY <2>1, <2>2, LocalStep DEF LockGet
  <1>5. CASE l # NoLock /\ GetHolderThen(w, "getpr")
    <2>1. worker' = [worker EXCEPT ![w] = seeHolder("getpr")]
      BY <1>5, WorkerUpdate DEF PCs
    <2>2. seeHolder("getpr") \in Worker /\ WorkerOK(seeHolder("getpr"))
      BY <1>1, <1>2, <1>5 DEF Worker, WorkerOK, PCs, ForPR, LockOK, Lock, Holder, NoLock
    <2>3. QED
      BY <2>1, <2>2, LocalStep DEF LockGet
  <1>6. CASE Return(w)
    BY <1>6, ReturnWF DEF LockGet
  <1>7. QED
    BY <1>3, <1>4, <1>5, <1>6 DEF LockGet

LEMMA LockWriteWF ==
    ASSUME WellFormed, NEW w \in Workers, LockRefresh(w) \/ LockSet(w)
    PROVE  WellFormed'
  <1> DEFINE r == worker[w]
  <1>1. r \in Worker /\ WorkerOK(r) /\ r.app \in Apps /\ r.pr \in PRs
    BY WorkerUpdate DEF LockRefresh, LockSet, At, WorkerOK, ForPR
  <1>2. claims' \in [Apps -> SUBSET PRs]
    BY <1>1 DEF LockRefresh, LockSet, Grant, WellFormed, TypeOK
  <1>3. CASE LockRefresh(w)
    <2>1. r.seen \in Lock /\ LockOK(r.seen)
      BY <1>1 DEF Worker, WorkerOK
    <2>2. PICK s \in Worker : WorkerOK(s) /\ worker' = [worker EXCEPT ![w] = s]
      BY <1>1, <1>3, AcquiredOK DEF LockRefresh
    <2>3. QED
      BY <1>1, <1>2, <1>3, <2>1, <2>2, WriteStep DEF LockRefresh
  <1>4. CASE LockSet(w)
    <2> DEFINE l == [NoLock EXCEPT !.pr = r.pr]
               s == [r EXCEPT !.seen = NoLock, !.pc = "lock.index"]
    <2>1. l \in Lock /\ LockOK(l)
      BY <1>1 DEF Lock, LockOK, NoLock, Holder
    <2>2. worker' = [worker EXCEPT ![w] = s]
      BY <1>4, WorkerUpdate DEF LockSet, PCs
    <2>3. s \in Worker /\ WorkerOK(s)
      BY <1>1, <1>4 DEF LockSet, At, Worker, WorkerOK, PCs, ForPR, LockOK, Lock, Holder, NoLock
    <2>4. QED
      BY <1>1, <1>2, <1>4, <2>1, <2>2, <2>3, WriteStep DEF LockSet
  <1>5. QED
    BY <1>3, <1>4

LEMMA LockIndexWF ==
    ASSUME WellFormed, NEW w \in Workers, LockIndex(w) \/ LockExpire(w)
    PROVE  WellFormed'
  <1> DEFINE r == worker[w]
  <1>1. r \in Worker /\ WorkerOK(r) /\ r.app \in Apps /\ r.pr \in PRs
    BY WorkerUpdate DEF LockIndex, LockExpire, At, WorkerOK, ForPR
  <1>2. index' \in [PRs -> SUBSET Apps] /\ indexTTL' \in [PRs -> 0..Forever]
    BY <1>1, LockAssumption DEF LockIndex, LockExpire, WellFormed, TypeOK, Forever
  <1>3. PICK s \in Worker : WorkerOK(s) /\ worker' = [worker EXCEPT ![w] = s]
    <2>1. CASE LockExpire(w)
      BY <1>1, <2>1, AcquiredOK DEF LockExpire
    <2>2. CASE LockIndex(w)
      <3> DEFINE s == [r EXCEPT !.pc = "lock.expire"]
      <3>1. worker' = [worker EXCEPT ![w] = s]
        BY <2>2, WorkerUpdate DEF LockIndex, PCs
      <3>2. s \in Worker /\ WorkerOK(s)
        BY <1>1, <2>2 DEF LockIndex, At, Worker, WorkerOK, PCs, ForPR
      <3>3. QED
        BY <3>1, <3>2
    <2>3. QED
      BY <2>1, <2>2
  <1>4. /\ worker' \in [Workers -> Worker]
        /\ \A v \in Workers : WorkerOK(worker'[v])
    BY <1>3, WorkerStep
  <1>5. QED
    BY <1>2, <1>4 DEF LockIndex, LockExpire, WellFormed, TypeOK, ghosts

LEMMA ReclaimWF ==
    ASSUME WellFormed, NEW w \in Workers, ReclaimGetPR(w)
    PROVE  WellFormed'
  <1> DEFINE r == worker[w]
             s == [r EXCEPT !.pc = "force.get", !.purpose = "reclaim", !.seen = NoLock]
  <1>1. r \in Worker /\ WorkerOK(r) /\ r.pc = "getpr"
    BY WorkerUpdate DEF ReclaimGetPR, At
  <1>2. CASE Return(w)
    BY <1>2, ReturnWF DEF ReclaimGetPR
  <1>3. CASE ~Return(w)
    <2>1. worker' = [worker EXCEPT ![w] = s]
      BY <1>1, <1>3 DEF ReclaimGetPR, Worker
    <2>2. s \in Worker /\ WorkerOK(s)
      BY <1>1 DEF Worker, WorkerOK, PCs, ForPR, Purposes, LockOK, Lock, Holder, NoLock
    <2>3. QED
      BY <2>1, <2>2, LocalStep DEF ReclaimGetPR
  <1>4. QED
    BY <1>2, <1>3

LEMMA UpdateGetWF ==
    ASSUME WellFormed, NEW w \in Workers, PlanGet(w) \/ SaveGet(w)
    PROVE  WellFormed'
  <1> DEFINE r == worker[w]
             l == lock[r.app]
             s(pc) == [r EXCEPT !.seen = l, !.pc = pc]
  <1>1. r \in Worker /\ WorkerOK(r) /\ r.app \in Apps
    BY WorkerUpdate DEF PlanGet, SaveGet, At, WorkerOK
  <1>2. l \in Lock /\ LockOK(l)
    BY <1>1 DEF WellFormed, TypeOK
  <1>3. CASE Return(w)
    BY <1>3, ReturnWF DEF PlanGet, SaveGet
  <1>4. CASE PlanGet(w) /\ ~Return(w)
    <2>1. worker' = [worker EXCEPT ![w] = s("plan.set")]
      BY <1>4, WorkerUpdate DEF PlanGet, PCs
    <2>2. s("plan.set") \in Worker /\ WorkerOK(s("plan.set"))
      BY <1>1, <1>2, <1>4 DEF PlanGet, At, SameNumber, Worker, WorkerOK, PCs, ForPR
    <2>3. QED
      BY <1>4, <2>1, <2>2, LocalStep DEF PlanGet
  <1>5. CASE SaveGet(w) /\ ~Return(w)
    <2>1. worker' = [worker EXCEPT ![w] = s("save.set")]
      BY <1>5, WorkerUpdate DEF SaveGet, PCs
    <2>2. s("save.set") \in Worker /\ WorkerOK(s("save.set"))
      BY <1>1, <1>2, <1>5 DEF SaveGet, At, Worker, WorkerOK, PCs, ForPR
    <2>3. QED
      BY <1>5, <2>1, <2>2, LocalStep DEF SaveGet
  <1>6. QED
    BY <1>3, <1>4, <1>5

LEMMA UpdateSetWF ==
    ASSUME WellFormed, NEW w \in Workers, PlanSet(w) \/ SaveSet(w)
    PROVE  WellFormed'
  <1> DEFINE r == worker[w]
             planned == [r.seen EXCEPT !.plan = r.pr]
             saved == [r.seen EXCEPT !.saved = TRUE]
  <1>1. /\ r \in Worker /\ WorkerOK(r) /\ r.app \in Apps
        /\ r.seen \in Lock /\ r.seen # NoLock /\ LockOK(r.seen)
    BY WorkerUpdate DEF PlanSet, SaveSet, At, WorkerOK, Worker
  <1>2. CASE PlanSet(w)
    <2>1. r.pr \in PRs /\ Number[r.seen.pr] = Number[r.pr]
      BY <1>1, <1>2 DEF PlanSet, At, WorkerOK, ForPR
    <2>2. planned \in Lock /\ LockOK(planned)
      BY <1>1, <2>1 DEF LockOK, Lock, Holder
    <2>3. QED
      BY <1>1, <1>2, <2>2, IdleOK, WriteStep DEF PlanSet, Return, WellFormed, TypeOK
  <1>3. CASE SaveSet(w)
    <2>1. saved \in Lock /\ LockOK(saved)
      BY <1>1 DEF LockOK, Lock, Holder
    <2>2. QED
      BY <1>1, <1>3, <2>1, IdleOK, WriteStep DEF SaveSet, Return, WellFormed, TypeOK
  <1>4. QED
    BY <1>2, <1>3

LEMMA UnlockGetWF ==
    ASSUME WellFormed, NEW w \in Workers, UnlockGet(w) \/ ForceGet(w)
    PROVE  WellFormed'
  <1> DEFINE r == worker[w]
             s(pc) == [r EXCEPT !.seen = NoLock, !.pc = pc]
             h(pc) == [r EXCEPT !.seen = [NoLock EXCEPT !.pr = lock[r.app].pr], !.pc = pc]
  <1>1. r \in Worker /\ WorkerOK(r) /\ r.app \in Apps
    BY WorkerUpdate DEF UnlockGet, ForceGet, At, WorkerOK
  <1>2. lock[r.app] \in Lock /\ LockOK(lock[r.app])
    BY <1>1 DEF WellFormed, TypeOK
  <1>3. CASE Return(w)
    BY <1>3, ReturnWF DEF UnlockGet, ForceGet
  <1>4. CASE UnlockGet(w) /\ ~Return(w)
    <2>1. PICK pc \in {"force.get", "filter"} : /\ worker' = [worker EXCEPT ![w] = s(pc)]
                                                /\ pc = "filter" => r.purpose = "sweep"
      BY <1>4, WorkerUpdate DEF UnlockGet, NotReleased, PCs
    <2>2. s(pc) \in Worker /\ WorkerOK(s(pc))
      BY <1>1, <1>4, <2>1
      DEF UnlockGet, At, Worker, WorkerOK, PCs, ForPR, LockOK, Lock, Holder, NoLock
    <2>3. QED
      BY <1>4, <2>1, <2>2, LocalStep DEF UnlockGet
  <1>5. CASE ForceGet(w)
    <2>1. PICK pc \in {"force.del", "force.srem"} :
             /\ worker' = [worker EXCEPT ![w] = h(pc)]
             /\ pc = "force.srem" => lock[r.app] # NoLock
      BY <1>5, WorkerUpdate DEF ForceGet, PCs
    <2>2. h(pc) \in Worker /\ WorkerOK(h(pc))
      BY <1>1, <1>2, <1>5, <2>1, LockAssumption
      DEF ForceGet, At, Worker, WorkerOK, PCs, ForPR, LockOK, Lock, Holder, NoLock
    <2>3. QED
      BY <1>5, <2>1, <2>2, LocalStep DEF ForceGet
  <1>6. QED
    BY <1>3, <1>4, <1>5

LEMMA ReleaseWF ==
    ASSUME WellFormed, NEW w \in Workers, ForceSRem(w) \/ ForceDel(w)
    PROVE  WellFormed'
  <1> DEFINE r == worker[w]
  <1>1. r \in Worker /\ WorkerOK(r) /\ r.app \in Apps
    BY WorkerUpdate DEF ForceSRem, ForceDel, At, WorkerOK
  <1>2. CASE ForceSRem(w)
    <2> DEFINE s == [r EXCEPT !.pc = "force.del"]
    <2>1. worker' = [worker EXCEPT ![w] = s]
      BY <1>2, WorkerUpdate DEF ForceSRem, PCs
    <2>2. s \in Worker /\ WorkerOK(s)
      BY <1>1, <1>2 DEF ForceSRem, At, Worker, WorkerOK, PCs, ForPR
    <2>3. /\ worker' \in [Workers -> Worker]
          /\ \A v \in Workers : WorkerOK(worker'[v])
      BY <2>1, <2>2, WorkerStep
    <2>4. index' \in [PRs -> SUBSET Apps] /\ indexTTL' \in [PRs -> 0..Forever]
      BY <1>2, LockAssumption DEF ForceSRem, WellFormed, TypeOK, Forever
    <2>5. QED
      BY <1>2, <2>3, <2>4 DEF ForceSRem, WellFormed, TypeOK, ghosts
  <1>3. CASE ForceDel(w)
    <2> DEFINE sweep == [r EXCEPT !.seen = NoLock, !.pc = "filter"]
               again == [r EXCEPT !.pc = "lock.get", !.purpose = "replan", !.seen = NoLock]
    <2>1. \/ worker' = [worker EXCEPT ![w] = Idle]
          \/ r.purpose = "sweep" /\ worker' = [worker EXCEPT ![w] = sweep]
          \/ r.purpose = "reclaim" /\ worker' = [worker EXCEPT ![w] = again]
      <3>1. CASE r.purpose = "sweep" /\ Become(w, "filter")
        BY <3>1, WorkerUpdate DEF PCs
      <3>2. CASE /\ r.purpose = "reclaim"
                 /\ worker' = [worker EXCEPT ![w].pc = "lock.get", ![w].purpose = "replan",
                                             ![w].seen = NoLock]
        BY <1>1, <3>2 DEF Worker
      <3>3. CASE Return(w)
        BY <3>3 DEF Return
      <3>4. QED
        BY <1>3, <3>1, <3>2, <3>3 DEF ForceDel, Released
    <2>2. r.purpose = "sweep" => sweep \in Worker /\ WorkerOK(sweep)
      BY <1>1 DEF Worker, WorkerOK, PCs, ForPR, LockOK, Lock, Holder, NoLock
    <2>3. r.purpose = "reclaim" => again \in Worker /\ WorkerOK(again)
      BY <1>1 DEF Worker, WorkerOK, PCs, ForPR, Purposes, LockOK, Lock, Holder, NoLock
    <2>4. /\ worker' \in [Workers -> Worker]
          /\ \A v \in Workers : WorkerOK(worker'[v])
      BY <2>1, <2>2, <2>3, IdleOK, WorkerStep
    <2>5. /\ lock' \in [Apps -> Lock] /\ \A a \in Apps : LockOK(lock'[a])
          /\ lockTTL' \in [Apps -> 0..LockTTL]
          /\ claims' \in [Apps -> SUBSET PRs]
      <3>1. NoLock \in Lock /\ LockOK(NoLock) /\ 0 \in 0..LockTTL
        BY LockAssumption DEF NoLock, Lock, Holder, LockOK
      <3>2. QED
        BY <1>3, <3>1 DEF ForceDel, WellFormed, TypeOK
    <2>6. QED
      BY <1>3, <2>4, <2>5 DEF ForceDel, WellFormed, TypeOK
  <1>4. QED
    BY <1>2, <1>3

LEMMA ListWF ==
    ASSUME WellFormed, NEW w \in Workers, ListIndex(w) \/ ListFilter(w) \/ Sweep(w)
    PROVE  WellFormed'
  <1> DEFINE r == worker[w]
  <1>1. r \in Worker /\ WorkerOK(r) /\ r.pc \in {"list", "filter"}
    BY WorkerUpdate DEF ListIndex, ListFilter, Sweep, At
  <1>2. CASE ListIndex(w)
    <2> DEFINE s == [r EXCEPT !.pc = "filter", !.todo = r.todo \intersect index[r.pr]]
    <2>1. worker' = [worker EXCEPT ![w] = s]
      BY <1>1, <1>2 DEF ListIndex, Worker
    <2>2. s \in Worker /\ WorkerOK(s)
      BY <1>1 DEF Worker, WorkerOK, PCs, ForPR
    <2>3. QED
      BY <1>2, <2>1, <2>2, LocalStep DEF ListIndex
  <1>3. CASE ListFilter(w)
    <2>1. PICK a \in r.todo : \E keep \in {{a}, {}} :
             worker' = [worker EXCEPT ![w].todo = @ \ {a}, ![w].held = @ \union keep]
      BY <1>3 DEF ListFilter
    <2>2. PICK keep \in {{a}, {}} :
             worker' = [worker EXCEPT ![w].todo = @ \ {a}, ![w].held = @ \union keep]
      BY <2>1
    <2> DEFINE s == [r EXCEPT !.todo = r.todo \ {a}, !.held = r.held \union keep]
    <2>3. worker' = [worker EXCEPT ![w] = s]
      BY <1>1, <2>2 DEF Worker
    <2>4. s \in Worker /\ WorkerOK(s)
      BY <1>1, <2>1 DEF Worker, WorkerOK
    <2>5. QED
      BY <1>3, <2>3, <2>4, LocalStep DEF ListFilter
  <1>4. CASE Sweep(w) /\ Return(w)
    BY <1>4, ReturnWF DEF Sweep
  <1>5. CASE Sweep(w) /\ ~Return(w)
    <2>1. PICK a \in r.held :
             worker' = [worker EXCEPT ![w].pc = "unlock.get", ![w].app = a,
                                      ![w].purpose = "sweep", ![w].held = @ \ {a}]
      BY <1>5 DEF Sweep
    <2> DEFINE s == [r EXCEPT !.pc = "unlock.get", !.app = a, !.purpose = "sweep",
                              !.held = r.held \ {a}]
    <2>2. worker' = [worker EXCEPT ![w] = s]
      BY <1>1, <2>1 DEF Worker
    <2>3. s \in Worker /\ WorkerOK(s)
      BY <1>1, <2>1 DEF Worker, WorkerOK, PCs, ForPR, Purposes
    <2>4. QED
      BY <1>5, <2>2, <2>3, LocalStep DEF Sweep
  <1>6. QED
    BY <1>2, <1>3, <1>4, <1>5

LEMMA FailWF ==
    ASSUME WellFormed, NEW w \in Workers, Fail(w)
    PROVE  WellFormed'
  <1> DEFINE r == worker[w]
             s == [r EXCEPT !.seen = NoLock, !.pc = "filter"]
  <1>1. r \in Worker /\ WorkerOK(r) /\ r.pc # "idle"
    BY WorkerUpdate DEF Fail, At
  <1>2. \/ worker' = [worker EXCEPT ![w] = Idle]
        \/ r.purpose = "sweep" /\ worker' = [worker EXCEPT ![w] = s]
    BY WorkerUpdate DEF Fail, Return, PCs
  <1>3. r.purpose = "sweep" => s \in Worker /\ WorkerOK(s)
    BY <1>1 DEF Worker, WorkerOK, PCs, ForPR, LockOK, Lock, Holder, NoLock
  <1>4. /\ worker' \in [Workers -> Worker]
        /\ \A v \in Workers : WorkerOK(worker'[v])
    BY <1>2, <1>3, IdleOK, WorkerStep
  <1>5. tainted' \subseteq Apps
    BY <1>1 DEF Fail, At, WorkerOK, WellFormed, TypeOK
  <1>6. QED
    BY <1>4, <1>5 DEF Fail, WellFormed, TypeOK, redis

LEMMA TickWF ==
    ASSUME WellFormed, Tick
    PROVE  WellFormed'
  <1>1. /\ lock' \in [Apps -> Lock] /\ \A a \in Apps : LockOK(lock'[a])
        /\ claims' \in [Apps -> SUBSET PRs]
        /\ tainted' \subseteq Apps
        /\ index' \in [PRs -> SUBSET Apps]
    BY LockAssumption DEF Tick, WellFormed, TypeOK, LockOK, NoLock, Lock, Holder
  <1>2. lockTTL' \in [Apps -> 0..LockTTL] /\ indexTTL' \in [PRs -> 0..Forever]
    BY LockAssumption DEF Tick, WellFormed, TypeOK, Forever, Less
  <1>3. QED
    BY <1>1, <1>2 DEF Tick, WellFormed, TypeOK

\* Every step keeps the state well-formed.
LEMMA NextWF == WellFormed /\ [Next]_vars => WellFormed'
  <1> SUFFICES ASSUME WellFormed, [Next]_vars PROVE WellFormed'
    OBVIOUS
  <1>1. ASSUME NEW w \in Workers, Step(w) PROVE WellFormed'
    BY <1>1, LockGetWF, LockWriteWF, LockIndexWF, ReclaimWF, UpdateGetWF, UpdateSetWF,
       UnlockGetWF, ReleaseWF, ListWF DEF Step
  <1>2. ASSUME NEW p \in PRs, Close(p) PROVE WellFormed'
    BY <1>2 DEF Close, WellFormed, TypeOK, redis, ghosts
  <1>3. CASE UNCHANGED vars
    BY <1>3 DEF vars, redis, ghosts, WellFormed, TypeOK
  <1>4. QED
    BY <1>1, <1>2, <1>3, BeginWF, FailWF, TickWF DEF Next

LEMMA InitWF == Init => WellFormed
  BY IdleOK, LockAssumption
  DEF Init, WellFormed, TypeOK, LockOK, NoLock, Lock, Holder, Forever

THEOREM AlwaysWellFormed == Spec => []WellFormed
  BY InitWF, NextWF, PTL DEF Spec

\* The variables keep their types.
THEOREM TypeCorrect == Spec => []TypeOK
  <1>1. WellFormed => TypeOK
    BY DEF WellFormed
  <1>2. QED
    BY <1>1, AlwaysWellFormed, PTL

\* StorePlan's comparison of numbers is enough for the plan a lock carries to be one of
\* the holder's number, whatever happened between the Lock and the StorePlan of a plan.
THEOREM PlansMatchHolders == Spec => []PlanFromHolder
  <1>1. WellFormed => PlanFromHolder
    BY DEF WellFormed, PlanFromHolder, LockOK, NoLock
  <1>2. QED
    BY <1>1, AlwaysWellFormed, PTL

-----------------------------------------------------------------------------
(* How one step changes the lock of an undamaged application. *)

Kept(a) == /\ lock'[a].pr = lock[a].pr /\ claims'[a] = claims[a]
           /\ lock[a].plan # NoPR => lock'[a].plan # NoPR
           /\ lock[a].saved => lock'[a].saved

Taken(a) == /\ lock[a] = NoLock
            /\ \E p \in PRs : lock'[a] = [NoLock EXCEPT !.pr = p] /\ claims'[a] = {p}

Freed(a) == lock'[a] = NoLock /\ claims'[a] = {}

LockSteps == /\ tainted \subseteq tainted'
             /\ \A a \in Apps \ tainted' : Kept(a) \/ Taken(a) \/ Freed(a)

LEMMA FreeHasNoHolder ==
    ASSUME NEW l, LockOK(l) PROVE l = NoLock <=> l.pr = NoPR
  BY LockAssumption DEF LockOK, NoLock

LEMMA NoWrite ==
    ASSUME UNCHANGED <<lock, claims>>, tainted \subseteq tainted'
    PROVE  LockSteps
  BY DEF LockSteps, Kept

\* A write that is not stale keeps its hands off every other application.
LEMMA WriteLocks ==
    ASSUME WellFormed, NEW w \in Workers, worker[w].app \in Apps, NEW l, SetLock(w, l)
    PROVE  /\ tainted \subseteq tainted'
           /\ \A a \in Apps \ {worker[w].app} : lock'[a] = lock[a]
           /\ lock'[worker[w].app] = l
           /\ worker[w].app \notin tainted' => lock[worker[w].app] = worker[w].seen
  BY DEF SetLock, WellFormed, TypeOK

LEMMA LockWriteSteps ==
    ASSUME WellFormed, Exclusive, NEW w \in Workers, LockRefresh(w) \/ LockSet(w)
    PROVE  LockSteps
  <1> DEFINE r == worker[w]
             l == IF LockRefresh(w) THEN r.seen ELSE [NoLock EXCEPT !.pr = r.pr]
  <1>1. WorkerOK(r) /\ r.app \in Apps /\ r.pr \in PRs
    BY WorkerUpdate DEF LockRefresh, LockSet, At, WorkerOK, ForPR
  <1>2. SetLock(w, l) /\ claims' = [claims EXCEPT ![r.app] = @ \union {r.pr}]
    BY DEF LockRefresh, LockSet, Grant
  <1>3. tainted \subseteq tainted'
    BY <1>1, <1>2, WriteLocks
  <1>4. ASSUME NEW a \in Apps \ tainted', a # r.app
        PROVE  Kept(a)
    BY <1>1, <1>2, <1>4, WriteLocks DEF Kept, WellFormed, TypeOK
  <1>5. ASSUME r.app \notin tainted', LockRefresh(w)
        PROVE  Kept(r.app)
    <2>1. lock[r.app] = r.seen /\ lock'[r.app] = r.seen /\ r.seen.pr = r.pr /\ r.seen # NoLock
      BY <1>1, <1>2, <1>5, WriteLocks, LockAssumption DEF LockRefresh, At, WorkerOK, NoLock
    <2>2. claims[r.app] = {r.pr}
      BY <1>1, <1>3, <1>5, <2>1 DEF Exclusive
    <2>3. QED
      BY <1>1, <1>2, <2>1, <2>2 DEF Kept, WellFormed, TypeOK
  <1>6. ASSUME r.app \notin tainted', ~LockRefresh(w), LockSet(w)
        PROVE  Taken(r.app)
    <2>1. lock[r.app] = NoLock /\ lock'[r.app] = [NoLock EXCEPT !.pr = r.pr]
      BY <1>1, <1>2, <1>6, WriteLocks DEF LockSet, At, WorkerOK
    <2>2. claims[r.app] = {}
      BY <1>1, <1>3, <1>6, <2>1 DEF Exclusive
    <2>3. QED
      BY <1>1, <1>2, <2>1, <2>2 DEF Taken, WellFormed, TypeOK
  <1>7. QED
    BY <1>3, <1>4, <1>5, <1>6 DEF LockSteps

LEMMA UpdateSteps ==
    ASSUME WellFormed, NEW w \in Workers, PlanSet(w) \/ SaveSet(w)
    PROVE  LockSteps
  <1> DEFINE r == worker[w]
             planned == [r.seen EXCEPT !.plan = r.pr]
             saved == [r.seen EXCEPT !.saved = TRUE]
  <1>1. r \in Worker /\ WorkerOK(r) /\ r.app \in Apps /\ claims' = claims /\ r.seen \in Lock
    BY WorkerUpdate DEF PlanSet, SaveSet, At, WorkerOK, Worker
  <1>2. PlanSet(w) => r.pr \in PRs
    BY <1>1 DEF PlanSet, At, WorkerOK, ForPR
  <1>3. PICK l \in Lock : SetLock(w, l) /\ ((l = planned /\ PlanSet(w)) \/ l = saved)
    <2>1. planned \in Lock \/ ~PlanSet(w)
      BY <1>1, <1>2 DEF Lock, Holder
    <2>2. saved \in Lock
      BY <1>1 DEF Lock
    <2>3. QED
      BY <2>1, <2>2 DEF PlanSet, SaveSet
  <1>4. tainted \subseteq tainted'
    BY <1>1, <1>3, WriteLocks
  <1>5. ASSUME NEW a \in Apps \ tainted', a # r.app
        PROVE  Kept(a)
    BY <1>1, <1>3, <1>5, WriteLocks DEF Kept
  <1>6. ASSUME r.app \notin tainted'
        PROVE  Kept(r.app)
    <2>1. lock[r.app] = r.seen /\ lock'[r.app] = l
      BY <1>1, <1>3, <1>6, WriteLocks
    <2>2. l.pr = r.seen.pr /\ (r.seen.saved => l.saved) /\ (r.seen.plan # NoPR => l.plan # NoPR)
      BY <1>1, <1>2, <1>3, LockAssumption DEF Lock
    <2>3. QED
      BY <1>1, <2>1, <2>2 DEF Kept
  <1>7. QED
    BY <1>4, <1>5, <1>6 DEF LockSteps

LEMMA FreeSteps ==
    ASSUME WellFormed, Tick \/ \E w \in Workers : ForceDel(w)
    PROVE  LockSteps
  <1>1. ASSUME NEW w \in Workers, ForceDel(w)
        PROVE  LockSteps
    BY <1>1 DEF ForceDel, LockSteps, Kept, Freed, WellFormed, TypeOK
  <1>2. CASE Tick
    BY <1>2 DEF Tick, LockSteps, Kept, Freed, WellFormed, TypeOK
  <1>3. QED
    BY <1>1, <1>2

LEMMA NextLockSteps == WellFormed /\ Exclusive /\ [Next]_vars => LockSteps
  <1> SUFFICES ASSUME WellFormed, Exclusive, [Next]_vars PROVE LockSteps
    OBVIOUS
  <1>1. ASSUME NEW w \in Workers, Begin(w) PROVE LockSteps
    BY <1>1, NoWrite
    DEF Begin, BeginPlan, BeginLockParent, BeginSavePolicy, BeginForceUnlock, BeginUnlock,
        Start, redis, ghosts
  <1>2. ASSUME NEW w \in Workers,
               \/ LockGet(w) \/ LockIndex(w) \/ LockExpire(w) \/ ReclaimGetPR(w)
               \/ PlanGet(w) \/ SaveGet(w) \/ UnlockGet(w) \/ ForceGet(w) \/ ForceSRem(w)
               \/ ListIndex(w) \/ ListFilter(w) \/ Sweep(w)
        PROVE  LockSteps
    BY <1>2, NoWrite
    DEF LockGet, LockIndex, LockExpire, ReclaimGetPR, PlanGet, SaveGet, UnlockGet, ForceGet,
        ForceSRem, ListIndex, ListFilter, Sweep, redis, ghosts
  <1>3. ASSUME NEW w \in Workers, Fail(w) PROVE LockSteps
    BY <1>3, NoWrite DEF Fail, redis
  <1>4. ASSUME NEW p \in PRs, Close(p) PROVE LockSteps
    BY <1>4, NoWrite DEF Close, redis, ghosts
  <1>5. CASE UNCHANGED vars
    BY <1>5, NoWrite DEF vars, redis, ghosts
  <1>6. QED
    BY <1>1, <1>2, <1>3, <1>4, <1>5, LockWriteSteps, UpdateSteps, FreeSteps DEF Next, Step

LEMMA NextExclusive == WellFormed /\ WellFormed' /\ Exclusive /\ [Next]_vars => Exclusive'
  <1> SUFFICES ASSUME WellFormed, WellFormed', Exclusive, [Next]_vars,
                      NEW a \in Apps, a \notin tainted'
               PROVE  claims'[a] = IF lock'[a] = NoLock THEN {} ELSE {lock'[a].pr}
    BY DEF Exclusive
  <1>1. a \notin tainted /\ (Kept(a) \/ Taken(a) \/ Freed(a))
    BY NextLockSteps DEF LockSteps
  <1>2. \A l \in {lock[a], lock'[a]} : l = NoLock <=> l.pr = NoPR
    BY FreeHasNoHolder DEF WellFormed
  <1>3. QED
    BY <1>1, <1>2, LockAssumption DEF Exclusive, Kept, Taken, Freed, NoLock

\* On an undamaged application the claims granted are those of the holder, so no two
\* pull requests are ever told that they hold it.
THEOREM LocksAreExclusive == Spec => []Exclusive
  <1>1. Init => Exclusive
    BY DEF Init, Exclusive
  <1>2. QED
    BY <1>1, NextExclusive, AlwaysWellFormed, PTL DEF Spec

\* No rewrite of an undamaged record loses a plan or a saved policy.
THEOREM NothingIsLost == Spec => NothingLost
  <1>1. WellFormed /\ Exclusive /\ [Next]_vars =>
          [\A a \in Apps \ tainted' :
             lock'[a].pr = lock[a].pr => /\ lock[a].plan # NoPR => lock'[a].plan # NoPR
                                         /\ lock[a].saved => lock'[a].saved]_vars
    <2> SUFFICES ASSUME WellFormed, Exclusive, [Next]_vars,
                        NEW a \in Apps \ tainted', lock'[a].pr = lock[a].pr
                 PROVE  /\ lock[a].plan # NoPR => lock'[a].plan # NoPR
                        /\ lock[a].saved => lock'[a].saved
      OBVIOUS
    <2>1. Kept(a) \/ Taken(a) \/ Freed(a)
      BY NextLockSteps DEF LockSteps
    <2>2. lock[a] = NoLock <=> lock[a].pr = NoPR
      BY FreeHasNoHolder DEF WellFormed
    <2>3. QED
      BY <2>1, <2>2, LockAssumption DEF Kept, Taken, Freed, NoLock
  <1>2. QED
    BY <1>1, AlwaysWellFormed, LocksAreExclusive, PTL DEF Spec, NothingLost

\* The lock service implements the exclusive lock it promises.
THEOREM ImplementsPromise == Spec => ImplementsExclusiveLock
  <1>1. Init => Exclusively!Init
    BY DEF Init, Exclusively!Init, NoLock
  <1>2. WellFormed /\ WellFormed' /\ Exclusive /\ [Next]_vars =>
          [Exclusively!Next]_(Exclusively!vars)
    <2> SUFFICES ASSUME WellFormed, WellFormed', Exclusive, [Next]_vars
                 PROVE  Exclusively!Next
      OBVIOUS
    <2>1. tainted \subseteq tainted'
      BY NextLockSteps DEF LockSteps
    <2>2. ASSUME NEW a \in Apps \ tainted'
          PROVE  Exclusively!Acquire(a) \/ Exclusively!Release(a) \/ Exclusively!Keep(a)
      <3>1. Kept(a) \/ Taken(a) \/ Freed(a)
        BY NextLockSteps DEF LockSteps
      <3> DEFINE holder == [b \in Apps |-> lock[b].pr]
      <3>2. holder[a] = lock[a].pr /\ holder'[a] = lock'[a].pr
        OBVIOUS
      <3> HIDE DEF holder
      <3>3. CASE Kept(a)
        BY <3>2, <3>3 DEF Kept, Exclusively!Keep, holder
      <3>4. CASE Taken(a)
        BY <3>2, <3>4 DEF Taken, NoLock, Exclusively!Acquire, holder
      <3>5. CASE Freed(a)
        BY <3>2, <3>5 DEF Freed, NoLock, Exclusively!Release, holder
      <3>6. QED
        BY <3>1, <3>3, <3>4, <3>5
    <2>3. QED
      BY <2>1, <2>2 DEF Exclusively!Next
  <1>3. QED
    BY <1>1, <1>2, AlwaysWellFormed, LocksAreExclusive, PTL
    DEF Spec, ImplementsExclusiveLock, Exclusively!Spec

-----------------------------------------------------------------------------
(* An undamaged lock is in the index of its holder. *)

Excused(a) == \E w \in Workers : Indexing(w, a) \/ Releasing(w, a)

Listed(a) == lock[a] # NoLock => a \in index[lock[a].pr] \/ Excused(a)

\* A step of w that keeps the holder and the index entry of a keeps a listed, provided w
\* itself was in neither of the two windows.
LEMMA StaysListed ==
    ASSUME NEW w \in Workers, NEW a, Listed(a), lock[a] # NoLock, lock'[a].pr = lock[a].pr,
           a \in index[lock[a].pr] => a \in index'[lock[a].pr],
           \A v \in Workers \ {w} : worker'[v] = worker[v],
           ~Indexing(w, a), ~Releasing(w, a)
    PROVE  Listed(a)'
  BY DEF Listed, Excused, Indexing, Releasing, At

\* One worker moves at a time.
LEMMA OneMoves ==
    ASSUME WellFormed, NEW w \in Workers, Begin(w) \/ Step(w) \/ Fail(w)
    PROVE  \A v \in Workers \ {w} : worker'[v] = worker[v]
  <1> DEFINE Alone == \A v \in Workers \ {w} : worker'[v] = worker[v]
  <1>1. worker \in [Workers -> Worker]
    BY DEF WellFormed, TypeOK
  <1>2. /\ Return(w) => Alone
        /\ \A pc : Go(w, pc) \/ Become(w, pc) \/ GetThen(w, pc) \/ GetHolderThen(w, pc) => Alone
        /\ \A pc, p : Call(w, pc, p) => Alone
    BY <1>1 DEF Return, Go, Become, GetThen, GetHolderThen, Call
  <1>3. /\ Acquired(w) => Alone
        /\ NotReleased(w) => Alone
        /\ Released(w) => Alone
    BY <1>1, <1>2 DEF Acquired, NotReleased, Released
  <1>4. Begin(w) => Alone
    BY <1>1
    DEF Begin, BeginPlan, BeginLockParent, BeginSavePolicy, BeginForceUnlock, BeginUnlock, Start
  <1>5. LockGet(w) \/ LockRefresh(w) \/ LockSet(w) \/ LockIndex(w) \/ LockExpire(w) => Alone
    BY <1>2, <1>3 DEF LockGet, LockRefresh, LockSet, LockIndex, LockExpire
  <1>6. ReclaimGetPR(w) => Alone
    BY <1>1, <1>2 DEF ReclaimGetPR
  <1>7. PlanGet(w) \/ PlanSet(w) \/ SaveGet(w) \/ SaveSet(w) \/ UnlockGet(w) => Alone
    BY <1>2, <1>3 DEF PlanGet, PlanSet, SaveGet, SaveSet, UnlockGet
  <1>8. ForceGet(w) \/ ForceSRem(w) \/ ForceDel(w) => Alone
    BY <1>2, <1>3 DEF ForceGet, ForceSRem, ForceDel
  <1>9. ListIndex(w) \/ ListFilter(w) \/ Sweep(w) => Alone
    BY <1>1, <1>2 DEF ListIndex, ListFilter, Sweep
  <1>10. Fail(w) => Alone
    BY <1>2 DEF Fail
  <1>11. QED
    BY <1>4, <1>5, <1>6, <1>7, <1>8, <1>9, <1>10 DEF Step

\* Steps that write no lock and no index entry, outside the two windows.
LEMMA QuietListed ==
    ASSUME WellFormed, ListedWhileHeld, NEW w \in Workers, Begin(w) \/ Step(w) \/ Fail(w),
           UNCHANGED <<lock, index>>, tainted \subseteq tainted',
           \/ worker[w].pc \notin {"lock.index", "force.del"}
           \/ worker[w].app \in tainted'
           \/ worker[w].pc = "force.del" /\ worker[w].seen = NoLock
    PROVE  ListedWhileHeld'
  <1> SUFFICES ASSUME NEW a \in Apps \ tainted', lock[a] # NoLock
               PROVE  Listed(a)'
    BY DEF ListedWhileHeld, Listed, Excused
  <1>1. Listed(a)
    BY DEF ListedWhileHeld, Listed, Excused
  <1>2. ~Indexing(w, a) /\ ~Releasing(w, a)
    BY DEF Indexing, Releasing, At
  <1>3. QED
    BY <1>1, <1>2, OneMoves, StaysListed

LEMMA WriteListed ==
    ASSUME WellFormed, Exclusive, ListedWhileHeld, NEW w \in Workers,
           LockRefresh(w) \/ LockSet(w) \/ PlanSet(w) \/ SaveSet(w)
    PROVE  ListedWhileHeld'
  <1> DEFINE r == worker[w]
  <1> SUFFICES ASSUME NEW a \in Apps \ tainted', lock'[a] # NoLock
               PROVE  Listed(a)'
    BY DEF ListedWhileHeld, Listed, Excused
  <1>1. r \in Worker /\ WorkerOK(r) /\ r.app \in Apps /\ index' = index
    BY WorkerUpdate DEF LockRefresh, LockSet, PlanSet, SaveSet, At, WorkerOK
  <1>2. /\ tainted \subseteq tainted'
        /\ a # r.app => lock'[a] = lock[a]
        /\ a = r.app => lock[a] = r.seen
    BY <1>1, WriteLocks DEF LockRefresh, LockSet, PlanSet, SaveSet
  <1>3. Listed(a)
    BY <1>2 DEF ListedWhileHeld, Listed, Excused
  <1>4. ~Indexing(w, a) /\ ~Releasing(w, a)
    BY DEF LockRefresh, LockSet, PlanSet, SaveSet, Indexing, Releasing, At
  <1>5. \A v \in Workers \ {w} : worker'[v] = worker[v]
    BY OneMoves DEF Step
  <1>6. CASE a # r.app
    BY <1>1, <1>2, <1>3, <1>4, <1>5, <1>6, StaysListed
  <1>7. CASE a = r.app /\ LockSet(w)
    <2>1. lock'[a].pr = r.pr
      BY <1>1, <1>7 DEF LockSet, SetLock, NoLock, WellFormed, TypeOK
    <2>2. worker'[w] = [r EXCEPT !.seen = NoLock, !.pc = "lock.index"]
      <3>1. worker' = [worker EXCEPT ![w] = [r EXCEPT !.seen = NoLock, !.pc = "lock.index"]]
        BY <1>7, WorkerUpdate DEF LockSet, PCs
      <3>2. QED
        BY <3>1 DEF WellFormed, TypeOK
    <2>3. Indexing(w, a)'
      BY <1>1, <1>7, <2>1, <2>2 DEF Indexing, At, Worker
    <2>4. QED
      BY <2>3 DEF Listed, Excused
  <1>8. CASE a = r.app /\ ~LockSet(w)
    <2>1. r.seen # NoLock
      BY <1>1, <1>8, LockAssumption
      DEF LockRefresh, PlanSet, SaveSet, At, WorkerOK, ForPR, NoLock
    <2>2. lock'[a].pr = r.seen.pr
      BY <1>1, <1>8 DEF LockRefresh, PlanSet, SaveSet, SetLock, Worker, Lock, WellFormed, TypeOK
    <2>3. QED
      BY <1>1, <1>2, <1>3, <1>4, <1>5, <1>8, <2>1, <2>2, StaysListed
  <1>9. QED
    BY <1>6, <1>7, <1>8

LEMMA IndexListed ==
    ASSUME WellFormed, ListedWhileHeld, NEW w \in Workers, LockIndex(w) \/ ForceSRem(w)
    PROVE  ListedWhileHeld'
  <1> DEFINE r == worker[w]
  <1> SUFFICES ASSUME NEW a \in Apps \ tainted', lock'[a] # NoLock
               PROVE  Listed(a)'
    BY DEF ListedWhileHeld, Listed, Excused
  <1>1. /\ r \in Worker /\ WorkerOK(r) /\ lock' = lock /\ tainted' = tainted
        /\ ForceSRem(w) => worker'[w] = [r EXCEPT !.pc = "force.del"]
    <2>1. /\ r \in Worker /\ WorkerOK(r) /\ lock' = lock /\ tainted' = tainted
          /\ ForceSRem(w) => worker' = [worker EXCEPT ![w] = [r EXCEPT !.pc = "force.del"]]
      BY WorkerUpdate DEF LockIndex, ForceSRem, ghosts, PCs
    <2>2. QED
      BY <2>1 DEF WellFormed, TypeOK
  <1>2. Listed(a) /\ lock[a].pr \in PRs
    BY <1>1 DEF ListedWhileHeld, Listed, Excused, WellFormed, LockOK
  <1>3. \A v \in Workers \ {w} : worker'[v] = worker[v]
    BY OneMoves DEF Step
  <1>4. CASE LockIndex(w) /\ Indexing(w, a)
    BY <1>1, <1>2, <1>4 DEF LockIndex, Indexing, Listed, WellFormed, TypeOK
  <1>5. CASE LockIndex(w) /\ ~Indexing(w, a)
    <2>1. a \in index[lock[a].pr] => a \in index'[lock[a].pr]
      BY <1>2, <1>5 DEF LockIndex, WellFormed, TypeOK
    <2>2. ~Releasing(w, a)
      BY <1>5 DEF LockIndex, Releasing, At
    <2>3. QED
      BY <1>1, <1>2, <1>3, <1>5, <2>1, <2>2, StaysListed
  <1>6. CASE ForceSRem(w) /\ a = r.app
    <2>1. Releasing(w, a)'
      BY <1>1, <1>6 DEF ForceSRem, Releasing, At, WorkerOK, Worker
    <2>2. QED
      BY <2>1 DEF Listed, Excused
  <1>7. CASE ForceSRem(w) /\ a # r.app
    <2>1. a \in index[lock[a].pr] => a \in index'[lock[a].pr]
      BY <1>2, <1>7 DEF ForceSRem, WellFormed, TypeOK
    <2>2. ~Indexing(w, a) /\ ~Releasing(w, a)
      BY <1>7 DEF ForceSRem, Indexing, Releasing, At
    <2>3. QED
      BY <1>1, <1>2, <1>3, <2>1, <2>2, StaysListed
  <1>8. QED
    BY <1>4, <1>5, <1>6, <1>7

LEMMA DelListed ==
    ASSUME WellFormed, ListedWhileHeld, NEW w \in Workers, ForceDel(w)
    PROVE  ListedWhileHeld'
  <1> SUFFICES ASSUME NEW a \in Apps \ tainted', lock'[a] # NoLock
               PROVE  Listed(a)'
    BY DEF ListedWhileHeld, Listed, Excused
  <1>1. worker[w].app # a /\ lock'[a] = lock[a] /\ index' = index /\ tainted' = tainted
    BY DEF ForceDel, WellFormed, TypeOK
  <1>2. Listed(a) /\ ~Indexing(w, a) /\ ~Releasing(w, a)
    BY <1>1 DEF ListedWhileHeld, Listed, Excused, Indexing, Releasing
  <1>3. QED
    BY <1>1, <1>2, OneMoves, StaysListed DEF Step

LEMMA TickListed ==
    ASSUME WellFormed, ListedWhileHeld, Tick
    PROVE  ListedWhileHeld'
  <1> SUFFICES ASSUME NEW a \in Apps \ tainted', lock'[a] # NoLock
               PROVE  a \in index'[lock'[a].pr]
    BY DEF ListedWhileHeld
  <1>1. /\ lock'[a] = lock[a] /\ lockTTL[a] # 1 /\ a \notin tainted
        /\ lock[a].pr \in PRs => indexTTL[lock[a].pr] # 1
    BY DEF Tick
  <1>2. lock[a].pr \in PRs
    BY <1>1 DEF WellFormed, LockOK
  <1>3. a \in index[lock[a].pr]
    BY <1>1 DEF ListedWhileHeld, Tick, Indexing, Releasing, At
  <1>4. QED
    BY <1>1, <1>2, <1>3 DEF Tick

LEMMA NextListed ==
    WellFormed /\ Exclusive /\ ListedWhileHeld /\ [Next]_vars => ListedWhileHeld'
  <1> SUFFICES ASSUME WellFormed, Exclusive, ListedWhileHeld, [Next]_vars
               PROVE  ListedWhileHeld'
    OBVIOUS
  <1>1. ASSUME NEW w \in Workers, Begin(w) PROVE ListedWhileHeld'
    <2>1. UNCHANGED <<lock, index, tainted>> /\ worker[w].pc = "idle"
      BY <1>1
      DEF Begin, BeginPlan, BeginLockParent, BeginSavePolicy, BeginForceUnlock, BeginUnlock,
          Start, At, redis, ghosts
    <2>2. QED
      BY <1>1, <2>1, QuietListed
  <1>2. ASSUME NEW w \in Workers,
               \/ LockGet(w) \/ LockExpire(w) \/ ReclaimGetPR(w) \/ PlanGet(w) \/ SaveGet(w)
               \/ UnlockGet(w) \/ ForceGet(w) \/ ListIndex(w) \/ ListFilter(w) \/ Sweep(w)
        PROVE  ListedWhileHeld'
    <2>1. UNCHANGED <<lock, index, tainted>> /\ worker[w].pc \notin {"lock.index", "force.del"}
      BY <1>2
      DEF LockGet, LockExpire, ReclaimGetPR, PlanGet, SaveGet, UnlockGet, ForceGet, ListIndex,
          ListFilter, Sweep, At, redis, ghosts
    <2>2. QED
      BY <1>2, <2>1, QuietListed DEF Step
  <1>3. ASSUME NEW w \in Workers, Fail(w) PROVE ListedWhileHeld'
    <2>1. UNCHANGED <<lock, index>> /\ tainted \subseteq tainted'
      BY <1>3 DEF Fail, redis
    <2>2. \/ worker[w].pc \notin {"lock.index", "force.del"}
          \/ worker[w].app \in tainted'
          \/ worker[w].pc = "force.del" /\ worker[w].seen = NoLock
      BY <1>3 DEF Fail, At
    <2>3. QED
      BY <1>3, <2>1, <2>2, QuietListed
  <1>4. CASE UNCHANGED vars \/ \E p \in PRs : Close(p)
    BY <1>4 DEF Close, vars, redis, ghosts, ListedWhileHeld, Indexing, Releasing, At
  <1>5. QED
    BY <1>1, <1>2, <1>3, <1>4, WriteListed, IndexListed, DelListed, TickListed DEF Next, Step

\* Commands and UnlockAll find every undamaged lock of a pull request in its index.
THEOREM LocksAreListed == Spec => []ListedWhileHeld
  <1>1. Init => ListedWhileHeld
    BY DEF Init, ListedWhileHeld
  <1>2. QED
    BY <1>1, NextListed, AlwaysWellFormed, LocksAreExclusive, PTL DEF Spec
==============================================================================
