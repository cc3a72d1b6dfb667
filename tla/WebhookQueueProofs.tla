-------------------------- MODULE WebhookQueueProofs --------------------------
(* Proofs about WebhookQueue: no event is forgotten, hopeless tasks are not   *)
(* tried again, and closed pull requests keep no lock.                        *)
EXTENDS WebhookQueue, TLAPS

\* A worker has the only active hold of its task, and what is in the queue or with a
\* goroutine was sent.
Held == /\ \A r \in Runners : runner[r].on = None <=> runner[r].pc = "idle"
        /\ \A r \in Runners : runner[r].on # None => posts[runner[r].on] > 0
        /\ \A d \in Deliveries : task[d].state # "none" => posts[d] > 0
        /\ \A w \in Workers : runner[w].on # None => task[runner[w].on].state = "active"
        /\ \A v, w \in Workers : runner[v].on = runner[w].on /\ runner[v].on # None => v = w

WellFormed == TypeOK /\ Held

\* What was put into the queue and not carried out is still there.
InQueue(d) == task[d].state \in {"pending", "active", "retry", "archived"}
Kept == /\ NothingForgotten
        /\ \A d \in Deliveries : fate[d] = "queued" => InQueue(d)

\* Every attempt of a hopeless task, also the one that is still to be recovered, goes back
\* to a death.
Abandoned(d) == task[d].state = "active" /\ \A w \in Workers : runner[w].on # d
Spared == \A d \in Deliveries : Payload[d].provider \notin Executors =>
             task[d].retried + (IF Abandoned(d) THEN 1 ELSE 0) <= crashes

\* Who says that a pull request is closed is right; and from UnlockAll on the pull request
\* has no lock.
Released(d) == PR[d] \in late \union leaked \/ PR[d] \notin locked
Closing == \A d \in Deliveries : Saying(d) =>
              /\ posts[d] > 0 => PR[d] \notin open
              /\ fate[d] = "applied" => Released(d)
              /\ \A r \in Runners : runner[r].on = d /\ runner[r].pc = "acted" => Released(d)

-----------------------------------------------------------------------------

LEMMA InitWF == Init => WellFormed
  BY QueueAssumption DEF Init, WellFormed, TypeOK, Held, NoTask, Idle, States, Runners

\* A goroutine ends what it was at.
LEMMA EndsWF ==
    ASSUME WellFormed, NEW r \in Runners, NEW d \in Deliveries, Ends(r, d),
           UNCHANGED <<posts, open, locked, crashes, late, leaked>>,
           fate' \in [Deliveries -> {"none", "dropped", "queued", "applied"}],
           \/ r \in Workers /\ \E t \in [state : States \ {"none"}, retried : 0..MaxRetry] :
                                  task' = [task EXCEPT ![d] = t]
           \/ r \in Slots /\ task' = task
    PROVE  WellFormed'
  <1>1. /\ runner' = [runner EXCEPT ![r] = Idle]
        /\ runner[r].on = d /\ posts[d] > 0
        /\ Idle \in [on : Deliveries \union {None}, pc : {"idle", "begun", "acted"}]
        /\ Idle.on = None /\ Idle.pc = "idle"
    BY QueueAssumption DEF Ends, Idle, WellFormed, Held
  <1>2. TypeOK'
    BY <1>1 DEF WellFormed, TypeOK
  <1>3. Held'
    BY <1>1, QueueAssumption DEF WellFormed, TypeOK, Held, Runners
  <1>4. QED
    BY <1>2, <1>3 DEF WellFormed

\* Only the state of a task changes.
LEMMA MovedTask ==
    ASSUME WellFormed, NEW d \in Deliveries, NEW x
    PROVE  [task EXCEPT ![d].state = x]
             = [task EXCEPT ![d] = [state |-> x, retried |-> task[d].retried]]
  <1>1. task[d] \in [state : States, retried : 0..MaxRetry]
    BY DEF WellFormed, TypeOK
  <1>2. [task[d] EXCEPT !.state = x] = [state |-> x, retried |-> task[d].retried]
    BY <1>1
  <1>3. QED
    BY <1>2

\* Retry puts a task back or archives it.
LEMMA RetryTask ==
    ASSUME WellFormed, NEW d \in Deliveries, Retry(d)
    PROVE  \E t \in [state : {"retry", "archived"}, retried : 0..MaxRetry] :
              /\ task' = [task EXCEPT ![d] = t]
              /\ t.retried <= task[d].retried + 1
  <1>1. task[d] \in [state : States, retried : 0..MaxRetry] /\ MaxRetry \in Nat
    BY QueueAssumption DEF WellFormed, TypeOK
  <1>2. CASE task[d].retried < MaxRetry
    <2> DEFINE t == [state |-> "retry", retried |-> task[d].retried + 1]
    <2>1. t \in [state : {"retry", "archived"}, retried : 0..MaxRetry]
      BY <1>1, <1>2
    <2>2. task' = [task EXCEPT ![d] = t] /\ t.retried <= task[d].retried + 1
      BY <1>1, <1>2 DEF Retry
    <2>3. QED
      BY <2>1, <2>2
  <1>3. CASE ~(task[d].retried < MaxRetry)
    <2> DEFINE t == [task[d] EXCEPT !.state = "archived"]
    <2>1. t \in [state : {"retry", "archived"}, retried : 0..MaxRetry]
      BY <1>1
    <2>2. task' = [task EXCEPT ![d] = t] /\ t.retried <= task[d].retried + 1
      BY <1>1, <1>3 DEF Retry
    <2>3. QED
      BY <2>1, <2>2
  <1>4. QED
    BY <1>2, <1>3

LEMMA WorkWF ==
    ASSUME WellFormed, NEW r \in Runners, Work(r)
    PROVE  WellFormed'
  <1>1. CASE Plan(r)
    <2>1. /\ PR[runner[r].on] \in PRs /\ runner[r].on \in Deliveries
          /\ runner' = [runner EXCEPT ![r].pc = "acted"] /\ runner[r].on # None
          /\ UNCHANGED <<posts, open, task, crashes, fate, leaked>>
          /\ locked' = locked \union {PR[runner[r].on]} /\ late' \subseteq late \union {PR[runner[r].on]}
      BY <1>1, QueueAssumption DEF Plan, WellFormed, TypeOK, Held
    <2>2. TypeOK'
      BY <2>1 DEF WellFormed, TypeOK
    <2>3. Held'
      BY <2>1, QueueAssumption DEF WellFormed, TypeOK, Held, Runners
    <2>4. QED
      BY <2>2, <2>3 DEF WellFormed
  <1>2. CASE UnlockAll(r)
    <2>1. /\ PR[runner[r].on] \in PRs /\ runner[r].on \in Deliveries
          /\ runner' = [runner EXCEPT ![r].pc = "acted"] /\ runner[r].on # None
          /\ UNCHANGED <<posts, open, task, crashes, fate, late>>
          /\ locked' \subseteq locked /\ leaked' \subseteq leaked \union {PR[runner[r].on]}
      BY <1>2, QueueAssumption DEF UnlockAll, WellFormed, TypeOK, Held
    <2>2. TypeOK'
      BY <2>1 DEF WellFormed, TypeOK
    <2>3. Held'
      BY <2>1, QueueAssumption DEF WellFormed, TypeOK, Held, Runners
    <2>4. QED
      BY <2>2, <2>3 DEF WellFormed
  <1>3. ASSUME NEW d \in Deliveries, Succeed(r, d)
        PROVE  WellFormed'
    <2>1. CASE r \in Workers
      <3> DEFINE t == [state |-> "completed", retried |-> task[d].retried]
      <3>1. t \in [state : States \ {"none"}, retried : 0..MaxRetry]
        BY DEF WellFormed, TypeOK, States
      <3>2. task' = [task EXCEPT ![d] = t]
        BY <1>3, <2>1, MovedTask DEF Succeed
      <3>3. fate' \in [Deliveries -> {"none", "dropped", "queued", "applied"}]
        BY <1>3 DEF Succeed, WellFormed, TypeOK
      <3>4. QED
        BY <1>3, <2>1, <3>1, <3>2, <3>3, EndsWF DEF Succeed
    <2>2. CASE r \in Slots
      BY <1>3, <2>2, EndsWF, QueueAssumption DEF Succeed, WellFormed, TypeOK
    <2>3. QED
      BY <2>1, <2>2 DEF Runners
  <1>4. ASSUME NEW d \in Deliveries, Error(r, d)
        PROVE  WellFormed'
    <2>1. CASE r \in Workers
      <3>1. PICK t \in [state : {"retry", "archived"}, retried : 0..MaxRetry] :
                    task' = [task EXCEPT ![d] = t]
        BY <1>4, <2>1, RetryTask DEF Error
      <3>2. t \in [state : States \ {"none"}, retried : 0..MaxRetry]
        BY DEF States
      <3>3. QED
        BY <1>4, <2>1, <3>1, <3>2, EndsWF DEF Error, WellFormed, TypeOK
    <2>2. CASE r \in Slots
      BY <1>4, <2>2, EndsWF, QueueAssumption DEF Error, Drop, WellFormed, TypeOK
    <2>3. QED
      BY <2>1, <2>2 DEF Runners
  <1>5. ASSUME NEW d \in Deliveries, SkipRetry(r, d)
        PROVE  WellFormed'
    <2> DEFINE t == [state |-> "archived", retried |-> task[d].retried]
    <2>1. t \in [state : States \ {"none"}, retried : 0..MaxRetry]
      BY DEF WellFormed, TypeOK, States
    <2>2. task' = [task EXCEPT ![d] = t] /\ r \in Workers
      BY <1>5, MovedTask DEF SkipRetry, HasExecutor, Runners
    <2>3. QED
      BY <1>5, <2>1, <2>2, EndsWF DEF SkipRetry, history, WellFormed, TypeOK
  <1>6. QED
    BY <1>1, <1>2, <1>3, <1>4, <1>5 DEF Work, Ignore, Finish, Fail

\* A step of the VCS, of a handler or of asynq.
Other == \/ \E p \in PRs : Close(p)
         \/ \E d \in Deliveries : Enqueue(d) \/ FallBack(d) \/ RetryDue(d) \/ Recover(d) \/ Expire(d)
         \/ \E w \in Workers : GiveBack(w) \/ \E d \in Deliveries : Take(w, d)
         \/ \E r \in Runners : Crash(r)

LEMMA Accepted ==
    ASSUME WellFormed, NEW d \in Deliveries, Accept(d)
    PROVE  /\ posts' = [posts EXCEPT ![d] = @ + 1] /\ posts'[d] <= MaxPosts[d]
           /\ posts' \in [Deliveries -> Nat] /\ \A e \in Deliveries : posts[e] <= posts'[e]
           /\ posts'[d] > 0
  <1>1. posts \in [Deliveries -> Nat] /\ MaxPosts[d] \in Nat
    BY QueueAssumption DEF WellFormed, TypeOK
  <1>2. posts' = [posts EXCEPT ![d] = posts[d] + 1] /\ posts[d] < MaxPosts[d]
    BY DEF Accept
  <1>3. QED
    BY <1>1, <1>2

LEMMA Pended ==
    ASSUME WellFormed, NEW d \in Deliveries, Pend(d)
    PROVE  /\ task' = [task EXCEPT ![d].state = "pending"]
           /\ fate' \in [Deliveries -> {"none", "dropped", "queued", "applied"}]
  BY DEF Pend, WellFormed, TypeOK

LEMMA OtherWF ==
    ASSUME WellFormed, Other
    PROVE  WellFormed'
  <1>1. ASSUME NEW p \in PRs, Close(p)
        PROVE  WellFormed'
    BY <1>1 DEF Close, history, WellFormed, TypeOK, Held
  <1>2. ASSUME NEW d \in Deliveries, Enqueue(d)
        PROVE  WellFormed'
    <2>1. /\ posts' = [posts EXCEPT ![d] = @ + 1] /\ posts'[d] <= MaxPosts[d]
          /\ task' = [task EXCEPT ![d].state = "pending"] /\ task[d].state = "none"
          /\ fate' \in [Deliveries -> {"none", "dropped", "queued", "applied"}]
          /\ UNCHANGED <<open, locked, runner, crashes, late, leaked>>
      BY <1>2, Accepted, Pended DEF Enqueue, NoTask
    <2>2. TypeOK'
      BY <2>1, QueueAssumption DEF WellFormed, TypeOK, States
    <2>3. Held'
      BY <2>1, QueueAssumption DEF WellFormed, TypeOK, Held, Runners
    <2>4. QED
      BY <2>2, <2>3 DEF WellFormed
  <1>3. ASSUME NEW d \in Deliveries, FallBack(d)
        PROVE  WellFormed'
    <2>1. PICK s \in Slots : /\ runner[s] = Idle
                             /\ runner' = [runner EXCEPT ![s] = [on |-> d, pc |-> "begun"]]
      BY <1>3 DEF FallBack
    <2>2. /\ posts' = [posts EXCEPT ![d] = @ + 1] /\ posts'[d] <= MaxPosts[d]
          /\ UNCHANGED <<open, locked, crashes, late, leaked>>
          /\ fate' \in [Deliveries -> {"none", "dropped", "queued", "applied"}]
          /\ task' = task \/ (task' = [task EXCEPT ![d].state = "pending"] /\ task[d].state = "none")
      BY <1>3, Accepted, Pended DEF FallBack, NoTask, WellFormed, TypeOK
    <2>3. TypeOK'
      BY <2>1, <2>2, QueueAssumption DEF WellFormed, TypeOK, States, Runners
    <2>4. Held'
      BY <2>1, <2>2, QueueAssumption DEF WellFormed, TypeOK, Held, Runners
    <2>5. QED
      BY <2>3, <2>4 DEF WellFormed
  <1>4. ASSUME NEW d \in Deliveries, RetryDue(d)
        PROVE  WellFormed'
    BY <1>4, QueueAssumption DEF RetryDue, history, WellFormed, TypeOK, Held, States, Runners
  <1>5. ASSUME NEW d \in Deliveries, Recover(d)
        PROVE  WellFormed'
    <2>1. PICK t \in [state : {"retry", "archived"}, retried : 0..MaxRetry] :
                  task' = [task EXCEPT ![d] = t]
      BY <1>5, RetryTask DEF Recover
    <2>2. QED
      BY <1>5, <2>1 DEF Recover, history, WellFormed, TypeOK, Held, States, Runners
  <1>6. ASSUME NEW d \in Deliveries, Expire(d)
        PROVE  WellFormed'
    BY <1>6, QueueAssumption DEF Expire, NoTask, history, WellFormed, TypeOK, Held, States, Runners
  <1>7. ASSUME NEW w \in Workers, GiveBack(w)
        PROVE  WellFormed'
    <2> DEFINE d == runner[w].on
    <2>1. /\ d \in Deliveries /\ runner' = [runner EXCEPT ![w] = Idle]
          /\ task' = [task EXCEPT ![d].state = "pending"]
          /\ crashes' = crashes + 1 /\ crashes < MaxCrashes
          /\ UNCHANGED <<posts, open, locked, fate, late, leaked>>
      BY <1>7 DEF GiveBack, history, Idle, WellFormed, TypeOK, Held, Runners
    <2>2. TypeOK'
      <3>1. crashes' \in 0..MaxCrashes
        BY <2>1, QueueAssumption DEF WellFormed, TypeOK
      <3>2. runner' \in [Runners -> [on : Deliveries \union {None}, pc : {"idle", "begun", "acted"}]]
        BY <2>1 DEF WellFormed, TypeOK, Idle
      <3>3. task' \in [Deliveries -> [state : States, retried : 0..MaxRetry]]
        BY <2>1 DEF WellFormed, TypeOK, States
      <3>4. QED
        BY <2>1, <3>1, <3>2, <3>3 DEF WellFormed, TypeOK
    <2>3. Held'
      BY <2>1, QueueAssumption DEF WellFormed, TypeOK, Held, Idle, Runners
    <2>4. QED
      BY <2>2, <2>3 DEF WellFormed
  <1>8. ASSUME NEW w \in Workers, NEW d \in Deliveries, Take(w, d)
        PROVE  WellFormed'
    <2>1. TypeOK'
      BY <1>8 DEF Take, history, WellFormed, TypeOK, States, Runners
    <2>2. Held'
      BY <1>8, QueueAssumption DEF Take, history, WellFormed, TypeOK, Held, Runners
    <2>3. QED
      BY <2>1, <2>2 DEF WellFormed
  <1>9. ASSUME NEW r \in Runners, Crash(r)
        PROVE  WellFormed'
    <2>1. TypeOK'
      BY <1>9, QueueAssumption DEF Crash, Drop, WellFormed, TypeOK, Idle
    <2>2. Held'
      BY <1>9, QueueAssumption DEF Crash, Idle, WellFormed, TypeOK, Held, Runners
    <2>3. QED
      BY <2>1, <2>2 DEF WellFormed
  <1>10. QED
    BY <1>1, <1>2, <1>3, <1>4, <1>5, <1>6, <1>7, <1>8, <1>9 DEF Other

LEMMA NextWF == WellFormed /\ [Next]_vars => WellFormed'
  <1>1. Next => Other \/ \E r \in Runners : Work(r)
    BY DEF Next, Other
  <1>2. UNCHANGED vars /\ WellFormed => WellFormed'
    BY DEF vars, WellFormed, TypeOK, Held
  <1>3. QED
    BY <1>1, <1>2, WorkWF, OtherWF

\* The inductive invariant: types, and who holds what of the queue.
THEOREM AlwaysWellFormed == Spec => []WellFormed
  BY InitWF, NextWF, PTL DEF Spec

\* The variables keep their types.
THEOREM TypeCorrect == Spec => []TypeOK
  <1>1. WellFormed => TypeOK
    BY DEF WellFormed
  <1>2. QED
    BY <1>1, AlwaysWellFormed, PTL

-----------------------------------------------------------------------------
(* Nothing is forgotten. *)

LEMMA InitKept == Init => Kept
  BY DEF Init, Kept, NothingForgotten, InQueue, NoTask

\* What a goroutine does at its end: to the task and the fate of its event d.
LEMMA EndsKept ==
    ASSUME WellFormed, Kept, NEW r \in Runners, NEW d \in Deliveries, Ends(r, d),
           posts' = posts,
           \A e \in Deliveries \ {d} : task'[e] = task[e] /\ fate'[e] = fate[e],
           \/ fate'[d] = "applied"
           \/ /\ r \in Slots /\ task'[d] = task[d]
              /\ fate'[d] = (IF fate[d] = "none" THEN "dropped" ELSE fate[d])
           \/ /\ r \in Workers /\ fate'[d] = fate[d]
              /\ task'[d].state \in {"pending", "retry", "archived"}
    PROVE  Kept'
  <1>1. /\ runner' = [runner EXCEPT ![r] = Idle] /\ runner[r].on = d
        /\ fate[d] \in {"none", "dropped", "queued", "applied"}
    BY DEF Ends, WellFormed, TypeOK
  <1>2. ASSUME NEW e \in Deliveries, e # d, posts[e] > 0
        PROVE  \/ fate'[e] \in {"applied", "dropped"}
               \/ fate'[e] = "queued" /\ task'[e].state \in {"pending", "active", "retry", "archived"}
               \/ fate'[e] = "none" /\ \E s \in Slots : runner'[s].on = e
    BY <1>1, <1>2 DEF Kept, NothingForgotten, InQueue, WellFormed, TypeOK
  <1>3. posts[d] > 0 =>
               \/ fate'[d] \in {"applied", "dropped"}
               \/ fate'[d] = "queued" /\ task'[d].state \in {"pending", "active", "retry", "archived"}
               \/ fate'[d] = "none" /\ \E s \in Slots : runner'[s].on = d
    BY <1>1, QueueAssumption DEF Kept, NothingForgotten, InQueue, Runners, WellFormed, TypeOK
  <1>4. \A e \in Deliveries : fate'[e] = "queued" => InQueue(e)'
    BY <1>1 DEF Kept, InQueue
  <1>5. QED
    BY <1>2, <1>3, <1>4 DEF Kept, NothingForgotten, InQueue

LEMMA WorkKept ==
    ASSUME WellFormed, Kept, NEW r \in Runners, Work(r)
    PROVE  Kept'
  <1>1. CASE Plan(r) \/ UnlockAll(r)
    <2>1. /\ UNCHANGED <<posts, task, fate>>
          /\ runner' = [runner EXCEPT ![r].pc = "acted"]
      BY <1>1 DEF Plan, UnlockAll
    <2>2. \A s \in Slots : runner'[s].on = runner[s].on
      BY <2>1 DEF WellFormed, TypeOK, Runners
    <2>3. QED
      BY <2>1, <2>2 DEF Kept, NothingForgotten, InQueue
  <1>2. ASSUME NEW d \in Deliveries, Succeed(r, d)
        PROVE  Kept'
    <2>1. /\ Ends(r, d) /\ posts' = posts /\ fate'[d] = "applied"
          /\ \A e \in Deliveries \ {d} : task'[e] = task[e] /\ fate'[e] = fate[e]
      BY <1>2 DEF Succeed, WellFormed, TypeOK
    <2>2. QED
      BY <2>1, EndsKept
  <1>3. ASSUME NEW d \in Deliveries, Error(r, d)
        PROVE  Kept'
    <2>1. Ends(r, d) /\ posts' = posts
      BY <1>3 DEF Error
    <2>2. CASE r \in Workers
      <3>1. PICK t \in [state : {"retry", "archived"}, retried : 0..MaxRetry] :
                    task' = [task EXCEPT ![d] = t]
        BY <1>3, <2>2, RetryTask DEF Error
      <3>2. /\ task'[d].state \in {"pending", "retry", "archived"} /\ fate' = fate
            /\ \A e \in Deliveries \ {d} : task'[e] = task[e]
        BY <1>3, <2>2, <3>1 DEF Error, WellFormed, TypeOK
      <3>3. QED
        BY <2>1, <2>2, <3>2, EndsKept
    <2>3. CASE r \in Slots
      <3>1. r \notin Workers
        BY <2>3, QueueAssumption
      <3>2. /\ fate'[d] = (IF fate[d] = "none" THEN "dropped" ELSE fate[d]) /\ task' = task
            /\ \A e \in Deliveries \ {d} : fate'[e] = fate[e]
        BY <1>3, <3>1 DEF Error, Drop, WellFormed, TypeOK
      <3>3. QED
        BY <2>1, <2>3, <3>2, EndsKept
    <2>4. QED
      BY <2>2, <2>3 DEF Runners
  <1>4. ASSUME NEW d \in Deliveries, SkipRetry(r, d)
        PROVE  Kept'
    <2>1. /\ Ends(r, d) /\ posts' = posts /\ fate' = fate /\ r \in Workers
          /\ task' = [task EXCEPT ![d] = [state |-> "archived", retried |-> task[d].retried]]
      BY <1>4, MovedTask DEF SkipRetry, HasExecutor, Runners, history
    <2>2. /\ task'[d].state \in {"pending", "retry", "archived"}
          /\ \A e \in Deliveries \ {d} : task'[e] = task[e]
      BY <2>1 DEF WellFormed, TypeOK
    <2>3. QED
      BY <2>1, <2>2, EndsKept
  <1>5. QED
    BY <1>1, <1>2, <1>3, <1>4 DEF Work, Ignore, Finish, Fail

LEMMA OtherKept ==
    ASSUME WellFormed, Kept, Other
    PROVE  Kept'
  <1>1. CASE \E p \in PRs : Close(p)
    BY <1>1 DEF Close, history, Kept, NothingForgotten, InQueue
  <1>2. ASSUME NEW d \in Deliveries, Enqueue(d)
        PROVE  Kept'
    <2>1. /\ \A e \in Deliveries \ {d} : /\ posts'[e] = posts[e] /\ task'[e] = task[e]
                                         /\ fate'[e] = fate[e]
          /\ task'[d].state = "pending" /\ fate'[d] \in {"applied", "queued"} /\ runner' = runner
      BY <1>2 DEF Enqueue, Accept, Pend, WellFormed, TypeOK
    <2>2. QED
      BY <2>1 DEF Kept, NothingForgotten, InQueue
  <1>3. ASSUME NEW d \in Deliveries, FallBack(d)
        PROVE  Kept'
    <2>1. PICK s \in Slots : /\ runner[s] = Idle
                             /\ runner' = [runner EXCEPT ![s] = [on |-> d, pc |-> "begun"]]
      BY <1>3 DEF FallBack
    <2>2. /\ runner'[s].on = d
          /\ \A e \in Deliveries : (\E q \in Slots : runner[q].on = e) => \E q \in Slots : runner'[q].on = e
      BY <2>1, QueueAssumption DEF WellFormed, TypeOK, Runners, Idle
    <2>3. \A e \in Deliveries \ {d} : /\ posts'[e] = posts[e] /\ task'[e] = task[e]
                                      /\ fate'[e] = fate[e]
      BY <1>3 DEF FallBack, Accept, Pend, WellFormed, TypeOK
    <2>4. \/ task'[d] = task[d] /\ fate'[d] = fate[d]
          \/ task'[d].state = "pending" /\ fate'[d] \in {"applied", "queued"}
      BY <1>3 DEF FallBack, Pend, WellFormed, TypeOK
    <2>5. QED
      BY <2>2, <2>3, <2>4 DEF Kept, NothingForgotten, InQueue, WellFormed, TypeOK
  <1>4. ASSUME NEW d \in Deliveries, RetryDue(d) \/ (\E w \in Workers : Take(w, d))
        PROVE  Kept'
    <2>1. /\ posts' = posts /\ fate' = fate /\ task'[d].state \in {"pending", "active"}
          /\ task[d].state \in {"retry", "pending"}
          /\ \A e \in Deliveries \ {d} : task'[e] = task[e]
          /\ \A s \in Slots : runner'[s] = runner[s]
      BY <1>4, QueueAssumption DEF RetryDue, Take, history, WellFormed, TypeOK, Runners
    <2>2. QED
      BY <2>1 DEF Kept, NothingForgotten, InQueue
  <1>5. ASSUME NEW d \in Deliveries, Recover(d)
        PROVE  Kept'
    <2>1. PICK t \in [state : {"retry", "archived"}, retried : 0..MaxRetry] :
                  task' = [task EXCEPT ![d] = t]
      BY <1>5, RetryTask DEF Recover
    <2>2. /\ posts' = posts /\ fate' = fate /\ task'[d].state \in {"retry", "archived"}
          /\ \A e \in Deliveries \ {d} : task'[e] = task[e]
          /\ runner' = runner
      BY <1>5, <2>1 DEF Recover, history, WellFormed, TypeOK
    <2>3. QED
      BY <2>2 DEF Kept, NothingForgotten, InQueue
  <1>6. ASSUME NEW d \in Deliveries, Expire(d)
        PROVE  Kept'
    <2>1. /\ UNCHANGED <<posts, fate, runner>> /\ fate[d] # "queued"
          /\ task[d].state = "completed"
          /\ \A e \in Deliveries \ {d} : task'[e] = task[e]
      BY <1>6 DEF Expire, history, Kept, InQueue, WellFormed, TypeOK
    <2>2. QED
      BY <2>1 DEF Kept, NothingForgotten, InQueue
  <1>7. ASSUME NEW w \in Workers, GiveBack(w)
        PROVE  Kept'
    <2> DEFINE d == runner[w].on
    <2>1. /\ d \in Deliveries /\ Ends(w, d) /\ w \in Runners
          /\ task'[d].state \in {"pending", "retry", "archived"}
          /\ posts' = posts /\ fate' = fate
          /\ \A e \in Deliveries \ {d} : task'[e] = task[e]
      BY <1>7 DEF GiveBack, Ends, history, Idle, WellFormed, TypeOK, Held, Runners
    <2>2. QED
      BY <2>1, EndsKept
  <1>8. ASSUME NEW r \in Runners, Crash(r)
        PROVE  Kept'
    <2> DEFINE d == runner[r].on
    <2>1. /\ d \in Deliveries /\ Ends(r, d) /\ posts' = posts /\ task' = task
      BY <1>8 DEF Crash, Ends, Idle, WellFormed, TypeOK, Held
    <2>2. CASE r \in Slots
      <3>1. /\ fate'[d] = (IF fate[d] = "none" THEN "dropped" ELSE fate[d])
            /\ \A e \in Deliveries \ {d} : fate'[e] = fate[e]
        BY <1>8, <2>1, <2>2 DEF Crash, Drop, WellFormed, TypeOK
      <3>2. QED
        BY <2>1, <2>2, <3>1, EndsKept
    <2>3. CASE r \notin Slots
      <3>1. /\ UNCHANGED <<posts, task, fate>>
            /\ \A s \in Slots : runner'[s] = runner[s]
        BY <1>8, <2>1, <2>3 DEF Crash, WellFormed, TypeOK, Runners
      <3>2. QED
        BY <3>1 DEF Kept, NothingForgotten, InQueue
    <2>4. QED
      BY <2>2, <2>3
  <1>9. QED
    BY <1>1, <1>2, <1>3, <1>4, <1>5, <1>6, <1>7, <1>8 DEF Other

\* github_handler.go:118-132: no accepted event is lost silently, however goroutines of both
\* kinds, duplicate deliveries, retries, deaths and expiry interleave.
THEOREM NothingIsForgotten == Spec => []NothingForgotten
  <1>1. WellFormed /\ Kept /\ [Next]_vars => Kept'
    <2>1. Next => Other \/ \E r \in Runners : Work(r)
      BY DEF Next, Other
    <2>2. UNCHANGED vars /\ Kept => Kept'
      BY DEF vars, Kept, NothingForgotten, InQueue
    <2>3. QED
      BY <2>1, <2>2, WorkKept, OtherKept
  <1>2. Kept => NothingForgotten
    BY DEF Kept
  <1>3. QED
    BY <1>1, <1>2, InitKept, AlwaysWellFormed, PTL DEF Spec

-----------------------------------------------------------------------------
(* Hopeless tasks. *)

\* What does not add to the attempts of an event, nor abandon it, spares it.
LEMMA Sparing ==
    ASSUME WellFormed, WellFormed', Spared,
           \A d \in Deliveries : Payload[d].provider \notin Executors =>
              /\ task'[d].retried <= task[d].retried \/ Abandoned(d)
              /\ task'[d].retried <= task[d].retried + 1
              /\ \/ crashes' = crashes
                 \/ crashes' = crashes + 1 /\ task'[d].retried <= task[d].retried
              /\ Abandoned(d)' => \/ Abandoned(d) /\ task'[d].retried <= task[d].retried
                                  \/ crashes' = crashes + 1
    PROVE  Spared'
  <1> SUFFICES ASSUME NEW d \in Deliveries, Payload[d].provider \notin Executors
               PROVE  task'[d].retried + (IF Abandoned(d)' THEN 1 ELSE 0) <= crashes'
    BY DEF Spared
  <1>1. /\ task[d].retried \in Nat /\ task'[d].retried \in Nat /\ crashes \in Nat /\ crashes' \in Nat
    BY QueueAssumption DEF WellFormed, TypeOK
  <1>2. task[d].retried + (IF Abandoned(d) THEN 1 ELSE 0) <= crashes
    BY DEF Spared
  <1>3. QED
    BY <1>1, <1>2

\* A task is retried after an error only if a worker could process it.
LEMMA WorkSpared ==
    ASSUME WellFormed, WellFormed', Spared, NEW r \in Runners, Work(r)
    PROVE  Spared'
  <1>1. CASE Plan(r) \/ UnlockAll(r)
    <2>1. /\ UNCHANGED <<task, crashes>>
          /\ runner' = [runner EXCEPT ![r].pc = "acted"]
      BY <1>1 DEF Plan, UnlockAll
    <2>2. \A w \in Workers : runner'[w].on = runner[w].on
      BY <2>1 DEF WellFormed, TypeOK, Runners
    <2>3. \A d \in Deliveries : task[d].retried \in Nat /\ (Abandoned(d)' => Abandoned(d))
      BY <2>1, <2>2, QueueAssumption DEF WellFormed, TypeOK, Abandoned
    <2>4. QED
      BY <2>1, <2>3, Sparing
  <1>2. ASSUME NEW d \in Deliveries, Ends(r, d), crashes' = crashes,
               \A e \in Deliveries \ {d} : task'[e] = task[e],
               Payload[d].provider \notin Executors =>
                  /\ task'[d].retried = task[d].retried
                  /\ r \in Workers => task'[d].state # "active"
                  /\ r \notin Workers => task'[d] = task[d]
        PROVE  Spared'
    <2>1. /\ runner[r].on = d
          /\ \A w \in Workers : w # r => runner'[w] = runner[w]
      BY <1>2 DEF Ends, WellFormed, TypeOK, Runners
    <2>2. ASSUME NEW e \in Deliveries, e # d
          PROVE  task'[e] = task[e] /\ (Abandoned(e)' => Abandoned(e))
      BY <1>2, <2>1, <2>2 DEF Abandoned
    <2>3. ASSUME Payload[d].provider \notin Executors
          PROVE  task'[d].retried = task[d].retried /\ (Abandoned(d)' => Abandoned(d))
      BY <1>2, <2>1, <2>3 DEF Abandoned
    <2>4. \A e \in Deliveries : task[e].retried \in Nat /\ task'[e].retried \in Nat
      BY QueueAssumption DEF WellFormed, TypeOK
    <2>5. QED
      BY <1>2, <2>2, <2>3, <2>4, Sparing
  <1>3. ASSUME NEW d \in Deliveries, Succeed(r, d)
        PROVE  Spared'
    <2>1. /\ Ends(r, d) /\ crashes' = crashes
          /\ task' = IF r \in Workers
                     THEN [task EXCEPT ![d] = [state |-> "completed", retried |-> task[d].retried]]
                     ELSE task
      BY <1>3, MovedTask DEF Succeed
    <2>2. QED
      BY <1>2, <2>1 DEF WellFormed, TypeOK
  <1>4. ASSUME NEW d \in Deliveries, Fail(r, d)
        PROVE  Spared'
    <2>1. Ends(r, d) /\ crashes' = crashes /\ runner[r].on = d
      BY <1>4 DEF Fail, Error
    <2>2. CASE r \in Workers
      <3>1. PICK t \in [state : {"retry", "archived"}, retried : 0..MaxRetry] :
                    task' = [task EXCEPT ![d] = t]
        BY <1>4, <2>2, RetryTask DEF Fail, Error
      <3>2. Payload[d].provider \in Executors
        BY <1>4, <2>1, <2>2, QueueAssumption DEF Fail, HasExecutor
      <3>3. QED
        BY <1>2, <2>1, <3>1, <3>2 DEF WellFormed, TypeOK
    <2>3. CASE r \notin Workers
      BY <1>2, <1>4, <2>1, <2>3 DEF Fail, Error
    <2>4. QED
      BY <2>2, <2>3
  <1>5. ASSUME NEW d \in Deliveries, SkipRetry(r, d)
        PROVE  Spared'
    <2>1. /\ Ends(r, d) /\ crashes' = crashes /\ r \in Workers
          /\ task' = [task EXCEPT ![d] = [state |-> "archived", retried |-> task[d].retried]]
      BY <1>5, MovedTask DEF SkipRetry, HasExecutor, Runners
    <2>2. QED
      BY <1>2, <2>1 DEF WellFormed, TypeOK
  <1>6. QED
    BY <1>1, <1>3, <1>4, <1>5 DEF Work, Ignore, Finish

LEMMA OtherSpared ==
    ASSUME WellFormed, WellFormed', Spared, Other
    PROVE  Spared'
  <1> USE DEF WellFormed, TypeOK
  <1>1. \A d \in Deliveries : task[d].retried \in Nat /\ task'[d].retried \in Nat
    BY QueueAssumption
  <1>2. CASE \E p \in PRs : Close(p)
    BY <1>2 DEF Close, Spared, Abandoned
  <1>3. ASSUME NEW d \in Deliveries, Enqueue(d) \/ FallBack(d) \/ RetryDue(d)
        PROVE  Spared'
    <2>1. /\ crashes' = crashes
          /\ task' \in {task, [task EXCEPT ![d].state = "pending"]}
          /\ \A w \in Workers : runner'[w] = runner[w]
      BY <1>3, QueueAssumption DEF Enqueue, FallBack, RetryDue, Pend, Runners
    <2>2. \A e \in Deliveries : task'[e].retried = task[e].retried /\ (Abandoned(e)' => Abandoned(e))
      BY <2>1 DEF Abandoned
    <2>3. QED
      BY <1>1, <2>1, <2>2, Sparing
  <1>4. ASSUME NEW d \in Deliveries, Recover(d)
        PROVE  Spared'
    <2>1. PICK t \in [state : {"retry", "archived"}, retried : 0..MaxRetry] :
                  task' = [task EXCEPT ![d] = t] /\ t.retried <= task[d].retried + 1
      BY <1>4, RetryTask DEF Recover
    <2>2. /\ crashes' = crashes /\ runner' = runner
          /\ \A e \in Deliveries \ {d} : task'[e] = task[e]
          /\ task'[d] = t /\ Abandoned(d) /\ ~Abandoned(d)'
      BY <1>4, <2>1 DEF Recover, Abandoned
    <2>3. \A e \in Deliveries \ {d} : Abandoned(e)' => Abandoned(e)
      BY <2>2 DEF Abandoned
    <2>4. QED
      BY <1>1, <2>1, <2>2, <2>3, Sparing
  <1>5. ASSUME NEW d \in Deliveries, Expire(d) \/ (\E w \in Workers : Take(w, d))
        PROVE  Spared'
    <2>1. /\ crashes' = crashes /\ task'[d].retried <= task[d].retried /\ ~Abandoned(d)'
          /\ \A e \in Deliveries \ {d} : task'[e] = task[e]
      BY <1>1, <1>5, QueueAssumption DEF Expire, Take, Abandoned, NoTask, Runners
    <2>2. ASSUME NEW e \in Deliveries \ {d}, Abandoned(e)'
          PROVE  Abandoned(e)
      <3>1. \A w \in Workers : runner'[w] = runner[w] \/ runner[w] = Idle
        BY <1>5 DEF Expire, Take, Runners
      <3>2. \A w \in Workers : runner[w].on # e
        BY <2>2, <3>1, QueueAssumption DEF Abandoned, Idle
      <3>3. QED
        BY <2>1, <2>2, <3>2 DEF Abandoned
    <2>3. QED
      BY <1>1, <2>1, <2>2, Sparing
  <1>6. ASSUME NEW w \in Workers, GiveBack(w)
        PROVE  Spared'
    <2>1. crashes' = crashes + 1 /\ \A e \in Deliveries : task'[e].retried = task[e].retried
      BY <1>6 DEF GiveBack
    <2>2. QED
      BY <1>1, <2>1, Sparing
  <1>7. ASSUME NEW r \in Runners, Crash(r)
        PROVE  Spared'
    BY <1>1, <1>7, Sparing DEF Crash
  <1>8. QED
    BY <1>2, <1>3, <1>4, <1>5, <1>6, <1>7 DEF Other

\* handler.go:95-107: a task no worker can process is retried only where workers died with
\* it, however many workers, retries and deliveries there are.
THEOREM HopelessIsSpared == Spec => []HopelessOnce
  <1>1. Init => Spared
    BY QueueAssumption DEF Init, Spared, Abandoned, NoTask
  <1>2. WellFormed /\ WellFormed' /\ Spared /\ [Next]_vars => Spared'
    <2>1. Next => Other \/ \E r \in Runners : Work(r)
      BY DEF Next, Other
    <2>2. UNCHANGED vars /\ Spared => Spared'
      BY DEF vars, Spared, Abandoned
    <2>3. QED
      BY <2>1, <2>2, WorkSpared, OtherSpared
  <1>3. WellFormed /\ Spared => HopelessOnce
    <2> SUFFICES ASSUME WellFormed, Spared, NEW d \in Deliveries, Payload[d].provider \notin Executors
                 PROVE  task[d].retried <= crashes
      BY DEF HopelessOnce
    <2>1. task[d].retried \in Nat /\ crashes \in Nat
      BY QueueAssumption DEF WellFormed, TypeOK
    <2>2. task[d].retried + (IF Abandoned(d) THEN 1 ELSE 0) <= crashes
      BY DEF Spared
    <2>3. QED
      BY <2>1, <2>2
  <1>4. QED
    BY <1>1, <1>2, <1>3, AlwaysWellFormed, PTL DEF Spec

-----------------------------------------------------------------------------
(* Closed pull requests. *)

\* What says that a pull request is closed is processed by UnlockAll, in both copies.
LEMMA ClosingUnlocks ==
    ASSUME NEW r \in Runners, Saying(runner[r].on)
    PROVE  Reaction(r) = "unlock all"
  <1> DEFINE raw == Payload[runner[r].on]
  <1>1. ShouldUnlockAll(Parse(raw))
    <2>1. CASE raw.provider = "github" /\ raw.event = "pull_request" /\ raw.action = "closed"
      BY <2>1 DEF ShouldUnlockAll, Parse, ParseGitHub
    <2>2. CASE raw.provider = "gitlab" /\ raw.event = "Merge Request Hook" /\ raw.action \in {"close", "merge"}
      <3>1. MapAction(raw.action) = "closed"
        BY <2>2 DEF MapAction
      <3>2. Parse(raw) = [type |-> "pull_request", action |-> MapAction(raw.action),
                          body |-> "none", complete |-> TRUE]
        BY <2>2 DEF Parse, ParseGitLab
      <3>3. QED
        BY <3>1, <3>2 DEF ShouldUnlockAll
    <2>3. QED
      BY <2>1, <2>2 DEF Saying
  <1>2. QED
    BY <1>1 DEF Reaction, TaskReaction, FallbackReaction, Event, ShouldUnlockAll, ShouldAutoplan

\* What opens nothing, locks nothing but late, and makes nothing count as processed that
\* UnlockAll did not get to, keeps closed pull requests unlocked.
LEMMA ClosingKept ==
    ASSUME WellFormed, Closing, open' \subseteq open,
           late \union leaked \subseteq late' \union leaked',
           \A p \in PRs : p \in locked' /\ p \notin locked => p \in open \/ p \in late',
           \A d \in Deliveries : Saying(d) =>
              /\ posts'[d] > 0 => posts[d] > 0 \/ PR[d] \notin open
              /\ fate'[d] = "applied" => \/ fate[d] = "applied"
                                         \/ \E r \in Runners : /\ runner[r].on = d
                                                               /\ runner[r].pc = "acted"
              /\ \A r \in Runners : runner'[r].on = d /\ runner'[r].pc = "acted" =>
                    \/ runner[r].on = d /\ runner[r].pc = "acted"
                    \/ Released(d)',
           \A d \in Deliveries : fate[d] = "applied" => posts[d] > 0
    PROVE  Closing'
  <1> SUFFICES ASSUME NEW d \in Deliveries, Saying(d)
               PROVE  /\ posts'[d] > 0 => PR[d] \notin open'
                      /\ fate'[d] = "applied" => Released(d)'
                      /\ \A r \in Runners : runner'[r].on = d /\ runner'[r].pc = "acted" => Released(d)'
    BY DEF Closing
  <1>1. posts[d] > 0 => PR[d] \notin open
    BY DEF Closing
  <1>2. ASSUME Released(d), posts[d] > 0
        PROVE  Released(d)'
    BY <1>1, <1>2, QueueAssumption DEF Released
  <1>3. \A r \in Runners : runner[r].on = d => posts[d] > 0
    BY QueueAssumption DEF WellFormed, Held
  <1>4. QED
    BY <1>1, <1>2, <1>3 DEF Closing

\* What was carried out was sent.
Carried == \A d \in Deliveries : fate[d] = "applied" => posts[d] > 0

LEMMA NextCarried == WellFormed /\ Carried /\ Next => Carried'
  <1> SUFFICES ASSUME WellFormed, Carried, Next
               PROVE  Carried'
    OBVIOUS
  <1> USE DEF WellFormed, TypeOK
  <1>1. ASSUME NEW d \in Deliveries, Enqueue(d) \/ FallBack(d)
        PROVE  Carried'
    <2>1. \A e \in Deliveries : posts[e] <= posts'[e] /\ posts'[e] \in Nat
      BY <1>1, Accepted DEF Enqueue, FallBack
    <2>2. \A e \in Deliveries : fate'[e] = "applied" => fate[e] = "applied"
      BY <1>1 DEF Enqueue, FallBack, Pend
    <2>3. QED
      BY <2>1, <2>2 DEF Carried
  <1>2. ASSUME NEW r \in Runners, NEW d \in Deliveries, Succeed(r, d)
        PROVE  Carried'
    BY <1>2, QueueAssumption DEF Succeed, Ends, Held, Carried
  <1>3. ASSUME NEW r \in Runners, NEW d \in Deliveries, Error(r, d) \/ SkipRetry(r, d)
        PROVE  Carried'
    BY <1>3 DEF Error, SkipRetry, Drop, history, Carried
  <1>4. ASSUME NEW r \in Runners, Plan(r) \/ UnlockAll(r)
        PROVE  Carried'
    BY <1>4 DEF Plan, UnlockAll, Carried
  <1>5. ASSUME NEW r \in Runners, Crash(r)
        PROVE  Carried'
    BY <1>5 DEF Crash, Drop, Carried
  <1>6. CASE \/ \E p \in PRs : Close(p)
             \/ \E d \in Deliveries : RetryDue(d) \/ Recover(d) \/ Expire(d)
             \/ \E w \in Workers : GiveBack(w) \/ \E d \in Deliveries : Take(w, d)
    BY <1>6 DEF Close, RetryDue, Recover, Expire, GiveBack, Take, history, Carried
  <1>7. QED
    BY <1>1, <1>2, <1>3, <1>4, <1>5, <1>6 DEF Next, Work, Ignore, Finish, Fail

LEMMA WorkClosing ==
    ASSUME WellFormed, Closing, Carried, NEW r \in Runners, Work(r)
    PROVE  Closing'
  <1>1. runner \in [Runners -> [on : Deliveries \union {None}, pc : {"idle", "begun", "acted"}]]
    BY DEF WellFormed, TypeOK
  <1>2. CASE Plan(r)
    <2>1. /\ UNCHANGED <<posts, open, fate, leaked>>
          /\ locked' = locked \union {PR[runner[r].on]}
          /\ late' = IF PR[runner[r].on] \in open THEN late ELSE late \union {PR[runner[r].on]}
          /\ runner' = [runner EXCEPT ![r].pc = "acted"]
          /\ Reaction(r) # "unlock all"
      BY <1>2 DEF Plan
    <2>2. ASSUME NEW d \in Deliveries, Saying(d), NEW q \in Runners,
                 runner'[q].on = d, runner'[q].pc = "acted"
          PROVE  runner[q].on = d /\ runner[q].pc = "acted"
      BY <1>1, <2>1, <2>2, ClosingUnlocks
    <2>3. QED
      BY <2>1, <2>2, ClosingKept DEF Carried
  <1>3. CASE UnlockAll(r)
    <2>1. /\ UNCHANGED <<posts, open, fate, late>>
          /\ locked' \subseteq locked /\ leaked \subseteq leaked'
          /\ PR[runner[r].on] \in leaked' \/ PR[runner[r].on] \notin locked'
          /\ runner' = [runner EXCEPT ![r].pc = "acted"]
      BY <1>3 DEF UnlockAll
    <2>2. ASSUME NEW d \in Deliveries, NEW q \in Runners, runner'[q].on = d, runner'[q].pc = "acted"
          PROVE  (runner[q].on = d /\ runner[q].pc = "acted") \/ Released(d)'
      BY <1>1, <2>1, <2>2 DEF Released
    <2>3. QED
      BY <2>1, <2>2, ClosingKept DEF Carried
  <1>4. ASSUME NEW d \in Deliveries, Ends(r, d), UNCHANGED <<posts, open, locked, late, leaked>>,
               \A e \in Deliveries : fate'[e] = "applied" => fate[e] = "applied" \/ e = d,
               fate'[d] = "applied" /\ Saying(d) => fate[d] = "applied" \/ runner[r].pc = "acted"
        PROVE  Closing'
    <2>1. runner[r].on = d /\ \A q \in Runners : runner'[q] = runner[q] \/ runner'[q] = Idle
      BY <1>1, <1>4 DEF Ends
    <2>2. ASSUME NEW e \in Deliveries, NEW q \in Runners, runner'[q].on = e, runner'[q].pc = "acted"
          PROVE  runner[q].on = e /\ runner[q].pc = "acted"
      BY <2>1, <2>2, QueueAssumption DEF Idle
    <2>3. QED
      BY <1>4, <2>1, <2>2, ClosingKept DEF Carried
  <1>5. ASSUME NEW d \in Deliveries, Ignore(r, d) \/ Finish(r, d)
        PROVE  Closing'
    <2>1. Succeed(r, d) /\ (Saying(d) => runner[r].pc = "acted")
      BY <1>5, ClosingUnlocks DEF Ignore, Finish, Succeed, Ends
    <2>2. QED
      BY <1>4, <2>1 DEF Succeed, WellFormed, TypeOK
  <1>6. ASSUME NEW d \in Deliveries, Fail(r, d) \/ SkipRetry(r, d)
        PROVE  Closing'
    BY <1>4, <1>6 DEF Fail, SkipRetry, Error, Drop, history, WellFormed, TypeOK
  <1>7. QED
    BY <1>2, <1>3, <1>5, <1>6 DEF Work

LEMMA OtherClosing ==
    ASSUME WellFormed, Closing, Carried, Other
    PROVE  Closing'
  <1>1. runner \in [Runners -> [on : Deliveries \union {None}, pc : {"idle", "begun", "acted"}]]
    BY DEF WellFormed, TypeOK
  <1>2. ASSUME \A q \in Runners : runner'[q] = runner[q] \/ runner'[q].pc # "acted"
        PROVE  \A d \in Deliveries : \A q \in Runners : runner'[q].on = d /\ runner'[q].pc = "acted" =>
                  runner[q].on = d /\ runner[q].pc = "acted"
    BY <1>2
  <1>3. CASE \E p \in PRs : Close(p)
    BY <1>2, <1>3, ClosingKept DEF Close, history, Carried
  <1>4. ASSUME NEW d \in Deliveries, Enqueue(d) \/ FallBack(d)
        PROVE  Closing'
    <2>1. /\ UNCHANGED <<open, locked, late, leaked>>
          /\ \A q \in Runners : runner'[q] = runner[q] \/ runner'[q].pc # "acted"
      BY <1>1, <1>4 DEF Enqueue, FallBack
    <2>2. \A e \in Deliveries : fate'[e] = "applied" => fate[e] = "applied"
      BY <1>4 DEF Enqueue, FallBack, Pend, WellFormed, TypeOK
    <2>3. \A e \in Deliveries : e # d => posts'[e] = posts[e]
      BY <1>4 DEF Enqueue, FallBack, Accept, WellFormed, TypeOK
    <2>4. Saying(d) => PR[d] \notin open
      BY <1>4 DEF Enqueue, FallBack, Accept
    <2>5. QED
      BY <1>2, <2>1, <2>2, <2>3, <2>4, ClosingKept DEF Carried
  <1>5. CASE \/ \E d \in Deliveries : RetryDue(d) \/ Recover(d) \/ Expire(d)
             \/ \E w \in Workers : GiveBack(w) \/ \E d \in Deliveries : Take(w, d)
             \/ \E r \in Runners : Crash(r)
    <2>1. /\ UNCHANGED <<posts, open, locked, late, leaked>>
          /\ \A q \in Runners : runner'[q] = runner[q] \/ runner'[q].pc # "acted"
      <3>1. CASE \E d \in Deliveries : RetryDue(d) \/ Recover(d) \/ Expire(d)
        BY <3>1 DEF RetryDue, Recover, Expire, history
      <3>2. CASE \E w \in Workers : GiveBack(w) \/ \E d \in Deliveries : Take(w, d)
        BY <1>1, <3>2 DEF GiveBack, Take, Idle, history
      <3>3. CASE \E r \in Runners : Crash(r)
        BY <1>1, <3>3 DEF Crash, Idle
      <3>4. QED
        BY <1>5, <3>1, <3>2, <3>3
    <2>2. \A e \in Deliveries : fate'[e] = "applied" => fate[e] = "applied"
      <3>1. CASE fate' = fate
        BY <3>1
      <3>2. CASE \E r \in Runners : fate' = [fate EXCEPT ![runner[r].on] = IF @ = "none" THEN "dropped" ELSE @]
        BY <3>2 DEF WellFormed, TypeOK
      <3>3. QED
        BY <1>5, <3>1, <3>2 DEF RetryDue, Recover, Expire, GiveBack, Take, Crash, Drop, history
    <2>3. QED
      BY <1>2, <2>1, <2>2, ClosingKept DEF Carried
  <1>6. QED
    BY <1>3, <1>4, <1>5 DEF Other

\* docs/workflow.md: once the event of a close or merge was carried out, its pull request has
\* no lock, in whatever order, however often and by whomever its events are processed; but
\* for locks that could not be released and plans of a pull request that was closed.
THEOREM ClosedKeepNoLock == Spec => []ClosedIsUnlocked
  <1>1. Init => Closing /\ Carried
    BY DEF Init, Closing, Carried, Idle
  <1>2. WellFormed /\ Closing /\ Carried /\ [Next]_vars => (Closing /\ Carried)'
    <2>1. Next => Other \/ \E r \in Runners : Work(r)
      BY DEF Next, Other
    <2>2. UNCHANGED vars /\ Closing /\ Carried => (Closing /\ Carried)'
      BY DEF vars, Closing, Carried, Released
    <2>3. QED
      BY <2>1, <2>2, WorkClosing, OtherClosing, NextCarried
  <1>3. Closing => ClosedIsUnlocked
    BY DEF Closing, ClosedIsUnlocked, Released
  <1>4. QED
    BY <1>1, <1>2, <1>3, AlwaysWellFormed, PTL DEF Spec

==============================================================================
