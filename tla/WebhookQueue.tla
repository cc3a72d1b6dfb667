----------------------------- MODULE WebhookQueue -----------------------------
(***************************************************************************)
(* From the webhook to the executor (internal/webhook/*_handler.go,        *)
(* internal/queue): the HTTP handler puts an event into asynq's queue      *)
(* under the ID of its delivery, or runs it in a goroutine when that       *)
(* fails; workers of another process take tasks in any order, retry what   *)
(* failed and archive what failed too often or cannot succeed.             *)
(*                                                                         *)
(* asynq is external.  It refuses a task whose ID it still knows, also of  *)
(* a task that is done, for the retention time; it gives a task that died  *)
(* with its worker to another one.  Of what the executor does only the     *)
(* locks of the pull request are kept: a plan takes them, UnlockAll        *)
(* releases them.  Deliveries without an ID, which GitLab's handler gives  *)
(* one of its own, are left out, and so is the deletion of archived tasks. *)
(*                                                                         *)
(* OnlyLogged, RetryOnceMore, NeverRecover and RetryHopeless are faulty    *)
(* variants of the definition after them.                                  *)
(***************************************************************************)
EXTENDS WebhookEvents, Naturals, FiniteSets

CONSTANTS
    Deliveries,    \* the webhooks the VCS sends
    Payload,       \* Payload[d]: what it says
    PRs,
    PR,            \* PR[d]: the pull request it is about
    Workers,       \* goroutines of the worker processes
    Slots,         \* goroutines the HTTP handler may have at a time
    Executors,     \* the providers the worker is configured for
    QueueEnabled,  \* whether the handler has a queue client
    Autoplan,      \* defaults.autoplan
    MaxRetry,      \* asynq.MaxRetry
    MaxPosts,      \* MaxPosts[d]: how often the VCS sends delivery d
    MaxCrashes,    \* how many times a goroutine's process dies or shuts down
    Faults,        \* whether calls may fail
    None

ASSUME QueueAssumption ==
    /\ PR \in [Deliveries -> PRs]
    /\ Workers \intersect Slots = {}
    /\ Executors \subseteq Providers
    /\ {QueueEnabled, Autoplan, Faults} \subseteq BOOLEAN
    /\ {MaxRetry, MaxCrashes} \subseteq Nat /\ MaxPosts \in [Deliveries -> Nat]
    /\ None \notin Deliveries

VARIABLES
    posts,      \* how often each delivery was sent
    open,       \* the pull requests that are open
    locked,     \* the pull requests that hold a lock
    task,       \* asynq's record of each task
    runner,     \* what each goroutine is at
    crashes,
    fate,       \* history: whether each delivery was carried out, was put into the queue
                \* at least, or was only dropped by a goroutine that failed or died,
    late,       \* pull requests planned after they were closed,
    leaked      \* pull requests UnlockAll could not unlock

vars == <<posts, open, locked, task, runner, crashes, fate, late, leaked>>
history == <<fate, late, leaked>>

States == {"none", "pending", "active", "retry", "completed", "archived"}
NoTask == [state |-> "none", retried |-> 0]
Idle == [on |-> None, pc |-> "idle"]
Runners == Workers \union Slots

TypeOK == /\ posts \in [Deliveries -> Nat] /\ \A d \in Deliveries : posts[d] <= MaxPosts[d]
          /\ open \subseteq PRs /\ locked \subseteq PRs
          /\ task \in [Deliveries -> [state : States, retried : 0..MaxRetry]]
          /\ runner \in [Runners -> [on : Deliveries \union {None},
                                     pc : {"idle", "begun", "acted"}]]
          /\ crashes \in 0..MaxCrashes
          /\ fate \in [Deliveries -> {"none", "dropped", "queued", "applied"}]
          /\ late \union leaked \subseteq PRs

Init == /\ posts = [d \in Deliveries |-> 0]
        /\ open = PRs /\ locked = {}
        /\ task = [d \in Deliveries |-> NoTask]
        /\ runner = [r \in Runners |-> Idle]
        /\ crashes = 0
        /\ fate = [d \in Deliveries |-> "none"]
        /\ late = {} /\ leaked = {}

-----------------------------------------------------------------------------
(* The VCS and the HTTP handler. *)

\* A pull request is closed or merged; the webhook that says so comes later.
Saying(d) ==
    LET raw == Payload[d] IN
    \/ raw.provider = "github" /\ raw.event = "pull_request" /\ raw.action = "closed"
    \/ raw.provider = "gitlab" /\ raw.event = "Merge Request Hook" /\ raw.action \in {"close", "merge"}

Close(p) ==
    /\ p \in open
    /\ \E d \in Deliveries : PR[d] = p /\ Saying(d)
    /\ open' = open \ {p}
    /\ UNCHANGED <<posts, locked, task, runner, crashes, history>>

\* A delivery arrives, for the first time or again, and is answered with "accepted".  One
\* that is refused or ignored changes nothing.
Accept(d) ==
    /\ posts[d] < MaxPosts[d]
    /\ Saying(d) => PR[d] \notin open
    /\ Handle(Payload[d]) = "accepted"
    /\ posts' = [posts EXCEPT ![d] = @ + 1]

Drop(d) == fate' = [fate EXCEPT ![d] = IF @ = "none" THEN "dropped" ELSE @]

Pend(d) == /\ task' = [task EXCEPT ![d].state = "pending"]
           /\ fate' = [fate EXCEPT ![d] = IF @ = "applied" THEN @ ELSE "queued"]

\* EnqueueWebhook of an ID the queue does not know.
Enqueue(d) ==
    /\ Accept(d)
    /\ QueueEnabled /\ task[d] = NoTask
    /\ Pend(d)
    /\ UNCHANGED <<open, locked, runner, crashes, late, leaked>>

\* EnqueueWebhook fails with ErrTaskIDConflict, or the call fails, perhaps after it
\* succeeded in Redis; or there is no queue: the event is processed by a goroutine.
EnqueueFails(d) == task[d] # NoTask \/ Faults \/ ~QueueEnabled

OnlyLogged(d) ==
    Accept(d) /\ EnqueueFails(d)
    /\ UNCHANGED <<open, locked, task, runner, crashes, history>>
FallBack(d) ==
    /\ Accept(d)
    /\ EnqueueFails(d)
    /\ \E s \in Slots : /\ runner[s] = Idle
                        /\ runner' = [runner EXCEPT ![s] = [on |-> d, pc |-> "begun"]]
    /\ \/ UNCHANGED <<task, fate>>
       \/ QueueEnabled /\ Faults /\ task[d] = NoTask /\ Pend(d)
    /\ UNCHANGED <<open, locked, crashes, late, leaked>>

-----------------------------------------------------------------------------
(* asynq. *)

Take(w, d) ==
    /\ runner[w] = Idle
    /\ task[d].state = "pending"
    /\ task' = [task EXCEPT ![d].state = "active"]
    /\ runner' = [runner EXCEPT ![w] = [on |-> d, pc |-> "begun"]]
    /\ UNCHANGED <<posts, open, locked, crashes, history>>

RetryOnceMore(d) ==
    task' = [task EXCEPT ![d] = IF @.retried <= MaxRetry
                                THEN [state |-> "retry", retried |-> @.retried + 1]
                                ELSE [@ EXCEPT !.state = "archived"]]
\* An error that is not SkipRetry, or a lease that expired.
Retry(d) ==
    task' = [task EXCEPT ![d] = IF @.retried < MaxRetry
                                THEN [state |-> "retry", retried |-> @.retried + 1]
                                ELSE [@ EXCEPT !.state = "archived"]]

RetryDue(d) ==
    /\ task[d].state = "retry"
    /\ task' = [task EXCEPT ![d].state = "pending"]
    /\ UNCHANGED <<posts, open, locked, runner, crashes, history>>

\* A task that died with its worker is retried once its lease has expired.
NeverRecover(d) == FALSE /\ RetryDue(d)
Recover(d) ==
    /\ task[d].state = "active" /\ (\A w \in Workers : runner[w].on # d)
    /\ Retry(d)
    /\ UNCHANGED <<posts, open, locked, runner, crashes, history>>

\* The retention time of a task that succeeded is over.
Expire(d) ==
    /\ task[d].state = "completed"
    /\ task' = [task EXCEPT ![d] = NoTask]
    /\ UNCHANGED <<posts, open, locked, runner, crashes, history>>

\* A worker that shuts down and did not finish in five minutes gives its task back.
GiveBack(w) ==
    /\ runner[w] # Idle /\ crashes < MaxCrashes
    /\ crashes' = crashes + 1
    /\ runner' = [runner EXCEPT ![w] = Idle]
    /\ task' = [task EXCEPT ![runner[w].on].state = "pending"]
    /\ UNCHANGED <<posts, open, locked, history>>

\* A process dies with what it was doing; so does a goroutine of the HTTP server when the
\* server shuts down, which waits for requests only.
Crash(r) ==
    /\ runner[r] # Idle /\ crashes < MaxCrashes
    /\ crashes' = crashes + 1
    /\ runner' = [runner EXCEPT ![r] = Idle]
    /\ IF r \in Slots THEN Drop(runner[r].on) ELSE UNCHANGED fate
    /\ UNCHANGED <<posts, open, locked, task, late, leaked>>

-----------------------------------------------------------------------------
(* ProcessTask, and processEvent of the handlers. *)

Event(r) == Parse(Payload[runner[r].on])
Reaction(r) == IF r \in Workers THEN TaskReaction(Event(r), Autoplan)
               ELSE FallbackReaction(Event(r), Autoplan)

\* executorFor fails when the worker process is not configured for the provider.
HasExecutor(r) == r \in Slots \/ Payload[runner[r].on].provider \in Executors

Ends(r, d) == runner[r].on = d /\ runner' = [runner EXCEPT ![r] = Idle]

Succeed(r, d) ==
    /\ Ends(r, d)
    /\ fate' = [fate EXCEPT ![d] = "applied"]
    /\ task' = IF r \in Workers THEN [task EXCEPT ![d].state = "completed"] ELSE task
    /\ UNCHANGED <<posts, open, locked, crashes, late, leaked>>

\* A worker's error is retried; a goroutine's is only logged.
Error(r, d) ==
    /\ Ends(r, d)
    /\ IF r \in Workers THEN Retry(d) /\ UNCHANGED fate ELSE Drop(d) /\ UNCHANGED task
    /\ UNCHANGED <<posts, open, locked, crashes, late, leaked>>

\* SkipRetry: the task is archived at once.
RetryHopeless(r, d) ==
    runner[r].pc = "begun" /\ ~HasExecutor(r) /\ Error(r, d)
SkipRetry(r, d) ==
    /\ runner[r].pc = "begun" /\ ~HasExecutor(r)
    /\ Ends(r, d)
    /\ task' = [task EXCEPT ![d].state = "archived"]
    /\ UNCHANGED <<posts, open, locked, crashes, history>>

\* Nothing is to be done.
Ignore(r, d) ==
    /\ runner[r].pc = "begun" /\ HasExecutor(r)
    /\ runner[r].on = d /\ Reaction(r) = "nothing"
    /\ Succeed(r, d)

\* A plan, on its own or by command, takes a lock.
Plan(r) ==
    LET p == PR[runner[r].on] IN
    /\ runner[r].pc = "begun" /\ HasExecutor(r)
    /\ Reaction(r) \in {"plan", "command"}
    /\ locked' = locked \union {p}
    /\ late' = IF p \in open THEN late ELSE late \union {p}
    /\ runner' = [runner EXCEPT ![r].pc = "acted"]
    /\ UNCHANGED <<posts, open, task, crashes, fate, leaked>>

\* UnlockAll.  That a lock cannot be released is only logged.
UnlockAll(r) ==
    LET p == PR[runner[r].on] IN
    /\ runner[r].pc = "begun" /\ HasExecutor(r)
    /\ Reaction(r) = "unlock all"
    /\ \/ locked' = locked \ {p} /\ UNCHANGED leaked
       \/ Faults /\ leaked' = leaked \union {p} /\ UNCHANGED locked
    /\ runner' = [runner EXCEPT ![r].pc = "acted"]
    /\ UNCHANGED <<posts, open, task, crashes, fate, late>>

\* Listing the locks or fetching the pull request's details fails before anything is done,
\* or posting the comment fails when everything is.
Fail(r, d) ==
    /\ Faults /\ runner[r].on = d /\ HasExecutor(r)
    /\ \/ runner[r].pc = "acted" /\ Reaction(r) # "unlock all"
       \/ runner[r].pc = "begun" /\ Reaction(r) # "nothing"
    /\ Error(r, d)

Finish(r, d) == runner[r].pc = "acted" /\ Succeed(r, d)

Work(r) == \/ Plan(r) \/ UnlockAll(r)
           \/ \E d \in Deliveries : SkipRetry(r, d) \/ Ignore(r, d) \/ Finish(r, d)
                                    \/ Fail(r, d)

-----------------------------------------------------------------------------

Next == \/ \E p \in PRs : Close(p)
        \/ \E d \in Deliveries : \/ Enqueue(d) \/ FallBack(d)
                                 \/ RetryDue(d) \/ Recover(d) \/ Expire(d)
        \/ \E w \in Workers : GiveBack(w) \/ \E d \in Deliveries : Take(w, d)
        \/ \E r \in Runners : Work(r) \/ Crash(r)

Spec == Init /\ [][Next]_vars

\* Some goroutine runs while one has work, and asynq hands out some task, and retries or
\* recovers some task, while there is one.  More is not needed: attempts are bounded.
Fairness == /\ WF_vars(\E r \in Runners : Work(r))
            /\ WF_vars(\E w \in Workers, d \in Deliveries : Take(w, d))
            /\ WF_vars(\E d \in Deliveries : RetryDue(d) \/ Recover(d))
FairSpec == Spec /\ Fairness

-----------------------------------------------------------------------------
(* Properties. *)

\* github_handler.go:118-132 answers "accepted" before anything is done.  What was
\* enqueued is carried out, on its way or archived after its retries; what was not is at
\* least tried by a goroutine, whose failure or death is the only way to lose it.
NothingForgotten ==
    \A d \in Deliveries : posts[d] > 0 =>
       \/ fate[d] \in {"applied", "dropped"}
       \/ fate[d] = "queued" /\ task[d].state \in {"pending", "active", "retry", "archived"}
       \/ fate[d] = "none" /\ \E s \in Slots : runner[s].on = d

\* handler.go:95-107: a task that no worker can process is not tried again, but for
\* workers that stopped half-way.
HopelessOnce ==
    \A d \in Deliveries : Payload[d].provider \notin Executors => task[d].retried <= crashes

\* docs/workflow.md: closing a pull request releases its locks, in whatever order its
\* events are processed and however often; except when a lock cannot be released or a plan
\* is made of a pull request that is closed already.
ClosedIsUnlocked ==
    \A d \in Deliveries :
       Saying(d) /\ fate[d] = "applied" /\ PR[d] \notin late \union leaked => PR[d] \notin locked

\* Tasks are retried and workers die, and still every task is done or given up: the queue
\* is empty again and again.
TasksEnd == []<>(\A d \in Deliveries : task[d].state \in {"completed", "archived", "none"})

==============================================================================
