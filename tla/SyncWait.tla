------------------------------- MODULE SyncWait -------------------------------
(***************************************************************************)
(* One call of SyncApplication (internal/argocd/applications.go): it opens *)
(* a watch on the application, triggers the sync with a POST, and waits in *)
(* waitForSyncComplete until the operation has ended and the application's *)
(* health has settled.  Argo CD runs the operation meanwhile and reports   *)
(* every change of the application's status on the stream, in order; the   *)
(* connection may be lost at any moment.                                   *)
(*                                                                         *)
(* Time passes in ticks.  Reading an event takes no time: a tick waits     *)
(* until the call has nothing left to read and no timer that fired.  An    *)
(* event and a timer that are ready together are taken in either order, as *)
(* select does.  The phase Error is treated as Failed is, an empty health  *)
(* as Progressing, and Unknown or a health the code has no name for as     *)
(* Degraded.                                                               *)
(*                                                                         *)
(* ExpireOnSend, StabilizationLate, NoneStale, KeepSkipping and            *)
(* ProgressingKeepsTimer are faulty variants of the definition after them. *)
(***************************************************************************)
EXTENDS Integers, Sequences

CONSTANTS
    Timeout,    \* opts.Timeout or defaultSyncWaitTimeout, in ticks
    Stable,     \* healthStabilizationPeriod
    Grace,      \* missingHealthGracePeriod
    MaxEvents,  \* bound on the changes of the application's status
    BusyBefore  \* whether an operation may be under way when the call begins

ASSUME SyncWaitAssumption == /\ Timeout \in Nat \ {0}
                             /\ Stable \in Nat \ {0}
                             /\ Grace \in Nat \ {0}
                             /\ MaxEvents \in Nat
                             /\ BusyBefore \in BOOLEAN

VARIABLES
    \* Argo CD.
    app,        \* the application: the operation it last ran, its phase, its health
    requested,  \* whether Argo CD took our sync request
    stream,     \* the events of the watch that were not read yet
    changes,    \* how often the status changed
    steady,     \* for how long the health has been what it is
    left,       \* ticks until watchCtx is done
    closed,     \* whether the events channel gets no more events
    \* The call.
    pc,
    skipStaleEvents,
    syncResult, \* nil, or the operation whose end it was built from
    healthyFor, \* time since healthyAt
    missingFor, \* time since missingAt
    result,     \* what the call returns
    told        \* history: whether the end of our operation was read

argo == <<app, requested, stream, changes, steady, left, closed>>
call == <<pc, skipStaleEvents, syncResult, healthyFor, missingFor, result, told>>
vars == <<argo, call>>

Ops == {"previous", "ours"}
Phases == {"", "Running", "Succeeded", "Failed"}
Terminal == {"Succeeded", "Failed"}
Healths == {"Healthy", "Degraded", "Suspended", "Missing", "Progressing"}
Status == [op : Ops, phase : Phases, health : Healths]

Outcomes == {"none", "error", "succeeded", "failed"}
Result == [outcome : Outcomes, health : Healths \union {"none"}]
NotYet == [outcome |-> "none", health |-> "none"]
Error == [outcome |-> "error", health |-> "none"]
Succeeded(h) == [outcome |-> "succeeded", health |-> h]
Failed(h) == [outcome |-> "failed", health |-> h]

\* healthyAt or missingAt is the zero time.
Unset == -1

Longest == IF Stable < Grace THEN Grace ELSE Stable

TypeOK == /\ app \in Status
          /\ requested \in BOOLEAN
          /\ stream \in Seq(Status)
          /\ changes \in 0..MaxEvents
          /\ steady \in 0..Longest
          /\ left \in 0..Timeout
          /\ closed \in BOOLEAN
          /\ pc \in {"watch", "post", "wait", "done"}
          /\ skipStaleEvents \in BOOLEAN
          /\ syncResult \in {"nil"} \union Ops
          /\ healthyFor \in {Unset} \union 0..Stable
          /\ missingFor \in {Unset} \union 0..Grace
          /\ result \in Result
          /\ told \in BOOLEAN

Init == /\ app \in [op : {"previous"}, health : Healths,
                    phase : IF BusyBefore THEN Phases ELSE Phases \ {"Running"}]
        /\ requested = FALSE
        /\ stream = <<>>
        /\ changes = 0
        /\ steady = 0
        /\ left = Timeout
        /\ closed = FALSE
        /\ pc = "watch"
        /\ skipStaleEvents = TRUE
        /\ syncResult = "nil"
        /\ healthyFor = Unset /\ missingFor = Unset
        /\ result = NotYet
        /\ told = FALSE

-----------------------------------------------------------------------------
(* Argo CD and the watch stream. *)

\* The status changes, and the watch reports it.
Report(s) ==
    /\ pc \in {"post", "wait"} /\ changes < MaxEvents
    /\ app' = s
    /\ changes' = changes + 1
    /\ stream' = IF closed THEN stream ELSE Append(stream, s)
    /\ steady' = IF s.health = app.health THEN steady ELSE 0
    /\ UNCHANGED <<requested, left, closed, call>>

OperationStarts ==
    /\ requested /\ app.op # "ours"
    /\ \E h \in {app.health, "Progressing"} :
          Report([op |-> "ours", phase |-> "Running", health |-> h])

OperationEnds ==
    /\ app.phase = "Running"
    /\ \E p \in Terminal : Report([app EXCEPT !.phase = p])

HealthChanges == \E h \in Healths \ {app.health} : Report([app EXCEPT !.health = h])

\* watchCtx is done or the connection is lost: the events channel is closed, and of the
\* events on their way the last ones may be lost.
StreamEnds ==
    /\ closed' = TRUE
    /\ \E n \in 0..Len(stream) : stream' = SubSeq(stream, 1, n)

ExpireOnSend == /\ pc \in {"post", "wait"} /\ ~closed /\ left = 0 /\ stream # <<>>
                /\ StreamEnds
                /\ UNCHANGED <<app, requested, changes, steady, left, call>>

Expire == /\ pc \in {"post", "wait"} /\ ~closed /\ left = 0
          /\ StreamEnds
          /\ UNCHANGED <<app, requested, changes, steady, left, call>>

Disconnect == /\ pc \in {"post", "wait"} /\ ~closed /\ left > 0
              /\ StreamEnds
              /\ UNCHANGED <<app, requested, changes, steady, left, call>>

-----------------------------------------------------------------------------
(* SyncApplication. *)

Return(r) == pc' = "done" /\ result' = r

\* The stream begins with the status as it is.
Watch == /\ pc = "watch"
         /\ \/ pc' = "post" /\ stream' = <<app>> /\ UNCHANGED result
            \/ Return(Error) /\ UNCHANGED stream
         /\ UNCHANGED <<app, requested, changes, steady, left, closed,
                        skipStaleEvents, syncResult, healthyFor, missingFor, told>>

\* Argo CD refuses a sync while another operation is in progress.  The call may also
\* fail after Argo CD took the request.
Post == /\ pc = "post"
        /\ requested' \in (IF app.phase = "Running" THEN {FALSE} ELSE BOOLEAN)
        /\ \/ requested' /\ pc' = "wait" /\ UNCHANGED result
           \/ Return(Error)
        /\ UNCHANGED <<app, stream, changes, steady, left, closed,
                       skipStaleEvents, syncResult, healthyFor, missingFor, told>>

-----------------------------------------------------------------------------
(* waitForSyncComplete. *)

StabilizationLate == pc = "wait" /\ healthyFor = Stable + 1
StabilizationFires == pc = "wait" /\ healthyFor = Stable
GraceFires == pc = "wait" /\ missingFor = Grace

\* Terminal or empty phases before the first Running are of the operation before.
NoneStale(e) == FALSE
KeepSkipping(e) == skipStaleEvents
Stale(e) == skipStaleEvents /\ e.phase \in Terminal \union {""}

\* The health once the operation has succeeded: with healthyAt and missingAt as they are
\* after the event, either the call returns or it goes on waiting.
Wait(h, m) == healthyFor' = h /\ missingFor' = m /\ UNCHANGED <<pc, result>>
Conclude(r) == Return(r) /\ UNCHANGED <<healthyFor, missingFor>>

Healthy == IF StabilizationFires
           THEN Return(Succeeded("Healthy")) /\ missingFor' = Unset /\ UNCHANGED healthyFor
           ELSE Wait(IF healthyFor = Unset THEN 0 ELSE healthyFor, Unset)

Missing == IF GraceFires
           THEN Return(Succeeded("Missing")) /\ healthyFor' = Unset /\ UNCHANGED missingFor
           ELSE Wait(Unset, IF missingFor = Unset THEN 0 ELSE missingFor)

ProgressingKeepsTimer == Wait(healthyFor, Unset)
Progressing == Wait(Unset, Unset)

CheckHealth(h) ==
    \/ h = "Healthy" /\ Healthy
    \/ h = "Missing" /\ Missing
    \/ h = "Progressing" /\ Progressing
    \/ h = "Suspended" /\ Conclude(Succeeded("Suspended"))
    \/ h = "Degraded" /\ Conclude(Failed(h))

\* The operation is not known to have ended: its end is the result, or it goes on.
AwaitEnd(e) ==
    \/ /\ e.phase = "Succeeded"
       /\ syncResult' = e.op
       /\ CheckHealth(e.health)
    \/ /\ e.phase = "Failed"
       /\ syncResult' = e.op
       /\ Conclude(Failed(e.health))
    \/ /\ e.phase \notin Terminal
       /\ UNCHANGED <<syncResult, pc, result, healthyFor, missingFor>>

Read ==
    LET e == Head(stream) IN
    /\ pc = "wait" /\ stream # <<>>
    /\ stream' = Tail(stream)
    /\ told' = (told \/ (e.op = "ours" /\ e.phase \in Terminal))
    /\ IF Stale(e)
       THEN UNCHANGED <<pc, skipStaleEvents, syncResult, healthyFor, missingFor, result>>
       ELSE /\ skipStaleEvents' = FALSE
            /\ \/ syncResult = "nil" /\ AwaitEnd(e)
               \/ syncResult # "nil" /\ CheckHealth(e.health) /\ UNCHANGED syncResult
    /\ UNCHANGED <<app, requested, changes, steady, left, closed>>

TimerFires ==
    /\ \/ StabilizationFires /\ Conclude(Succeeded("Healthy"))
       \/ GraceFires /\ Conclude(Succeeded("Missing"))
    /\ UNCHANGED <<argo, skipStaleEvents, syncResult, told>>

\* streamEnded.
ChannelClosed ==
    /\ pc = "wait" /\ closed /\ stream = <<>>
    /\ Conclude(IF syncResult = "nil" THEN Error
                ELSE IF healthyFor # Unset THEN Succeeded("Healthy") ELSE Failed("Progressing"))
    /\ UNCHANGED <<argo, skipStaleEvents, syncResult, told>>

-----------------------------------------------------------------------------

Older(t) == IF t = Unset THEN Unset ELSE t + 1

Tick ==
    /\ pc \in {"post", "wait"} /\ left > 0
    /\ pc = "wait" => stream = <<>> /\ ~closed /\ ~StabilizationFires /\ ~GraceFires
    /\ left' = left - 1
    /\ steady' = IF steady = Longest THEN steady ELSE steady + 1
    /\ healthyFor' = Older(healthyFor)
    /\ missingFor' = Older(missingFor)
    /\ UNCHANGED <<app, requested, stream, changes, closed,
                   pc, skipStaleEvents, syncResult, result, told>>

Step == Watch \/ Post \/ Read \/ TimerFires \/ ChannelClosed

Next == \/ Step \/ Tick
        \/ OperationStarts \/ OperationEnds \/ HealthChanges
        \/ Expire \/ Disconnect

\* The call and the clock go on, and a context that is done ends the stream.  Nothing
\* obliges Argo CD to finish, to report anything or to stay connected.
Fairness == WF_vars(Step) /\ WF_vars(Tick) /\ WF_vars(Expire)

Spec == Init /\ [][Next]_vars /\ Fairness

-----------------------------------------------------------------------------
(* Properties. *)

\* applications.go: stale events are skipped "to avoid prematurely treating the old
\* operation's terminal phase as the new sync's result".  What the call returns is built
\* from the end of the operation it triggered.
ResultIsOfThisSync == result.outcome \in {"succeeded", "failed"} => syncResult = "ours"

\* healthStabilizationPeriod "catches cases where health briefly shows Healthy before
\* transitioning to Degraded": unless the stream ended, a call that reports Healthy or
\* Missing returns after the application was so for the whole period, except for what
\* happened at this very moment and is still unread.
SuccessIsSettled ==
    result.outcome = "succeeded" /\ stream = <<>> /\ ~closed =>
       /\ result.health = app.health
       /\ app.health = "Healthy" => steady >= Stable
       /\ app.health = "Missing" => steady >= Grace

\* The watch is opened before the POST so that the call does not "miss all events and
\* eventually time out": once the end of our operation was read, the call does not
\* report that the sync did not complete.
EndedSyncIsNoTimeout == told => result # Error

\* "This ensures we don't block indefinitely on the watch channel": whatever Argo CD
\* does or omits, the call returns.
Returns == <>(pc = "done")

==============================================================================
