---------------------------- MODULE SyncWaitProofs ----------------------------
(* Proofs about SyncWait, for any periods and any number of events.           *)
EXTENDS SyncWait, TLAPS

\* Before the call waits it has read nothing; when it has returned it has a result.
Phased ==
    /\ pc = "watch" => stream = <<>>
    /\ pc \in {"watch", "post"} =>
          /\ ~requested /\ skipStaleEvents /\ syncResult = "nil" /\ ~told
          /\ healthyFor = Unset /\ missingFor = Unset
    /\ pc # "done" => result = NotYet
    /\ skipStaleEvents => syncResult = "nil"
    /\ syncResult = "nil" => healthyFor = Unset /\ missingFor = Unset

\* The last event of an open stream is the status as it is.
UpToDate == ~closed /\ stream # <<>> => stream[Len(stream)] = app

\* A timer runs since the health has been what it waits for, unless an event that says
\* otherwise is still unread.
Unread(h) == \A i \in 1..Len(stream) : stream[i].health = h
Timed == /\ pc # "done" /\ ~closed /\ healthyFor # Unset /\ Unread("Healthy") =>
               app.health = "Healthy" /\ steady >= healthyFor
         /\ pc # "done" /\ ~closed /\ missingFor # Unset /\ Unread("Missing") =>
               app.health = "Missing" /\ steady >= missingFor

Settling == TypeOK /\ Phased /\ UpToDate /\ Timed /\ SuccessIsSettled

\* The operation before has ended, and its events come before those of ours, of which the
\* first says that it runs.  It is unread as long as events are skipped.
Ended(e) == e.op = "previous" => e.phase # "Running"
Ordered ==
    /\ Ended(app) /\ (requested \/ app.op = "previous")
    /\ pc = "watch" => app.op = "previous"
    /\ \A i \in 1..Len(stream) :
          /\ Ended(stream[i])
          /\ stream[i].op = "ours" => app.op = "ours"
          /\ \A j \in 1..Len(stream) : i < j /\ stream[i].op = "ours" => stream[j].op = "ours"
          /\ ~skipStaleEvents => stream[i].op = "ours"
          /\ stream[i].op = "ours" /\ skipStaleEvents /\ (i > 1 => stream[i - 1].op = "previous")
                => stream[i].phase = "Running"
    /\ ~skipStaleEvents => app.op = "ours"
    /\ skipStaleEvents /\ ~closed /\ app.op = "ours" =>
          stream # <<>> /\ stream[Len(stream)].op = "ours"

\* What is known of the end of our operation.
Known == /\ syncResult \in {"nil", "ours"}
         /\ result.outcome \in {"succeeded", "failed"} => syncResult = "ours"
         /\ told => syncResult = "ours" /\ result # Error

-----------------------------------------------------------------------------

LEMMA Appended ==
    ASSUME NEW S, NEW s \in Seq(S), NEW x \in S
    PROVE  /\ Append(s, x) \in Seq(S) /\ Len(Append(s, x)) = Len(s) + 1 /\ Append(s, x) # <<>>
           /\ \A i \in 1..Len(s) : Append(s, x)[i] = s[i]
           /\ Append(s, x)[Len(s) + 1] = x
  OBVIOUS

LEMMA Shortened ==
    ASSUME NEW S, NEW s \in Seq(S), NEW n \in 0..Len(s)
    PROVE  /\ SubSeq(s, 1, n) \in Seq(S) /\ Len(SubSeq(s, 1, n)) = n
           /\ \A i \in 1..n : SubSeq(s, 1, n)[i] = s[i]
  OBVIOUS

LEMMA Consumed ==
    ASSUME NEW S, NEW s \in Seq(S), s # <<>>
    PROVE  /\ Head(s) \in S /\ Head(s) = s[1] /\ Len(s) \in Nat \ {0}
           /\ Tail(s) \in Seq(S) /\ Len(Tail(s)) = Len(s) - 1
           /\ \A i \in 1..Len(Tail(s)) : Tail(s)[i] = s[i + 1]
           /\ Tail(s) = <<>> <=> Len(s) = 1
  <1>1. Head(s) \in S /\ Head(s) = s[1] /\ Len(s) \in Nat \ {0}
    OBVIOUS
  <1>2. Tail(s) \in Seq(S) /\ Len(Tail(s)) = Len(s) - 1
    BY <1>1
  <1>3. \A i \in 1..Len(Tail(s)) : Tail(s)[i] = s[i + 1]
    BY <1>1, <1>2
  <1>4. QED
    BY <1>1, <1>2, <1>3

\* The longest period is one of the two.
LEMMA LongestOK == Longest \in Nat /\ Stable <= Longest /\ Grace <= Longest
  BY SyncWaitAssumption DEF Longest

LEMMA InitSettling == Init => Settling
  <1> SUFFICES ASSUME Init PROVE Settling
    OBVIOUS
  <1>1. app \in Status
    BY DEF Init, Status, Ops, Phases
  <1>2. result \in Result /\ result.outcome = "none"
    BY DEF Init, NotYet, Result, Outcomes
  <1>3. TypeOK
    <2>1. stream \in Seq(Status) /\ pc \in {"watch", "post", "wait", "done"}
      BY DEF Init
    <2>2. changes \in 0..MaxEvents /\ steady \in 0..Longest /\ left \in 0..Timeout
      BY SyncWaitAssumption, LongestOK DEF Init
    <2>3. /\ healthyFor \in {Unset} \union 0..Stable /\ missingFor \in {Unset} \union 0..Grace
          /\ syncResult \in {"nil"} \union Ops
      BY DEF Init
    <2>4. {requested, closed, skipStaleEvents, told} \subseteq BOOLEAN
      BY DEF Init
    <2>5. QED
      BY <1>1, <1>2, <2>1, <2>2, <2>3, <2>4 DEF TypeOK
  <1>4. Phased
    BY DEF Init, Phased
  <1>5. UpToDate /\ Timed
    BY DEF Init, UpToDate, Timed
  <1>6. SuccessIsSettled
    BY <1>2 DEF SuccessIsSettled
  <1>7. QED
    BY <1>3, <1>4, <1>5, <1>6 DEF Settling

\* A change of the status, whatever it is: the health a timer waits for has lasted if nothing
\* unread says otherwise.
LEMMA ReportSettling ==
    ASSUME Settling, NEW s \in Status, Report(s)
    PROVE  Settling'
  <1> USE DEF Settling
  <1>1. stream \in Seq(Status) /\ app \in Status /\ pc \in {"post", "wait"} /\ result = NotYet
    BY DEF TypeOK, Report, Phased
  <1>2. TypeOK'
    BY <1>1, Appended, LongestOK, SyncWaitAssumption DEF TypeOK, Report, call
  <1>3. Phased'
    BY <1>1 DEF Phased, Report, call
  <1>4. UpToDate'
    BY <1>1, Appended DEF UpToDate, Report
  <1>5. ASSUME NEW h \in Healths, ~closed, Unread(h)'
        PROVE  Unread(h) /\ s.health = h
    <2>1. stream' = Append(stream, s)
      BY <1>5 DEF Report
    <2>2. QED
      BY <1>1, <1>5, <2>1, Appended DEF Unread
  <1>6. Timed'
    BY <1>1, <1>5 DEF Timed, Report, call, Healths
  <1>7. SuccessIsSettled'
    BY <1>1 DEF SuccessIsSettled, Report, call, NotYet
  <1>8. QED
    BY <1>2, <1>3, <1>4, <1>6, <1>7

\* The end of the stream.
LEMMA EndSettling ==
    ASSUME Settling, Expire \/ Disconnect
    PROVE  Settling'
  <1> USE DEF Settling
  <1>1. PICK n \in 0..Len(stream) : stream' = SubSeq(stream, 1, n)
    BY DEF Expire, Disconnect, StreamEnds
  <1>2. stream' \in Seq(Status)
    BY <1>1, Shortened DEF TypeOK
  <1>3. /\ closed' = TRUE /\ pc \in {"post", "wait"}
        /\ UNCHANGED <<app, requested, changes, steady, left, call>>
    BY DEF Expire, Disconnect, StreamEnds
  <1>4. QED
    BY <1>2, <1>3 DEF TypeOK, Phased, UpToDate, Timed, SuccessIsSettled, call

LEMMA StartSettling ==
    ASSUME Settling, Watch \/ Post
    PROVE  Settling'
  <1> USE DEF Settling
  <1>0. /\ Error \in Result /\ Error.outcome # "succeeded" /\ NotYet.outcome # "succeeded"
    BY DEF Error, NotYet, Result, Outcomes
  <1>1. CASE Watch
    <2>1. <<app>> \in Seq(Status) /\ Len(<<app>>) = 1 /\ <<app>>[1] = app
      BY DEF TypeOK
    <2>2. /\ pc = "watch" /\ stream = <<>>
          /\ UNCHANGED <<app, requested, changes, steady, left, closed, skipStaleEvents,
                         syncResult, healthyFor, missingFor, told>>
          /\ \/ pc' = "post" /\ stream' = <<app>> /\ result' = result
             \/ pc' = "done" /\ stream' = stream /\ result' = Error
      BY <1>1 DEF Watch, Return, Phased
    <2>3. TypeOK'
      BY <1>0, <2>1, <2>2 DEF TypeOK
    <2>4. Phased' /\ UpToDate'
      BY <2>1, <2>2 DEF Phased, UpToDate
    <2>5. healthyFor' = Unset /\ missingFor' = Unset /\ result'.outcome # "succeeded"
      BY <1>0, <2>2 DEF Phased
    <2>6. QED
      BY <2>3, <2>4, <2>5 DEF Timed, SuccessIsSettled
  <1>2. CASE Post
    <2>1. /\ pc = "post" /\ requested' \in BOOLEAN
          /\ UNCHANGED <<app, stream, changes, steady, left, closed, skipStaleEvents,
                         syncResult, healthyFor, missingFor, told>>
          /\ \/ pc' = "wait" /\ result' = result
             \/ pc' = "done" /\ result' = Error
      BY <1>2 DEF Post, Return
    <2>2. TypeOK'
      BY <1>0, <2>1 DEF TypeOK
    <2>3. Phased' /\ UpToDate'
      BY <2>1 DEF Phased, UpToDate
    <2>4. healthyFor' = Unset /\ missingFor' = Unset /\ result'.outcome # "succeeded"
      BY <1>0, <2>1 DEF Phased
    <2>5. QED
      BY <2>2, <2>3, <2>4 DEF Timed, SuccessIsSettled
  <1>3. QED
    BY <1>1, <1>2

\* Time passes: the timers and the health grow older alike.
LEMMA TickSettling ==
    ASSUME Settling, Tick
    PROVE  Settling'
  <1> USE DEF Settling
  <1>1. /\ pc \in {"post", "wait"} /\ result = NotYet
        /\ UNCHANGED <<app, requested, stream, changes, closed, pc, skipStaleEvents, syncResult,
                       result, told>>
        /\ left' = left - 1 /\ left > 0
        /\ steady' = IF steady = Longest THEN steady ELSE steady + 1
    BY DEF Tick, Phased
  <1>2. healthyFor' = Older(healthyFor) /\ missingFor' = Older(missingFor)
    BY DEF Tick
  <1>3. healthyFor # Unset => healthyFor \in 0..(Stable - 1) /\ stream = <<>>
    BY SyncWaitAssumption DEF Tick, TypeOK, Phased, StabilizationFires
  <1>4. missingFor # Unset => missingFor \in 0..(Grace - 1) /\ stream = <<>>
    BY SyncWaitAssumption DEF Tick, TypeOK, Phased, GraceFires
  <1>5. /\ healthyFor' \in {Unset} \union 0..Stable /\ missingFor' \in {Unset} \union 0..Grace
        /\ healthyFor' = Unset <=> healthyFor = Unset
        /\ missingFor' = Unset <=> missingFor = Unset
        /\ healthyFor # Unset => healthyFor' = healthyFor + 1
        /\ missingFor # Unset => missingFor' = missingFor + 1
    BY <1>2, <1>3, <1>4, SyncWaitAssumption DEF Older, Unset, TypeOK
  <1>6. TypeOK'
    BY <1>1, <1>5, LongestOK, SyncWaitAssumption DEF TypeOK
  <1>7. Phased' /\ UpToDate'
    BY <1>1, <1>5 DEF Phased, UpToDate
  <1>8. Timed'
    <2>1. steady \in 0..Longest
      BY DEF TypeOK
    <2>2. healthyFor # Unset => (steady >= healthyFor => steady' >= healthyFor')
      BY <1>1, <1>3, <1>5, <2>1, LongestOK, SyncWaitAssumption
    <2>3. missingFor # Unset => (steady >= missingFor => steady' >= missingFor')
      BY <1>1, <1>4, <1>5, <2>1, LongestOK, SyncWaitAssumption
    <2>4. QED
      BY <1>1, <1>5, <2>2, <2>3 DEF Timed, Unread
  <1>9. SuccessIsSettled'
    BY <1>1 DEF SuccessIsSettled, NotYet
  <1>10. QED
    BY <1>6, <1>7, <1>8, <1>9

\* A timer fires, or the channel is closed and empty.
LEMMA TimersSettling ==
    ASSUME Settling, TimerFires \/ ChannelClosed
    PROVE  Settling'
  <1> USE DEF Settling
  <1>1. PICK r \in {Error, Succeeded("Healthy"), Succeeded("Missing"), Failed("Progressing")} :
           /\ pc' = "done" /\ result' = r
           /\ r.outcome = "succeeded" =>
                 \/ r = Succeeded("Healthy") /\ healthyFor = Stable
                 \/ r = Succeeded("Missing") /\ missingFor = Grace
                 \/ closed
    BY DEF TimerFires, ChannelClosed, Conclude, Return, StabilizationFires, GraceFires
  <1>2. /\ UNCHANGED <<argo, skipStaleEvents, syncResult, told, healthyFor, missingFor>>
        /\ pc = "wait"
    BY DEF TimerFires, ChannelClosed, Conclude, StabilizationFires, GraceFires
  <1>3. r \in Result /\ (r = Succeeded("Healthy") => r.health = "Healthy")
        /\ (r = Succeeded("Missing") => r.health = "Missing")
    BY DEF Error, Succeeded, Failed, Result, Outcomes, Healths
  <1>4. TypeOK'
    BY <1>1, <1>2, <1>3 DEF TypeOK, argo
  <1>5. Phased' /\ UpToDate' /\ Timed'
    BY <1>1, <1>2 DEF Phased, UpToDate, Timed, Unread, argo
  <1>6. SuccessIsSettled'
    <2> SUFFICES ASSUME r.outcome = "succeeded", stream = <<>>, ~closed
                 PROVE  /\ r.health = app.health
                        /\ app.health = "Healthy" => steady >= Stable
                        /\ app.health = "Missing" => steady >= Grace
      BY <1>1, <1>2 DEF SuccessIsSettled, argo
    <2>1. Unread("Healthy") /\ Unread("Missing")
      BY DEF Unread
    <2>2. QED
      BY <1>1, <1>2, <1>3, <2>1, SyncWaitAssumption DEF Timed, Unset
  <1>7. QED
    BY <1>4, <1>5, <1>6

\* What reading an event does, of any operation and phase.
LEMMA ReadSettling ==
    ASSUME Settling, Read
    PROVE  Settling'
  <1> DEFINE e == Head(stream)
  <1> USE DEF Settling
  <1>1. /\ stream \in Seq(Status) /\ stream # <<>> /\ pc = "wait" /\ result = NotYet
        /\ stream' = Tail(stream) /\ e \in Status /\ e = stream[1]
        /\ UNCHANGED <<app, requested, changes, steady, left, closed>>
        /\ told' \in BOOLEAN
    BY Consumed DEF Read, TypeOK, Phased
  <1>2. /\ stream' \in Seq(Status) /\ Len(stream) \in Nat \ {0} /\ Len(stream') = Len(stream) - 1
        /\ \A i \in 1..Len(stream') : stream'[i] = stream[i + 1]
        /\ stream' = <<>> <=> Len(stream) = 1
    BY <1>1, Consumed
  <1>3. UpToDate'
    BY <1>1, <1>2 DEF UpToDate
  <1>4. ASSUME NEW h \in Healths, Unread(h)', e.health = h
        PROVE  Unread(h)
    <2>1. ASSUME NEW i \in 1..Len(stream)
          PROVE  stream[i].health = h
      <3>1. CASE i = 1
        BY <1>1, <1>4, <3>1
      <3>2. CASE i > 1
        <4>1. i - 1 \in 1..Len(stream') /\ stream'[i - 1] = stream[i]
          BY <1>2, <3>2
        <4>2. QED
          BY <1>4, <4>1 DEF Unread
      <3>3. QED
        BY <3>1, <3>2
    <2>2. QED
      BY <2>1 DEF Unread
  <1>5. ASSUME ~closed, NEW h \in Healths, Unread(h)', e.health = h
        PROVE  app.health = h
    <2>1. Unread(h)
      BY <1>4, <1>5
    <2>2. QED
      BY <1>1, <1>2, <1>5, <2>1 DEF UpToDate, Unread
  \* An event that is skipped or says nothing of an end.
  <1>6. CASE UNCHANGED <<pc, syncResult, healthyFor, missingFor, result>>
             /\ skipStaleEvents' \in {skipStaleEvents, FALSE} /\ syncResult = "nil"
    <2>1. TypeOK'
      BY <1>1, <1>2, <1>6 DEF TypeOK
    <2>2. healthyFor = Unset /\ missingFor = Unset /\ NotYet.outcome # "succeeded"
      BY <1>6 DEF Phased, NotYet
    <2>3. QED
      BY <1>1, <1>3, <1>6, <2>1, <2>2 DEF Phased, Timed, SuccessIsSettled
  \* The operation failed.
  <1>7. CASE /\ syncResult' \in Ops /\ skipStaleEvents' = FALSE
             /\ Conclude(Failed(e.health))
    <2>1. Failed(e.health) \in Result /\ Failed(e.health).outcome # "succeeded"
      BY <1>1 DEF Failed, Result, Outcomes, Status
    <2>2. pc' = "done" /\ result' = Failed(e.health) /\ UNCHANGED <<healthyFor, missingFor>>
      BY <1>7 DEF Conclude, Return
    <2>3. TypeOK'
      BY <1>1, <1>2, <1>7, <2>1, <2>2 DEF TypeOK
    <2>4. QED
      BY <1>1, <1>3, <1>7, <2>1, <2>2, <2>3 DEF Phased, Timed, SuccessIsSettled, Ops
  \* The operation has succeeded, now or before.
  <1>8. CASE /\ syncResult' \in Ops /\ skipStaleEvents' = FALSE
             /\ CheckHealth(e.health)
    <2>1. e.health \in Healths /\ syncResult' # "nil"
      BY <1>1, <1>8 DEF Status, Ops
    <2>2. CASE e.health = "Degraded"
      <3>1. Conclude(Failed(e.health))
        BY <1>8, <2>2 DEF CheckHealth
      <3>2. QED
        BY <1>7, <1>8, <3>1
    <2>3. ASSUME NEW h \in Healths, e.health = h, pc' = "done", result' = Succeeded(h),
                 healthyFor' \in {Unset, healthyFor}, missingFor' \in {Unset, missingFor},
                 h = "Healthy" => healthyFor = Stable, h = "Missing" => missingFor = Grace
          PROVE  Settling'
      <3>1. Succeeded(h) \in Result /\ Succeeded(h).health = h
        BY DEF Succeeded, Result, Outcomes
      <3>2. TypeOK'
        BY <1>1, <1>2, <1>8, <2>3, <3>1 DEF TypeOK
      <3>3. Phased' /\ Timed'
        BY <1>8, <2>1, <2>3 DEF Phased, Timed
      <3>4. SuccessIsSettled'
        <4> SUFFICES ASSUME stream' = <<>>, ~closed
                     PROVE  /\ h = app.health
                            /\ app.health = "Healthy" => steady >= Stable
                            /\ app.health = "Missing" => steady >= Grace
          BY <1>1, <2>3, <3>1 DEF SuccessIsSettled
        <4>1. Unread(h)'
          BY <1>2 DEF Unread
        <4>2. app.health = h /\ Unread(h)
          BY <1>4, <1>5, <2>3, <4>1
        <4>3. QED
          BY <1>1, <2>3, <4>2, SyncWaitAssumption DEF Timed, Unset
      <3>5. QED
        BY <1>3, <3>2, <3>3, <3>4
    <2>4. ASSUME UNCHANGED <<pc, result>>,
                 \/ e.health = "Healthy" /\ missingFor' = Unset
                    /\ healthyFor' = (IF healthyFor = Unset THEN 0 ELSE healthyFor)
                 \/ e.health = "Missing" /\ healthyFor' = Unset
                    /\ missingFor' = (IF missingFor = Unset THEN 0 ELSE missingFor)
                 \/ healthyFor' = Unset /\ missingFor' = Unset
          PROVE  Settling'
      <3>1. TypeOK'
        <4>1. 0 \in 0..Stable /\ 0 \in 0..Grace
          BY SyncWaitAssumption
        <4>2. /\ healthyFor' \in {Unset} \union 0..Stable
              /\ missingFor' \in {Unset} \union 0..Grace
          BY <2>4, <4>1 DEF TypeOK
        <4>3. QED
          BY <1>1, <1>2, <1>8, <2>4, <4>2 DEF TypeOK
      <3>2. Phased'
        BY <1>1, <1>8, <2>1, <2>4 DEF Phased
      <3>3. Timed'
        <4>1. ASSUME ~closed', healthyFor' # Unset, Unread("Healthy")'
              PROVE  app'.health = "Healthy" /\ steady' >= healthyFor'
          <5>1. e.health = "Healthy"
            BY <2>4, <4>1
          <5>2. app.health = "Healthy" /\ Unread("Healthy")
            BY <1>1, <1>4, <1>5, <4>1, <5>1 DEF Healths
          <5>3. QED
            BY <1>1, <2>4, <4>1, <5>1, <5>2 DEF Timed, TypeOK
        <4>2. ASSUME ~closed', missingFor' # Unset, Unread("Missing")'
              PROVE  app'.health = "Missing" /\ steady' >= missingFor'
          <5>1. e.health = "Missing"
            BY <2>4, <4>2
          <5>2. app.health = "Missing" /\ Unread("Missing")
            BY <1>1, <1>4, <1>5, <4>2, <5>1 DEF Healths
          <5>3. QED
            BY <1>1, <2>4, <4>2, <5>1, <5>2 DEF Timed, TypeOK
        <4>3. QED
          BY <4>1, <4>2 DEF Timed
      <3>4. SuccessIsSettled'
        BY <1>1, <2>4 DEF SuccessIsSettled, NotYet
      <3>5. QED
        BY <1>3, <3>1, <3>2, <3>3, <3>4
    <2>5. CASE e.health = "Healthy"
      BY <1>8, <2>1, <2>3, <2>4, <2>5
      DEF CheckHealth, Healthy, Return, Wait, StabilizationFires
    <2>6. CASE e.health = "Missing"
      BY <1>8, <2>1, <2>3, <2>4, <2>6 DEF CheckHealth, Missing, Return, Wait, GraceFires
    <2>7. CASE e.health = "Progressing"
      BY <1>8, <2>4, <2>7 DEF CheckHealth, Progressing, Wait
    <2>8. CASE e.health = "Suspended"
      BY <1>8, <2>1, <2>3, <2>8 DEF CheckHealth, Conclude, Return
    <2>9. QED
      BY <2>1, <2>2, <2>5, <2>6, <2>7, <2>8 DEF Healths
  <1>9. QED
    <2>1. CASE Stale(e)
      BY <1>6, <2>1 DEF Read, Stale, Phased
    <2>2. CASE ~Stale(e) /\ syncResult = "nil"
      BY <1>1, <1>6, <1>7, <1>8, <2>2 DEF Read, AwaitEnd, Status
    <2>3. CASE ~Stale(e) /\ syncResult # "nil"
      BY <1>1, <1>8, <2>3 DEF Read, TypeOK
    <2>4. QED
      BY <2>1, <2>2, <2>3

LEMMA NextSettling == Settling /\ [Next]_vars => Settling'
  <1> SUFFICES ASSUME Settling, [Next]_vars PROVE Settling'
    OBVIOUS
  <1>1. ASSUME OperationStarts \/ OperationEnds \/ HealthChanges
        PROVE  \E s \in Status : Report(s)
    BY <1>1 DEF OperationStarts, OperationEnds, HealthChanges, Settling, TypeOK, Status, Ops,
                Phases, Terminal, Healths
  <1>2. CASE UNCHANGED vars
    BY <1>2 DEF vars, argo, call, Settling, TypeOK, Phased, UpToDate, Timed, Unread,
                SuccessIsSettled
  <1>3. QED
    BY <1>1, <1>2, ReportSettling, EndSettling, StartSettling, TickSettling, TimersSettling,
       ReadSettling DEF Next, Step

\* The inductive invariant: types, phases of the call, and what its timers measure.
THEOREM AlwaysSettling == Spec => []Settling
  BY InitSettling, NextSettling, PTL DEF Spec

\* The variables keep their types.
THEOREM TypeCorrect == Spec => []TypeOK
  <1>1. Settling => TypeOK
    BY DEF Settling
  <1>2. QED
    BY <1>1, AlwaysSettling, PTL

\* healthStabilizationPeriod, missingHealthGracePeriod: for any periods and however the
\* health changes, a call that reports health over an open stream reports one that has lasted.
THEOREM SuccessHasSettled == Spec => []SuccessIsSettled
  <1>1. Settling => SuccessIsSettled
    BY DEF Settling
  <1>2. QED
    BY <1>1, AlwaysSettling, PTL

-----------------------------------------------------------------------------
(* When no operation is under way as the call begins. *)

LEMMA InitFollowing == ASSUME ~BusyBefore, Init PROVE Ordered /\ Known
  <1>1. Ended(app) /\ app.op = "previous"
    BY DEF Init, Ended
  <1>2. Len(stream) = 0 /\ ~told /\ skipStaleEvents
    BY DEF Init
  <1>3. Ordered
    BY <1>1, <1>2 DEF Ordered
  <1>4. Known
    BY <1>2 DEF Init, Known, NotYet
  <1>5. QED
    BY <1>3, <1>4

\* A change of the status of the last operation, or the start of ours.
LEMMA ReportOrdered ==
    ASSUME Settling, Ordered, Known, NEW s \in Status, Report(s), Ended(s),
           \/ s.op = app.op
           \/ requested /\ s.op = "ours" /\ s.phase = "Running" /\ app.op = "previous"
    PROVE  Ordered' /\ Known'
  <1>1. /\ stream \in Seq(Status) /\ app \in Status /\ pc \in {"post", "wait"} /\ app' = s
        /\ UNCHANGED <<requested, closed, pc, skipStaleEvents, syncResult, result, told>>
    BY DEF Settling, TypeOK, Report, call
  <1>2. /\ Len(stream) \in Nat /\ (requested \/ s.op = "previous")
        /\ app.op = "ours" => s.op = "ours"
    BY <1>1 DEF Ordered
  <1>3. Known'
    BY <1>1 DEF Known
  <1>4. CASE closed
    <2>1. stream' = stream
      BY <1>4 DEF Report
    <2>2. QED
      BY <1>1, <1>2, <1>3, <1>4, <2>1 DEF Ordered
  <1>5. CASE ~closed
    <2>1. /\ stream' \in Seq(Status) /\ Len(stream') = Len(stream) + 1 /\ stream' # <<>>
          /\ \A i \in 1..Len(stream) : stream'[i] = stream[i]
          /\ stream'[Len(stream) + 1] = s
      BY <1>1, <1>5, Appended DEF Report
    <2>2. /\ Ended(app') /\ (requested' \/ app'.op = "previous")
          /\ pc' = "watch" => app'.op = "previous"
          /\ ~skipStaleEvents' => app'.op = "ours"
          /\ skipStaleEvents' /\ ~closed' /\ app'.op = "ours" =>
                stream' # <<>> /\ stream'[Len(stream')].op = "ours"
      BY <1>1, <1>2, <2>1 DEF Ordered
    <2>3. ASSUME NEW i \in 1..Len(stream')
          PROVE  /\ Ended(stream'[i])
                 /\ stream'[i].op = "ours" => app'.op = "ours"
                 /\ \A j \in 1..Len(stream') :
                       i < j /\ stream'[i].op = "ours" => stream'[j].op = "ours"
                 /\ ~skipStaleEvents' => stream'[i].op = "ours"
                 /\ stream'[i].op = "ours" /\ skipStaleEvents'
                    /\ (i > 1 => stream'[i - 1].op = "previous") => stream'[i].phase = "Running"
      <3>1. CASE i \in 1..Len(stream)
        <4>1. stream'[i] = stream[i] /\ (i > 1 => stream'[i - 1] = stream[i - 1])
          BY <1>2, <2>1, <3>1
        <4>2. \A j \in 1..Len(stream') :
                 i < j /\ stream'[i].op = "ours" => stream'[j].op = "ours"
          <5>1. ASSUME NEW j \in 1..Len(stream'), i < j, stream'[i].op = "ours"
                PROVE  stream'[j].op = "ours"
            <6>1. CASE j \in 1..Len(stream)
              BY <2>1, <3>1, <4>1, <5>1, <6>1 DEF Ordered
            <6>2. CASE j = Len(stream) + 1
              BY <1>2, <2>1, <3>1, <4>1, <5>1, <6>2 DEF Ordered
            <6>3. QED
              BY <1>2, <2>1, <6>1, <6>2
          <5>2. QED
            BY <5>1
        <4>3. QED
          BY <1>1, <1>2, <3>1, <4>1, <4>2 DEF Ordered
      <3>2. CASE i = Len(stream) + 1
        <4>1. stream'[i] = s /\ \A j \in 1..Len(stream') : ~(i < j)
          BY <1>2, <2>1, <3>2
        <4>2. ASSUME s.op = "ours", skipStaleEvents, i > 1 => stream'[i - 1].op = "previous"
              PROVE  s.phase = "Running"
          <5>1. CASE app.op = "ours"
            <6>1. stream # <<>> /\ stream[Len(stream)].op = "ours"
              BY <1>5, <4>2, <5>1 DEF Ordered
            <6>2. i > 1 /\ stream'[i - 1] = stream[Len(stream)]
              BY <1>1, <2>1, <3>2, <6>1
            <6>3. QED
              BY <4>2, <6>1, <6>2
          <5>2. QED
            BY <4>2, <5>1
        <4>3. QED
          BY <1>1, <1>2, <4>1, <4>2 DEF Ordered
      <3>3. QED
        BY <1>2, <2>1, <3>1, <3>2
    <2>4. Ordered'
      BY <2>2, <2>3 DEF Ordered
    <2>5. QED
      BY <1>3, <2>4
  <1>6. QED
    BY <1>4, <1>5

LEMMA ReportsOrdered ==
    ASSUME Settling, Ordered, Known, OperationStarts \/ OperationEnds \/ HealthChanges
    PROVE  Ordered' /\ Known'
  <1>1. app \in Status /\ Ended(app)
    BY DEF Settling, TypeOK, Ordered
  <1>2. CASE OperationStarts
    <2>1. PICK h \in {app.health, "Progressing"} :
             Report([op |-> "ours", phase |-> "Running", health |-> h])
      BY <1>2 DEF OperationStarts
    <2> DEFINE s == [op |-> "ours", phase |-> "Running", health |-> h]
    <2>2. s \in Status /\ Ended(s) /\ s.op = "ours" /\ s.phase = "Running"
      BY <1>1 DEF Status, Ops, Phases, Healths, Ended
    <2>3. requested /\ app.op = "previous"
      BY <1>1, <1>2 DEF OperationStarts, Status, Ops
    <2>4. QED
      BY <2>1, <2>2, <2>3, ReportOrdered
  <1>3. CASE OperationEnds
    <2>1. PICK p \in Terminal : Report([app EXCEPT !.phase = p])
      BY <1>3 DEF OperationEnds
    <2> DEFINE s == [app EXCEPT !.phase = p]
    <2>2. s \in Status /\ Ended(s) /\ s.op = app.op
      BY <1>1 DEF Status, Phases, Terminal, Ended
    <2>3. QED
      BY <2>1, <2>2, ReportOrdered
  <1>4. CASE HealthChanges
    <2>1. PICK h \in Healths : Report([app EXCEPT !.health = h])
      BY <1>4 DEF HealthChanges
    <2> DEFINE s == [app EXCEPT !.health = h]
    <2>2. s \in Status /\ Ended(s) /\ s.op = app.op
      BY <1>1 DEF Status, Ended
    <2>3. QED
      BY <2>1, <2>2, ReportOrdered
  <1>5. QED
    BY <1>2, <1>3, <1>4

LEMMA EndOrdered ==
    ASSUME Settling, Ordered, Known, Expire \/ Disconnect
    PROVE  Ordered' /\ Known'
  <1>1. PICK n \in 0..Len(stream) : stream' = SubSeq(stream, 1, n)
    BY DEF Expire, Disconnect, StreamEnds
  <1>2. /\ stream \in Seq(Status) /\ Len(stream) \in Nat
        /\ Len(stream') = n /\ \A i \in 1..n : stream'[i] = stream[i]
    BY <1>1, Shortened DEF Settling, TypeOK
  <1>3. /\ closed' = TRUE /\ pc \in {"post", "wait"}
        /\ UNCHANGED <<app, requested, pc, skipStaleEvents, syncResult, result, told>>
    BY DEF Expire, Disconnect, StreamEnds, call
  <1>4. \A i \in 1..n : i \in 1..Len(stream) /\ (i > 1 => stream'[i - 1] = stream[i - 1])
    BY <1>2
  <1>5. Ordered'
    BY <1>2, <1>3, <1>4 DEF Ordered
  <1>6. QED
    BY <1>3, <1>5 DEF Known

LEMMA StartOrdered ==
    ASSUME Settling, Ordered, Known, Watch \/ Post
    PROVE  Ordered' /\ Known'
  <1>1. Known'
    <2>1. ~told /\ syncResult = "nil" /\ result = NotYet
      BY DEF Settling, Phased, Watch, Post
    <2>2. result' \in {NotYet, Error} /\ UNCHANGED <<told, syncResult>>
      BY <2>1 DEF Watch, Post, Return
    <2>3. QED
      BY <2>1, <2>2 DEF Known, NotYet, Error
  <1>2. CASE Watch
    <2>1. <<app>> \in Seq(Status) /\ Len(<<app>>) = 1 /\ <<app>>[1] = app
      BY DEF Settling, TypeOK
    <2>2. /\ pc = "watch" /\ Len(stream) = 0 /\ skipStaleEvents /\ app.op = "previous"
          /\ UNCHANGED <<app, requested, closed, skipStaleEvents>>
          /\ pc' # "watch"
          /\ stream' = <<app>> \/ stream' = stream
      BY <1>2 DEF Watch, Return, Settling, Phased, Ordered
    <2>3. QED
      BY <1>1, <2>1, <2>2 DEF Ordered
  <1>3. CASE Post
    <2>1. /\ UNCHANGED <<app, stream, closed, skipStaleEvents>> /\ pc' # "watch"
          /\ skipStaleEvents
      BY <1>3 DEF Post, Return, Settling, Phased
    <2>2. requested' \/ app.op = "previous"
      BY <1>3 DEF Post, Settling, Phased, Ordered
    <2>3. QED
      BY <1>1, <2>1, <2>2 DEF Ordered
  <1>4. QED
    BY <1>2, <1>3

LEMMA TimersOrdered ==
    ASSUME Settling, Ordered, Known, Tick \/ TimerFires \/ ChannelClosed
    PROVE  Ordered' /\ Known'
  <1>1. UNCHANGED <<app, requested, stream, closed, skipStaleEvents, syncResult, told>>
        /\ (pc' = pc \/ pc' = "done")
    BY DEF Tick, TimerFires, ChannelClosed, Conclude, Return, argo
  <1>2. Ordered'
    BY <1>1 DEF Ordered
  <1>3. \/ result' = result
        \/ syncResult = "nil" /\ result' = Error
        \/ syncResult # "nil" /\ result' \in {Succeeded("Healthy"), Succeeded("Missing"),
                                              Failed("Progressing")}
    BY SyncWaitAssumption DEF Tick, TimerFires, ChannelClosed, Conclude, Return, Settling, Phased,
                              StabilizationFires, GraceFires, Unset
  <1>4. QED
    BY <1>1, <1>2, <1>3 DEF Known, Error, Succeeded, Failed

\* Reading: the first event that is not skipped is of our operation, and says that it runs.
LEMMA ReadOrdered ==
    ASSUME Settling, Ordered, Known, Read
    PROVE  Ordered' /\ Known'
  <1> DEFINE e == Head(stream)
  <1>1. /\ stream \in Seq(Status) /\ stream # <<>> /\ pc = "wait" /\ result = NotYet
        /\ stream' = Tail(stream) /\ e \in Status /\ e = stream[1]
        /\ UNCHANGED <<app, requested, closed>>
        /\ told' = (told \/ (e.op = "ours" /\ e.phase \in Terminal))
        /\ pc' # "watch"
    BY Consumed DEF Read, Settling, TypeOK, Phased, AwaitEnd, CheckHealth, Healthy, Missing,
                    Progressing, Wait, Conclude, Return
  <1>2. /\ Len(stream) \in Nat \ {0} /\ Len(stream') = Len(stream) - 1
        /\ \A i \in 1..Len(stream') : stream'[i] = stream[i + 1] /\ i + 1 \in 1..Len(stream)
        /\ stream' = <<>> <=> Len(stream) = 1
    BY <1>1, Consumed
  <1>3. Ended(e) /\ (~skipStaleEvents => e.op = "ours")
        /\ (e.op = "ours" => app.op = "ours")
        /\ (e.op = "ours" /\ skipStaleEvents => e.phase = "Running")
    BY <1>1, <1>2 DEF Ordered
  <1>4. CASE Stale(e)
    <2>1. /\ skipStaleEvents /\ e.op = "previous"
          /\ UNCHANGED <<pc, skipStaleEvents, syncResult, result>>
      BY <1>1, <1>3, <1>4 DEF Read, Stale, Terminal, Status, Ops
    <2>2. told' => told
      BY <1>1, <2>1
    <2>3. Known'
      BY <2>1, <2>2 DEF Known
    <2>4. ASSUME NEW i \in 1..Len(stream'), stream'[i].op = "ours",
                 i > 1 => stream'[i - 1].op = "previous"
          PROVE  stream'[i].phase = "Running"
      <3>1. CASE i = 1
        BY <1>1, <1>2, <2>1, <2>4, <3>1 DEF Ordered
      <3>2. CASE i > 1
        <4>1. i - 1 \in 1..Len(stream') /\ stream'[i - 1] = stream[i]
          BY <1>2, <3>2
        <4>2. QED
          BY <1>2, <2>1, <2>4, <3>2, <4>1 DEF Ordered
      <3>3. QED
        BY <3>1, <3>2
    <2>5. skipStaleEvents' /\ ~closed' /\ app'.op = "ours" =>
             stream' # <<>> /\ stream'[Len(stream')].op = "ours"
      BY <1>1, <1>2, <2>1 DEF Ordered
    <2>6. Ordered'
      BY <1>1, <1>2, <2>1, <2>4, <2>5 DEF Ordered
    <2>7. QED
      BY <2>3, <2>6
  <1>5. CASE ~Stale(e)
    <2>1. skipStaleEvents' = FALSE /\ e.op = "ours"
      BY <1>1, <1>3, <1>5 DEF Read, Stale, Ended, Terminal, Status, Ops, Phases
    <2>2. \A i \in 1..Len(stream') : stream'[i].op = "ours"
      BY <1>1, <1>2, <2>1 DEF Ordered
    <2>3. Ordered'
      BY <1>1, <1>2, <1>3, <2>1, <2>2 DEF Ordered
    <2>4. CASE syncResult = "nil" /\ e.phase \notin Terminal
      BY <1>1, <1>5, <2>3, <2>4 DEF Read, AwaitEnd, Known, Terminal
    <2>5. CASE syncResult # "nil" \/ e.phase \in Terminal
      <3>1. syncResult' = "ours"
        BY <1>1, <1>5, <2>1, <2>5 DEF Read, AwaitEnd, Known
      <3>2. result' # Error
        BY <1>1, <1>5, <2>5 DEF Read, AwaitEnd, CheckHealth, Healthy, Missing, Progressing, Wait,
                                Conclude, Return, Succeeded, Failed, Error, NotYet
      <3>3. QED
        BY <2>3, <3>1, <3>2 DEF Known
    <2>6. QED
      BY <2>4, <2>5
  <1>6. QED
    BY <1>4, <1>5

LEMMA NextOrdered ==
    ASSUME Settling, Ordered, Known, [Next]_vars
    PROVE  Ordered' /\ Known'
  <1>1. CASE UNCHANGED vars
    BY <1>1 DEF vars, argo, call, Ordered, Known
  <1>2. QED
    BY <1>1, ReportsOrdered, EndOrdered, StartOrdered, TimersOrdered, ReadOrdered DEF Next, Step

\* Events come in the order of what they report, and the end that is taken is of ours.
LEMMA AlwaysOrdered == ASSUME ~BusyBefore PROVE Spec => [](Ordered /\ Known)
  <1>1. Init => Ordered /\ Known
    BY InitFollowing
  <1>2. Settling /\ Ordered /\ Known /\ [Next]_vars => (Ordered /\ Known)'
    BY NextOrdered
  <1>3. QED
    BY <1>1, <1>2, AlwaysSettling, PTL DEF Spec

\* applications.go:437-441: if no operation is under way as the call begins, the result it
\* returns is built from the end of the operation it triggered.
THEOREM ResultOfThisSync == ASSUME ~BusyBefore PROVE Spec => []ResultIsOfThisSync
  <1>1. Ordered /\ Known => ResultIsOfThisSync
    BY DEF Known, ResultIsOfThisSync
  <1>2. QED
    BY <1>1, AlwaysOrdered, PTL

\* applications.go:202-206: if no operation is under way as the call begins, a call that read
\* the end of its operation does not report that the sync did not complete.
THEOREM EndedIsNoTimeout == ASSUME ~BusyBefore PROVE Spec => []EndedSyncIsNoTimeout
  <1>1. Ordered /\ Known => EndedSyncIsNoTimeout
    BY DEF Known, EndedSyncIsNoTimeout
  <1>2. QED
    BY <1>1, AlwaysOrdered, PTL
==============================================================================
