------------------------------- MODULE TempApps -------------------------------
(***************************************************************************)
(* The diff of a plan (internal/argocd/tempapp.go and the DiffX functions  *)
(* of diff.go): temporary applications are created in Argo CD for the      *)
(* branches, their manifests fetched and compared, and the applications    *)
(* deleted.  Plans of several pull requests, or of one, do so at a time.   *)
(*                                                                         *)
(* Argo CD creates an application if there is none of the name or an equal *)
(* one, and can give the manifests of an application some time after it    *)
(* was created.  The name of a temporary application is that of the        *)
(* original cut to what the limit leaves (Stem), the pull request and      *)
(* "base" or "head".  An application that only one pull request adds has   *)
(* no temporary one but takes its own name.                                *)
(*                                                                         *)
(* ForgetMade and RegisterFirst are faulty variants of the definition      *)
(* after them.                                                             *)
(***************************************************************************)
EXTENDS Diff, SequencesExt

CONSTANTS
    Apps,
    Stem,      \* Stem[a]: what is left of the name of a
    Charts,    \* the applications with a Helm chart, whose resources carry the release name
    Worlds,    \* what there is and which plans are made of it
    Runners,
    Faults,    \* whether calls may fail or the process die
    MaxPlans   \* how many plans are made

\* A plan is of an application, for a pull request, of a kind of change in a mode.  A world
\* has the manifests of each branch, the live resources, the plans that may be made, and
\* whether two tasks may make the same one at a time (twice).
Modes == {"branch", "live", "both"}
Kinds == {"existing", "new", "deleted"}
Plan == [app : Apps, pr : Nat, kind : Kinds, mode : Modes]
PRs == UNION {{p.pr : p \in w.plans} : w \in Worlds}
ASSUME TempAppsAssumption ==
    /\ Charts \subseteq Apps /\ Faults \in BOOLEAN /\ MaxPlans \in Nat /\ "none" \notin Apps
    /\ \A k \in Keys : k = <<k[1], k[2]>>
    /\ \A w \in Worlds :
          /\ w.plans \subseteq Plan /\ w.twice \in BOOLEAN
          /\ w.live \subseteq [key : Keys, state : State, hook : BOOLEAN]
          /\ \A b \in PRs \union {0} : w.render[b] \in
                Seq([key : {k[1] : k \in {j \in Keys : j[2] = "own"}}, state : State])

VARIABLES
    world,
    apps,    \* Argo CD's temporary applications, by name
    runner,  \* what each worker is doing
    plans,   \* how many plans have begun
    left     \* history: the names a fault may have left an application under

vars == <<world, apps, runner, plans, left>>

Names == [stem : {Stem[a] : a \in Apps}, pr : PRs, suffix : {"base", "head"}]
         \union [stem : Apps, pr : {0}, suffix : {"own"}]
NoApp == [of |-> "none", branch |-> 0]

\* What has been fetched; a step that fails has an error.
NoPlan == [app |-> "none"]
Idle == [pc |-> "idle", plan |-> NoPlan, todo |-> <<>>, made |-> <<>>, base |-> <<>>,
         head |-> <<>>, live |-> {}, result |-> {}, error |-> FALSE]

TypeOK == /\ apps \in [Names -> {NoApp} \union [of : Apps, branch : PRs \union {0}]]
          /\ \A r \in Runners :
                /\ runner[r].pc \in {"idle", "diff", "clean"}
                /\ runner[r].pc = "idle" <=> runner[r] = Idle
                /\ runner[r].pc # "idle" => runner[r].plan \in world.plans
                /\ runner[r].made \in Seq(Names) /\ Len(runner[r].made) <= 2
                /\ \A d \in runner[r].result :
                      /\ d.key \in Keys \ Secrets
                      /\ d.action \in {"create", "delete", "update", "none"}
                      /\ Len(d.diff) \in {0, 2}
          /\ plans \in 0..MaxPlans /\ left \subseteq Names

Init == /\ world \in Worlds
        /\ apps = [n \in Names |-> NoApp]
        /\ runner = [r \in Runners |-> Idle]
        /\ plans = 0 /\ left = {}

-----------------------------------------------------------------------------

\* generateTempAppName.
TempName(p, suffix) ==
    IF p.kind = "new" THEN [stem |-> p.app, pr |-> 0, suffix |-> "own"]
    ELSE [stem |-> Stem[p.app], pr |-> p.pr, suffix |-> suffix]

\* buildTempAppSpec: the sources follow the branch (0 is the base branch); no auto-sync.
TempSpec(p, suffix) == [of |-> p.app, branch |-> IF suffix = "base" THEN 0 ELSE p.pr]

\* The Helm release is named after the original application.
ReleaseName(n, s) == "own"

\* Argo CD renders.
Manifests(n) ==
    LET s == apps[n] IN
    [i \in DOMAIN world.render[s.branch] |->
       IF s.of \in Charts
       THEN [world.render[s.branch][i] EXCEPT !.key = <<@, ReleaseName(n, s)>>]
       ELSE [world.render[s.branch][i] EXCEPT !.key = <<@, "own">>]]

\* A branch is rendered by a temporary application, which is created and waited for.
CreateOf == [base |-> "create base", head |-> "create head"]
WaitOf == [base |-> "wait base", head |-> "wait head"]

\* The steps of GetApplicationDiff, DiffNewApp and DiffDeletedApp.
Steps(p) ==
    CASE p.kind = "new" -> <<"clear", "create head", "wait head">>
      [] p.kind = "deleted" /\ p.mode = "branch" -> <<"create base", "wait base">>
      [] p.kind = "deleted" /\ p.mode = "live" -> <<"live">>
      [] p.kind = "deleted" /\ p.mode = "both" -> <<"live", "create base", "wait base">>
      [] p.kind = "existing" /\ p.mode = "branch" ->
           <<"create base", "create head", "wait base", "wait head">>
      [] p.kind = "existing" /\ p.mode = "live" -> <<"live", "create head", "wait head">>
      [] p.kind = "existing" /\ p.mode = "both" ->
           <<"live", "create base", "create head", "wait base", "wait head">>

\* Nothing was fetched of a branch that is not looked at.
Compare(k) ==
    CASE k.plan.kind # "new" /\ k.plan.mode = "live" -> LiveVsTargetDiff(k.live, k.head)
      [] k.plan.kind # "new" /\ k.plan.mode = "both" -> ThreeWayDiff(k.base, k.head, k.live)
      [] OTHER -> ManifestsDiff(k.base, k.head)

Set(r, k) == runner' = [runner EXCEPT ![r] = k]
AtStep(r, step) == runner[r].pc = "diff" /\ runner[r].todo # <<>> /\ Head(runner[r].todo) = step
StepDone(k) == [k EXCEPT !.todo = Tail(@)]

\* An error ends the steps, but not the deferred deletions.
ForgetMade(k) == [k EXCEPT !.todo = <<>>, !.error = TRUE, !.made = <<>>]
Abort(k) == [k EXCEPT !.todo = <<>>, !.error = TRUE]
Fail(r) == Set(r, Abort(runner[r]))

Begin(r) ==
    /\ runner[r].pc = "idle" /\ plans < MaxPlans
    /\ \E p \in world.plans :
          /\ world.twice \/ \A q \in Runners : runner[q].plan # p
          /\ Set(r, [Idle EXCEPT !.pc = "diff", !.plan = p, !.todo = Steps(p)])
    /\ plans' = plans + 1
    /\ UNCHANGED <<world, apps, left>>

GetManagedResources(r) ==
    /\ AtStep(r, "live")
    /\ \/ Set(r, [StepDone(runner[r]) EXCEPT !.live = world.live])
       \/ Faults /\ Fail(r)
    /\ UNCHANGED <<world, apps, plans, left>>

\* CreateNewApp: what has the name is deleted first.
ClearName(r) ==
    LET n == TempName(runner[r].plan, "own") IN
    /\ AtStep(r, "clear")
    /\ \/ /\ apps' = [apps EXCEPT ![n] = NoApp] /\ left' = left \ {n}
          /\ Set(r, StepDone(runner[r]))
       \/ Faults /\ Fail(r) /\ UNCHANGED <<apps, left>>
    /\ UNCHANGED <<world, plans>>

\* Only what was created is deleted later.
RegisterFirst(k, n, created) == Append(k.made, n)
Register(k, n, created) == IF created THEN Append(k.made, n) ELSE k.made

\* CreateTempApp.  When the answer is lost the application may be there all the same.
Create(r, suffix) ==
    LET k == runner[r]
        n == TempName(k.plan, suffix)
        s == TempSpec(k.plan, suffix)
    IN /\ AtStep(r, CreateOf[suffix])
       /\ \/ /\ apps[n] \in {NoApp, s}
             /\ apps' = [apps EXCEPT ![n] = s]
             /\ Set(r, [StepDone(k) EXCEPT !.made = Register(k, n, TRUE)])
             /\ UNCHANGED left
          \/ /\ Faults \/ apps[n] \notin {NoApp, s}
             /\ Set(r, [Abort(k) EXCEPT !.made = Register(k, n, FALSE)])
             /\ UNCHANGED <<apps, left>>
          \/ /\ Faults /\ apps[n] = NoApp
             /\ apps' = [apps EXCEPT ![n] = s]
             /\ Set(r, [Abort(k) EXCEPT !.made = Register(k, n, FALSE)])
             /\ left' = left \union {n}
       /\ UNCHANGED <<world, plans>>

\* WaitForManifests: of whatever has the name by then; or until the timeout.
Wait(r, suffix) ==
    LET k == runner[r]
        n == TempName(k.plan, suffix)
    IN /\ AtStep(r, WaitOf[suffix])
       /\ \/ /\ apps[n] # NoApp
             /\ Set(r, IF suffix = "base" THEN [StepDone(k) EXCEPT !.base = Manifests(n)]
                       ELSE [StepDone(k) EXCEPT !.head = Manifests(n)])
          \/ (Faults \/ apps[n] = NoApp) /\ Fail(r)
       /\ UNCHANGED <<world, apps, plans, left>>

\* The diff is computed, and the deferred deletions follow.
Finish(r) ==
    LET k == runner[r] IN
    /\ k.pc = "diff" /\ k.todo = <<>>
    /\ Set(r, [k EXCEPT !.pc = "clean", !.result = IF k.error THEN {} ELSE Compare(k)])
    /\ UNCHANGED <<world, apps, plans, left>>

\* In the reverse order; the error of one is ignored.
Delete(r) ==
    LET k == runner[r]
        n == Last(k.made)
    IN /\ k.pc = "clean" /\ k.made # <<>>
       /\ Set(r, [k EXCEPT !.made = Front(@)])
       /\ \/ apps' = [apps EXCEPT ![n] = NoApp] /\ left' = left \ {n}
          \/ Faults /\ left' = left \union {n} /\ UNCHANGED apps
       /\ UNCHANGED <<world, plans>>

Return(r) ==
    /\ runner[r].pc = "clean" /\ runner[r].made = <<>>
    /\ Set(r, Idle)
    /\ UNCHANGED <<world, apps, plans, left>>

\* The process dies: nothing is deferred any more.  The clean-up at the next start finds
\* none of the labels it looks for.
Die ==
    /\ Faults /\ \E r \in Runners : runner[r] # Idle
    /\ runner' = [r \in Runners |-> Idle]
    /\ left' = left \union {n \in Names : apps[n] # NoApp}
    /\ UNCHANGED <<world, apps, plans>>

Next == \/ \E r \in Runners : \/ Begin(r) \/ GetManagedResources(r) \/ ClearName(r)
                              \/ Finish(r) \/ Delete(r) \/ Return(r)
        \/ \E r \in Runners, s \in {"base", "head"} : Create(r, s) \/ Wait(r, s)
        \/ Die

Spec == Init /\ [][Next]_vars

-----------------------------------------------------------------------------
(* Properties. *)

\* What the plan is about before and after: on the base branch, or in the cluster without
\* hooks, and on the pull request's branch.
Said(list, k) == IF \E i \in DOMAIN list : list[i].key = k[1] /\ k[2] = "own"
                 THEN list[LastOf(list, k[1])].state.yaml ELSE "null"
Lives(k) == IF \E s \in world.live : s.key = k /\ ~s.hook
            THEN (CHOOSE s \in world.live : s.key = k /\ ~s.hook).state.yaml ELSE "null"
Before(p, k) == CASE p.kind = "new" -> "null"
                  [] p.kind # "new" /\ p.mode = "live" -> Lives(k)
                  [] p.kind # "new" /\ p.mode # "live" -> Said(world.render[0], k)
After(p, k) == IF p.kind = "deleted" THEN "null" ELSE Said(world.render[p.pr], k)

\* commands.md:48, configuration.md:315: a plan that is made says exactly what differs
\* between the branches, or between cluster and branch, but for Secrets and for what the
\* cluster adds; however plans share, lose or take over temporary applications.
DiffIsRight ==
    \A r \in Runners : runner[r].pc = "clean" /\ ~runner[r].error =>
       LET p == runner[r].plan IN
       {<<d.key, d.diff[1].yaml, d.diff[2].yaml>> : d \in PlanEntries(runner[r].result)}
       = {<<k, Before(p, k), After(p, k)>> :
            k \in {j \in Keys \ Secrets : Before(p, j) # After(p, j)}}

\* The branches a plan has a temporary application for.
Sides(p) == IF p.kind = "new" THEN {"head"} ELSE {"base", "head"}

\* Plans that are kept apart: where two need one name, it is for equal temporary
\* applications; or no two need the same temporary application or add the same new one, and
\* none is made twice at a time.
OneSpec(w) ==
    \A p, q \in w.plans : \A s \in Sides(p), t \in Sides(q) :
       TempName(p, s) = TempName(q, t) => TempSpec(p, s) = TempSpec(q, t)
OnePlan(w) ==
    /\ ~w.twice
    /\ \A p, q \in w.plans : \A s \in Sides(p), t \in Sides(q) :
          /\ TempName(p, s) = TempName(q, t)
          /\ p.kind = "new" \/ TempSpec(p, s) = TempSpec(q, t)
          => p = q
Apart(w) == OneSpec(w) \/ OnePlan(w)
Separate == \A w \in Worlds : Apart(w)

\* workflow.md:76: "Cleans up temporary Application CRs", after errors too.  A fault may
\* leave one (left), until a plan that needs the same one deletes it.
CleanedUp ==
    \A n \in Names \ left : apps[n] # NoApp =>
       \E r \in Runners : n \in {runner[r].made[i] : i \in DOMAIN runner[r].made}

\* A plan deletes no temporary application that another application, or pull request, needs,
\* though two names may be cut to one.
DeletesOnlyOwn ==
    [][\A r \in Runners, n \in Names :
         apps[n] # NoApp /\ apps'[n] = NoApp /\ runner'[r] # runner[r]
         => apps[n].of = runner[r].plan.app /\ apps[n].branch \in {0, runner[r].plan.pr}]_vars

==============================================================================
