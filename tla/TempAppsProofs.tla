----------------------------- MODULE TempAppsProofs -----------------------------
(***************************************************************************)
(* Proofs about TempApps, for any applications, contents, plans and        *)
(* workers.                                                                *)
(*                                                                         *)
(* Orderly is inductive.  It says how far each worker has come (Steady),   *)
(* that what it fetched is what its plan is about (Fetched), and that what *)
(* it created stays as it is (Kept).                                       *)
(***************************************************************************)
EXTENDS TempApps, TLAPS, WellFoundedInduction

StepNames == {"clear", "live", "create base", "create head", "wait base", "wait head"}

\* What a plan gets of a branch.
Rendered(w, p, side) ==
    LET list == w.render[TempSpec(p, side).branch] IN
    [i \in DOMAIN list |-> [list[i] EXCEPT !.key = <<@, "own">>]]
Has(seq, x) == \E i \in 1..Len(seq) : seq[i] = x

\* The steps that are left come in their order, once each; what was created is to be deleted.
Steady(w, k) ==
    /\ k.plan \in w.plans
    /\ k.todo \in Seq(StepNames)
    /\ \A i, j \in 1..Len(k.todo) : i # j => k.todo[i] # k.todo[j]
    /\ \A s \in {"base", "head"} :
          /\ \A i, j \in 1..Len(k.todo) :
                k.todo[i] = WaitOf[s] /\ k.todo[j] = CreateOf[s] => j < i
          /\ Has(k.todo, CreateOf[s]) => s \in Sides(k.plan) /\ ~Has(k.made, TempName(k.plan, s))
          /\ Has(k.todo, WaitOf[s]) =>
                /\ s \in Sides(k.plan) /\ Has(Steps(k.plan), WaitOf[s])
                /\ Has(k.todo, CreateOf[s]) \/ Has(k.made, TempName(k.plan, s))
    /\ Has(k.todo, "clear") =>
          k.todo[1] = "clear" /\ Has(k.todo, CreateOf["head"]) /\ k.plan.kind = "new"
    /\ Has(k.todo, "live") => Has(Steps(k.plan), "live")
    /\ k.made \in Seq(Names) /\ Len(k.made) <= 2
    /\ \A i, j \in 1..Len(k.made) : i # j => k.made[i] # k.made[j]
    /\ \A i \in 1..Len(k.made) : \E s \in Sides(k.plan) : k.made[i] = TempName(k.plan, s)

\* What was fetched is what the plan is about.
Got(w, k, side) == IF Has(Steps(k.plan), WaitOf[side]) /\ ~Has(k.todo, WaitOf[side])
                         THEN Rendered(w, k.plan, side) ELSE <<>>
Fetched(w, k) ==
    /\ k.base = Got(w, k, "base") /\ k.head = Got(w, k, "head")
    /\ k.live = IF Has(Steps(k.plan), "live") /\ ~Has(k.todo, "live") THEN w.live ELSE {}

Listed == Seq([key : Keys, state : State])
Changes == {NoDiff} \union {<<x, y>> : x \in State, y \in State}
Entries == [key : Keys \ Secrets, diff : Changes, liveDiff : Changes,
            action : {"create", "delete", "update", "none"}]
Phases == {"idle", "diff", "clean"}
Record == [pc : Phases, plan : Plan \union {NoPlan}, todo : Seq(StepNames),
           made : Seq(Names), base : Listed, head : Listed,
           live : SUBSET [key : Keys, state : State, hook : BOOLEAN],
           result : SUBSET Entries, error : BOOLEAN]
Working(w, k) ==
    /\ k.pc \in {"diff", "clean"} /\ Steady(w, k)
    /\ k.pc = "clean" => k.todo = <<>>
    /\ ~k.error /\ Apart(w) => Fetched(w, k)
    /\ k.result = IF k.pc = "clean" /\ ~k.error THEN Compare(k) ELSE {}

\* Every temporary application is as some plan wants it.  Where no two plans need the same
\* one, no two workers make the same plan, and what a worker created is as it created it.
Wanted(w, n, app) == \E p \in w.plans : \E s \in Sides(p) :
                        n = TempName(p, s) /\ app = TempSpec(p, s)
Kept(at, k) == \A i \in 1..Len(k.made) : \A s \in Sides(k.plan) :
                  k.made[i] = TempName(k.plan, s) => at[k.made[i]] = TempSpec(k.plan, s)

Orderly ==
    /\ world \in Worlds
    /\ apps \in [Names -> {NoApp} \union [of : Apps, branch : PRs \union {0}]]
    /\ runner \in [Runners -> Record]
    /\ \A r \in Runners : runner[r] = Idle \/ Working(world, runner[r])
    /\ plans \in 0..MaxPlans /\ left \subseteq Names
    /\ \A n \in Names : apps[n] # NoApp => Wanted(world, n, apps[n])
    /\ ~world.twice => \A r, q \in Runners :
          r # q /\ runner[r].pc # "idle" => runner[r].plan # runner[q].plan
    /\ OnePlan(world) => \A r \in Runners : Kept(apps, runner[r])

-----------------------------------------------------------------------------
(* Comparisons. *)

LEMMA Elements ==
    ASSUME NEW S, NEW list \in Seq(S)
    PROVE  DOMAIN list = 1..Len(list) /\ Len(list) \in Nat /\ \A i \in DOMAIN list : list[i] \in S
  OBVIOUS

LEMMA CleanStates ==
    ASSUME NEW s \in State, NEW t \in State
    PROVE  /\ Clean(s) \in State /\ Clean(s).yaml = s.yaml
           /\ Clean(s) = Clean(t) <=> s.yaml = t.yaml
  <1>1. /\ Clean(s) = [yaml |-> s.yaml, noise |-> 0]
        /\ Clean(t) = [yaml |-> t.yaml, noise |-> 0]
    BY DEF Clean, State
  <1>2. QED
    BY <1>1 DEF State

\* A difference is empty exactly if both sides say the same, and has what they say if not.
LEMMA Differences ==
    ASSUME NEW from, NEW to, NEW k, At(from, k) \in State, At(to, k) \in State
    PROVE  /\ Difference(from, to, k) \in Changes
           /\ Difference(from, to, k) = NoDiff <=> At(from, k).yaml = At(to, k).yaml
           /\ Difference(from, to, k) # NoDiff =>
                 /\ Difference(from, to, k)[1].yaml = At(from, k).yaml
                 /\ Difference(from, to, k)[2].yaml = At(to, k).yaml
  <1> DEFINE s == At(from, k)
             t == At(to, k)
  <1> HIDE DEF s, t
  <1>1. /\ Clean(s) \in State /\ Clean(t) \in State /\ Clean(s).yaml = s.yaml
        /\ Clean(t).yaml = t.yaml /\ (Clean(s) = Clean(t) <=> s.yaml = t.yaml)
    BY CleanStates DEF s, t
  <1>2. Difference(from, to, k) = IF Clean(s) = Clean(t) THEN NoDiff ELSE <<Clean(s), Clean(t)>>
    BY DEF Difference, Unified, s, t
  <1>3. <<Clean(s), Clean(t)>> # NoDiff
    BY DEF NoDiff
  <1>4. s.yaml = At(from, k).yaml /\ t.yaml = At(to, k).yaml
    BY DEF s, t
  <1>5. QED
    BY <1>1, <1>2, <1>3, <1>4 DEF Changes

LEMMA Least ==
    ASSUME NEW T \in SUBSET Nat, T # {}
    PROVE  \E x \in T : \A y \in T : x <= y
  <1>1. PICK x \in T : \A y \in T : ~(<<y, x>> \in OpToRel(<, Nat))
    BY NatLessThanWellFounded, WFMin
  <1>2. ASSUME NEW y \in T
        PROVE  x <= y
    <2> DEFINE e == <<y, x>>
    <2>1. e \in Nat \X Nat /\ e[1] = y /\ e[2] = x
      OBVIOUS
    <2>2. ~(e[1] < e[2])
      BY <1>1, <2>1, Zenon DEF OpToRel
    <2>3. QED
      BY <2>1, <2>2
  <1>3. QED
    BY <1>1, <1>2

\* Of manifests with one key there is a last one.
LEMMA LastExists ==
    ASSUME NEW S, NEW list \in Seq(S), NEW k, \E i \in DOMAIN list : list[i].key = k
    PROVE  /\ LastOf(list, k) \in DOMAIN list /\ list[LastOf(list, k)].key = k
           /\ \A j \in DOMAIN list : list[j].key = k => j <= LastOf(list, k)
  <1> DEFINE T == {n \in Nat : Len(list) - n \in DOMAIN list /\ list[Len(list) - n].key = k}
  <1>1. Len(list) \in Nat /\ DOMAIN list = 1..Len(list)
    OBVIOUS
  <1>2. ASSUME NEW i \in DOMAIN list, list[i].key = k
        PROVE  Len(list) - i \in T
    BY <1>1, <1>2
  <1>3. PICK n \in T : \A m \in T : n <= m
    <2>1. T \in SUBSET Nat /\ T # {}
      BY <1>2
    <2> HIDE DEF T
    <2>2. QED
      BY <2>1, Least
  <1>4. ASSUME NEW j \in DOMAIN list, list[j].key = k
        PROVE  j <= Len(list) - n
    <2>1. n <= Len(list) - j
      BY <1>2, <1>3, <1>4
    <2>2. QED
      BY <1>1, <2>1
  <1>5. QED
    BY <1>4 DEF LastOf

LEMMA ManifestMaps ==
    ASSUME NEW list \in Listed
    PROVE  /\ DOMAIN ManifestMap(list) = {list[i].key : i \in DOMAIN list}
           /\ DOMAIN ManifestMap(list) \subseteq Keys
           /\ \A k \in DOMAIN ManifestMap(list) :
                 ManifestMap(list)[k] = list[LastOf(list, k)].state
           /\ \A k : At(ManifestMap(list), k) \in State
  <1>1. /\ DOMAIN ManifestMap(list) = {list[i].key : i \in DOMAIN list}
        /\ \A k \in DOMAIN ManifestMap(list) : ManifestMap(list)[k] = list[LastOf(list, k)].state
    BY DEF ManifestMap
  <1>2. \A i \in DOMAIN list : list[i] \in [key : Keys, state : State]
    BY Elements DEF Listed
  <1>3. \A k \in DOMAIN ManifestMap(list) : list[LastOf(list, k)].state \in State
    <2> SUFFICES ASSUME NEW k \in DOMAIN ManifestMap(list)
                 PROVE  list[LastOf(list, k)].state \in State
      OBVIOUS
    <2>1. LastOf(list, k) \in DOMAIN list
      BY <1>1, LastExists DEF Listed
    <2>2. QED
      BY <1>2, <2>1
  <1>4. Nothing \in State
    BY DiffAssumption DEF Nothing, State
  <1>5. QED
    BY <1>1, <1>2, <1>3, <1>4 DEF At

LEMMA LiveMaps ==
    ASSUME NEW live \in SUBSET [key : Keys, state : State, hook : BOOLEAN]
    PROVE  /\ DOMAIN LiveMap(live) = {s.key : s \in {s \in live : ~s.hook}} \ Secrets
           /\ DOMAIN LiveMap(live) \subseteq Keys \ Secrets
           /\ \A k \in DOMAIN LiveMap(live) :
                 LiveMap(live)[k] = (CHOOSE s \in live : s.key = k /\ ~s.hook).state
           /\ \A k : At(LiveMap(live), k) \in State
  <1>1. /\ DOMAIN LiveMap(live) = {s.key : s \in {s \in live : ~s.hook}} \ Secrets
        /\ \A k \in DOMAIN LiveMap(live) :
              LiveMap(live)[k] = (CHOOSE s \in live : s.key = k /\ ~s.hook).state
    BY DEF LiveMap
  <1>2. \A k \in DOMAIN LiveMap(live) :
           (CHOOSE s \in live : s.key = k /\ ~s.hook) \in live
    BY <1>1
  <1>3. Nothing \in State
    BY DiffAssumption DEF Nothing, State
  <1>4. QED
    BY <1>1, <1>2, <1>3 DEF At

\* What a plan reports, and what differs between two sides.
Reported(diffs) == {<<d.key, d.diff[1].yaml, d.diff[2].yaml>> : d \in PlanEntries(diffs)}
Changed(from, to) == {<<k, At(from, k).yaml, At(to, k).yaml>> :
                        k \in {j \in Keys \ Secrets : At(from, j).yaml # At(to, j).yaml}}

LEMMA EntryTyped ==
    ASSUME NEW from, NEW to, NEW k \in Keys \ Secrets, At(from, k) \in State, At(to, k) \in State
    PROVE  /\ Entry(from, to, k) \in Entries
           /\ Entry(from, to, k).key = k /\ Entry(from, to, k).diff = Difference(from, to, k)
  <1>1. Difference(from, to, k) \in Changes /\ NoDiff \in Changes
    BY Differences DEF Changes
  <1>2. Action(from, to, k) \in {"create", "delete", "update", "none"}
    BY DEF Action
  <1>3. QED
    BY <1>1, <1>2 DEF Entry, Entries

\* Entries with the differences between two sides report exactly what differs.
LEMMA Exact ==
    ASSUME NEW from, NEW to, NEW X,
           \A k : At(from, k) \in State /\ At(to, k) \in State,
           \A d \in X : d.key \in Keys \ Secrets /\ d.diff = Difference(from, to, d.key),
           \A k \in Keys \ Secrets :
              Difference(from, to, k) # NoDiff => \E d \in X : d.key = k
    PROVE  Reported(X) = Changed(from, to)
  <1>1. ASSUME NEW k
        PROVE  /\ Difference(from, to, k) = NoDiff <=> At(from, k).yaml = At(to, k).yaml
               /\ Difference(from, to, k) # NoDiff =>
                     /\ Difference(from, to, k)[1].yaml = At(from, k).yaml
                     /\ Difference(from, to, k)[2].yaml = At(to, k).yaml
    BY Differences
  <1>2. ASSUME NEW d \in PlanEntries(X)
        PROVE  <<d.key, d.diff[1].yaml, d.diff[2].yaml>> \in Changed(from, to)
    <2>1. d \in X /\ d.diff # NoDiff
      BY DEF PlanEntries
    <2>2. d.key \in {j \in Keys \ Secrets : At(from, j).yaml # At(to, j).yaml}
      BY <1>1, <2>1
    <2>3. <<d.key, d.diff[1].yaml, d.diff[2].yaml>>
          = <<d.key, At(from, d.key).yaml, At(to, d.key).yaml>>
      BY <1>1, <2>1
    <2>4. QED
      BY <2>2, <2>3 DEF Changed
  <1>3. ASSUME NEW k \in Keys \ Secrets, At(from, k).yaml # At(to, k).yaml
        PROVE  <<k, At(from, k).yaml, At(to, k).yaml>> \in Reported(X)
    <2>1. PICK d \in X : d.key = k
      BY <1>1, <1>3
    <2>2. d \in PlanEntries(X) /\ d.diff = Difference(from, to, k) /\ d.diff # NoDiff
      BY <1>1, <1>3, <2>1 DEF PlanEntries
    <2>3. <<d.key, d.diff[1].yaml, d.diff[2].yaml>> = <<k, At(from, k).yaml, At(to, k).yaml>>
      BY <1>1, <2>1, <2>2
    <2>4. QED
      BY <2>2, <2>3 DEF Reported
  <1>4. Reported(X) \subseteq Changed(from, to)
    BY <1>2 DEF Reported
  <1>5. Changed(from, to) \subseteq Reported(X)
    BY <1>3 DEF Changed
  <1>6. QED
    BY <1>4, <1>5

\* What is on neither side does not differ.
LEMMA Absent ==
    ASSUME NEW from, NEW to, NEW k, k \notin DOMAIN from, k \notin DOMAIN to
    PROVE  Difference(from, to, k) = NoDiff
  <1>1. At(from, k) = Nothing /\ At(to, k) = Nothing
    BY DEF At
  <1>2. QED
    BY <1>1 DEF Difference, Unified

LEMMA ManifestsDiffExact ==
    ASSUME NEW current \in Listed, NEW target \in Listed
    PROVE  /\ ManifestsDiff(current, target) \subseteq Entries
           /\ Reported(ManifestsDiff(current, target))
              = Changed(ManifestMap(current), ManifestMap(target))
  <1> DEFINE from == ManifestMap(current)
             to == ManifestMap(target)
             X == ManifestsDiff(current, target)
  <1>1. /\ DOMAIN from \subseteq Keys /\ DOMAIN to \subseteq Keys
        /\ \A k : At(from, k) \in State /\ At(to, k) \in State
    BY ManifestMaps
  <1>2. X = {Entry(from, to, k) : k \in {j \in (DOMAIN from \union DOMAIN to) \ Secrets :
                                           Action(from, to, j) # "none"}}
    BY DEF ManifestsDiff
  <1> HIDE DEF from, to, X
  <1>3. ASSUME NEW d \in X
        PROVE  d \in Entries /\ d.key \in Keys \ Secrets /\ d.diff = Difference(from, to, d.key)
    <2>1. PICK k \in Keys \ Secrets : d = Entry(from, to, k)
      BY <1>1, <1>2
    <2>2. QED
      BY <1>1, <2>1, EntryTyped
  <1>4. ASSUME NEW k \in Keys \ Secrets, Difference(from, to, k) # NoDiff
        PROVE  \E d \in X : d.key = k
    <2>1. k \in DOMAIN from \union DOMAIN to
      BY <1>4, Absent
    <2>2. Action(from, to, k) # "none"
      BY <1>4, <2>1 DEF Action
    <2>3. Entry(from, to, k) \in X
      BY <1>2, <2>1, <2>2
    <2>4. QED
      BY <1>1, <2>3, EntryTyped
  <1>5. Reported(X) = Changed(from, to)
    BY <1>1, <1>3, <1>4, Exact
  <1>6. QED
    BY <1>3, <1>5 DEF X, from, to

LEMMA LiveVsTargetExact ==
    ASSUME NEW live \in SUBSET [key : Keys, state : State, hook : BOOLEAN],
           NEW target \in Listed
    PROVE  /\ LiveVsTargetDiff(live, target) \subseteq Entries
           /\ Reported(LiveVsTargetDiff(live, target))
              = Changed(LiveMap(live), ManifestMap(target))
  <1> DEFINE from == LiveMap(live)
             to == ManifestMap(target)
             X == LiveVsTargetDiff(live, target)
  <1>1. /\ DOMAIN from \subseteq Keys \ Secrets /\ DOMAIN to \subseteq Keys
        /\ \A k : At(from, k) \in State /\ At(to, k) \in State
    BY ManifestMaps, LiveMaps
  <1>2. X = {Entry(from, to, k) :
                k \in {j \in (DOMAIN to \ Secrets) \union (DOMAIN from \ DOMAIN to) :
                         Difference(from, to, j) # NoDiff}}
    BY DEF LiveVsTargetDiff
  <1> HIDE DEF from, to, X
  <1>3. ASSUME NEW d \in X
        PROVE  d \in Entries /\ d.key \in Keys \ Secrets /\ d.diff = Difference(from, to, d.key)
    <2>1. PICK k \in Keys \ Secrets : d = Entry(from, to, k)
      BY <1>1, <1>2
    <2>2. QED
      BY <1>1, <2>1, EntryTyped
  <1>4. ASSUME NEW k \in Keys \ Secrets, Difference(from, to, k) # NoDiff
        PROVE  \E d \in X : d.key = k
    <2>1. k \in DOMAIN from \union DOMAIN to
      BY <1>4, Absent
    <2>2. Entry(from, to, k) \in X
      BY <1>2, <1>4, <2>1
    <2>3. QED
      BY <1>1, <2>2, EntryTyped
  <1>5. Reported(X) = Changed(from, to)
    BY <1>1, <1>3, <1>4, Exact
  <1>6. QED
    BY <1>3, <1>5 DEF X, from, to

LEMMA ThreeWayExact ==
    ASSUME NEW base \in Listed, NEW target \in Listed,
           NEW live \in SUBSET [key : Keys, state : State, hook : BOOLEAN]
    PROVE  /\ ThreeWayDiff(base, target, live) \subseteq Entries
           /\ Reported(ThreeWayDiff(base, target, live))
              = Changed(ManifestMap(base), ManifestMap(target))
  <1> DEFINE from == ManifestMap(base)
             to == ManifestMap(target)
             at == LiveMap(live)
             X == ThreeWayDiff(base, target, live)
             Both(k) == [Entry(from, to, k) EXCEPT !.liveDiff = Difference(at, to, k)]
  <1>1. /\ DOMAIN from \subseteq Keys /\ DOMAIN to \subseteq Keys /\ DOMAIN at \subseteq Keys
        /\ \A k : At(from, k) \in State /\ At(to, k) \in State /\ At(at, k) \in State
    BY ManifestMaps, LiveMaps
  <1>2. X = {Both(k) : k \in {j \in (DOMAIN from \union DOMAIN to \union DOMAIN at) \ Secrets :
                                Difference(from, to, j) # NoDiff
                                \/ Difference(at, to, j) # NoDiff}}
    BY DEF ThreeWayDiff
  <1> HIDE DEF from, to, at, X
  <1>3. ASSUME NEW k \in Keys \ Secrets
        PROVE  Both(k) \in Entries /\ Both(k).key = k /\ Both(k).diff = Difference(from, to, k)
    <2>1. /\ Entry(from, to, k) \in Entries /\ Entry(from, to, k).key = k
          /\ Entry(from, to, k).diff = Difference(from, to, k)
      BY <1>1, EntryTyped
    <2>2. Difference(at, to, k) \in Changes
      BY <1>1, Differences
    <2>3. QED
      BY <2>1, <2>2 DEF Entries
  <1>4. ASSUME NEW d \in X
        PROVE  d \in Entries /\ d.key \in Keys \ Secrets /\ d.diff = Difference(from, to, d.key)
    <2>1. PICK k \in Keys \ Secrets : d = Both(k)
      BY <1>1, <1>2
    <2> HIDE DEF Both
    <2>2. QED
      BY <1>3, <2>1
  <1>5. ASSUME NEW k \in Keys \ Secrets, Difference(from, to, k) # NoDiff
        PROVE  \E d \in X : d.key = k
    <2>1. k \in DOMAIN from \union DOMAIN to
      BY <1>5, Absent
    <2>2. Both(k) \in X
      BY <1>2, <1>5, <2>1
    <2> HIDE DEF Both
    <2>3. QED
      BY <1>3, <2>2
  <1>6. Reported(X) = Changed(from, to)
    BY <1>1, <1>4, <1>5, Exact
  <1>7. QED
    BY <1>4, <1>6 DEF X, from, to

-----------------------------------------------------------------------------
(* What a plan is about. *)

LEMMA PlansOf ==
    ASSUME world \in Worlds, NEW p \in world.plans, NEW s \in {"base", "head"}
    PROVE  /\ p \in Plan /\ p.pr \in PRs
           /\ TempName(p, s) \in Names
           /\ TempSpec(p, s) \in [of : Apps, branch : PRs \union {0}]
           /\ TempSpec(p, s).branch = IF s = "base" THEN 0 ELSE p.pr
           /\ TempSpec(p, s).of = p.app
  <1>1. p \in Plan /\ p.pr \in PRs
    BY TempAppsAssumption DEF PRs
  <1>2. TempName(p, s) \in Names
    BY <1>1 DEF TempName, Names, Plan
  <1>3. QED
    BY <1>1, <1>2 DEF TempSpec, Plan

LEMMA IsSeq ==
    ASSUME NEW S, NEW n \in Nat, NEW f \in [1..n -> S]
    PROVE  f \in Seq(S) /\ Len(f) = n
  OBVIOUS

LEMMA Pairs ==
    ASSUME NEW a, NEW b, NEW c, NEW d
    PROVE  <<a, b>> = <<c, d>> <=> a = c /\ b = d
  OBVIOUS

LEMMA Renders ==
    ASSUME world \in Worlds, NEW b \in PRs \union {0}
    PROVE  LET list == world.render[b]
               out == [i \in DOMAIN list |-> [list[i] EXCEPT !.key = <<@, "own">>]]
           IN /\ out \in Listed
              /\ \A k \in Keys : At(ManifestMap(out), k).yaml = Said(list, k)
  <1> DEFINE R == {k[1] : k \in {j \in Keys : j[2] = "own"}}
             list == world.render[b]
             out == [i \in DOMAIN list |-> [list[i] EXCEPT !.key = <<@, "own">>]]
  <1>1. list \in Seq([key : R, state : State])
    BY TempAppsAssumption
  <1>2. /\ DOMAIN list = 1..Len(list) /\ Len(list) \in Nat
        /\ \A i \in DOMAIN list : list[i] \in [key : R, state : State]
    BY <1>1, Elements
  <1>3. ASSUME NEW x \in R
        PROVE  <<x, "own">> \in Keys
    BY TempAppsAssumption
  <1> HIDE DEF R, list
  <1>4. ASSUME NEW i \in DOMAIN list
        PROVE  /\ out[i].key = <<list[i].key, "own">> /\ out[i].state = list[i].state
               /\ out[i] \in [key : Keys, state : State]
    <2>1. out[i] = [key |-> <<list[i].key, "own">>, state |-> list[i].state]
      BY <1>2
    <2>2. QED
      BY <1>2, <1>3, <2>1
  <1>5. DOMAIN out = DOMAIN list
    OBVIOUS
  <1> HIDE DEF out
  <1>6. out \in Listed
    <2>1. out \in [1..Len(list) -> [key : Keys, state : State]]
      BY <1>2, <1>4, <1>5 DEF out
    <2>2. QED
      BY <1>2, <2>1, IsSeq DEF Listed
  <1>7. ASSUME NEW k \in Keys
        PROVE  At(ManifestMap(out), k).yaml = Said(list, k)
    <2>1. k = <<k[1], k[2]>>
      BY TempAppsAssumption
    <2>2. \A i \in DOMAIN list : out[i].key = k <=> list[i].key = k[1] /\ k[2] = "own"
      <3> SUFFICES ASSUME NEW i \in DOMAIN list
                   PROVE  out[i].key = k <=> list[i].key = k[1] /\ k[2] = "own"
        OBVIOUS
      <3>1. out[i].key = <<list[i].key, "own">>
        BY <1>4
      <3>2. QED
        BY <2>1, <3>1, Pairs
    <2>3. CASE \E i \in DOMAIN list : list[i].key = k[1] /\ k[2] = "own"
      <3> DEFINE m == LastOf(out, k)
                 n == LastOf(list, k[1])
      <3>1. /\ m \in DOMAIN out /\ out[m].key = k
            /\ \A j \in DOMAIN out : out[j].key = k => j <= m
        BY <1>5, <1>6, <2>2, <2>3, LastExists DEF Listed
      <3>2. /\ n \in DOMAIN list /\ list[n].key = k[1]
            /\ \A j \in DOMAIN list : list[j].key = k[1] => j <= n
        <4>1. list \in Seq([key : R, state : State])
          BY <1>1 DEF list
        <4>2. QED
          BY <2>3, <4>1, LastExists
      <3> HIDE DEF m, n
      <3>3. m <= n /\ n <= m
        BY <1>5, <2>2, <2>3, <3>1, <3>2
      <3>4. m = n
        BY <1>2, <1>5, <3>1, <3>2, <3>3
      <3>5. k \in DOMAIN ManifestMap(out) /\ ManifestMap(out)[k] = out[m].state
        BY <1>6, <3>1, ManifestMaps DEF m
      <3>6. At(ManifestMap(out), k).yaml = list[n].state.yaml
        <4>1. out[m].state = list[n].state
          BY <1>4, <3>2, <3>4
        <4>2. At(ManifestMap(out), k) = out[m].state
          BY <3>5 DEF At
        <4>3. QED
          BY <4>1, <4>2
      <3>7. QED
        BY <2>3, <3>6 DEF Said, n
    <2>4. CASE ~\E i \in DOMAIN list : list[i].key = k[1] /\ k[2] = "own"
      <3>1. k \notin DOMAIN ManifestMap(out)
        <4>1. DOMAIN ManifestMap(out) = {out[i].key : i \in DOMAIN out}
          BY <1>6, ManifestMaps
        <4>2. QED
          BY <1>5, <2>2, <2>4, <4>1
      <3>2. QED
        BY <2>4, <3>1 DEF At, Nothing, Said
    <2>5. QED
      BY <2>3, <2>4
  <1>8. QED
    BY <1>6, <1>7 DEF list, out

LEMMA EmptyList == <<>> \in Listed /\ \A k : At(ManifestMap(<<>>), k).yaml = "null"
  <1>1. <<>> \in Listed
    BY DEF Listed
  <1>2. DOMAIN ManifestMap(<<>>) = {}
    BY DEF ManifestMap
  <1>3. QED
    BY <1>1, <1>2 DEF At, Nothing

LEMMA LiveSays ==
    ASSUME world \in Worlds
    PROVE  /\ world.live \in SUBSET [key : Keys, state : State, hook : BOOLEAN]
           /\ \A k \in Keys \ Secrets : At(LiveMap(world.live), k).yaml = Lives(k)
  <1>1. world.live \in SUBSET [key : Keys, state : State, hook : BOOLEAN]
    BY TempAppsAssumption
  <1>2. ASSUME NEW k \in Keys \ Secrets
        PROVE  At(LiveMap(world.live), k).yaml = Lives(k)
    <2>1. k \in DOMAIN LiveMap(world.live) <=> \E s \in world.live : s.key = k /\ ~s.hook
      <3>1. DOMAIN LiveMap(world.live)
            = {s.key : s \in {s \in world.live : ~s.hook}} \ Secrets
        BY <1>1, LiveMaps
      <3>2. QED
        BY <1>2, <3>1
    <2>2. CASE k \in DOMAIN LiveMap(world.live)
      BY <1>1, <2>1, <2>2, LiveMaps DEF At, Lives
    <2>3. CASE k \notin DOMAIN LiveMap(world.live)
      BY <2>1, <2>3 DEF At, Nothing, Lives
    <2>4. QED
      BY <2>2, <2>3
  <1>3. QED
    BY <1>1, <1>2

\* The members of a sequence that is written out.
LEMMA Members1 == \A a, x : Has(<<a>>, x) <=> x \in {a}
  BY DEF Has

LEMMA Members2 == \A a, b, x : Has(<<a, b>>, x) <=> x \in {a, b}
  BY DEF Has

LEMMA Members3 == \A a, b, c, x : Has(<<a, b, c>>, x) <=> x \in {a, b, c}
  BY DEF Has

LEMMA Members4 == \A a, b, c, d, x : Has(<<a, b, c, d>>, x) <=> x \in {a, b, c, d}
  BY DEF Has

LEMMA Members5 == \A a, b, c, d, e, x : Has(<<a, b, c, d, e>>, x) <=> x \in {a, b, c, d, e}
  BY DEF Has

\* The lists of steps.
LEMMA StepLists ==
    ASSUME NEW p \in Plan
    PROVE  LET t == Steps(p)
           IN \/ /\ p.kind = "new" /\ t = <<"clear", "create head", "wait head">>
              \/ /\ p.kind = "deleted" /\ p.mode = "branch" /\ t = <<"create base", "wait base">>
              \/ /\ p.kind = "deleted" /\ p.mode = "live" /\ t = <<"live">>
              \/ /\ p.kind = "deleted" /\ p.mode = "both"
                 /\ t = <<"live", "create base", "wait base">>
              \/ /\ p.kind = "existing" /\ p.mode = "branch"
                 /\ t = <<"create base", "create head", "wait base", "wait head">>
              \/ /\ p.kind = "existing" /\ p.mode = "live"
                 /\ t = <<"live", "create head", "wait head">>
              \/ /\ p.kind = "existing" /\ p.mode = "both"
                 /\ t = <<"live", "create base", "create head", "wait base", "wait head">>
  <1>1. p.kind \in Kinds /\ p.mode \in Modes
    BY DEF Plan
  <1>2. CASE p.kind = "new"
    BY <1>2 DEF Steps
  <1>3. CASE p.kind = "deleted"
    BY <1>1, <1>3 DEF Steps, Modes
  <1>4. CASE p.kind = "existing"
    BY <1>1, <1>4 DEF Steps, Modes
  <1>5. QED
    BY <1>1, <1>2, <1>3, <1>4 DEF Kinds

LEMMA StepSets ==
    ASSUME NEW p \in Plan
    PROVE  LET In(S) == \A x : Has(Steps(p), x) <=> x \in S
           IN \/ /\ p.kind = "new" /\ In({"clear", "create head", "wait head"})
              \/ /\ p.kind = "deleted" /\ p.mode = "branch" /\ In({"create base", "wait base"})
              \/ /\ p.kind = "deleted" /\ p.mode = "live" /\ In({"live"})
              \/ /\ p.kind = "deleted" /\ p.mode = "both"
                 /\ In({"live", "create base", "wait base"})
              \/ /\ p.kind = "existing" /\ p.mode = "branch"
                 /\ In({"create base", "create head", "wait base", "wait head"})
              \/ /\ p.kind = "existing" /\ p.mode = "live"
                 /\ In({"live", "create head", "wait head"})
              \/ /\ p.kind = "existing" /\ p.mode = "both"
                 /\ In({"live", "create base", "create head", "wait base", "wait head"})
  <1> DEFINE t == Steps(p)
  <1> HIDE DEF t
  <1>1. ASSUME t = <<"clear", "create head", "wait head">>
        PROVE  \A x : Has(t, x) <=> x \in {"clear", "create head", "wait head"}
    BY <1>1, Members3, Zenon
  <1>2. ASSUME t = <<"create base", "wait base">>
        PROVE  \A x : Has(t, x) <=> x \in {"create base", "wait base"}
    BY <1>2, Members2, Zenon
  <1>3. ASSUME t = <<"live">>
        PROVE  \A x : Has(t, x) <=> x \in {"live"}
    BY <1>3, Members1, Zenon
  <1>4. ASSUME t = <<"live", "create base", "wait base">>
        PROVE  \A x : Has(t, x) <=> x \in {"live", "create base", "wait base"}
    BY <1>4, Members3, Zenon
  <1>5. ASSUME t = <<"create base", "create head", "wait base", "wait head">>
        PROVE  \A x : Has(t, x) <=> x \in {"create base", "create head", "wait base", "wait head"}
    BY <1>5, Members4, Zenon
  <1>6. ASSUME t = <<"live", "create head", "wait head">>
        PROVE  \A x : Has(t, x) <=> x \in {"live", "create head", "wait head"}
    BY <1>6, Members3, Zenon
  <1>7. ASSUME t = <<"live", "create base", "create head", "wait base", "wait head">>
        PROVE  \A x : Has(t, x) <=> x \in {"live", "create base", "create head", "wait base", "wait head"}
    BY <1>7, Members5, Zenon
  <1>8. QED
    BY <1>1, <1>2, <1>3, <1>4, <1>5, <1>6, <1>7, StepLists, Zenon DEF t

\* Which branches a plan renders and whether it looks at the cluster.
LEMMA StepsLook ==
    ASSUME NEW p \in Plan
    PROVE  /\ Has(Steps(p), WaitOf["base"]) <=> p.kind # "new" /\ p.mode # "live"
           /\ Has(Steps(p), WaitOf["head"]) <=> p.kind # "deleted"
           /\ Has(Steps(p), "live") <=> p.kind # "new" /\ p.mode # "branch"
           /\ Has(Steps(p), CreateOf["base"]) <=> Has(Steps(p), WaitOf["base"])
           /\ Has(Steps(p), CreateOf["head"]) <=> Has(Steps(p), WaitOf["head"])
           /\ Has(Steps(p), "clear") => p.kind = "new"
  <1> DEFINE H(x) == Has(Steps(p), x)
             Right == /\ H("wait base") <=> p.kind # "new" /\ p.mode # "live"
                      /\ H("wait head") <=> p.kind # "deleted"
                      /\ H("live") <=> p.kind # "new" /\ p.mode # "branch"
                      /\ H("create base") <=> H("wait base")
                      /\ H("create head") <=> H("wait head")
                      /\ H("clear") => p.kind = "new"
  <1> HIDE DEF H
  <1>1. ASSUME p.kind = "new", \A x : H(x) <=> x \in {"clear", "create head", "wait head"}
        PROVE  Right
    <2>1. H("clear") /\ H("create head") /\ H("wait head")
      BY <1>1, Zenon
    <2>2. ~H("live") /\ ~H("create base") /\ ~H("wait base")
      BY <1>1, Zenon
    <2>3. QED
      BY <1>1, <2>1, <2>2
  <1>2. ASSUME p.kind = "deleted", p.mode = "branch",
               \A x : H(x) <=> x \in {"create base", "wait base"}
        PROVE  Right
    <2>1. H("create base") /\ H("wait base")
      BY <1>2, Zenon
    <2>2. ~H("clear") /\ ~H("live") /\ ~H("create head") /\ ~H("wait head")
      BY <1>2, Zenon
    <2>3. QED
      BY <1>2, <2>1, <2>2
  <1>3. ASSUME p.kind = "deleted", p.mode = "live", \A x : H(x) <=> x \in {"live"}
        PROVE  Right
    <2>1. H("live")
      BY <1>3, Zenon
    <2>2. ~H("clear") /\ ~H("create base") /\ ~H("create head") /\ ~H("wait base") /\ ~H("wait head")
      BY <1>3, Zenon
    <2>3. QED
      BY <1>3, <2>1, <2>2
  <1>4. ASSUME p.kind = "deleted", p.mode = "both",
               \A x : H(x) <=> x \in {"live", "create base", "wait base"}
        PROVE  Right
    <2>1. H("live") /\ H("create base") /\ H("wait base")
      BY <1>4, Zenon
    <2>2. ~H("clear") /\ ~H("create head") /\ ~H("wait head")
      BY <1>4, Zenon
    <2>3. QED
      BY <1>4, <2>1, <2>2
  <1>5. ASSUME p.kind = "existing", p.mode = "branch",
               \A x : H(x) <=> x \in {"create base", "create head", "wait base", "wait head"}
        PROVE  Right
    <2>1. H("create base") /\ H("create head") /\ H("wait base") /\ H("wait head")
      BY <1>5, Zenon
    <2>2. ~H("clear") /\ ~H("live")
      BY <1>5, Zenon
    <2>3. QED
      BY <1>5, <2>1, <2>2
  <1>6. ASSUME p.kind = "existing", p.mode = "live",
               \A x : H(x) <=> x \in {"live", "create head", "wait head"}
        PROVE  Right
    <2>1. H("live") /\ H("create head") /\ H("wait head")
      BY <1>6, Zenon
    <2>2. ~H("clear") /\ ~H("create base") /\ ~H("wait base")
      BY <1>6, Zenon
    <2>3. QED
      BY <1>6, <2>1, <2>2
  <1>7. ASSUME p.kind = "existing", p.mode = "both",
               \A x : H(x) <=> x \in {"live", "create base", "create head", "wait base", "wait head"}
        PROVE  Right
    <2>1. H("live") /\ H("create base") /\ H("create head") /\ H("wait base") /\ H("wait head")
      BY <1>7, Zenon
    <2>2. ~H("clear")
      BY <1>7, Zenon
    <2>3. QED
      BY <1>7, <2>1, <2>2
  <1>8. Right
    BY <1>1, <1>2, <1>3, <1>4, <1>5, <1>6, <1>7, StepSets, Zenon DEF H
  <1>9. QED
    BY <1>8 DEF WaitOf, CreateOf, H

\* A plan that has fetched what it looks at reports exactly what differs.
LEMMA Compared ==
    ASSUME world \in Worlds, NEW k, k.plan \in world.plans, k.todo = <<>>, Fetched(world, k)
    PROVE  /\ Compare(k) \subseteq Entries
           /\ Reported(Compare(k))
              = {<<j, Before(k.plan, j), After(k.plan, j)>> :
                    j \in {j \in Keys \ Secrets : Before(k.plan, j) # After(k.plan, j)}}
  <1> DEFINE p == k.plan
             to == ManifestMap(k.head)
             old == ManifestMap(k.base)
             at == LiveMap(k.live)
  <1>1. p \in Plan /\ p.pr \in PRs /\ p.kind \in Kinds /\ p.mode \in Modes
    BY PlansOf DEF Plan
  <1>2. \A x : ~Has(k.todo, x)
    BY DEF Has
  <1>3. /\ k.base = IF p.kind # "new" /\ p.mode # "live" THEN Rendered(world, p, "base") ELSE <<>>
        /\ k.head = IF p.kind # "deleted" THEN Rendered(world, p, "head") ELSE <<>>
        /\ k.live = IF p.kind # "new" /\ p.mode # "branch" THEN world.live ELSE {}
    BY <1>1, <1>2, StepsLook DEF Fetched, Got
  <1>4. /\ Rendered(world, p, "base") \in Listed /\ Rendered(world, p, "head") \in Listed
        /\ \A j \in Keys :
              /\ At(ManifestMap(Rendered(world, p, "base")), j).yaml = Said(world.render[0], j)
              /\ At(ManifestMap(Rendered(world, p, "head")), j).yaml = Said(world.render[p.pr], j)
    <2>1. TempSpec(p, "base").branch = 0 /\ TempSpec(p, "head").branch = p.pr
      BY PlansOf
    <2>2. 0 \in PRs \union {0} /\ p.pr \in PRs \union {0}
      BY <1>1
    <2>3. QED
      BY <2>1, <2>2, Renders DEF Rendered
  <1>5. /\ k.base \in Listed /\ k.head \in Listed
        /\ k.live \in SUBSET [key : Keys, state : State, hook : BOOLEAN]
    BY <1>3, <1>4, EmptyList, LiveSays
  <1>6. \A j \in Keys \ Secrets : At(to, j).yaml = After(p, j)
    BY <1>3, <1>4, EmptyList DEF After
  <1>7. ASSUME p.kind = "new" \/ p.mode # "live", NEW j \in Keys \ Secrets
        PROVE  At(old, j).yaml = Before(p, j)
    BY <1>3, <1>4, <1>7, EmptyList DEF Before
  <1>8. ASSUME p.kind # "new", p.mode = "live", NEW j \in Keys \ Secrets
        PROVE  At(at, j).yaml = Before(p, j)
    BY <1>3, <1>8, LiveSays DEF Before
  <1> DEFINE Right == {<<j, Before(p, j), After(p, j)>> :
                          j \in {j \in Keys \ Secrets : Before(p, j) # After(p, j)}}
  <1>9. ASSUME NEW from, \A j \in Keys \ Secrets : At(from, j).yaml = Before(p, j)
        PROVE  Changed(from, to) = Right
    <2> HIDE DEF to, p
    <2>1. {j \in Keys \ Secrets : At(from, j).yaml # At(to, j).yaml}
          = {j \in Keys \ Secrets : Before(p, j) # After(p, j)}
      BY <1>6, <1>9
    <2> DEFINE D == {j \in Keys \ Secrets : Before(p, j) # After(p, j)}
    <2>2. Changed(from, to) = {<<j, At(from, j).yaml, At(to, j).yaml>> : j \in D}
      BY <2>1 DEF Changed
    <2>3. \A j \in D : <<j, At(from, j).yaml, At(to, j).yaml>> = <<j, Before(p, j), After(p, j)>>
      BY <1>6, <1>9
    <2> HIDE DEF D
    <2>4. {<<j, At(from, j).yaml, At(to, j).yaml>> : j \in D}
          = {<<j, Before(p, j), After(p, j)>> : j \in D}
      BY <2>3
    <2>5. QED
      BY <2>2, <2>4 DEF D
  <1>10. CASE p.kind # "new" /\ p.mode = "live"
    <2>1. Compare(k) = LiveVsTargetDiff(k.live, k.head)
      BY <1>10 DEF Compare
    <2>2. Compare(k) \subseteq Entries /\ Reported(Compare(k)) = Changed(at, to)
      BY <1>5, <2>1, LiveVsTargetExact
    <2>3. QED
      BY <1>8, <1>9, <1>10, <2>2
  <1>11. CASE p.kind # "new" /\ p.mode = "both"
    <2>1. Compare(k) = ThreeWayDiff(k.base, k.head, k.live)
      BY <1>11 DEF Compare
    <2>2. Compare(k) \subseteq Entries /\ Reported(Compare(k)) = Changed(old, to)
      BY <1>5, <2>1, ThreeWayExact
    <2>3. QED
      BY <1>7, <1>9, <1>11, <2>2
  <1>12. CASE p.kind = "new" \/ p.mode = "branch"
    <2>1. Compare(k) = ManifestsDiff(k.base, k.head)
      BY <1>12 DEF Compare
    <2>2. Compare(k) \subseteq Entries /\ Reported(Compare(k)) = Changed(old, to)
      BY <1>5, <2>1, ManifestsDiffExact
    <2>3. QED
      BY <1>7, <1>9, <1>12, <2>2
  <1>13. QED
    BY <1>1, <1>10, <1>11, <1>12 DEF Modes

-----------------------------------------------------------------------------
(* Steps of a worker. *)

LEMMA Tails ==
    ASSUME NEW S, NEW t \in Seq(S), t # <<>>
    PROVE  /\ Tail(t) \in Seq(S) /\ Len(t) \in Nat /\ Len(t) > 0 /\ Len(Tail(t)) = Len(t) - 1
           /\ \A i \in 1..Len(Tail(t)) : Tail(t)[i] = t[i + 1]
           /\ Head(t) = t[1]
  OBVIOUS

LEMMA Appended ==
    ASSUME NEW S, NEW t \in Seq(S), NEW x \in S
    PROVE  /\ Append(t, x) \in Seq(S) /\ Len(t) \in Nat /\ Len(Append(t, x)) = Len(t) + 1
           /\ \A i \in 1..Len(t) : Append(t, x)[i] = t[i]
           /\ Append(t, x)[Len(t) + 1] = x
  OBVIOUS

LEMMA Fronts ==
    ASSUME NEW S, NEW t \in Seq(S), t # <<>>
    PROVE  /\ Front(t) \in Seq(S) /\ Len(t) \in Nat /\ Len(t) > 0 /\ Len(Front(t)) = Len(t) - 1
           /\ \A i \in 1..Len(Front(t)) : Front(t)[i] = t[i]
           /\ Last(t) = t[Len(t)] /\ Last(t) \in S
  <1>1. Len(t) \in Nat /\ Len(t) > 0
    OBVIOUS
  <1>2. Front(t) = [i \in 1..(Len(t) - 1) |-> t[i]]
    BY <1>1 DEF Front
  <1>3. Front(t) \in [1..(Len(t) - 1) -> S]
    BY <1>1, <1>2
  <1>4. Front(t) \in Seq(S) /\ Len(Front(t)) = Len(t) - 1
    BY <1>1, <1>3, IsSeq
  <1>5. QED
    BY <1>1, <1>2, <1>4 DEF Last

LEMMA OneMore ==
    ASSUME NEW S, NEW t \in Seq(S), NEW x \in S
    PROVE  \A y : Has(Append(t, x), y) <=> Has(t, y) \/ y = x
  <1>1. /\ Len(t) \in Nat /\ Len(Append(t, x)) = Len(t) + 1
        /\ \A i \in 1..Len(t) : Append(t, x)[i] = t[i]
        /\ Append(t, x)[Len(t) + 1] = x
    BY Appended
  <1>2. QED
    BY <1>1 DEF Has

\* Each step is taken off the list once, and nothing that comes before it is left.
LEMMA Advance ==
    ASSUME NEW w, NEW k, Steady(w, k), k.todo # <<>>
    PROVE  LET t == Tail(k.todo)
               h == Head(k.todo)
           IN /\ t \in Seq(StepNames)
              /\ Has(k.todo, h)
              /\ \A x : Has(t, x) <=> Has(k.todo, x) /\ x # h
              /\ \A i, j \in 1..Len(t) : i # j => t[i] # t[j]
              /\ \A s \in {"base", "head"} :
                    /\ \A i, j \in 1..Len(t) : t[i] = WaitOf[s] /\ t[j] = CreateOf[s] => j < i
                    /\ h = WaitOf[s] => ~Has(k.todo, CreateOf[s])
              /\ ~Has(t, "clear")
  <1> DEFINE o == k.todo
             t == Tail(o)
             h == Head(o)
  <1>1. /\ o \in Seq(StepNames) /\ o # <<>>
        /\ \A i, j \in 1..Len(o) : i # j => o[i] # o[j]
        /\ \A s \in {"base", "head"} : \A i, j \in 1..Len(o) :
              o[i] = WaitOf[s] /\ o[j] = CreateOf[s] => j < i
        /\ Has(o, "clear") => o[1] = "clear"
    BY DEF Steady
  <1> HIDE DEF o
  <1>2. /\ t \in Seq(StepNames) /\ Len(o) \in Nat /\ Len(o) > 0 /\ Len(t) = Len(o) - 1
        /\ \A i \in 1..Len(t) : t[i] = o[i + 1]
        /\ h = o[1]
    BY <1>1, Tails
  <1> HIDE DEF t, h
  <1>3. \A i \in 1..Len(t) : i + 1 \in 1..Len(o) /\ i + 1 # 1
    BY <1>2
  <1>4. Has(o, h)
    BY <1>2 DEF Has
  <1>5. ASSUME NEW x
        PROVE  Has(t, x) <=> Has(o, x) /\ x # h
    <2>1. ASSUME Has(t, x)
          PROVE  Has(o, x) /\ x # h
      <3>1. PICK i \in 1..Len(t) : t[i] = x
        BY <2>1 DEF Has
      <3>2. x = o[i + 1] /\ 1 \in 1..Len(o)
        BY <1>2, <3>1
      <3>3. QED
        BY <1>1, <1>2, <1>3, <3>1, <3>2 DEF Has
    <2>2. ASSUME Has(o, x), x # h
          PROVE  Has(t, x)
      <3>1. PICK i \in 1..Len(o) : o[i] = x
        BY <2>2 DEF Has
      <3>2. i - 1 \in 1..Len(t) /\ (i - 1) + 1 = i
        BY <1>2, <2>2, <3>1
      <3>3. t[i - 1] = x
        BY <1>2, <3>1, <3>2
      <3>4. QED
        BY <3>2, <3>3 DEF Has
    <2>3. QED
      BY <2>1, <2>2
  <1>6. \A i, j \in 1..Len(t) : i # j => t[i] # t[j]
    <2> SUFFICES ASSUME NEW i \in 1..Len(t), NEW j \in 1..Len(t), i # j PROVE t[i] # t[j]
      OBVIOUS
    <2>1. i + 1 # j + 1
      BY <1>2
    <2>2. QED
      BY <1>1, <1>2, <1>3, <2>1
  <1>7. ASSUME NEW s \in {"base", "head"}
        PROVE  /\ \A i, j \in 1..Len(t) : t[i] = WaitOf[s] /\ t[j] = CreateOf[s] => j < i
               /\ h = WaitOf[s] => ~Has(o, CreateOf[s])
    <2>1. ASSUME NEW i \in 1..Len(t), NEW j \in 1..Len(t), t[i] = WaitOf[s], t[j] = CreateOf[s]
          PROVE  j < i
      <3>1. o[i + 1] = WaitOf[s] /\ o[j + 1] = CreateOf[s]
        BY <1>2, <2>1
      <3>2. j + 1 < i + 1
        BY <1>1, <1>3, <3>1
      <3>3. QED
        BY <1>2, <3>2
    <2>2. ASSUME h = WaitOf[s], Has(o, CreateOf[s])
          PROVE  FALSE
      <3>1. PICK j \in 1..Len(o) : o[j] = CreateOf[s]
        BY <2>2 DEF Has
      <3>2. 1 \in 1..Len(o) /\ o[1] = WaitOf[s]
        BY <1>2, <2>2
      <3>3. j < 1
        BY <1>1, <3>1, <3>2
      <3>4. QED
        BY <3>1, <3>3
    <2>3. QED
      BY <2>1, <2>2
  <1>8. ~Has(t, "clear")
    BY <1>1, <1>2, <1>5
  <1>9. QED
    BY <1>2, <1>4, <1>5, <1>6, <1>7, <1>8 DEF o, t, h

\* A step that creates nothing.
LEMMA Passes ==
    ASSUME NEW w, NEW k, Steady(w, k), k.todo # <<>>,
           Head(k.todo) \notin {CreateOf["base"], CreateOf["head"]},
           NEW m, m.plan = k.plan, m.made = k.made, m.todo = Tail(k.todo)
    PROVE  Steady(w, m)
  <1> DEFINE t == Tail(k.todo)
             h == Head(k.todo)
  <1>1. /\ t \in Seq(StepNames)
        /\ \A x : Has(t, x) <=> Has(k.todo, x) /\ x # h
        /\ \A i, j \in 1..Len(t) : i # j => t[i] # t[j]
        /\ \A s \in {"base", "head"} :
              \A i, j \in 1..Len(t) : t[i] = WaitOf[s] /\ t[j] = CreateOf[s] => j < i
        /\ ~Has(t, "clear")
    BY Advance
  <1>2. \A s \in {"base", "head"} : Has(t, CreateOf[s]) <=> Has(k.todo, CreateOf[s])
    BY <1>1
  <1>3. m.todo = t
    OBVIOUS
  <1> HIDE DEF t, h
  <1>4. QED
    BY <1>1, <1>2, <1>3 DEF Steady

\* A step that creates one of the two.
LEMMA Creates ==
    ASSUME world \in Worlds, NEW k, Steady(world, k), k.todo # <<>>, NEW s \in {"base", "head"},
           Head(k.todo) = CreateOf[s],
           NEW m, m.plan = k.plan, m.todo = Tail(k.todo),
           m.made = Append(k.made, TempName(k.plan, s))
    PROVE  Steady(world, m)
  <1> DEFINE t == Tail(k.todo)
             h == Head(k.todo)
             p == k.plan
             n == TempName(p, s)
  <1>1. /\ t \in Seq(StepNames) /\ Has(k.todo, h)
        /\ \A x : Has(t, x) <=> Has(k.todo, x) /\ x # h
        /\ \A i, j \in 1..Len(t) : i # j => t[i] # t[j]
        /\ \A c \in {"base", "head"} :
              \A i, j \in 1..Len(t) : t[i] = WaitOf[c] /\ t[j] = CreateOf[c] => j < i
        /\ ~Has(t, "clear")
    BY Advance
  <1>2. /\ p \in world.plans /\ s \in Sides(p) /\ ~Has(k.made, n)
        /\ k.made \in Seq(Names) /\ Len(k.made) <= 2
        /\ \A i, j \in 1..Len(k.made) : i # j => k.made[i] # k.made[j]
        /\ \A i \in 1..Len(k.made) : \E c \in Sides(p) : k.made[i] = TempName(p, c)
    BY <1>1 DEF Steady
  <1>3. n \in Names
    BY <1>2, PlansOf
  <1>4. /\ m.made \in Seq(Names) /\ Len(k.made) \in Nat /\ Len(m.made) = Len(k.made) + 1
        /\ \A i \in 1..Len(k.made) : m.made[i] = k.made[i]
        /\ m.made[Len(k.made) + 1] = n
        /\ \A y : Has(m.made, y) <=> Has(k.made, y) \/ y = n
    BY <1>2, <1>3, Appended, OneMore
  <1>5. \A i \in 1..Len(m.made) : i \in 1..Len(k.made) \/ i = Len(k.made) + 1
    BY <1>4
  <1>6. \A i, j \in 1..Len(m.made) : i # j => m.made[i] # m.made[j]
    BY <1>2, <1>4, <1>5 DEF Has
  <1>7. \A i \in 1..Len(m.made) : \E c \in Sides(p) : m.made[i] = TempName(p, c)
    BY <1>2, <1>4, <1>5
  <1>8. Len(m.made) <= 2
    <2>1. ASSUME Len(k.made) = 2
          PROVE  FALSE
      <3>1. \A i \in 1..2 : k.made[i] # n /\ \E c \in Sides(p) : k.made[i] = TempName(p, c)
        BY <1>2, <2>1 DEF Has
      <3>2. k.made[1] # k.made[2]
        BY <1>2, <2>1
      <3>3. Sides(p) \subseteq {"base", "head"}
        BY DEF Sides
      <3>4. \A i \in 1..2 : \E c \in {"base", "head"} \ {s} : k.made[i] = TempName(p, c)
        BY <3>1, <3>3
      <3>5. QED
        BY <3>2, <3>4
    <2>2. /\ Len(k.made) \in Nat /\ Len(k.made) <= 2 /\ Len(k.made) # 2
          /\ Len(m.made) = Len(k.made) + 1
      BY <1>2, <1>4, <2>1
    <2>3. \A x \in Nat : \A y : x <= 2 /\ x # 2 /\ y = x + 1 => y <= 2
      OBVIOUS
    <2>4. QED
      BY <2>2, <2>3, Zenon
  <1>9. ASSUME NEW c \in {"base", "head"}, Has(t, CreateOf[c])
        PROVE  c \in Sides(p) /\ ~Has(m.made, TempName(p, c))
    <2>1. Has(k.todo, CreateOf[c]) /\ c # s
      BY <1>1, <1>9
    <2>2. c \in Sides(p) /\ ~Has(k.made, TempName(p, c))
      BY <2>1 DEF Steady
    <2>3. p.kind # "new"
      BY <1>2, <2>1, <2>2 DEF Sides
    <2>4. TempName(p, c).suffix = c /\ n.suffix = s
      BY <2>3 DEF TempName
    <2>5. QED
      BY <1>4, <2>1, <2>2, <2>4
  <1>10. ASSUME NEW c \in {"base", "head"}, Has(t, WaitOf[c])
         PROVE  /\ c \in Sides(p) /\ Has(Steps(p), WaitOf[c])
                /\ Has(t, CreateOf[c]) \/ Has(m.made, TempName(p, c))
    <2>1. /\ c \in Sides(p) /\ Has(Steps(p), WaitOf[c])
          /\ Has(k.todo, CreateOf[c]) \/ Has(k.made, TempName(p, c))
      BY <1>1, <1>10 DEF Steady
    <2>2. CASE c = s
      BY <1>4, <2>1, <2>2
    <2>3. CASE c # s
      <3>1. CreateOf[c] # h
        <4>1. CreateOf["base"] # CreateOf["head"]
          BY DEF CreateOf
        <4>2. QED
          BY <2>3, <4>1
      <3>2. QED
        BY <1>1, <1>4, <2>1, <3>1
    <2>4. QED
      BY <2>2, <2>3
  <1>11. Has(t, "live") => Has(Steps(p), "live")
    BY <1>1 DEF Steady
  <1>12. m.todo = t /\ m.plan = p
    OBVIOUS
  <1> HIDE DEF t, h, p, n
  <1>13. QED
    BY <1>1, <1>2, <1>4, <1>6, <1>7, <1>8, <1>9, <1>10, <1>11, <1>12 DEF Steady

\* The steps of a plan come once each, and a branch is waited for after it was created.
\* The lists are told apart by their steps alone, whatever these are called.
Differ(S, cl, lv, cb, ch, wb, wh) ==
    /\ {cl, lv, cb, ch, wb, wh} \subseteq S
    /\ cl # lv /\ cl # cb /\ cl # ch /\ cl # wb /\ cl # wh
    /\ lv # cb /\ lv # ch /\ lv # wb /\ lv # wh
    /\ cb # ch /\ cb # wb /\ cb # wh
    /\ ch # wb /\ ch # wh /\ wb # wh
OneList(t, cl, lv, cb, ch, wb, wh) ==
    \/ t = <<cl, ch, wh>>
    \/ t = <<cb, wb>>
    \/ t = <<lv>>
    \/ t = <<lv, cb, wb>>
    \/ t = <<cb, ch, wb, wh>>
    \/ t = <<lv, ch, wh>>
    \/ t = <<lv, cb, ch, wb, wh>>
Ordered(t, S, cl, lv, cb, ch, wb, wh) ==
    /\ t \in Seq(S)
    /\ \A i, j \in 1..Len(t) : i # j => t[i] # t[j]
    /\ \A i, j \in 1..Len(t) : t[i] = wb /\ t[j] = cb => j < i
    /\ \A i, j \in 1..Len(t) : t[i] = wh /\ t[j] = ch => j < i
    /\ Has(t, cl) => t[1] = cl /\ Has(t, ch)

LEMMA ListsInOrder ==
    ASSUME NEW S, NEW cl, NEW lv, NEW cb, NEW ch, NEW wb, NEW wh, NEW t,
           Differ(S, cl, lv, cb, ch, wb, wh), OneList(t, cl, lv, cb, ch, wb, wh)
    PROVE  Ordered(t, S, cl, lv, cb, ch, wb, wh)
  <1>1. CASE t = <<cl, ch, wh>>
    <2>1. Len(t) = 3 /\ t[1] = cl /\ t[2] = ch /\ t[3] = wh
      BY <1>1
    <2>2. t \in Seq(S)
      BY <1>1 DEF Differ
    <2>3. QED
      BY <2>1, <2>2 DEF Differ, Ordered, Has
  <1>2. CASE t = <<cb, wb>>
    <2>1. Len(t) = 2 /\ t[1] = cb /\ t[2] = wb
      BY <1>2
    <2>2. t \in Seq(S)
      BY <1>2 DEF Differ
    <2>3. QED
      BY <2>1, <2>2 DEF Differ, Ordered, Has
  <1>3. CASE t = <<lv>>
    <2>1. Len(t) = 1 /\ t[1] = lv
      BY <1>3
    <2>2. t \in Seq(S)
      BY <1>3 DEF Differ
    <2>3. QED
      BY <2>1, <2>2 DEF Differ, Ordered, Has
  <1>4. CASE t = <<lv, cb, wb>>
    <2>1. Len(t) = 3 /\ t[1] = lv /\ t[2] = cb /\ t[3] = wb
      BY <1>4
    <2>2. t \in Seq(S)
      BY <1>4 DEF Differ
    <2>3. QED
      BY <2>1, <2>2 DEF Differ, Ordered, Has
  <1>5. CASE t = <<cb, ch, wb, wh>>
    <2>1. Len(t) = 4 /\ t[1] = cb /\ t[2] = ch /\ t[3] = wb /\ t[4] = wh
      BY <1>5
    <2>2. t \in Seq(S)
      BY <1>5 DEF Differ
    <2>3. QED
      BY <2>1, <2>2 DEF Differ, Ordered, Has
  <1>6. CASE t = <<lv, ch, wh>>
    <2>1. Len(t) = 3 /\ t[1] = lv /\ t[2] = ch /\ t[3] = wh
      BY <1>6
    <2>2. t \in Seq(S)
      BY <1>6 DEF Differ
    <2>3. QED
      BY <2>1, <2>2 DEF Differ, Ordered, Has
  <1>7. CASE t = <<lv, cb, ch, wb, wh>>
    <2>1. Len(t) = 5 /\ t[1] = lv /\ t[2] = cb /\ t[3] = ch /\ t[4] = wb /\ t[5] = wh
      BY <1>7
    <2>2. t \in Seq(S)
      BY <1>7 DEF Differ
    <2>3. QED
      BY <2>1, <2>2 DEF Differ, Ordered, Has
  <1>8. QED
    BY <1>1, <1>2, <1>3, <1>4, <1>5, <1>6, <1>7 DEF OneList

LEMMA StepsInOrder ==
    ASSUME NEW p \in Plan
    PROVE  Ordered(Steps(p), StepNames, "clear", "live", "create base", "create head",
                   "wait base", "wait head")
  <1>1. Differ(StepNames, "clear", "live", "create base", "create head", "wait base",
               "wait head")
    BY DEF Differ, StepNames
  <1>2. OneList(Steps(p), "clear", "live", "create base", "create head", "wait base",
                "wait head")
    BY StepLists, Zenon DEF OneList
  <1>3. QED
    BY <1>1, <1>2, ListsInOrder

LEMMA Starts ==
    ASSUME world \in Worlds, NEW k, k.plan \in world.plans, k.todo = Steps(k.plan), k.made = <<>>,
           k.base = <<>>, k.head = <<>>, k.live = {}
    PROVE  Steady(world, k) /\ Fetched(world, k)
  <1> DEFINE p == k.plan
             t == Steps(p)
  <1>1. p \in Plan
    BY PlansOf
  <1>2. /\ t \in Seq(StepNames)
        /\ \A i, j \in 1..Len(t) : i # j => t[i] # t[j]
        /\ \A i, j \in 1..Len(t) : t[i] = "wait base" /\ t[j] = "create base" => j < i
        /\ \A i, j \in 1..Len(t) : t[i] = "wait head" /\ t[j] = "create head" => j < i
        /\ Has(t, "clear") => t[1] = "clear" /\ Has(t, "create head")
    BY <1>1, StepsInOrder DEF Ordered
  <1>3. /\ Has(t, "wait base") <=> p.kind # "new" /\ p.mode # "live"
        /\ Has(t, "create base") <=> Has(t, "wait base")
        /\ Has(t, "create head") <=> Has(t, "wait head")
        /\ Has(t, "clear") => p.kind = "new"
    BY <1>1, StepsLook DEF WaitOf, CreateOf
  <1>4. \A x : ~Has(k.made, x)
    BY DEF Has
  <1>5. /\ k.made \in Seq(Names) /\ Len(k.made) = 0
    OBVIOUS
  <1>6. Fetched(world, k)
    BY DEF Fetched, Got
  <1>7. k.todo = t /\ k.plan = p /\ p \in world.plans
    OBVIOUS
  <1> HIDE DEF t, p
  <1>8. \A s \in {"base", "head"} :
           /\ \A i, j \in 1..Len(t) : t[i] = WaitOf[s] /\ t[j] = CreateOf[s] => j < i
           /\ Has(t, CreateOf[s]) => s \in Sides(p)
           /\ Has(t, WaitOf[s]) => s \in Sides(p) /\ Has(t, CreateOf[s])
    <2>1. /\ WaitOf["base"] = "wait base" /\ WaitOf["head"] = "wait head"
          /\ CreateOf["base"] = "create base" /\ CreateOf["head"] = "create head"
      BY DEF WaitOf, CreateOf
    <2>2. QED
      BY <1>2, <1>3, <2>1 DEF Sides
  <1>9. CreateOf["head"] = "create head"
    BY DEF CreateOf
  <1>10. Steps(p) = t
    BY DEF t
  <1>11. \A s \in {"base", "head"} :
           /\ \A i, j \in 1..Len(k.todo) :
                 k.todo[i] = WaitOf[s] /\ k.todo[j] = CreateOf[s] => j < i
           /\ Has(k.todo, CreateOf[s]) =>
                 s \in Sides(k.plan) /\ ~Has(k.made, TempName(k.plan, s))
           /\ Has(k.todo, WaitOf[s]) =>
                 /\ s \in Sides(k.plan) /\ Has(Steps(k.plan), WaitOf[s])
                 /\ Has(k.todo, CreateOf[s]) \/ Has(k.made, TempName(k.plan, s))
    BY <1>4, <1>7, <1>8, <1>10
  <1>12. /\ k.todo \in Seq(StepNames)
         /\ \A i, j \in 1..Len(k.todo) : i # j => k.todo[i] # k.todo[j]
         /\ Has(k.todo, "clear") =>
               k.todo[1] = "clear" /\ Has(k.todo, CreateOf["head"]) /\ k.plan.kind = "new"
         /\ Has(k.todo, "live") => Has(Steps(k.plan), "live")
    BY <1>2, <1>3, <1>7, <1>9, <1>10
  <1>13. QED
    BY <1>5, <1>6, <1>7, <1>11, <1>12 DEF Steady

-----------------------------------------------------------------------------
(* The actions. *)

LEMMA Planned ==
    ASSUME world \in Worlds, NEW k, Working(world, k)
    PROVE  /\ k.plan \in world.plans /\ k.plan \in Plan /\ k.plan # NoPlan
           /\ k.pc # "idle" /\ k # Idle
  <1>1. k.plan \in world.plans /\ k.pc # "idle"
    BY DEF Working, Steady
  <1>2. k.plan \in Plan
    BY <1>1, PlansOf
  <1>3. k.plan.app # "none"
    BY <1>2, TempAppsAssumption DEF Plan
  <1>4. QED
    BY <1>1, <1>2, <1>3 DEF NoPlan, Idle

LEMMA IdleTyped ==
    /\ Idle \in Record /\ Idle.pc = "idle" /\ Idle.plan = NoPlan /\ Idle.made = <<>>
    /\ Idle.base = <<>> /\ Idle.head = <<>> /\ Idle.live = {} /\ Idle.result = {}
    /\ ~Idle.error
  BY EmptyList DEF Idle, Record, Phases

LEMMA Started == Init => Orderly
  BY IdleTyped, TempAppsAssumption DEF Init, Orderly, Kept

\* What two workers keep apart: a worker's name is another's only for an equal application.
LEMMA OwnApp ==
    ASSUME Apart(world), Orderly, NEW r \in Runners, runner[r] # Idle,
           NEW s \in Sides(runner[r].plan),
           LET n == TempName(runner[r].plan, s)
           IN /\ apps[n] # NoApp
              /\ OneSpec(world) \/ Has(runner[r].made, n) \/ runner[r].plan.kind = "new"
    PROVE  apps[TempName(runner[r].plan, s)] = TempSpec(runner[r].plan, s)
  <1> DEFINE k == runner[r]
             p == k.plan
             n == TempName(p, s)
  <1>1. Working(world, k) /\ p \in world.plans /\ world \in Worlds
    BY DEF Orderly, Working, Steady
  <1>2. n \in Names /\ s \in {"base", "head"}
    BY <1>1, PlansOf DEF Sides
  <1> PICK q \in world.plans : \E t \in Sides(q) : n = TempName(q, t) /\ apps[n] = TempSpec(q, t)
    BY <1>2 DEF Orderly, Wanted
  <1>3. PICK t \in Sides(q) : n = TempName(q, t) /\ apps[n] = TempSpec(q, t)
    OBVIOUS
  <1>4. CASE OneSpec(world)
    BY <1>1, <1>3, <1>4 DEF OneSpec
  <1>5. CASE OnePlan(world) /\ Has(k.made, n)
    BY <1>5 DEF Orderly, Kept, Has
  <1>6. CASE OnePlan(world) /\ p.kind = "new"
    <2>1. p = q
      BY <1>1, <1>3, <1>6 DEF OnePlan
    <2>2. s = t
      BY <1>3, <1>6, <2>1 DEF Sides
    <2>3. QED
      BY <1>3, <2>1, <2>2
  <1>7. QED
    BY <1>4, <1>5, <1>6 DEF Apart

\* A step of one worker.
LEMMA RunnerStep ==
    ASSUME Orderly, NEW r \in Runners, NEW m \in Record, runner' = [runner EXCEPT ![r] = m],
           world' = world,
           apps' \in [Names -> {NoApp} \union [of : Apps, branch : PRs \union {0}]],
           plans' \in 0..MaxPlans, left' \subseteq Names,
           m = Idle \/ Working(world, m),
           ~world.twice /\ m.pc # "idle" =>
              \A q \in Runners : q # r => runner[q].pc = "idle" \/ runner[q].plan # m.plan,
           \A n \in Names : apps'[n] # NoApp => Wanted(world, n, apps'[n]),
           OnePlan(world) =>
              Kept(apps', m) /\ \A q \in Runners : q # r => Kept(apps', runner[q])
    PROVE  Orderly'
  <1>1. /\ runner' \in [Runners -> Record] /\ runner'[r] = m
        /\ \A q \in Runners : q # r => runner'[q] = runner[q]
    BY DEF Orderly
  <1>2. \A q \in Runners : runner'[q] = Idle \/ Working(world', runner'[q])
    BY <1>1 DEF Orderly
  <1>3. Idle.plan = NoPlan /\ Idle.pc = "idle"
    BY DEF Idle
  <1>4. /\ \A q \in Runners : runner[q].pc = "idle" <=> runner[q].plan = NoPlan
        /\ m.pc = "idle" <=> m.plan = NoPlan
    BY <1>3, Planned DEF Orderly
  <1>5. ASSUME ~world.twice, NEW q \in Runners, NEW o \in Runners, q # o, runner'[q].pc # "idle"
        PROVE  runner'[q].plan # runner'[o].plan
    <2>1. CASE q = r
      BY <1>1, <1>4, <1>5, <2>1
    <2>2. CASE o = r
      BY <1>1, <1>4, <1>5, <2>2
    <2>3. CASE q # r /\ o # r
      BY <1>1, <1>5, <2>3 DEF Orderly
    <2>4. QED
      BY <2>1, <2>2, <2>3
  <1>6. OnePlan(world') => \A q \in Runners : Kept(apps', runner'[q])
    BY <1>1
  <1>7. QED
    BY <1>1, <1>2, <1>5, <1>6 DEF Orderly

\* One that changes no temporary application.
LEMMA Quiet ==
    ASSUME Orderly, NEW r \in Runners, NEW m \in Record, runner' = [runner EXCEPT ![r] = m],
           world' = world, apps' = apps, plans' \in 0..MaxPlans, left' \subseteq Names,
           m = Idle \/ Working(world, m),
           ~world.twice /\ m.pc # "idle" =>
              \A q \in Runners : q # r => runner[q].pc = "idle" \/ runner[q].plan # m.plan,
           Kept(apps, runner[r]) => Kept(apps, m)
    PROVE  Orderly'
  BY RunnerStep DEF Orderly

\* A worker that goes on with its plan keeps it apart from others'.
LEMMA SamePlan ==
    ASSUME Orderly, NEW r \in Runners, runner[r].pc # "idle", ~world.twice
    PROVE  \A q \in Runners : q # r => runner[q].plan # runner[r].plan
  BY DEF Orderly

\* No other worker created the temporary application that one looks for or creates.
LEMMA OthersMade ==
    ASSUME Orderly, OnePlan(world), NEW r \in Runners, runner[r].pc # "idle",
           NEW s \in Sides(runner[r].plan), NEW q \in Runners, q # r,
           \/ runner[r].plan.kind = "new"
           \/ apps[TempName(runner[r].plan, s)] \in {NoApp, TempSpec(runner[r].plan, s)}
    PROVE  ~Has(runner[q].made, TempName(runner[r].plan, s))
  <1> DEFINE k == runner[r]
             o == runner[q]
             n == TempName(k.plan, s)
  <1> SUFFICES ASSUME NEW i \in 1..Len(o.made), o.made[i] = n
               PROVE  FALSE
    BY DEF Has
  <1>1. k.plan \in world.plans /\ world \in Worlds
    BY IdleTyped DEF Orderly, Working, Steady
  <1>2. o # Idle
    BY IdleTyped
  <1>3. /\ o.plan \in world.plans
        /\ \E c \in Sides(o.plan) : o.made[i] = TempName(o.plan, c)
    BY <1>2 DEF Orderly, Working, Steady
  <1>4. PICK c \in Sides(o.plan) : n = TempName(o.plan, c)
    BY <1>3
  <1>5. apps[n] = TempSpec(o.plan, c)
    BY <1>4 DEF Orderly, Kept
  <1>6. TempSpec(o.plan, c) # NoApp
    <2>1. c \in {"base", "head"}
      BY DEF Sides
    <2>2. TempSpec(o.plan, c).of \in Apps
      BY <1>1, <1>3, <2>1, PlansOf DEF Plan
    <2>3. QED
      BY <2>2, TempAppsAssumption DEF NoApp
  <1>7. k.plan.kind = "new" \/ TempSpec(k.plan, s) = TempSpec(o.plan, c)
    BY <1>5, <1>6
  <1>8. k.plan = o.plan
    BY <1>1, <1>3, <1>4, <1>7 DEF OnePlan
  <1>9. QED
    BY <1>8, SamePlan DEF OnePlan

\* A worker keeps what it created when another name changes hands.
LEMMA Untouched ==
    ASSUME NEW at, NEW k \in Record, Kept(at, k), NEW n, ~Has(k.made, n), NEW x,
           at \in [Names -> {NoApp} \union [of : Apps, branch : PRs \union {0}]]
    PROVE  Kept([at EXCEPT ![n] = x], k)
  <1>1. k.made \in Seq(Names)
    BY DEF Record
  <1>2. \A i \in 1..Len(k.made) : k.made[i] \in Names /\ k.made[i] # n
    BY <1>1 DEF Has
  <1>3. QED
    BY <1>2 DEF Kept

\* What is fetched stays fetched, and a step adds what it is for.
LEMMA FetchedOn ==
    ASSUME NEW w, NEW k, Steady(w, k), Fetched(w, k), k.todo # <<>>,
           NEW m, m.plan = k.plan, m.todo = Tail(k.todo),
           m.base = IF Head(k.todo) = WaitOf["base"] THEN Rendered(w, k.plan, "base") ELSE k.base,
           m.head = IF Head(k.todo) = WaitOf["head"] THEN Rendered(w, k.plan, "head") ELSE k.head,
           m.live = IF Head(k.todo) = "live" THEN w.live ELSE k.live
    PROVE  Fetched(w, m)
  <1> DEFINE t == Tail(k.todo)
             h == Head(k.todo)
  <1>1. /\ Has(k.todo, h)
        /\ \A x : Has(t, x) <=> Has(k.todo, x) /\ x # h
    BY Advance
  <1>2. /\ \A s \in {"base", "head"} : Has(k.todo, WaitOf[s]) => Has(Steps(k.plan), WaitOf[s])
        /\ Has(k.todo, "live") => Has(Steps(k.plan), "live")
    BY DEF Steady
  <1>3. m.todo = t /\ m.plan = k.plan
    OBVIOUS
  <1> HIDE DEF t
  <1>4. m.base = Got(w, m, "base")
    BY <1>1, <1>2, <1>3 DEF Fetched, Got
  <1>5. m.head = Got(w, m, "head")
    BY <1>1, <1>2, <1>3 DEF Fetched, Got
  <1>6. m.live = IF Has(Steps(m.plan), "live") /\ ~Has(m.todo, "live") THEN w.live ELSE {}
    BY <1>1, <1>2, <1>3 DEF Fetched
  <1>7. QED
    BY <1>4, <1>5, <1>6 DEF Fetched

LEMMA BeginOrderly ==
    ASSUME Orderly, NEW r \in Runners, Begin(r)
    PROVE  Orderly'
  <1>1. PICK p \in world.plans :
           /\ world.twice \/ \A q \in Runners : runner[q].plan # p
           /\ Set(r, [Idle EXCEPT !.pc = "diff", !.plan = p, !.todo = Steps(p)])
    BY DEF Begin
  <1> DEFINE m == [Idle EXCEPT !.pc = "diff", !.plan = p, !.todo = Steps(p)]
  <1>2. world \in Worlds /\ p \in Plan /\ plans \in 0..MaxPlans
    BY PlansOf DEF Orderly
  <1>3. Steps(p) \in Seq(StepNames) /\ "diff" \in Phases
    BY <1>2, StepsInOrder DEF Ordered, Phases
  <1>4. m \in Record
    BY <1>2, <1>3, IdleTyped DEF Record
  <1>5. /\ m.pc = "diff" /\ m.plan = p /\ m.todo = Steps(p) /\ m.made = <<>>
        /\ m.base = <<>> /\ m.head = <<>> /\ m.live = {} /\ m.result = {} /\ ~m.error
    BY IdleTyped DEF Record
  <1>6. runner' = [runner EXCEPT ![r] = m]
    BY <1>1 DEF Set
  <1> HIDE DEF m
  <1>7. Working(world, m)
    BY <1>2, <1>5, Starts DEF Working
  <1>8. Kept(apps, m)
    BY <1>5 DEF Kept
  <1>9. plans' \in 0..MaxPlans
    BY <1>2, TempAppsAssumption DEF Begin
  <1>10. QED
    BY <1>1, <1>4, <1>5, <1>6, <1>7, <1>8, <1>9, Quiet DEF Begin, Orderly

\* An error ends the steps.
LEMMA AbortWorks ==
    ASSUME NEW w, NEW k \in Record, Working(w, k), k.pc = "diff"
    PROVE  /\ Abort(k) \in Record /\ Working(w, Abort(k))
           /\ Abort(k).plan = k.plan /\ Abort(k).pc = k.pc /\ Abort(k).made = k.made
           /\ [Abort(k) EXCEPT !.made = k.made] = Abort(k)
  <1> DEFINE m == Abort(k)
  <1>1. <<>> \in Seq(StepNames)
    OBVIOUS
  <1>2. m \in Record
    BY <1>1 DEF Abort, Record
  <1>3. /\ m.plan = k.plan /\ m.pc = k.pc /\ m.made = k.made
        /\ m.todo = <<>> /\ m.error /\ m.result = k.result
    BY DEF Abort, Record
  <1> HIDE DEF m
  <1>4. [m EXCEPT !.made = k.made] = m
    BY <1>2, <1>3 DEF Record
  <1>5. \A x : ~Has(m.todo, x)
    BY <1>3 DEF Has
  <1>6. m.todo \in Seq(StepNames) /\ Len(m.todo) = 0
    BY <1>1, <1>3
  <1>7. Steady(w, m)
    BY <1>3, <1>5, <1>6 DEF Working, Steady
  <1>8. Working(w, m)
    BY <1>3, <1>7 DEF Working
  <1>9. QED
    BY <1>2, <1>3, <1>4, <1>8 DEF m

LEMMA FailOrderly ==
    ASSUME Orderly, NEW r \in Runners, runner[r].pc = "diff",
           runner' = [runner EXCEPT ![r] = Abort(runner[r])],
           world' = world, apps' = apps, plans' = plans, left' = left
    PROVE  Orderly'
  <1> DEFINE k == runner[r]
             m == Abort(k)
  <1>1. k \in Record /\ Working(world, k)
    BY IdleTyped DEF Orderly
  <1>2. /\ m \in Record /\ Working(world, m) /\ m.plan = k.plan /\ m.pc = k.pc
        /\ m.made = k.made
    BY <1>1, AbortWorks
  <1>3. runner' = [runner EXCEPT ![r] = m] /\ plans' \in 0..MaxPlans /\ left' \subseteq Names
    BY DEF Orderly
  <1> HIDE DEF m
  <1>4. Kept(apps, k) => Kept(apps, m)
    BY <1>2 DEF Kept
  <1>5. ~world.twice /\ m.pc # "idle" =>
           \A q \in Runners : q # r => runner[q].pc = "idle" \/ runner[q].plan # m.plan
    BY <1>2, SamePlan
  <1>6. QED
    BY <1>2, <1>3, <1>4, <1>5, Quiet

\* A worker goes on with its plan.
LEMMA GoesOn ==
    ASSUME Orderly, NEW r \in Runners, runner[r].pc = "diff", runner[r].todo # <<>>,
           NEW m, m.pc = "diff", m.plan = runner[r].plan, m.todo = Tail(runner[r].todo),
           m.result = runner[r].result, m.error = runner[r].error, Steady(world, m),
           LET h == Head(runner[r].todo)
               got(s) == Rendered(world, runner[r].plan, s)
           IN ~m.error /\ Apart(world) =>
                 /\ m.base = IF h = WaitOf["base"] THEN got("base") ELSE runner[r].base
                 /\ m.head = IF h = WaitOf["head"] THEN got("head") ELSE runner[r].head
                 /\ m.live = IF h = "live" THEN world.live ELSE runner[r].live
    PROVE  /\ Working(world, m)
           /\ ~world.twice /\ m.pc # "idle" =>
                 \A q \in Runners : q # r => runner[q].pc = "idle" \/ runner[q].plan # m.plan
  <1> DEFINE k == runner[r]
  <1>1. k \in Record /\ Working(world, k)
    BY IdleTyped DEF Orderly
  <1>2. ~m.error /\ Apart(world) => Fetched(world, m)
    BY <1>1, FetchedOn DEF Working
  <1>3. m.result = {}
    BY <1>1 DEF Working
  <1>4. Working(world, m)
    BY <1>2, <1>3 DEF Working
  <1>5. QED
    BY <1>4, SamePlan

LEMMA StepsApart ==
    /\ WaitOf["base"] = "wait base" /\ WaitOf["head"] = "wait head"
    /\ CreateOf["base"] = "create base" /\ CreateOf["head"] = "create head"
    /\ \A s, c \in {"base", "head"} :
          /\ WaitOf[s] # CreateOf[c] /\ WaitOf[s] # "live" /\ CreateOf[s] # "live"
          /\ WaitOf[s] # "clear" /\ CreateOf[s] # "clear"
          /\ WaitOf[s] = WaitOf[c] => s = c
          /\ CreateOf[s] = CreateOf[c] => s = c
  BY DEF WaitOf, CreateOf

LEMMA Popped ==
    ASSUME Orderly, NEW r \in Runners, runner[r].todo # <<>>
    PROVE  LET m == StepDone(runner[r])
           IN /\ runner[r] \in Record /\ m \in Record
              /\ m.pc = runner[r].pc /\ m.plan = runner[r].plan /\ m.todo = Tail(runner[r].todo)
              /\ m.made = runner[r].made /\ m.base = runner[r].base /\ m.head = runner[r].head
              /\ m.live = runner[r].live /\ m.result = runner[r].result
              /\ m.error = runner[r].error
  <1> DEFINE k == runner[r]
  <1>1. k \in Record
    BY DEF Orderly
  <1>2. k.todo \in Seq(StepNames)
    BY <1>1 DEF Record
  <1>3. Tail(k.todo) \in Seq(StepNames)
    BY <1>2, Tails
  <1> HIDE DEF k
  <1>4. StepDone(k) \in Record
    BY <1>1, <1>3 DEF StepDone, Record
  <1>5. /\ StepDone(k).pc = k.pc /\ StepDone(k).plan = k.plan /\ StepDone(k).todo = Tail(k.todo)
        /\ StepDone(k).made = k.made /\ StepDone(k).base = k.base /\ StepDone(k).head = k.head
        /\ StepDone(k).live = k.live /\ StepDone(k).result = k.result
        /\ StepDone(k).error = k.error
    BY <1>1 DEF StepDone, Record
  <1>6. QED
    BY <1>1, <1>4, <1>5 DEF k

LEMMA GetManagedResourcesOrderly ==
    ASSUME Orderly, NEW r \in Runners, GetManagedResources(r)
    PROVE  Orderly'
  <1> DEFINE k == runner[r]
             m == [StepDone(k) EXCEPT !.live = world.live]
  <1>1. /\ k.pc = "diff" /\ k.todo # <<>> /\ Head(k.todo) = "live"
        /\ world' = world /\ apps' = apps /\ plans' = plans /\ left' = left
    BY DEF GetManagedResources, AtStep
  <1>2. CASE Fail(r)
    BY <1>1, <1>2, FailOrderly DEF Fail, Set
  <1>3. CASE Set(r, m)
    <2>1. world \in Worlds /\ world.live \in SUBSET [key : Keys, state : State, hook : BOOLEAN]
      BY LiveSays DEF Orderly
    <2> DEFINE d == StepDone(k)
    <2>2. /\ d \in Record
          /\ d.pc = k.pc /\ d.plan = k.plan /\ d.todo = Tail(k.todo)
          /\ d.made = k.made /\ d.base = k.base /\ d.head = k.head
          /\ d.result = k.result /\ d.error = k.error
      BY <1>1, Popped
    <2>3. runner' = [runner EXCEPT ![r] = m]
      BY <1>3 DEF Set
    <2> HIDE DEF d
    <2>4. m = [d EXCEPT !.live = world.live]
      BY DEF d
    <2> HIDE DEF m
    <2>5. /\ m \in Record
          /\ m.pc = k.pc /\ m.plan = k.plan /\ m.todo = Tail(k.todo)
          /\ m.made = k.made /\ m.base = k.base /\ m.head = k.head /\ m.live = world.live
          /\ m.result = k.result /\ m.error = k.error
      BY <2>1, <2>2, <2>4 DEF Record
    <2>6. Steady(world, k)
      BY <1>1, IdleTyped DEF Orderly, Working
    <2>7. Head(k.todo) \notin {CreateOf["base"], CreateOf["head"], WaitOf["base"], WaitOf["head"]}
      BY <1>1, StepsApart
    <2>8. Steady(world, m)
      BY <1>1, <2>5, <2>6, <2>7, Passes
    <2> HIDE DEF k
    <2>9. /\ Working(world, m)
          /\ ~world.twice /\ m.pc # "idle" =>
                \A q \in Runners : q # r => runner[q].pc = "idle" \/ runner[q].plan # m.plan
      BY <1>1, <2>5, <2>7, <2>8, GoesOn DEF k
    <2>10. Kept(apps, k) => Kept(apps, m)
      BY <2>5 DEF Kept
    <2>11. QED
      BY <1>1, <2>3, <2>5, <2>9, <2>10, Quiet DEF Orderly, k
  <1>4. QED
    BY <1>2, <1>3 DEF GetManagedResources

\* The name of a new application is its own.
LEMMA NamesDiffer ==
    ASSUME NEW p, NEW s \in Sides(p), NEW c \in Sides(p), TempName(p, s) = TempName(p, c)
    PROVE  s = c
  BY DEF Sides, TempName

LEMMA ClearNameOrderly ==
    ASSUME Orderly, NEW r \in Runners, ClearName(r)
    PROVE  Orderly'
  <1> DEFINE k == runner[r]
             m == StepDone(k)
             n == TempName(k.plan, "own")
  <1>1. /\ k.pc = "diff" /\ k.todo # <<>> /\ Head(k.todo) = "clear"
        /\ world' = world /\ plans' = plans
    BY DEF ClearName, AtStep
  <1>2. CASE Fail(r) /\ apps' = apps /\ left' = left
    BY <1>1, <1>2, FailOrderly DEF Fail, Set
  <1>3. CASE apps' = [apps EXCEPT ![n] = NoApp] /\ left' = left \ {n} /\ Set(r, m)
    <2>1. /\ k \in Record /\ m \in Record
          /\ m.pc = k.pc /\ m.plan = k.plan /\ m.todo = Tail(k.todo)
          /\ m.made = k.made /\ m.base = k.base /\ m.head = k.head /\ m.live = k.live
          /\ m.result = k.result /\ m.error = k.error
      BY <1>1, Popped
    <2>2. runner' = [runner EXCEPT ![r] = m]
      BY <1>3 DEF Set
    <2> HIDE DEF m
    <2>3. Steady(world, k) /\ k # Idle
      BY <1>1, IdleTyped DEF Orderly, Working
    <2>4. Head(k.todo) \notin {CreateOf["base"], CreateOf["head"], WaitOf["base"], WaitOf["head"],
                               "live"}
      BY <1>1, StepsApart
    <2>5. Steady(world, m)
      BY <1>1, <2>1, <2>3, <2>4, Passes
    <2>6. Has(k.todo, "clear")
      BY <1>1, <2>3, Advance
    <2>7. /\ k.plan.kind = "new" /\ "head" \in Sides(k.plan)
          /\ ~Has(k.made, TempName(k.plan, "head")) /\ TempName(k.plan, "head") = n
      <3>1. k.plan.kind = "new" /\ Has(k.todo, CreateOf["head"])
        BY <2>3, <2>6 DEF Steady
      <3>2. ~Has(k.made, TempName(k.plan, "head"))
        BY <2>3, <3>1 DEF Steady
      <3>3. QED
        BY <3>1, <3>2 DEF Sides, TempName
    <2>8. /\ Working(world, m)
          /\ ~world.twice /\ m.pc # "idle" =>
                \A q \in Runners : q # r => runner[q].pc = "idle" \/ runner[q].plan # m.plan
      BY <1>1, <2>1, <2>4, <2>5, GoesOn
    <2> HIDE DEF n
    <2>9. /\ apps' \in [Names -> {NoApp} \union [of : Apps, branch : PRs \union {0}]]
          /\ \A x \in Names : apps'[x] # NoApp => Wanted(world, x, apps'[x])
          /\ plans' \in 0..MaxPlans /\ left' \subseteq Names
      BY <1>1, <1>3 DEF Orderly
    <2>10. ASSUME OnePlan(world)
           PROVE  Kept(apps', m) /\ \A q \in Runners : q # r => Kept(apps', runner[q])
      <3>1. Kept(apps, k) /\ \A q \in Runners : runner[q] \in Record /\ Kept(apps, runner[q])
        BY <2>10 DEF Orderly
      <3>2. \A q \in Runners : q # r => ~Has(runner[q].made, n)
        BY <1>1, <2>7, <2>10, OthersMade
      <3>3. Kept(apps', k) /\ \A q \in Runners : q # r => Kept(apps', runner[q])
        BY <1>3, <2>1, <2>7, <3>1, <3>2, Untouched DEF Orderly
      <3>4. Kept(apps', m)
        BY <2>1, <3>3 DEF Kept
      <3>5. QED
        BY <3>3, <3>4
    <2>11. QED
      BY <1>1, <2>1, <2>2, <2>8, <2>9, <2>10, RunnerStep
  <1>4. QED
    BY <1>2, <1>3 DEF ClearName

\* A worker creates or takes over the temporary application it needs.
LEMMA CreatedWorks ==
    ASSUME Orderly, NEW r \in Runners, NEW s \in {"base", "head"}, AtStep(r, CreateOf[s]),
           NEW m, m \in Record,
           LET k == runner[r]
               n == TempName(k.plan, s)
           IN /\ apps[n] \in {NoApp, TempSpec(k.plan, s)}
              /\ apps' = [apps EXCEPT ![n] = TempSpec(k.plan, s)]
              /\ m.plan = k.plan /\ Working(world, m)
              /\ \A x : Has(m.made, x) => Has(k.made, x) \/ x = n
    PROVE  /\ apps' \in [Names -> {NoApp} \union [of : Apps, branch : PRs \union {0}]]
           /\ \A x \in Names : apps'[x] # NoApp => Wanted(world, x, apps'[x])
           /\ OnePlan(world) =>
                 Kept(apps', m) /\ \A q \in Runners : q # r => Kept(apps', runner[q])
  <1> DEFINE k == runner[r]
             p == k.plan
             n == TempName(p, s)
             a == TempSpec(p, s)
  <1>1. /\ k.pc = "diff" /\ k.todo # <<>> /\ Head(k.todo) = CreateOf[s]
        /\ k \in Record /\ Steady(world, k) /\ world \in Worlds
    BY IdleTyped DEF AtStep, Orderly, Working
  <1>2. Has(k.todo, CreateOf[s])
    BY <1>1, Advance
  <1>3. s \in Sides(p) /\ p \in world.plans
    BY <1>1, <1>2 DEF Steady
  <1>4. n \in Names /\ a \in [of : Apps, branch : PRs \union {0}]
    BY <1>1, <1>3, PlansOf
  <1>5. /\ apps \in [Names -> {NoApp} \union [of : Apps, branch : PRs \union {0}]]
        /\ \A x \in Names : apps[x] # NoApp => Wanted(world, x, apps[x])
    BY DEF Orderly
  <1>6. Wanted(world, n, a)
    BY <1>3 DEF Wanted
  <1>7. \A c \in Sides(p) : n = TempName(p, c) => c = s
    BY <1>3, NamesDiffer
  <1>8. apps[n] \in {NoApp, a} /\ apps' = [apps EXCEPT ![n] = a] /\ m.plan = p
    OBVIOUS
  <1>9. m.made \in Seq(Names)
    BY DEF Record
  <1>10. \A i \in 1..Len(m.made) : Has(k.made, m.made[i]) \/ m.made[i] = n
    BY DEF Has
  <1> HIDE DEF n, a
  <1>11. apps' \in [Names -> {NoApp} \union [of : Apps, branch : PRs \union {0}]]
    BY <1>4, <1>5, <1>8
  <1>12. \A x \in Names : apps'[x] # NoApp => Wanted(world, x, apps'[x])
    BY <1>5, <1>6, <1>8
  <1>13. ASSUME OnePlan(world)
         PROVE  Kept(apps', m) /\ \A q \in Runners : q # r => Kept(apps', runner[q])
    <2>1. \A q \in Runners : runner[q] \in Record /\ Kept(apps, runner[q])
      BY <1>13 DEF Orderly
    <2>2. \A q \in Runners : q # r => ~Has(runner[q].made, n)
      BY <1>1, <1>3, <1>8, <1>13, OthersMade DEF n, a
    <2>3. \A q \in Runners : q # r => Kept(apps', runner[q])
      <3>1. \A q \in Runners : q # r => Kept([apps EXCEPT ![n] = a], runner[q])
        BY <1>5, <2>1, <2>2, Untouched
      <3>2. QED
        BY <1>8, <3>1
    <2>4. ASSUME NEW i \in 1..Len(m.made), NEW c \in Sides(p), m.made[i] = TempName(p, c)
          PROVE  apps'[m.made[i]] = TempSpec(p, c)
      <3>1. m.made[i] \in Names
        BY <1>9
      <3>2. CASE m.made[i] = n
        BY <1>5, <1>7, <1>8, <2>4, <3>1, <3>2 DEF a
      <3>3. CASE m.made[i] # n
        <4>1. PICK j \in 1..Len(k.made) : k.made[j] = m.made[i]
          BY <1>10, <3>3 DEF Has
        <4>2. apps[m.made[i]] = TempSpec(p, c)
          BY <2>1, <2>4, <4>1 DEF Kept
        <4>3. QED
          BY <1>5, <1>8, <3>1, <3>3, <4>2
      <3>4. QED
        BY <3>2, <3>3
    <2>5. QED
      BY <1>8, <2>3, <2>4 DEF Kept
  <1>14. QED
    BY <1>11, <1>12, <1>13

LEMMA CreateOrderly ==
    ASSUME Orderly, NEW r \in Runners, NEW s \in {"base", "head"}, Create(r, s)
    PROVE  Orderly'
  <1> DEFINE k == runner[r]
             p == k.plan
             n == TempName(p, s)
             a == TempSpec(p, s)
             d == StepDone(k)
             m == [d EXCEPT !.made = Append(k.made, n)]
             e == Abort(k)
  <1>1. /\ AtStep(r, CreateOf[s])
        /\ k.pc = "diff" /\ k.todo # <<>> /\ Head(k.todo) = CreateOf[s]
        /\ world' = world /\ plans' = plans
    BY DEF Create, AtStep
  <1>2. /\ k \in Record /\ Working(world, k) /\ Steady(world, k) /\ world \in Worlds
        /\ plans' \in 0..MaxPlans /\ left \subseteq Names
    BY <1>1, IdleTyped DEF Orderly, Working
  <1>3. Has(k.todo, CreateOf[s])
    BY <1>1, <1>2, Advance
  <1>4. s \in Sides(p) /\ p \in world.plans /\ ~Has(k.made, n) /\ n \in Names
    BY <1>2, <1>3, PlansOf DEF Steady
  <1>5. /\ e \in Record /\ Working(world, e) /\ e.plan = k.plan /\ e.pc = k.pc
        /\ e.made = k.made /\ [e EXCEPT !.made = k.made] = e
    BY <1>1, <1>2, AbortWorks
  <1>6. CASE /\ apps[n] \in {NoApp, a} /\ apps' = [apps EXCEPT ![n] = a]
             /\ Set(r, m) /\ left' = left
    <2>1. /\ d \in Record
          /\ d.pc = k.pc /\ d.plan = k.plan /\ d.todo = Tail(k.todo)
          /\ d.made = k.made /\ d.base = k.base /\ d.head = k.head /\ d.live = k.live
          /\ d.result = k.result /\ d.error = k.error
      BY <1>1, Popped
    <2>2. runner' = [runner EXCEPT ![r] = m]
      BY <1>6 DEF Set
    <2>3. k.made \in Seq(Names)
      BY <1>2 DEF Record
    <2>4. /\ Append(k.made, n) \in Seq(Names)
          /\ \A x : Has(Append(k.made, n), x) => Has(k.made, x) \/ x = n
      BY <1>4, <2>3, Appended, OneMore
    <2> HIDE DEF d, n
    <2>5. m \in Record
      BY <2>1, <2>4 DEF Record
    <2>6. /\ m.pc = k.pc /\ m.plan = k.plan /\ m.todo = Tail(k.todo)
          /\ m.made = Append(k.made, n) /\ m.base = k.base /\ m.head = k.head
          /\ m.live = k.live /\ m.result = k.result /\ m.error = k.error
      BY <2>1 DEF Record
    <2> HIDE DEF m
    <2>7. Steady(world, m)
      BY <1>1, <1>2, <2>6, Creates DEF n
    <2>8. Head(k.todo) \notin {WaitOf["base"], WaitOf["head"], "live"}
      BY <1>1, StepsApart
    <2>9. /\ Working(world, m)
          /\ ~world.twice /\ m.pc # "idle" =>
                \A q \in Runners : q # r => runner[q].pc = "idle" \/ runner[q].plan # m.plan
      BY <1>1, <2>6, <2>7, <2>8, GoesOn
    <2>10. \A x : Has(m.made, x) => Has(k.made, x) \/ x = n
      BY <2>4, <2>6
    <2>11. /\ apps' \in [Names -> {NoApp} \union [of : Apps, branch : PRs \union {0}]]
           /\ \A x \in Names : apps'[x] # NoApp => Wanted(world, x, apps'[x])
           /\ OnePlan(world) =>
                 Kept(apps', m) /\ \A q \in Runners : q # r => Kept(apps', runner[q])
      BY <1>1, <1>6, <2>5, <2>6, <2>9, <2>10, CreatedWorks DEF n
    <2>12. left' \subseteq Names
      BY <1>2, <1>6
    <2>13. QED
      BY <1>1, <1>2, <2>2, <2>5, <2>9, <2>11, <2>12, RunnerStep
  <1>7. CASE Set(r, [e EXCEPT !.made = k.made]) /\ apps' = apps /\ left' = left
    <2>1. Set(r, e)
      BY <1>5, <1>7
    <2>2. runner' = [runner EXCEPT ![r] = e]
      BY <2>1 DEF Set
    <2>3. QED
      BY <1>1, <1>7, <2>2, FailOrderly
  <1>8. CASE /\ apps[n] = NoApp /\ apps' = [apps EXCEPT ![n] = a]
             /\ Set(r, [e EXCEPT !.made = k.made]) /\ left' = left \union {n}
    <2>1. runner' = [runner EXCEPT ![r] = e]
      BY <1>5, <1>8 DEF Set
    <2> HIDE DEF e
    <2>2. /\ apps' \in [Names -> {NoApp} \union [of : Apps, branch : PRs \union {0}]]
          /\ \A x \in Names : apps'[x] # NoApp => Wanted(world, x, apps'[x])
          /\ OnePlan(world) =>
                Kept(apps', e) /\ \A q \in Runners : q # r => Kept(apps', runner[q])
      BY <1>1, <1>5, <1>8, CreatedWorks
    <2>3. left' \subseteq Names
      BY <1>2, <1>4, <1>8
    <2>4. ~world.twice /\ e.pc # "idle" =>
             \A q \in Runners : q # r => runner[q].pc = "idle" \/ runner[q].plan # e.plan
      BY <1>1, <1>5, SamePlan
    <2>5. QED
      BY <1>1, <1>2, <1>5, <2>1, <2>2, <2>3, <2>4, RunnerStep
  <1>9. QED
    <2>1. Register(k, n, TRUE) = Append(k.made, n) /\ Register(k, n, FALSE) = k.made
      BY DEF Register
    <2>2. QED
      BY <1>6, <1>7, <1>8, <2>1 DEF Create

\* What Argo CD renders of an application.
LEMMA ManifestsTyped ==
    ASSUME Orderly, NEW n \in Names, apps[n] # NoApp
    PROVE  /\ Manifests(n) \in Listed
           /\ \A p, s : apps[n] = TempSpec(p, s) => Manifests(n) = Rendered(world, p, s)
  <1> DEFINE list == world.render[apps[n].branch]
             out == [i \in DOMAIN list |-> [list[i] EXCEPT !.key = <<@, "own">>]]
  <1>1. world \in Worlds /\ apps[n].branch \in PRs \union {0}
    BY DEF Orderly
  <1>2. Manifests(n) = out
    BY DEF Manifests, ReleaseName
  <1>3. out \in Listed
    BY <1>1, Renders
  <1>4. QED
    BY <1>2, <1>3 DEF Rendered

LEMMA WaitOrderly ==
    ASSUME Orderly, NEW r \in Runners, NEW s \in {"base", "head"}, Wait(r, s)
    PROVE  Orderly'
  <1> DEFINE k == runner[r]
             p == k.plan
             n == TempName(p, s)
             d == StepDone(k)
             m == IF s = "base" THEN [d EXCEPT !.base = Manifests(n)]
                  ELSE [d EXCEPT !.head = Manifests(n)]
  <1>1. /\ k.pc = "diff" /\ k.todo # <<>> /\ Head(k.todo) = WaitOf[s]
        /\ world' = world /\ apps' = apps /\ plans' = plans /\ left' = left
    BY DEF Wait, AtStep
  <1>2. CASE Fail(r)
    BY <1>1, <1>2, FailOrderly DEF Fail, Set
  <1>3. CASE apps[n] # NoApp /\ Set(r, m)
    <2>1. k \in Record /\ Working(world, k) /\ Steady(world, k) /\ world \in Worlds /\ k # Idle
      BY <1>1, IdleTyped DEF Orderly, Working
    <2>2. Has(k.todo, WaitOf[s]) /\ ~Has(k.todo, CreateOf[s])
      BY <1>1, <2>1, Advance
    <2>3. s \in Sides(p) /\ p \in world.plans /\ Has(k.made, n) /\ n \in Names
      BY <2>1, <2>2, PlansOf DEF Steady
    <2>4. Manifests(n) \in Listed
      BY <1>3, <2>3, ManifestsTyped
    <2>5. Apart(world) => Manifests(n) = Rendered(world, p, s)
      BY <1>3, <2>1, <2>3, OwnApp, ManifestsTyped
    <2>6. /\ d \in Record
          /\ d.pc = k.pc /\ d.plan = k.plan /\ d.todo = Tail(k.todo)
          /\ d.made = k.made /\ d.base = k.base /\ d.head = k.head /\ d.live = k.live
          /\ d.result = k.result /\ d.error = k.error
      BY <1>1, Popped
    <2>7. runner' = [runner EXCEPT ![r] = m]
      BY <1>3 DEF Set
    <2> HIDE DEF d, n
    <2>8. m \in Record
      BY <2>4, <2>6 DEF Record
    <2>9. /\ m.pc = k.pc /\ m.plan = k.plan /\ m.todo = Tail(k.todo)
          /\ m.made = k.made /\ m.live = k.live
          /\ m.base = (IF s = "base" THEN Manifests(n) ELSE k.base)
          /\ m.head = (IF s = "base" THEN k.head ELSE Manifests(n))
          /\ m.result = k.result /\ m.error = k.error
      BY <2>6 DEF Record
    <2> HIDE DEF m
    <2>10. Head(k.todo) \notin {CreateOf["base"], CreateOf["head"], "live"}
      BY <1>1, StepsApart
    <2>11. Steady(world, m)
      BY <1>1, <2>1, <2>9, <2>10, Passes
    <2>12. ASSUME Apart(world)
           PROVE  /\ m.base = IF Head(k.todo) = WaitOf["base"] THEN Rendered(world, p, "base")
                              ELSE k.base
                  /\ m.head = IF Head(k.todo) = WaitOf["head"] THEN Rendered(world, p, "head")
                              ELSE k.head
      <3>1. WaitOf["base"] # WaitOf["head"]
        BY StepsApart
      <3>2. QED
        BY <1>1, <2>5, <2>9, <2>12, <3>1
    <2>13. /\ Working(world, m)
           /\ ~world.twice /\ m.pc # "idle" =>
                 \A q \in Runners : q # r => runner[q].pc = "idle" \/ runner[q].plan # m.plan
      BY <1>1, <2>9, <2>10, <2>11, <2>12, GoesOn
    <2>14. Kept(apps, k) => Kept(apps, m)
      BY <2>9 DEF Kept
    <2>15. plans' \in 0..MaxPlans /\ left' \subseteq Names
      BY <1>1 DEF Orderly
    <2>16. QED
      BY <1>1, <2>7, <2>8, <2>13, <2>14, <2>15, Quiet
  <1>4. QED
    BY <1>2, <1>3 DEF Wait

\* The comparison depends on what was fetched, and its entries are entries.
LEMMA ComparesFetched ==
    ASSUME NEW k \in Record, k.plan \in Plan,
           NEW m, m.plan = k.plan, m.base = k.base, m.head = k.head, m.live = k.live
    PROVE  Compare(k) \subseteq Entries /\ Compare(m) = Compare(k)
  <1>1. /\ k.base \in Listed /\ k.head \in Listed
        /\ k.live \in SUBSET [key : Keys, state : State, hook : BOOLEAN]
    BY DEF Record
  <1>2. k.plan.mode \in Modes
    BY DEF Plan
  <1>3. CASE k.plan.kind # "new" /\ k.plan.mode = "live"
    <2>1. /\ Compare(k) = LiveVsTargetDiff(k.live, k.head)
          /\ Compare(m) = LiveVsTargetDiff(k.live, k.head)
      BY <1>3 DEF Compare
    <2>2. QED
      BY <1>1, <2>1, LiveVsTargetExact
  <1>4. CASE k.plan.kind # "new" /\ k.plan.mode = "both"
    <2>1. /\ Compare(k) = ThreeWayDiff(k.base, k.head, k.live)
          /\ Compare(m) = ThreeWayDiff(k.base, k.head, k.live)
      BY <1>4 DEF Compare
    <2>2. QED
      BY <1>1, <2>1, ThreeWayExact
  <1>5. CASE k.plan.kind = "new" \/ k.plan.mode = "branch"
    <2>1. /\ Compare(k) = ManifestsDiff(k.base, k.head)
          /\ Compare(m) = ManifestsDiff(k.base, k.head)
      BY <1>5 DEF Compare
    <2>2. QED
      BY <1>1, <2>1, ManifestsDiffExact
  <1>6. QED
    BY <1>2, <1>3, <1>4, <1>5 DEF Modes

LEMMA FinishOrderly ==
    ASSUME Orderly, NEW r \in Runners, Finish(r)
    PROVE  Orderly'
  <1> DEFINE k == runner[r]
             found == IF k.error THEN {} ELSE Compare(k)
             m == [k EXCEPT !.pc = "clean", !.result = found]
  <1>1. /\ k.pc = "diff" /\ k.todo = <<>> /\ runner' = [runner EXCEPT ![r] = m]
        /\ world' = world /\ apps' = apps /\ plans' = plans /\ left' = left
    BY DEF Finish, Set
  <1>2. /\ k \in Record /\ Working(world, k) /\ Steady(world, k) /\ world \in Worlds
        /\ plans' \in 0..MaxPlans /\ left' \subseteq Names
    BY <1>1, IdleTyped DEF Orderly, Working
  <1>3. k.plan \in Plan
    BY <1>2, Planned
  <1>4. found \subseteq Entries /\ "clean" \in Phases
    BY <1>2, <1>3, ComparesFetched DEF Phases
  <1> HIDE DEF found
  <1>5. m \in Record
    BY <1>2, <1>4 DEF Record
  <1>6. /\ m.pc = "clean" /\ m.result = found /\ m.plan = k.plan /\ m.todo = k.todo
        /\ m.made = k.made /\ m.base = k.base /\ m.head = k.head /\ m.live = k.live
        /\ m.error = k.error
    BY <1>2 DEF Record
  <1> HIDE DEF m
  <1>7. Compare(m) = Compare(k)
    BY <1>2, <1>3, <1>6, ComparesFetched
  <1>8. Steady(world, m)
    BY <1>2, <1>6 DEF Steady
  <1>9. ~m.error /\ Apart(world) => Fetched(world, m)
    BY <1>2, <1>6 DEF Working, Fetched, Got
  <1>10. m.result = IF m.pc = "clean" /\ ~m.error THEN Compare(m) ELSE {}
    BY <1>6, <1>7 DEF found
  <1>11. Working(world, m)
    BY <1>1, <1>6, <1>8, <1>9, <1>10 DEF Working
  <1>12. ~world.twice /\ m.pc # "idle" =>
            \A q \in Runners : q # r => runner[q].pc = "idle" \/ runner[q].plan # m.plan
    BY <1>1, <1>6, SamePlan
  <1>13. Kept(apps, k) => Kept(apps, m)
    BY <1>6 DEF Kept
  <1>14. QED
    BY <1>1, <1>2, <1>5, <1>11, <1>12, <1>13, Quiet

\* Of what a worker created the last is deleted first.
LEMMA Fewer ==
    ASSUME NEW w, NEW k \in Record, Working(w, k), k.pc = "clean", k.made # <<>>, w \in Worlds,
           k.plan \in Plan
    PROVE  LET m == [k EXCEPT !.made = Front(@)]
               n == Last(k.made)
           IN /\ m \in Record /\ Working(w, m) /\ m.plan = k.plan /\ m.pc = "clean"
              /\ n \in Names /\ Has(k.made, n) /\ ~Has(m.made, n)
              /\ \E s \in Sides(k.plan) : n = TempName(k.plan, s)
              /\ \A at : Kept(at, k) => Kept(at, m)
  <1> DEFINE m == [k EXCEPT !.made = Front(@)]
             n == Last(k.made)
             f == Front(k.made)
  <1>1. k.made \in Seq(Names)
    BY DEF Record
  <1>2. /\ f \in Seq(Names) /\ Len(k.made) \in Nat /\ Len(k.made) > 0
        /\ Len(f) = Len(k.made) - 1
        /\ \A i \in 1..Len(f) : f[i] = k.made[i]
        /\ n = k.made[Len(k.made)] /\ n \in Names
    BY <1>1, Fronts
  <1> HIDE DEF n, f
  <1>3. m \in Record
    BY <1>2 DEF Record, f
  <1>4. /\ m.pc = k.pc /\ m.result = k.result /\ m.plan = k.plan /\ m.todo = k.todo
        /\ m.made = f /\ m.base = k.base /\ m.head = k.head /\ m.live = k.live
        /\ m.error = k.error
    BY DEF Record, f
  <1> HIDE DEF m
  <1>5. /\ Steady(w, k) /\ k.todo = <<>>
        /\ \A i, j \in 1..Len(k.made) : i # j => k.made[i] # k.made[j]
        /\ \A i \in 1..Len(k.made) : \E s \in Sides(k.plan) : k.made[i] = TempName(k.plan, s)
        /\ Len(k.made) <= 2
    BY DEF Working, Steady
  <1>6. /\ \A i \in 1..Len(f) : i \in 1..Len(k.made) /\ i # Len(k.made)
        /\ Len(k.made) \in 1..Len(k.made) /\ Len(f) <= 2
    BY <1>2, <1>5
  <1>7. Has(k.made, n) /\ ~Has(f, n) /\ \E s \in Sides(k.plan) : n = TempName(k.plan, s)
    BY <1>2, <1>5, <1>6 DEF Has
  <1>8. \A x : ~Has(k.todo, x)
    BY <1>5 DEF Has
  <1>9. /\ \A i, j \in 1..Len(f) : i # j => f[i] # f[j]
        /\ \A i \in 1..Len(f) : \E s \in Sides(k.plan) : f[i] = TempName(k.plan, s)
    BY <1>2, <1>5, <1>6
  <1>10. Steady(w, m)
    BY <1>2, <1>4, <1>5, <1>6, <1>8, <1>9 DEF Steady
  <1>11. ~m.error /\ Apart(w) => Fetched(w, m)
    BY <1>4 DEF Working, Fetched, Got
  <1>12. m.result = IF m.pc = "clean" /\ ~m.error THEN Compare(m) ELSE {}
    <2>1. Compare(m) = Compare(k)
      BY <1>4, ComparesFetched
    <2>2. QED
      BY <1>4, <2>1 DEF Working
  <1>13. Working(w, m)
    BY <1>4, <1>5, <1>10, <1>11, <1>12 DEF Working
  <1>14. ASSUME NEW at, Kept(at, k)
         PROVE  Kept(at, m)
    <2>1. \A i \in 1..Len(m.made) : i \in 1..Len(k.made) /\ m.made[i] = k.made[i]
      BY <1>2, <1>4, <1>6
    <2>2. m.plan = k.plan
      BY <1>4
    <2> HIDE DEF m
    <2>3. QED
      BY <1>14, <2>1, <2>2 DEF Kept
  <1>15. QED
    BY <1>2, <1>3, <1>4, <1>7, <1>13, <1>14 DEF m, n, f

LEMMA DeleteOrderly ==
    ASSUME Orderly, NEW r \in Runners, Delete(r)
    PROVE  Orderly'
  <1> DEFINE k == runner[r]
             m == [k EXCEPT !.made = Front(@)]
             n == Last(k.made)
  <1>1. /\ k.pc = "clean" /\ k.made # <<>> /\ runner' = [runner EXCEPT ![r] = m]
        /\ world' = world /\ plans' = plans
    BY DEF Delete, Set
  <1>2. /\ k \in Record /\ Working(world, k) /\ world \in Worlds
        /\ plans' \in 0..MaxPlans /\ left \subseteq Names
    BY <1>1, IdleTyped DEF Orderly
  <1>3. k.plan \in Plan
    BY <1>2, Planned
  <1>4. /\ m \in Record /\ Working(world, m) /\ m.plan = k.plan /\ m.pc = "clean"
        /\ n \in Names /\ Has(k.made, n) /\ ~Has(m.made, n)
        /\ \E s \in Sides(k.plan) : n = TempName(k.plan, s)
        /\ \A at : Kept(at, k) => Kept(at, m)
    BY <1>1, <1>2, <1>3, Fewer
  <1> HIDE DEF m, n
  <1>5. ~world.twice /\ m.pc # "idle" =>
           \A q \in Runners : q # r => runner[q].pc = "idle" \/ runner[q].plan # m.plan
    BY <1>1, <1>4, SamePlan
  <1>6. CASE apps' = apps /\ left' = left \union {n}
    <2>1. left' \subseteq Names
      BY <1>2, <1>4, <1>6
    <2>2. QED
      BY <1>1, <1>2, <1>4, <1>5, <1>6, <2>1, Quiet
  <1>7. CASE apps' = [apps EXCEPT ![n] = NoApp] /\ left' = left \ {n}
    <2>1. /\ apps' \in [Names -> {NoApp} \union [of : Apps, branch : PRs \union {0}]]
          /\ \A x \in Names : apps'[x] # NoApp => Wanted(world, x, apps'[x])
          /\ left' \subseteq Names
      BY <1>2, <1>7 DEF Orderly
    <2>2. ASSUME OnePlan(world)
          PROVE  Kept(apps', m) /\ \A q \in Runners : q # r => Kept(apps', runner[q])
      <3>1. Kept(apps, k) /\ \A q \in Runners : runner[q] \in Record /\ Kept(apps, runner[q])
        BY <2>2 DEF Orderly
      <3>2. PICK s \in Sides(k.plan) : n = TempName(k.plan, s)
        BY <1>4
      <3>3. apps[n] = TempSpec(k.plan, s)
        BY <1>4, <3>1, <3>2 DEF Kept, Has
      <3>4. \A q \in Runners : q # r => ~Has(runner[q].made, n)
        BY <1>1, <2>2, <3>2, <3>3, OthersMade
      <3>5. Kept(apps, m)
        BY <1>4, <3>1
      <3>6. apps \in [Names -> {NoApp} \union [of : Apps, branch : PRs \union {0}]]
        BY DEF Orderly
      <3>7. QED
        BY <1>4, <1>7, <3>1, <3>4, <3>5, <3>6, Untouched
    <2>3. QED
      BY <1>1, <1>2, <1>4, <1>5, <2>1, <2>2, RunnerStep
  <1>8. QED
    BY <1>6, <1>7 DEF Delete, n

LEMMA ReturnOrderly ==
    ASSUME Orderly, NEW r \in Runners, Return(r)
    PROVE  Orderly'
  <1>1. /\ runner' = [runner EXCEPT ![r] = Idle]
        /\ world' = world /\ apps' = apps /\ plans' = plans /\ left' = left
    BY DEF Return, Set
  <1>2. Idle \in Record /\ Idle.pc = "idle" /\ Kept(apps, Idle)
    BY IdleTyped DEF Kept
  <1>3. plans' \in 0..MaxPlans /\ left' \subseteq Names
    BY <1>1 DEF Orderly
  <1>4. QED
    BY <1>1, <1>2, <1>3, Quiet

LEMMA DieOrderly ==
    ASSUME Orderly, Die
    PROVE  Orderly'
  <1>1. /\ runner' = [r \in Runners |-> Idle] /\ world' = world /\ apps' = apps /\ plans' = plans
        /\ left' \subseteq Names
    BY DEF Die, Orderly
  <1>2. /\ runner' \in [Runners -> Record] /\ \A r \in Runners : runner'[r] = Idle
    BY <1>1, IdleTyped
  <1>3. \A r \in Runners : Kept(apps', runner'[r]) /\ runner'[r].pc = "idle"
    BY <1>2, IdleTyped DEF Kept
  <1>4. QED
    BY <1>1, <1>2, <1>3 DEF Orderly

LEMMA NextOrderly == Orderly /\ [Next]_vars => Orderly'
  <1> SUFFICES ASSUME Orderly, [Next]_vars PROVE Orderly'
    OBVIOUS
  <1>1. CASE UNCHANGED vars
    BY <1>1 DEF vars, Orderly
  <1>2. ASSUME NEW r \in Runners, Begin(r) PROVE Orderly'
    BY <1>2, BeginOrderly
  <1>3. ASSUME NEW r \in Runners, GetManagedResources(r) PROVE Orderly'
    BY <1>3, GetManagedResourcesOrderly
  <1>4. ASSUME NEW r \in Runners, ClearName(r) PROVE Orderly'
    BY <1>4, ClearNameOrderly
  <1>5. ASSUME NEW r \in Runners, Finish(r) PROVE Orderly'
    BY <1>5, FinishOrderly
  <1>6. ASSUME NEW r \in Runners, Delete(r) PROVE Orderly'
    BY <1>6, DeleteOrderly
  <1>7. ASSUME NEW r \in Runners, Return(r) PROVE Orderly'
    BY <1>7, ReturnOrderly
  <1>8. ASSUME NEW r \in Runners, NEW s \in {"base", "head"}, Create(r, s) PROVE Orderly'
    BY <1>8, CreateOrderly
  <1>9. ASSUME NEW r \in Runners, NEW s \in {"base", "head"}, Wait(r, s) PROVE Orderly'
    BY <1>9, WaitOrderly
  <1>10. CASE Die
    BY <1>10, DieOrderly
  <1>11. QED
    BY <1>1, <1>2, <1>3, <1>4, <1>5, <1>6, <1>7, <1>8, <1>9, <1>10 DEF Next

\* At all times the workers follow their plans.
THEOREM AlwaysOrderly == Spec => []Orderly
  BY Started, NextOrderly, PTL DEF Spec

-----------------------------------------------------------------------------
(* The theorems. *)

\* The types, of whatever the branches and the cluster say and however plans share names.
THEOREM TypeCorrect == Spec => []TypeOK
  <1>1. Orderly => TypeOK
    <2> SUFFICES ASSUME Orderly, NEW r \in Runners
                 PROVE  /\ runner[r].pc \in {"idle", "diff", "clean"}
                        /\ runner[r].pc = "idle" <=> runner[r] = Idle
                        /\ runner[r].pc # "idle" => runner[r].plan \in world.plans
                        /\ runner[r].made \in Seq(Names) /\ Len(runner[r].made) <= 2
                        /\ \A d \in runner[r].result :
                              /\ d.key \in Keys \ Secrets
                              /\ d.action \in {"create", "delete", "update", "none"}
                              /\ Len(d.diff) \in {0, 2}
      BY DEF Orderly, TypeOK
    <2> DEFINE k == runner[r]
    <2>1. k \in Record /\ (k = Idle \/ Working(world, k)) /\ world \in Worlds
      BY DEF Orderly
    <2>2. k.pc \in {"idle", "diff", "clean"}
      BY <2>1 DEF Record, Phases
    <2>3. k.pc = "idle" <=> k = Idle
      BY <2>1, Planned, IdleTyped
    <2>4. k.pc # "idle" => k.plan \in world.plans
      BY <2>1, Planned, IdleTyped
    <2>5. k.made \in Seq(Names)
      BY <2>1 DEF Record
    <2>6. Len(k.made) <= 2
      <3>1. CASE k = Idle
        BY <3>1, IdleTyped
      <3>2. CASE Working(world, k)
        BY <3>2 DEF Working, Steady
      <3>3. QED
        BY <2>1, <3>1, <3>2
    <2>7. ASSUME NEW d \in k.result
          PROVE  /\ d.key \in Keys \ Secrets
                 /\ d.action \in {"create", "delete", "update", "none"}
                 /\ Len(d.diff) \in {0, 2}
      <3>1. d \in Entries
        BY <2>1, <2>7 DEF Record
      <3>2. d.key \in Keys \ Secrets /\ d.action \in {"create", "delete", "update", "none"}
        BY <3>1 DEF Entries
      <3>3. d.diff \in Changes
        BY <3>1 DEF Entries
      <3>4. Len(d.diff) \in {0, 2}
        BY <3>3 DEF Changes, NoDiff
      <3>5. QED
        BY <3>2, <3>4
    <2>8. QED
      BY <2>2, <2>3, <2>4, <2>5, <2>6, <2>7
  <1>2. QED
    BY <1>1, AlwaysOrderly, PTL

\* A plan that is made says what differs (internal/argocd/diff.go), whatever the branches and
\* the cluster say, however many plans are made at a time and wherever faults strike, as long
\* as the plans are kept apart.
THEOREM PlansSayWhatDiffers == ASSUME Separate PROVE Spec => []DiffIsRight
  <1>1. Orderly => DiffIsRight
    <2> SUFFICES ASSUME Orderly, NEW r \in Runners, runner[r].pc = "clean", ~runner[r].error
                 PROVE  Reported(runner[r].result)
                        = {<<k, Before(runner[r].plan, k), After(runner[r].plan, k)>> :
                             k \in {j \in Keys \ Secrets :
                                      Before(runner[r].plan, j) # After(runner[r].plan, j)}}
      BY DEF DiffIsRight, Reported
    <2> DEFINE k == runner[r]
    <2>1. Working(world, k) /\ world \in Worlds
      BY IdleTyped DEF Orderly
    <2>2. Apart(world)
      BY <2>1 DEF Separate
    <2>3. /\ k.plan \in world.plans /\ k.todo = <<>> /\ Fetched(world, k)
          /\ k.result = Compare(k)
      BY <2>1, <2>2 DEF Working, Steady
    <2>4. QED
      BY <2>1, <2>3, Compared
  <1>2. QED
    BY <1>1, AlwaysOrderly, PTL

\* A plan deletes the temporary applications of its own application and pull request only
\* (CreateNewApp and the deferred deletions), under the same condition.
THEOREM PlansDeleteTheirOwn == ASSUME Separate PROVE Spec => DeletesOnlyOwn
  <1> DEFINE Own == \A r \in Runners, n \in Names :
                       apps[n] # NoApp /\ apps'[n] = NoApp /\ runner'[r] # runner[r]
                       => apps[n].of = runner[r].plan.app
                          /\ apps[n].branch \in {0, runner[r].plan.pr}
  <1>1. ASSUME Orderly, [Next]_vars PROVE [Own]_vars
    <2> SUFFICES ASSUME Next, NEW r \in Runners, NEW n \in Names,
                        apps[n] # NoApp, apps'[n] = NoApp, runner'[r] # runner[r]
                 PROVE  apps[n].of = runner[r].plan.app
                        /\ apps[n].branch \in {0, runner[r].plan.pr}
      BY <1>1
    <2> DEFINE k == runner[r]
    <2>1. /\ apps \in [Names -> {NoApp} \union [of : Apps, branch : PRs \union {0}]]
          /\ runner \in [Runners -> Record] /\ world \in Worlds /\ Apart(world)
      BY <1>1 DEF Orderly, Separate
    <2>2. ASSUME NEW s \in Sides(k.plan), n = TempName(k.plan, s), k.pc # "idle",
                 OneSpec(world) \/ Has(k.made, n) \/ k.plan.kind = "new"
          PROVE  apps[n].of = k.plan.app /\ apps[n].branch \in {0, k.plan.pr}
      <3>1. k # Idle /\ k.plan \in world.plans
        BY <1>1, <2>2, IdleTyped DEF Orderly, Working, Steady
      <3>2. apps[n] = TempSpec(k.plan, s)
        BY <1>1, <2>1, <2>2, <3>1, OwnApp
      <3>3. QED
        BY <3>2 DEF TempSpec
    <2>3. ASSUME NEW q \in Runners, q # r, NEW m, runner' = [runner EXCEPT ![q] = m]
          PROVE  FALSE
      BY <2>1, <2>3
    <2>4. ASSUME NEW q \in Runners, ClearName(q)
          PROVE  apps[n].of = k.plan.app /\ apps[n].branch \in {0, k.plan.pr}
      <3>1. q = r
        BY <2>3, <2>4 DEF ClearName, Set, Fail
      <3>2. /\ n = TempName(k.plan, "own")
            /\ k.pc = "diff" /\ k.todo # <<>> /\ Head(k.todo) = "clear"
        BY <2>1, <2>4, <3>1 DEF ClearName, AtStep
      <3>3. Steady(world, k)
        BY <1>1, <3>2, IdleTyped DEF Orderly, Working
      <3>4. Has(k.todo, "clear")
        BY <3>2, <3>3, Advance
      <3>5. k.plan.kind = "new"
        BY <3>3, <3>4 DEF Steady
      <3>6. "head" \in Sides(k.plan) /\ n = TempName(k.plan, "head")
        BY <3>2, <3>5 DEF Sides, TempName
      <3>7. QED
        BY <2>2, <3>2, <3>5, <3>6
    <2>5. ASSUME NEW q \in Runners, Delete(q)
          PROVE  apps[n].of = k.plan.app /\ apps[n].branch \in {0, k.plan.pr}
      <3>1. q = r
        BY <2>3, <2>5 DEF Delete, Set
      <3>2. n = Last(k.made) /\ k.pc = "clean" /\ k.made # <<>>
        BY <2>1, <2>5, <3>1 DEF Delete
      <3>3. k \in Record /\ Working(world, k) /\ k.plan \in Plan
        BY <1>1, <2>1, <3>2, IdleTyped, Planned DEF Orderly
      <3>4. Has(k.made, n) /\ \E s \in Sides(k.plan) : n = TempName(k.plan, s)
        BY <2>1, <3>2, <3>3, Fewer
      <3>5. QED
        BY <2>2, <3>2, <3>4
    <2>6. ASSUME NEW q \in Runners, NEW s \in {"base", "head"}, Create(q, s)
          PROVE  FALSE
      <3> DEFINE a == TempSpec(runner[q].plan, s)
                 x == TempName(runner[q].plan, s)
      <3>1. apps' = apps \/ apps' = [apps EXCEPT ![x] = a]
        BY <2>6 DEF Create
      <3>2. AtStep(q, CreateOf[s])
        BY <2>6 DEF Create
      <3>3. runner[q].plan \in world.plans
        BY <1>1, <3>2, IdleTyped DEF AtStep, Orderly, Working, Steady
      <3>4. a # NoApp
        <4>1. a.of \in Apps
          BY <2>1, <3>3, PlansOf DEF Plan
        <4>2. QED
          BY <4>1, TempAppsAssumption DEF NoApp
      <3> HIDE DEF a, x
      <3>5. QED
        BY <2>1, <3>1, <3>4
    <2>7. QED
      BY <2>4, <2>5, <2>6 DEF Next, Begin, GetManagedResources, Finish, Return, Wait, Die
  <1>2. QED
    BY <1>1, AlwaysOrderly, PTL DEF Spec, DeletesOnlyOwn

\* A temporary application is still some worker's if one who has it keeps it.
LEMMA StillListed ==
    ASSUME Orderly, CleanedUp, NEW r \in Runners, NEW m, runner' = [runner EXCEPT ![r] = m],
           m.made \in Seq(Names),
           \A x \in Names \ left' : apps'[x] # NoApp =>
              \/ Has(m.made, x)
              \/ /\ x \notin left /\ apps[x] # NoApp
                 /\ Has(runner[r].made, x) => Has(m.made, x)
    PROVE  CleanedUp'
  <1>1. \A q \in Runners : runner[q].made \in Seq(Names) /\ (q # r => runner'[q] = runner[q])
    BY DEF Orderly, Record
  <1>2. runner'[r] = m
    BY DEF Orderly
  <1>3. \A q \in Runners : \A x : x \in {runner[q].made[i] : i \in DOMAIN runner[q].made}
                              <=> Has(runner[q].made, x)
    BY <1>1 DEF Has
  <1>4. \A q \in Runners : \A x : x \in {runner'[q].made[i] : i \in DOMAIN runner'[q].made}
                              <=> Has(runner'[q].made, x)
    BY <1>1, <1>2 DEF Has
  <1> SUFFICES ASSUME NEW x \in Names \ left', apps'[x] # NoApp
               PROVE  \E q \in Runners : Has(runner'[q].made, x)
    BY <1>4 DEF CleanedUp
  <1>5. CASE Has(m.made, x)
    BY <1>2, <1>5
  <1>6. CASE /\ x \notin left /\ apps[x] # NoApp
             /\ Has(runner[r].made, x) => Has(m.made, x)
    <2>1. PICK q \in Runners : Has(runner[q].made, x)
      BY <1>3, <1>6 DEF CleanedUp
    <2>2. QED
      BY <1>1, <1>2, <1>6, <2>1
  <1>7. QED
    BY <1>5, <1>6

\* What a plan creates it deletes again, after errors too (the deferred deletions of
\* diff.go), unless a fault may have left it.
THEOREM PlansCleanUp == Spec => []CleanedUp
  <1>1. Init => CleanedUp
    BY DEF Init, CleanedUp
  <1>2. ASSUME Orderly, CleanedUp, [Next]_vars PROVE CleanedUp'
    <2>1. \A r \in Runners : runner[r] \in Record /\ runner[r].made \in Seq(Names)
      BY <1>2 DEF Orderly, Record
    <2>2. apps \in [Names -> {NoApp} \union [of : Apps, branch : PRs \union {0}]]
      BY <1>2 DEF Orderly
    <2>3. ASSUME NEW r \in Runners, NEW m, runner' = [runner EXCEPT ![r] = m],
                 m.made = runner[r].made, apps' = apps, left' = left
          PROVE  CleanedUp'
      BY <1>2, <2>1, <2>3, StillListed
    <2>4. \A r \in Runners : /\ Abort(runner[r]).made = runner[r].made
                             /\ [Abort(runner[r]) EXCEPT !.made = runner[r].made].made
                                = runner[r].made
                             /\ StepDone(runner[r]).made = runner[r].made
      BY <2>1 DEF Abort, StepDone, Record
    <2>5. ASSUME NEW r \in Runners, Fail(r), apps' = apps, left' = left PROVE CleanedUp'
      BY <2>3, <2>4, <2>5 DEF Fail, Set
    <2>6. ASSUME NEW r \in Runners, Begin(r) PROVE CleanedUp'
      <3>1. PICK p : runner' = [runner EXCEPT ![r] =
                        [Idle EXCEPT !.pc = "diff", !.plan = p, !.todo = Steps(p)]]
        BY <2>6 DEF Begin, Set
      <3> DEFINE m == [Idle EXCEPT !.pc = "diff", !.plan = p, !.todo = Steps(p)]
      <3>2. m.made = <<>>
        BY DEF Idle
      <3>3. runner[r].made = <<>>
        BY <1>2, <2>6, Planned, IdleTyped DEF Begin, Orderly
      <3>4. apps' = apps /\ left' = left
        BY <2>6 DEF Begin
      <3>5. QED
        BY <2>3, <3>1, <3>2, <3>3, <3>4
    <2>7. ASSUME NEW r \in Runners, GetManagedResources(r) PROVE CleanedUp'
      <3> DEFINE m == [StepDone(runner[r]) EXCEPT !.live = world.live]
      <3>1. apps' = apps /\ left' = left /\ (Set(r, m) \/ Fail(r))
        BY <2>7 DEF GetManagedResources
      <3>2. m.made = runner[r].made
        BY <2>1 DEF StepDone, Record
      <3>3. QED
        BY <2>3, <2>5, <3>1, <3>2 DEF Set
    <2>8. ASSUME NEW r \in Runners, ClearName(r) PROVE CleanedUp'
      <3> DEFINE n == TempName(runner[r].plan, "own")
                 m == StepDone(runner[r])
      <3>1. CASE Fail(r) /\ apps' = apps /\ left' = left
        BY <2>5, <3>1
      <3>2. CASE apps' = [apps EXCEPT ![n] = NoApp] /\ left' = left \ {n} /\ Set(r, m)
        <4>1. runner' = [runner EXCEPT ![r] = m] /\ m.made = runner[r].made
          BY <2>4, <3>2 DEF Set
        <4> HIDE DEF m, n
        <4>2. \A x \in Names \ left' : apps'[x] # NoApp => x \notin left /\ apps[x] # NoApp
          BY <2>2, <3>2
        <4>3. QED
          BY <1>2, <2>1, <4>1, <4>2, StillListed
      <3>3. QED
        BY <2>8, <3>1, <3>2 DEF ClearName
    <2>9. ASSUME NEW r \in Runners, NEW s \in {"base", "head"}, Create(r, s) PROVE CleanedUp'
      <3> DEFINE k == runner[r]
                 n == TempName(k.plan, s)
                 a == TempSpec(k.plan, s)
                 m == [StepDone(k) EXCEPT !.made = Append(k.made, n)]
                 e == [Abort(k) EXCEPT !.made = k.made]
      <3>1. n \in Names
        <4>1. AtStep(r, CreateOf[s])
          BY <2>9 DEF Create
        <4>2. k.plan \in world.plans /\ world \in Worlds
          BY <1>2, <4>1, IdleTyped DEF AtStep, Orderly, Working, Steady
        <4>3. QED
          BY <4>2, PlansOf
      <3>2. Register(k, n, TRUE) = Append(k.made, n) /\ Register(k, n, FALSE) = k.made
        BY DEF Register
      <3>3. CASE apps' = [apps EXCEPT ![n] = a] /\ Set(r, m) /\ left' = left
        <4>1. m.made = Append(k.made, n)
          BY <2>1 DEF StepDone, Record
        <4>2. m.made \in Seq(Names) /\ \A x : Has(m.made, x) <=> Has(k.made, x) \/ x = n
          BY <2>1, <3>1, <4>1, Appended, OneMore
        <4>3. runner' = [runner EXCEPT ![r] = m]
          BY <3>3 DEF Set
        <4> HIDE DEF m, n, a
        <4>4. \A x \in Names : x # n => apps'[x] = apps[x]
          BY <2>2, <3>3
        <4>5. \A x \in Names \ left' : apps'[x] # NoApp =>
                 \/ Has(m.made, x)
                 \/ /\ x \notin left /\ apps[x] # NoApp
                    /\ Has(k.made, x) => Has(m.made, x)
          BY <3>3, <4>2, <4>4
        <4>6. QED
          BY <1>2, <4>2, <4>3, <4>5, StillListed
      <3>4. CASE apps' = apps /\ Set(r, e) /\ left' = left
        BY <2>3, <2>4, <3>4 DEF Set
      <3>5. CASE apps' = [apps EXCEPT ![n] = a] /\ Set(r, e) /\ left' = left \union {n}
        <4>1. runner' = [runner EXCEPT ![r] = e] /\ e.made = k.made
          BY <2>4, <3>5 DEF Set
        <4> HIDE DEF e, n, a
        <4>2. \A x \in Names \ left' : apps'[x] # NoApp => x \notin left /\ apps[x] # NoApp
          BY <2>2, <3>5
        <4>3. QED
          BY <1>2, <2>1, <4>1, <4>2, StillListed
      <3>6. QED
        BY <2>9, <3>2, <3>3, <3>4, <3>5 DEF Create
    <2>10. ASSUME NEW r \in Runners, NEW s \in {"base", "head"}, Wait(r, s) PROVE CleanedUp'
      <3> DEFINE n == TempName(runner[r].plan, s)
                 m == IF s = "base" THEN [StepDone(runner[r]) EXCEPT !.base = Manifests(n)]
                      ELSE [StepDone(runner[r]) EXCEPT !.head = Manifests(n)]
      <3>1. apps' = apps /\ left' = left /\ (Set(r, m) \/ Fail(r))
        BY <2>10 DEF Wait
      <3>2. m.made = runner[r].made
        BY <2>1 DEF StepDone, Record
      <3>3. QED
        BY <2>3, <2>5, <3>1, <3>2 DEF Set
    <2>11. ASSUME NEW r \in Runners, Finish(r) PROVE CleanedUp'
      <3> DEFINE k == runner[r]
                 m == [k EXCEPT !.pc = "clean", !.result = IF k.error THEN {} ELSE Compare(k)]
      <3>1. apps' = apps /\ left' = left /\ runner' = [runner EXCEPT ![r] = m]
        BY <2>11 DEF Finish, Set
      <3>2. m.made = k.made
        BY <2>1 DEF Record
      <3>3. QED
        BY <2>3, <3>1, <3>2
    <2>12. ASSUME NEW r \in Runners, Delete(r) PROVE CleanedUp'
      <3> DEFINE k == runner[r]
                 m == [k EXCEPT !.made = Front(@)]
                 n == Last(k.made)
      <3>1. k.pc = "clean" /\ k.made # <<>> /\ runner' = [runner EXCEPT ![r] = m]
        BY <2>12 DEF Delete, Set
      <3>2. Front(k.made) \in Seq(Names) /\ m.made = Front(k.made)
        BY <2>1, <3>1, Fronts DEF Record
      <3>3. \A x : Has(k.made, x) /\ x # n => Has(m.made, x)
        <4>1. /\ Len(k.made) \in Nat /\ Len(m.made) = Len(k.made) - 1
              /\ \A i \in 1..Len(m.made) : m.made[i] = k.made[i]
              /\ n = k.made[Len(k.made)]
          BY <2>1, <3>1, <3>2, Fronts
        <4>2. \A i \in 1..Len(k.made) : i = Len(k.made) \/ i \in 1..Len(m.made)
          BY <4>1
        <4> HIDE DEF m, n
        <4>3. QED
          BY <4>1, <4>2 DEF Has
      <3>4. \/ apps' = [apps EXCEPT ![n] = NoApp] /\ left' = left \ {n}
            \/ apps' = apps /\ left' = left \union {n}
        BY <2>12 DEF Delete
      <3> HIDE DEF m, n
      <3>5. \A x \in Names \ left' : apps'[x] # NoApp =>
               x # n /\ x \notin left /\ apps[x] # NoApp
        BY <2>2, <3>4
      <3>6. QED
        BY <1>2, <3>1, <3>2, <3>3, <3>5, StillListed
    <2>13. ASSUME NEW r \in Runners, Return(r) PROVE CleanedUp'
      BY <2>3, <2>13, IdleTyped DEF Return, Set
    <2>14. CASE Die
      <3>1. \A n \in Names : apps'[n] # NoApp => n \in left'
        BY <2>14 DEF Die
      <3>2. QED
        BY <3>1 DEF CleanedUp
    <2>15. CASE UNCHANGED vars
      BY <1>2, <2>15 DEF vars, CleanedUp
    <2>16. QED
      BY <1>2, <2>6, <2>7, <2>8, <2>9, <2>10, <2>11, <2>12, <2>13, <2>14, <2>15 DEF Next
  <1>3. QED
    BY <1>1, <1>2, AlwaysOrderly, PTL DEF Spec

=============================================================================
