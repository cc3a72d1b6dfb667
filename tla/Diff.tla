--------------------------------- MODULE Diff ---------------------------------
(***************************************************************************)
(* What a plan says would change (internal/argocd/diff.go, and             *)
(* toPlanDiffEntries in internal/commands/plan.go).                        *)
(*                                                                         *)
(* A manifest has a key, standing for group, kind, namespace and name, and *)
(* a state: what it says (yaml, "null" if it is nothing) and the noise     *)
(* that the cluster adds.  A list of manifests is a sequence.  A live      *)
(* resource is one that Argo CD manages; it may be a hook.                 *)
(*                                                                         *)
(* KeepSecrets and ForgetDeleted are faulty variants of the definition     *)
(* after them.                                                             *)
(***************************************************************************)
EXTENDS Naturals, Sequences, FiniteSets

CONSTANTS Keys, Secrets,  \* Secrets: the keys of Secrets
          Texts           \* what a manifest may say
ASSUME DiffAssumption == Secrets \subseteq Keys /\ "null" \in Texts

State == [yaml : Texts, noise : Nat]

NoDiff == <<>>
Nothing == [yaml |-> "null", noise |-> 0]

\* jsonToYAML and cleanForDiff; "" and "null" become empty.
Clean(state) == [state EXCEPT !.noise = 0]

\* buildManifestMap: of two manifests with one key the last counts.
LastOf(list, k) == CHOOSE i \in DOMAIN list :
                      list[i].key = k /\ \A j \in DOMAIN list : list[j].key = k => j <= i
ManifestMap(list) == [k \in {list[i].key : i \in DOMAIN list} |-> list[LastOf(list, k)].state]

\* buildLiveResourceMap: no hooks and no Secrets.
KeepSecrets(live) == [k \in {r.key : r \in {s \in live : ~s.hook}} |->
                        (CHOOSE r \in live : r.key = k /\ ~r.hook).state]
LiveMap(live) == [k \in {r.key : r \in {s \in live : ~s.hook}} \ Secrets |->
                    (CHOOSE r \in live : r.key = k /\ ~r.hook).state]

\* computeDiff, formatCreateDiff and formatDeleteDiff: nothing, or from what to what.
Unified(from, to) == IF Clean(from) = Clean(to) THEN NoDiff ELSE <<Clean(from), Clean(to)>>
At(map, k) == IF k \in DOMAIN map THEN map[k] ELSE Nothing
Difference(from, to, k) == Unified(At(from, k), At(to, k))

\* computeStateDiff's action, of what is there before and after.
Action(from, to, k) ==
    CASE k \notin DOMAIN from /\ k \in DOMAIN to -> "create"
      [] k \in DOMAIN from /\ k \notin DOMAIN to -> "delete"
      [] OTHER -> IF Difference(from, to, k) # NoDiff THEN "update" ELSE "none"

Entry(from, to, k) == [key |-> k, diff |-> Difference(from, to, k), liveDiff |-> NoDiff,
                       action |-> Action(from, to, k)]

\* computeManifestsDiff: creates and deletes are entries even if they say nothing.
ForgetDeleted(current, target) ==
    LET from == ManifestMap(current)
        to == ManifestMap(target)
    IN {Entry(from, to, k) : k \in {j \in DOMAIN to \ Secrets : Action(from, to, j) # "none"}}
ManifestsDiff(current, target) ==
    LET from == ManifestMap(current)
        to == ManifestMap(target)
    IN {Entry(from, to, k) : k \in {j \in (DOMAIN from \union DOMAIN to) \ Secrets :
                                      Action(from, to, j) # "none"}}

\* computeLiveVsTargetDiff: only what says something.
LiveVsTargetDiff(live, target) ==
    LET from == LiveMap(live)
        to == ManifestMap(target)
    IN {Entry(from, to, k) :
          k \in {j \in (DOMAIN to \ Secrets) \union (DOMAIN from \ DOMAIN to) :
                   Difference(from, to, j) # NoDiff}}

\* computeThreeWayDiff: what the branch changes, with what a sync would change beside it.
ThreeWayDiff(base, target, live) ==
    LET from == ManifestMap(base)
        to == ManifestMap(target)
        at == LiveMap(live)
    IN {[Entry(from, to, k) EXCEPT !.liveDiff = Difference(at, to, k)] :
          k \in {j \in (DOMAIN from \union DOMAIN to \union DOMAIN at) \ Secrets :
                   Difference(from, to, j) # NoDiff \/ Difference(at, to, j) # NoDiff}}

\* toPlanDiffEntries: what the lock keeps of the plan.
PlanEntries(diffs) == {d \in diffs : d.diff # NoDiff}

==============================================================================
