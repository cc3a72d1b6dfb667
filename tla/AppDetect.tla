------------------------------- MODULE AppDetect -------------------------------
(***************************************************************************)
(* findAffectedApplications (internal/commands/executor.go, appdetect.go): *)
(* from the files a pull request changes, the Application and              *)
(* ApplicationSet manifests on its branch and on the base branch, and what *)
(* Argo CD has, to the applications to plan and what happens to each.      *)
(*                                                                         *)
(* The steps are those of the function, which calls Argo CD in between; a  *)
(* call that fails is logged and its result left out.  A manifest is none  *)
(* or one of two contents.  There is one ApplicationSet.  An application   *)
(* is defined at most once on a branch.                                    *)
(*                                                                         *)
(* NoCROfDetected, SameContent and LeftUntyped are faulty variants of the  *)
(* definition after them.                                                  *)
(***************************************************************************)
EXTENDS PathMatching

CONSTANTS
    Apps,
    Inputs,  \* the situations looked at
    Faults   \* whether calls to Argo CD may fail

\* What is looked at: the files the pull request changes (changes), what Argo CD makes of
\* an application (app) and where it has it from (live: "none", "manifest" or "set"), its
\* manifest (head, base: 0 is none) and the file that is in (cr); the ApplicationSet
\* manifest (headSet, baseSet: whether there is one, and what it generates); and the
\* patterns that .lemuria.yaml gives for the name of the application, for a wildcard that
\* matches its name, and for the ApplicationSet (each a set, empty if there is no mapping).
ASSUME DetectAssumption ==
    /\ Faults \in BOOLEAN
    /\ \A in \in Inputs :
          /\ DOMAIN in.app = Apps /\ in.live \in [Apps -> {"none", "manifest", "set"}]
          /\ in.head \in [Apps -> 0..2] /\ in.base \in [Apps -> 0..2]
          /\ \A s \in {in.headSet, in.baseSet} : s.there \in BOOLEAN /\ s.apps \subseteq Apps
          /\ \A c \in in.changes : {c.file, c.renamedFrom} \subseteq Seq(STRING \ {".."})
          /\ \A a \in Apps :
                /\ in.exact[a] \union in.wild[a] \union in.set \subseteq Seq(STRING)
                /\ \A s \in in.app[a].sources :
                      s.path \in Seq(STRING) /\ \A v \in s.values : v.path \in Seq(STRING)

VARIABLES
    in,        \* the situation
    pc,        \* the step that is next
    affected,  \* the applications found: what happens to each, and whether a manifest is known
    deleted,   \* those that seem to be removed
    list,      \* ListApplications' answer
    failed     \* history: some call failed

vars == <<in, pc, affected, deleted, list, failed>>

NotFound == [type |-> "none", source |-> FALSE, generated |-> FALSE]
Entry == [type : {"none", "", "new", "existing", "deleted"}, source : BOOLEAN,
          generated : BOOLEAN]
Found(type, source) == [type |-> type, source |-> source, generated |-> FALSE]

Steps == {"scan", "mapping", "list", "manifests", "sets", "deleted", "cross-repo", "done"}

TypeOK == /\ pc \in Steps
          /\ affected \in [Apps -> Entry]
          /\ pc = "done" => \A a \in Apps : affected[a].type # ""
          /\ deleted \subseteq Apps /\ list \subseteq Apps
          /\ failed \in BOOLEAN

Init == /\ in \in Inputs
        /\ pc = "scan"
        /\ affected = [a \in Apps |-> NotFound]
        /\ deleted = {} /\ list = {}
        /\ failed = FALSE

-----------------------------------------------------------------------------

Detected(a) == affected[a] # NotFound
Files == AllFilePaths(in.changes)
Live == {a \in Apps : in.live[a] # "none"}
Generated == {a \in Apps : in.live[a] = "set"}

\* isAppAffected: a mapping for the name decides; one for a wildcard only if it matches.
IsAppAffected(a) ==
    IF in.exact[a] # {} THEN SomeFileMatches(Files, in.exact[a])
    ELSE \/ SomeFileMatches(Files, in.wild[a])
         \/ ReferencesRepo(in.app[a]) /\ \E f \in Files : FileMatchesAppSources(in.app[a], f)

\* The loop over the applications of the branch.
MatchScanned ==
    /\ pc = "scan"
    /\ affected' = [a \in Apps |-> IF in.head[a] # 0 /\ IsAppAffected(a) THEN Found("", TRUE)
                                   ELSE NotFound]
    /\ pc' = "mapping"
    /\ UNCHANGED <<in, deleted, list, failed>>

\* expandAppSetMappings: the applications that Argo CD has of the ApplicationSet.
ExpandAppSetMappings ==
    /\ pc = "mapping"
    /\ \/ /\ affected' = [a \in Apps |->
                            IF a \in Generated /\ SomeFileMatches(Files, in.set) /\ ~Detected(a)
                            THEN Found("existing", FALSE) ELSE affected[a]]
          /\ UNCHANGED failed
       \/ Faults /\ failed' = TRUE /\ UNCHANGED affected
    /\ pc' = "list"
    /\ UNCHANGED <<in, deleted, list>>

\* ListApplications fails: nothing seems to exist.
ListApplications ==
    /\ pc = "list"
    /\ \/ list' = Live /\ UNCHANGED failed
       \/ Faults /\ list' = {} /\ failed' = TRUE
    /\ pc' = "manifests"
    /\ UNCHANGED <<in, affected, deleted>>

\* detectApplicationChangesFromScan, verifyDeletedAppsExist.
NewCR(a) == in.head[a] # 0 /\ in.base[a] = 0
DeletedCR(a) == in.head[a] = 0 /\ in.base[a] # 0 /\ a \in list
SameContent(a) == FALSE
ModifiedCR(a) == in.head[a] # 0 /\ in.base[a] # 0 /\ in.head[a] # in.base[a]

\* An application found already gets its type, and keeps the manifest it has.  One that is
\* modified counts only if the pull request changes the file of its manifest.
NoCROfDetected(a) ==
    IF NewCR(a) /\ ~Detected(a) THEN Found("new", TRUE) ELSE affected[a]
WithCR(a) ==
    CASE NewCR(a) -> Found("new", TRUE)
      [] ModifiedCR(a) /\ (Detected(a) \/ in.cr[a] \in Files) -> Found("existing", TRUE)
      [] OTHER -> affected[a]

CompareManifests ==
    /\ pc = "manifests"
    /\ affected' = [a \in Apps |-> WithCR(a)]
    /\ deleted' = {a \in Apps : DeletedCR(a)}
    /\ pc' = "sets"
    /\ UNCHANGED <<in, list, failed>>

\* detectApplicationSetChangesFromScan: what the ApplicationSet generates on the branch and
\* on the base branch; if it is removed, what Argo CD has of it.
Generates(s) == IF s.there THEN s.apps ELSE {}
NewOfSet == Generates(in.headSet) \ Generates(in.baseSet)
DeletedOfSet == CASE in.baseSet.there /\ in.headSet.there -> in.baseSet.apps \ in.headSet.apps
                  [] in.baseSet.there /\ ~in.headSet.there -> Generated
                  [] OTHER -> {}

CompareSets ==
    /\ pc = "sets"
    /\ \/ /\ affected' = [a \in Apps |->
                            IF a \in NewOfSet /\ ~Detected(a)
                            THEN [Found("new", TRUE) EXCEPT !.generated = TRUE] ELSE affected[a]]
          /\ deleted' = deleted \union DeletedOfSet
          /\ UNCHANGED failed
       \/ Faults /\ failed' = TRUE /\ UNCHANGED <<affected, deleted>>
    /\ pc' = "deleted"
    /\ UNCHANGED <<in, list>>

\* Whatever has no type in the end is existing.
LeftUntyped(e) == e
Typed(e) == IF e.type = "" THEN [e EXCEPT !.type = "existing"] ELSE e

\* What was found before becomes deleted too.
AddDeleted ==
    /\ pc = "deleted"
    /\ affected' = [a \in Apps |->
                      CASE a \in deleted /\ ~Detected(a) ->
                             [Found("deleted", TRUE) EXCEPT !.generated = ~DeletedCR(a)]
                        [] a \in deleted /\ Detected(a) ->
                             [affected[a] EXCEPT !.type = "deleted", !.source = TRUE]
                        [] OTHER -> Typed(affected[a])]
    /\ pc' = "cross-repo"
    /\ UNCHANGED <<in, deleted, list, failed>>

\* detectCrossRepoAffectedApps: applications whose manifests are elsewhere.
DetectCrossRepo ==
    /\ pc = "cross-repo"
    /\ affected' = [a \in Apps |->
                      IF /\ a \in list /\ ~Detected(a) /\ ReferencesRepo(in.app[a])
                         /\ \E f \in Files : FileMatchesAppSources(in.app[a], f)
                      THEN Found("existing", FALSE) ELSE affected[a]]
    /\ pc' = "done"
    /\ UNCHANGED <<in, deleted, list, failed>>

Next == \/ MatchScanned \/ ExpandAppSetMappings \/ ListApplications \/ CompareManifests
        \/ CompareSets \/ AddDeleted \/ DetectCrossRepo

Spec == Init /\ [][Next]_vars

-----------------------------------------------------------------------------
(* Properties. *)

AtHead == {a \in Apps : in.head[a] # 0} \union Generates(in.headSet)
\* Of an ApplicationSet that is removed, what Argo CD has is what goes.
BaseOfSet == IF in.baseSet.there /\ ~in.headSet.there THEN Generated ELSE Generates(in.baseSet)
AtBase == {a \in Apps : in.base[a] # 0} \union BaseOfSet

\* What the pull request does to an application.
Change(a) == CASE a \in AtHead /\ a \notin AtBase -> "new"
               [] a \in AtBase /\ a \notin AtHead -> "deleted"
               [] OTHER -> "existing"

\* An application that a manifest defines on one branch and the ApplicationSet on the other.
Moves(a) == \/ in.head[a] # 0 /\ a \in BaseOfSet
            \/ in.base[a] # 0 /\ a \in Generates(in.headSet)

\* helpers.go:25-58: a pattern with one "**" and no wildcard before it means what such
\* patterns usually mean.
GlobIsDoubleStar ==
    pc = "scan" => \A a \in Apps, f \in Files : \A p \in in.exact[a] \union in.wild[a] \union in.set :
       /\ Cardinality(DoubleStars(p)) = 1
       /\ \A i \in DOMAIN p : p[i] = "*" => \A j \in DoubleStars(p) : j < i
       => (MatchesPath(p, f) <=> DoubleStar(p, f))

\* executor.go:453-470, appdetect.go:405-407: an application that reads a changed file is
\* planned, wherever its manifest is; but for a mapping that says otherwise, and for the
\* value files of an application with one source.
ReadersAreFound ==
    pc = "done" /\ ~failed =>
       \A a \in Apps :
          /\ in.app[a].multi \/ \A s \in in.app[a].sources : s.values = {}
          /\ in.exact[a] = {} /\ (in.head[a] # 0 \/ a \in Live)
          /\ \E f \in Files : Reads(in.app[a], f)
          => Detected(a)

\* executor.go:207-212: whatever the pull request adds, removes or modifies is planned,
\* found by its files or not; calls that fail cost only what they were about.
ChangesAreFound ==
    pc = "done" =>
       \A a \in Apps :
          \/ in.head[a] # 0 /\ in.base[a] = 0
          \/ ~failed /\ Change(a) = "new"
          \/ ~failed /\ Change(a) = "deleted" /\ a \in Live /\ ~(in.base[a] = 0 /\ a \notin Generated)
          \/ in.head[a] # 0 /\ in.base[a] # 0 /\ in.head[a] # in.base[a] /\ in.cr[a] \in Files
          => Detected(a)

\* models.Application.ChangeType: an application is planned, and later synced, as what it
\* is; but for one that moves between a manifest and the ApplicationSet, and for a new one
\* that is in Argo CD already.
TypesAgree ==
    pc = "done" /\ ~failed =>
       \A a \in Apps : Detected(a) /\ ~Moves(a) /\ ~(Change(a) = "new" /\ a \in Live)
                     => affected[a].type = Change(a)

==============================================================================
