------------------------------ MODULE MCTempApps ------------------------------
(* Small instances of TempApps for TLC: one plan of every kind and mode for every content *)
(* of the branches and the cluster, and several plans at a time for one content.           *)
EXTENDS TempApps

Releases == {"own", "base", "head"}
MCKeys == {"res", "hook", "secret"} \X Releases
MCSecrets == {"secret"} \X Releases
MCStem == [a \in Apps |-> IF a = "plain" THEN "plain" ELSE "long"]

Says(y) == [yaml |-> y, noise |-> 0]
Res(y) == [key |-> "res", state |-> Says(y)]
Secret(y) == [key |-> "secret", state |-> Says(y)]
Live(k, y, hook) == [key |-> <<k, "own">>, state |-> [yaml |-> y, noise |-> 1], hook |-> hook]

Lists == {<<>>, <<Res("x")>>, <<Res("null"), Secret("x")>>, <<Res("x"), Res("y"), Secret("y")>>}
Clusters == {{}, {Live("res", "null", FALSE)},
             {Live("res", "x", FALSE), Live("secret", "x", FALSE)},
             {Live("res", "y", FALSE), Live("hook", "x", TRUE)}}

Of(a, p, kind, mode) == [app |-> a, pr |-> p, kind |-> kind, mode |-> mode]
World(base, head, live, ps, twice) ==
    [render |-> [b \in 0..2 |-> IF b = 0 THEN base ELSE head], live |-> live, plans |-> ps,
     twice |-> twice]

ContentWorlds ==
    {World(b, h, l, {Of("long1", 1, k, m)}, FALSE) :
        b \in Lists, h \in Lists, l \in Clusters, k \in Kinds, m \in Modes}

\* One application planned for two pull requests and twice for one of them; two with one
\* stem; and an application that is new.
SharingWorlds ==
    {[World(<<Res("x")>>, <<Res("y")>>, {Live("res", "x", FALSE)}, ps, twice) EXCEPT
        !.render[2] = <<Res("x"), Res("null")>>] :
       <<ps, twice>> \in {<<{Of("plain", 1, "existing", "both"),
                              Of("plain", 2, "existing", "branch")}, TRUE>>,
                           <<{Of("long1", 1, "existing", "branch"),
                              Of("long2", 1, "deleted", "both")}, FALSE>>,
                           <<{Of("plain", 1, "new", "branch")}, TRUE>>}}

MCWorlds == ContentWorlds \union SharingWorlds

\* The theorems about what a plan says and deletes assume this of the worlds.
ASSUME WorldsSeparate == Separate
==============================================================================
