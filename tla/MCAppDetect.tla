------------------------------ MODULE MCAppDetect ------------------------------
(* Situations of AppDetect for TLC: every pattern and file of up to three segments with a *)
(* plain application, and every combination of manifests, ApplicationSet and Argo CD with *)
(* a few applications, files and patterns.                                                *)
EXTENDS AppDetect

CONSTANT app

Segments == {"a", "b"}
Paths(S, n) == UNION {[1..k -> S] : k \in 1..n}

Source(here, path, ref, values) == [here |-> here, path |-> path, ref |-> ref, values |-> values]
Value(kind, ref, path) == [kind |-> kind, ref |-> ref, path |-> path]

Plain == [multi |-> FALSE, sources |-> {Source(TRUE, <<"a">>, "", {})}]
Elsewhere == [multi |-> FALSE, sources |-> {Source(FALSE, <<"a">>, "", {})}]
\* A chart from elsewhere with values from here, and one that reads beside its path.
Chart == [multi |-> TRUE, sources |->
            {Source(FALSE, <<"a">>, "", {Value("ref", "values", <<"b", "..", "a", "b">>)}),
             Source(TRUE, <<>>, "values", {})}]
Beside == [multi |-> TRUE, sources |->
             {Source(TRUE, <<"a", "a">>, "", {Value("relative", "", <<"..", "b">>),
                                              Value("absolute", "", <<"b">>)})}]

CR == <<"cr", "app">>
Sets == {[there |-> FALSE, apps |-> {}], [there |-> TRUE, apps |-> {}],
         [there |-> TRUE, apps |-> {app}]}
NoSet == [there |-> FALSE, apps |-> {}]
One(x) == [a \in Apps |-> x]
Changed(f) == [file |-> f, renamedFrom |-> <<>>]

GlobInputs ==
    {[changes |-> {Changed(f)}, app |-> One(Plain), live |-> One("none"), head |-> One(1),
      base |-> One(1), cr |-> One(CR), headSet |-> NoSet, baseSet |-> NoSet,
      exact |-> One({p}), wild |-> One({}), set |-> {}] :
        f \in Paths(Segments, 3), p \in Paths({"a", "*", "**"}, 3)}

\* Not every file that differs between the branches is the pull request's: the base branch
\* may have moved on.
ChangeInputs ==
    {[changes |-> c, app |-> One(x), live |-> One(l), head |-> One(h), base |-> One(b),
      cr |-> One(CR), headSet |-> hs, baseSet |-> bs, exact |-> One(m[1]), wild |-> One(m[2]),
      set |-> m[3]] :
        c \in {{Changed(<<"a", "b">>)}, {Changed(CR)},
               {[file |-> <<"c">>, renamedFrom |-> <<"b">>]}},
        x \in {Plain, Elsewhere, Chart, Beside}, l \in {"none", "manifest", "set"},
        h \in 0..2, b \in {0, 1}, hs \in Sets, bs \in Sets,
        m \in {<<{}, {}, {}>>, <<{<<"b", "**">>}, {<<"**">>}, {}>>, <<{}, {<<"**">>}, {}>>,
               <<{}, {}, {<<"a", "*">>}>>}}

MCInputs == GlobInputs \union ChangeInputs
==============================================================================
