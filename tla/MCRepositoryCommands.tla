------------------------ MODULE MCRepositoryCommands ------------------------
(* Small sets of published repositories for TLC: a pkg repository a, two        *)
(* directories b and e, and two git repositories with one URL, which share      *)
(* their state.                                                                 *)
EXTENDS RepositoryCommands

CONSTANTS a, b, e, g, h, fa, fb, fe, c1, c2, c3, p, q, t, u, n, s

Requires(cs, ps, packages) ==
    [complements |-> cs, prerequisites |-> ps, packages |-> packages]

MCState == [r \in Repo |-> IF r \in {g, h} THEN s ELSE NoState]

\* a and g change what they require: g has a second commit later, which requires
\* a.  The first commit is in h too and requires b; another of h requires nothing.
SharedOffers ==
    [r \in Repo |->
        CASE r = a -> {fa :> Requires({}, {}, {p}), fa :> Requires({g}, {b}, {})}
          [] r = b -> {fb :> Requires({}, {}, {p})}
          [] r = e -> {fe :> Requires({}, {}, {t}), fe :> Requires({}, {}, {t, u})}
          [] r = g -> {c1 :> Requires({b}, {}, {q}),
                       c1 :> Requires({b}, {}, {q}) @@ c2 :> Requires({}, {a}, {p})}
          [] r = h -> {c1 :> Requires({b}, {}, {q}), c3 :> Requires({}, {}, {q})}]

\* Nothing leads back to g or h from the commit they share.
ASSUME MCSharedAcyclic == SharedAcyclic

Rev(upstream, revision) ==
    [upstream |-> upstream, release |-> Final, revision |-> revision, iteration |-> 0]

\* An earliest release, a version with revisions, another and the stub.
SomeVersions ==
    {[Rev(1, Absent) EXCEPT !.release = Earliest], Rev(1, Absent), Rev(1, 0), Rev(1, 1),
     [Rev(1, Absent) EXCEPT !.iteration = 1], Wildcard}

MCVersion == (p :> Rev(1, Absent)) @@ (q :> Rev(1, 1)) @@ (t :> Rev(1, Absent))
             @@ (u :> [Rev(1, Absent) EXCEPT !.iteration = 1])

MCName == (p :> n) @@ (q :> n) @@ (t :> t) @@ (u :> n)

Between(from, min, to, max) == [from |-> from, min |-> min, to |-> to, max |-> max]

AnyVersion == Between("any", Wildcard, "any", Wildcard)

SomeConstraints ==
    {Between("closed", Rev(1, 0), "closed", Rev(1, Absent)),
     Between("closed", Rev(1, Absent), "closed", Rev(1, 0))}

MCTests ==
    (p :> {[name |-> t, buildtime |-> TRUE,
            constraint |-> Between("closed", Rev(1, Absent), "closed", Rev(1, Absent))]})
    @@ (q :> {[name |-> t, buildtime |-> FALSE, constraint |-> AnyVersion]})
    @@ (t :> {}) @@ (u :> {})
=============================================================================
