---------------------------- MODULE Repositories ----------------------------
(***************************************************************************)
(* What the repository commands promise: each is one step from one         *)
(* consistent repository graph to another.  The graph is always the part   *)
(* reachable from what the user added; a command replaces what it fetched  *)
(* by what is published and drops what is required no longer, whatever     *)
(* the order it works in.                                                  *)
(***************************************************************************)
EXTENDS RepositoryGraph

VARIABLE graph

Init == graph = EmptyGraph

Add == \E r \in Repo : graph' = AddRepos(graph, {r})

Remove ==
    \E R \in SUBSET Added(graph) : graph' = Pruned(Unreference(graph, R, {Root}))

Clean == graph' = Cleaned(graph)

\* Repository r is now as published.
AsPublished(r) ==
    \E o \in Offers[r] :
        /\ graph'.contains[r] = DOMAIN o
        /\ \A f \in DOMAIN o :
            /\ graph'.complements[f] = ComplementsOf(r, o[f])
            /\ graph'.prerequisites[f] = o[f].prerequisites
            /\ graph'.packages[f] = o[f].packages

\* The graph with the repositories of R as they are afterwards.
Updated(R) ==
    LET F == UNION {graph'.contains[r] : r \in R} IN
    [repos |-> graph.repos \cup graph'.repos,
     contains |-> [r \in Repo |-> IF r \in R THEN graph'.contains[r] ELSE graph.contains[r]],
     fragments |-> graph.fragments \cup F,
     complements |-> [n \in Node |-> IF n \in F \cup {Root} THEN graph'.complements[n]
                                     ELSE graph.complements[n]],
     prerequisites |-> [n \in Node |-> IF n \in F THEN graph'.prerequisites[n]
                                       ELSE graph.prerequisites[n]],
     packages |-> [f \in Fragment |-> IF f \in F THEN graph'.packages[f]
                                      ELSE graph.packages[f]]]

\* The repositories of A are fetched (and added, if need be), with all they
\* require unless that has not changed, and so on.
Fetch ==
    \E A \in SUBSET Repo :
        /\ A # {}
        /\ Added(graph') = Added(graph) \cup A
        /\ \E R \in SUBSET graph'.repos :
            /\ A \subseteq R
            /\ \A r \in R :
                /\ AsPublished(r)
                /\ \/ RequiredBy(graph', r) \subseteq R
                   \/ r \in A /\ RequiredBy(graph', r) = RequiredBy(graph, r)
            /\ graph' = Pruned(Updated(R))

Next == Add \/ Remove \/ Clean \/ Fetch

Spec == Init /\ [][Next]_graph
=============================================================================
