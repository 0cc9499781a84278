--------------------------- MODULE RepositoryGraph ---------------------------
(***************************************************************************)
(* What a configuration knows of package repositories: the repositories,   *)
(* the fragments (commits, or the whole of a pkg or dir repository) they   *)
(* consist of, the repositories a fragment requires and the packages that  *)
(* are available from it.  The repositories the user added are the         *)
(* complements of a special root fragment.  Repositories may share         *)
(* fragments and require one another in cycles.                            *)
(***************************************************************************)
EXTENDS FiniteSets

CONSTANTS
    Repo,       \* repositories, by canonical name
    Fragment,   \* their fragments
    Package,    \* packages, with their versions
    Root,       \* the root fragment
    RootRepo,   \* the repository it stands for
    Lax,        \* the repositories of type git and dir
    Offers      \* the contents each repository may be published with

\* What is published in one fragment.
Manifest ==
    [complements: SUBSET Repo, prerequisites: SUBSET Repo, packages: SUBSET Package]

\* The contents of a repository: its fragments, each with what is in it.
Contents == UNION {[F -> Manifest] : F \in SUBSET Fragment}

ASSUME GraphAssumption ==
    /\ IsFiniteSet(Repo) /\ IsFiniteSet(Fragment)
    /\ Root \notin Fragment
    /\ RootRepo \notin Repo
    /\ Lax \subseteq Repo
    /\ DOMAIN Offers = Repo
    /\ \A r \in Repo : \A o \in Offers[r] :
        /\ DOMAIN o \subseteq Fragment
        /\ \A f \in DOMAIN o : o[f] \in Manifest

\* A commit is the same in every repository that has it.
ASSUME CommitAssumption ==
    \A r1, r2 \in Repo : \A o1 \in Offers[r1], o2 \in Offers[r2] :
        \A f \in DOMAIN o1 \cap DOMAIN o2 :
            r1 # r2 => o1[f] = o2[f] /\ {r1, r2} \subseteq Lax

\* No repository that shares a fragment with another can be reached, through
\* anything that may ever be published, from what that fragment requires.
\* Without this rep_remove_fragment() may keep a fragment for a repository that
\* only the fragment itself leads to, and so a cycle nobody can reach.
SharedAcyclic ==
    \A r1, r2 \in Repo : r1 # r2 => \A o1 \in Offers[r1], o2 \in Offers[r2] :
        \A f \in DOMAIN o1 \cap DOMAIN o2 : \E S \in SUBSET Repo :
            /\ o1[f].complements \cup o1[f].prerequisites \subseteq S
            /\ \A s \in S : \A o \in Offers[s] : \A x \in DOMAIN o :
                o[x].complements \cup o[x].prerequisites \subseteq S
            /\ r1 \notin S /\ r2 \notin S

Node == Fragment \cup {Root}

Graph ==
    [repos: SUBSET Repo,                      \* persistent repositories
     contains: [Repo -> SUBSET Fragment],     \* the fragments of each
     fragments: SUBSET Fragment,              \* persistent fragments
     complements: [Node -> SUBSET (Repo \cup {RootRepo})],
     prerequisites: [Node -> SUBSET Repo],
     packages: [Fragment -> SUBSET Package]]  \* located in each

EmptyGraph ==
    [repos |-> {},
     contains |-> [r \in Repo |-> {}],
     fragments |-> {},
     complements |-> [n \in Node |-> {}],
     prerequisites |-> [n \in Node |-> {}],
     packages |-> [f \in Fragment |-> {}]]

\* The repositories the user added.
Added(g) == g.complements[Root]

Required(g, n) == (g.complements[n] \cup g.prerequisites[n]) \ {RootRepo}

RequiredBy(g, r) == UNION {Required(g, f) : f \in g.contains[r]}

\* The repositories reachable from the root fragment: the smallest set that
\* has those the user added and whatever its members require.
Reachable(g) ==
    {r \in Repo : \A S \in SUBSET Repo :
        Added(g) \subseteq S /\ (\A s \in S : RequiredBy(g, s) \subseteq S) => r \in S}
-----------------------------------------------------------------------------
AddRepos(g, R) ==
    [g EXCEPT !.repos = @ \cup R, !.complements[Root] = @ \cup R]

\* No fragment of N requires a repository of R any more.
Unreference(g, R, N) ==
    [g EXCEPT !.complements = [n \in Node |-> IF n \in N THEN @[n] \ R ELSE @[n]],
              !.prerequisites = [n \in Node |-> IF n \in N THEN @[n] \ R ELSE @[n]]]

EraseRepo(g, r) ==
    [g EXCEPT !.repos = @ \ {r}, !.contains[r] = {}]

EraseFragment(g, f) ==
    [g EXCEPT !.fragments = @ \ {f}, !.complements[f] = {}, !.prerequisites[f] = {}]

\* With a fault: packages of the fragments of F disappear from all others.
ErasePackagesOf(g, F) ==
    LET gone == UNION {g.packages[f] : f \in F} IN
    [g EXCEPT !.packages = [f \in Fragment |-> @[f] \ gone]]

\* The packages lose their locations in the fragments of F.
ErasePackages(g, F) ==
    [g EXCEPT !.packages = [f \in Fragment |-> IF f \in F THEN {} ELSE @[f]]]

\* Only what the user added remains, as if never fetched.
Cleaned(g) ==
    [EmptyGraph EXCEPT !.repos = g.repos \cap Added(g), !.complements[Root] = Added(g)]

\* What fragment f of repository r complements: with no repositories of its
\* own, one of type git or dir takes its dependencies from all the user added.
ComplementsOf(r, m) ==
    IF r \in Lax /\ m.complements \cup m.prerequisites = {} THEN {RootRepo}
    ELSE m.complements

\* The fragments F of repository r now require what is published in o.
WithDependencies(g, r, o, F) ==
    [g EXCEPT !.repos = @ \cup UNION {o[f].complements \cup o[f].prerequisites : f \in F},
              !.complements = [n \in Node |-> IF n \in F THEN ComplementsOf(r, o[n]) ELSE @[n]],
              !.prerequisites = [n \in Node |-> IF n \in F THEN o[n].prerequisites ELSE @[n]]]

\* They have the packages that are in o, and no others.
WithPackages(g, o, F) ==
    [g EXCEPT !.packages = [f \in Fragment |-> IF f \in F THEN o[f].packages ELSE @[f]]]

\* Repository r was found with the contents o; the fragments of P have been
\* parsed before.
Parsed(g, r, o, P) ==
    LET new == DOMAIN o \ P
    IN  [WithPackages(WithDependencies(g, r, o, new), o, new) EXCEPT
            !.contains[r] = DOMAIN o,
            !.fragments = @ \cup new]

\* The part of the graph that can be reached from the root fragment.
Pruned(g) ==
    LET kept == g.repos \cap Reachable(g)
        used == UNION {g.contains[r] : r \in kept} IN
    [repos |-> kept,
     contains |-> [r \in Repo |-> IF r \in kept THEN g.contains[r] ELSE {}],
     fragments |-> g.fragments \cap used,
     complements |-> [n \in Node |-> IF n \in used \cup {Root} THEN g.complements[n] ELSE {}],
     prerequisites |-> [n \in Node |-> IF n \in used THEN g.prerequisites[n] ELSE {}],
     packages |-> [f \in Fragment |-> IF f \in used THEN g.packages[f] ELSE {}]]
=============================================================================
