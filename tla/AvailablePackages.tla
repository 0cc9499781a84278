-------------------------- MODULE AvailablePackages --------------------------
(***************************************************************************)
(* Looking for available packages (package-query.cxx): a package is        *)
(* visible from a repository fragment if it is in the fragment, in one of  *)
(* the repositories it requires, or in what complements these, recursively *)
(* and whatever cycles there are, except for repositories that are masked. *)
(* Of those visible the latest version within a constraint is taken.       *)
(*                                                                         *)
(* One configuration; the imaginary stubs and the archives named on the    *)
(* command line, which come before and after, are left out.                *)
(***************************************************************************)
EXTENDS RepositoryGraph, VersionConstraints

CONSTANTS
    NameOf,     \* of each package,
    VersionOf,  \* and its version
    Tests,      \* the tests of each: [name, constraint, buildtime]
    Wanted      \* bound: the constraints that packages are looked for with

\* A revision that is zero is loaded from the database as an absent one.
ASSUME PackagesAssumption ==
    /\ IsFiniteSet(Package)
    /\ DOMAIN NameOf = Package
    /\ DOMAIN VersionOf = Package
    /\ \A p \in Package : VersionOf[p] \in PackageVersion /\ VersionOf[p].revision # 0
    /\ DOMAIN Tests = Package
    /\ Wanted \subseteq Constraint \cup {[c EXCEPT !.from = "any", !.to = "any"] : c \in Constraint}

\* What is not masked. The root repository never is.
Unmasked(g) == [repos |-> g.repos \cup {RootRepo}, fragments |-> g.fragments \cup {Root}]
Everything == [repos |-> Repo \cup {RootRepo}, fragments |-> Node]

NoPackage == [package |-> Root, fragments |-> {}]

FragmentsIn(g, r) == IF r = RootRepo THEN {Root} ELSE g.contains[r]

\* The fragments of those of the repositories R that are not masked.
FragmentsOf(g, m, R) == UNION {FragmentsIn(g, r) : r \in R \cap m.repos}

Locations(g, m, p) == {f \in Fragment \cap m.fragments : p \in g.packages[f]}

\* A search: the fragments looked in so far, in the chain that leads here, the
\* one to look from and whether its prerequisites matter.
Search == (SUBSET Node) \X Node \X BOOLEAN

\* With a fault: the prerequisites of complements are taken into account as well.
FoundThrough(g, m, p, find, chain, f, prereq) ==
    LET cs == FragmentsOf(g, m, g.complements[f])
        ps == IF prereq THEN FragmentsOf(g, m, g.prerequisites[f]) ELSE {}
        here == Locations(g, m, p) \cap ({f} \cup cs \cup ps)
        In(F) == UNION {find[<<chain \cup {f}, x, prereq>>] : x \in F}
    IN  IF f \in chain THEN {}
        ELSE IF here # {} THEN here
        ELSE IF In(cs) # {} THEN In(cs) ELSE In(ps)

\* Where package p is found from fragment f: in what is closest.
FoundFrom(g, m, p, find, chain, f, prereq) ==
    LET cs == FragmentsOf(g, m, g.complements[f])
        ps == IF prereq THEN FragmentsOf(g, m, g.prerequisites[f]) ELSE {}
        here == Locations(g, m, p) \cap ({f} \cup cs \cup ps)
        In(F) == UNION {find[<<chain \cup {f}, x, FALSE>>] : x \in F}
    IN  IF f \in chain THEN {}
        ELSE IF here # {} THEN here
        ELSE IF In(cs) # {} THEN In(cs) ELSE In(ps)

\* Where package p may be found, by each search.
Find(g, m, p) ==
    LET find[s \in Search] == FoundFrom(g, m, p, find, s[1], s[2], s[3])
    IN  find

Filter(g, m, f, p, prereq) == Find(g, m, p)[<<{}, f, prereq>>]

\* Those starting from one of several fragments.
FilterAll(g, m, F, p, prereq) == UNION {Filter(g, m, f, p, prereq) : f \in F}

Available(g) == {p \in Package : Locations(g, Everything, p) # {}}

QueryAvailable(g, n, c, exact) ==
    {p \in Available(g) : NameOf[p] = n /\ Queried(VersionOf[p], c, exact)}

\* The one that comes first in the order of the query.
Latest(ps) ==
    CHOOSE p \in ps : \A q \in ps :
        ~Gt(Canonical(VersionOf[q]), Canonical(VersionOf[p]), TRUE, TRUE)

\* The latest that can be found.
FilterOne(g, m, F, ps, prereq) ==
    LET found == {p \in ps : FilterAll(g, m, F, p, prereq) # {}}
    IN  IF found = {} THEN NoPackage
        ELSE [package |-> Latest(found), fragments |-> FilterAll(g, m, F, Latest(found), prereq)]

FindAvailableOne(g, m, n, c, F, prereq, exact) ==
    FilterOne(g, m, F, QueryAvailable(g, n, c, exact), prereq)
-----------------------------------------------------------------------------
\* What rep-fetch makes sure of in the end.

\* The packages that test package t is for.
Primaries(g, t, buildtime) ==
    {p \in Available(g) : \E d \in Tests[p] :
        /\ d.buildtime = buildtime
        /\ t \in QueryAvailable(g, d.name, d.constraint, FALSE)
        /\ FilterAll(g, Everything, Locations(g, Everything, p), t, FALSE) # {}}

\* It is needed for building some of them and for running others.
TestsDisagree(g) ==
    \E t \in Package : Primaries(g, t, TRUE) # {} /\ Primaries(g, t, FALSE) # {}

\* Two directories have the same version of a package; D has their fragments.
ExternalsClash(g, D) ==
    \E f1, f2 \in D : f1 # f2 /\ \E p1 \in g.packages[f1], p2 \in g.packages[f2] :
        /\ NameOf[p1] = NameOf[p2]
        /\ Eq(Canonical(VersionOf[p1]), Canonical(VersionOf[p2]), TRUE, FALSE)
-----------------------------------------------------------------------------
\* The fragments of F and of what complements these, and so on: the smallest
\* set that has the former and what complements its members.
Complemented(g, F) ==
    LET With[S \in SUBSET Node] ==
            LET more == S \cup UNION {FragmentsOf(g, Everything, g.complements[f]) : f \in S}
            IN  IF more = S THEN S ELSE With[more]
    IN  With[F]

\* What repositories declare to be visible from fragment f.
Declared(g, f, prereq) ==
    Complemented(g, {f} \cup (IF prereq THEN FragmentsOf(g, Everything, g.prerequisites[f])
                              ELSE {}))

\* Package p can be found from f exactly if it is where f declares it to be.
FoundWhereDeclared(g, mask, f, p, prereq, declared) ==
    LET found == Filter(g, mask, f, p, prereq)
    IN  found \subseteq declared /\ (declared # {} => found # {})

\* Found, if anything, is the latest of the packages that suit.
LatestOf(found, suiting) ==
    IF suiting = {} THEN found = NoPackage
    ELSE /\ found.package \in suiting
         /\ \A p \in suiting : ~Before(VersionOf[found.package], VersionOf[p], TRUE)

Suiting(n, c, available) ==
    {p \in available : NameOf[p] = n /\ (Satisfies(VersionOf[p], c) \/ Stub(VersionOf[p]))}

LatestChosen(g, mask, f, prereq, available) ==
    \A n \in {NameOf[p] : p \in Package}, c \in Wanted :
        LatestOf(FindAvailableOne(g, mask, n, c, {f}, prereq, FALSE), Suiting(n, c, available))

\* What is found in graph g with a mask is what is declared by the rest, which
\* remains without what is masked.
FoundAsDeclared(g, mask, rest) ==
    \A f \in rest.fragments \cup {Root}, prereq \in BOOLEAN :
        LET visible == Declared(rest, f, prereq)
            at == [p \in Package |-> Locations(rest, Everything, p) \cap visible]
        IN  /\ \A p \in Package : FoundWhereDeclared(g, mask, f, p, prereq, at[p])
            /\ LatestChosen(g, mask, f, prereq, {p \in Package : at[p] # {}})
=============================================================================
