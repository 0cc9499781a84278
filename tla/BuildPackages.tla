--------------------------- MODULE BuildPackages ---------------------------
(* The map of packages to build that pkg-build collects (build_packages):   *)
(* what one call does to it, which version wins when dependents disagree,   *)
(* who has to be reconfigured, and the order of the resulting plan.         *)
(*                                                                          *)
(* One configuration; linked ones are in LinkedPackages. Source packages    *)
(* only: no system packages, no dependency alternatives, no configuration   *)
(* clauses. The repositories a command sees are a record "world":           *)
(*   available[p]   the versions of p that can be fetched,                  *)
(*   depends[p][v]  what p at v depends on, in the order of its manifest:   *)
(*                  records [name, allowed].                                *)
EXTENDS Integers, FiniteSets, SequencesExt

CONSTANTS
    Names,      \* the names of packages, in the order of the map
    Versions    \* the versions of packages

Pkgs == ToSet(Names)

\* The user's constraints and requests carry this name.
CmdLine == "command line"

ASSUME NamesAssumption ==
    /\ Names \in Seq(Pkgs) /\ IsInjective(Names)
    /\ CmdLine \notin Pkgs

ASSUME VersionsAssumption == Versions \subseteq Nat \ {0}

\* Those of the sequence s that are in S, in their order.
Those(s, S) ==
    LET those[n \in 0..Len(s)] ==
            IF n = 0 THEN <<>>
            ELSE IF s[n] \in S THEN Append(those[n - 1], s[n]) ELSE those[n - 1]
    IN  those[Len(s)]

Listed(ps) == Those(Names, ps)

\* The least set with start that next[p] is part of for every p in it.
Closure(start, next) ==
    {p \in Pkgs : \A S \in SUBSET Pkgs :
        start \subseteq S /\ (\A q \in S : next[q] \subseteq S) => p \in S}

---------------------------------------------------------------------------
(* One package of the map (build_package).                                  *)

\* A dependent's names and the versions it allows.
Depends(world, p, v) == world.depends[p][v]

DependsOn(world, p, v) == {d.name : d \in ToSet(Depends(world, p, v))}

\* action: "enter" for a package that is only pre-entered.
\* holdVersion: 0 to leave it as it is, 1 to clear and 2 to set it.
\* user, byDependents: who requires it (required_by).
BuildPackage(act, v) ==
    [action |-> act, version |-> v, hold |-> FALSE, holdVersion |-> 0, user |-> FALSE,
     byDependents |-> FALSE, constraints |-> <<>>,
     collected |-> FALSE, recursive |-> FALSE, reconfigure |-> FALSE]

Satisfies(v, constraints) == \A c \in ToSet(constraints) : v \in c.allowed

\* s and what of t it does not have, in the order of t.
Extended(s, t) == s \o Those(t, ToSet(t) \ ToSet(s))

\* reconfigure(): whether the plan takes the configured package apart.
Reconfigure(sel, bm, p) ==
    /\ bm[p].action # "drop"
    /\ sel[p].state = "configured"
    /\ \/ bm[p].reconfigure
       \/ bm[p].action = "build" /\ sel[p].version # bm[p].version

\* The packages the plan disfigures.
Disfigures(sel, bm, p) ==
    bm[p].action = "drop" \/ (bm[p].action # "enter" /\ Reconfigure(sel, bm, p))

\* merge(): p takes over what q, of the same package, was collected for.
Merge(p, q) ==
    [p EXCEPT
        !.user = p.user \/ q.user,
        !.byDependents = p.byDependents \/ q.byDependents,
        !.constraints = Extended(p.constraints, q.constraints),
        !.hold = p.hold \/ q.hold,
        !.holdVersion = IF q.holdVersion > p.holdVersion THEN q.holdVersion ELSE @,
        !.reconfigure = p.reconfigure \/ q.reconfigure]

---------------------------------------------------------------------------
(* Collecting. The collection is a record                                   *)
(*   bm        the map,                                                     *)
(*   replaced  the replacements decided (replaced_versions): version 0 for  *)
(*             a drop,                                                      *)
(*   unsat     the unsatisfied dependents in the order they are noted:      *)
(*             records [by, dep, conflicting],                              *)
(*   scratch   a scratch_collection exception is thrown,                    *)
(*   taken     the last build was taken: it was not one for what the map    *)
(*             already has.                                                 *)
Has(c, p) == p \in DOMAIN c.bm
Put(f, p, x) == [q \in DOMAIN f \cup {p} |-> IF q = p THEN x ELSE f[q]]
Without(f, p) == [q \in DOMAIN f \ {p} |-> f[q]]

\* Whether a replacement waits to be applied to p.
Waits(c, p) == p \in DOMAIN c.replaced /\ ~c.replaced[p].replaced

Replacement(v, original) == [version |-> v, original |-> original, replaced |-> TRUE]

DropPackage == BuildPackage("drop", 0)

\* collect_drop(): nothing is dropped that a dependent in the map requires; a
\* build is only replaced with a drop from scratch.
CollectDrop(c, p) ==
    LET w == Waits(c, p)
        rep == IF ~w THEN c.replaced
               ELSE IF c.replaced[p].version # 0 THEN Without(c.replaced, p)
               ELSE [c.replaced EXCEPT ![p].replaced = TRUE]
        d == [c EXCEPT !.replaced = rep]
    IN  IF ~Has(c, p) THEN [d EXCEPT !.bm = Put(c.bm, p, DropPackage)]
        ELSE IF c.bm[p].byDependents THEN d
        ELSE IF c.bm[p].action = "build"
             THEN [d EXCEPT !.replaced = Put(rep, p, Replacement(0, 0)),
                            !.scratch = TRUE]
        ELSE [d EXCEPT !.bm[p] = DropPackage]

\* The version of a replacement that waits, if the constraints allow it.
ApplyReplacement(c, p, b) ==
    /\ Waits(c, p)
    /\ c.replaced[p].version # 0
    /\ Satisfies(c.replaced[p].version, b.constraints)

\* prefer_p2(): whether, of two builds, the one being added is preferred: the
\* user's, then the replacement decided, then the newer version.
PreferNew(c, p, old, new) ==
    LET r == IF p \in DOMAIN c.replaced THEN c.replaced[p].version ELSE 0
    IN  IF old.user # new.user THEN new.user
        ELSE IF r # 0 /\ (old.version = r) # (new.version = r) THEN new.version = r
        ELSE new.version > old.version

\* The constraints of b that v does not satisfy.
Against(v, b) ==
    Those(b.constraints, {k \in ToSet(b.constraints) : v \notin k.allowed})

\* The packages that have imposed constraints.
Dependents(ks) == Those([i \in DOMAIN ks |-> ks[i].by], Pkgs)

\* unsatisfied_dependents: an ignored constraint, noted once, with the packages
\* whose constraints have conflicted.
Unsatisfied(p, d, ks) == [by |-> p, dep |-> d, conflicting |-> Dependents(ks)]

Noted(unsat, us) ==
    unsat \o Those(us, {u \in ToSet(us) :
                           \A w \in ToSet(unsat) : w.by # u.by \/ w.dep # u.dep})

IgnoredBy(c, p, d) == \E u \in ToSet(c.unsat) : u.by = p /\ u.dep = d

\* collect_build(), not recursive: enter package p as b, or settle b with what
\* the map holds for it. Of two builds of different versions the preferred one
\* wins unless only its version is refused. Where each refuses the other's, the
\* constraints of the one being added are ignored, one after another, and their
\* dependents noted as unsatisfied; from a constraint of the user's on, which is
\* never ignored, it is those in the map. Another version than the one in the map
\* is collected from scratch.
CollectBuild(c, p, b0) ==
    LET applied == ApplyReplacement(c, p, b0)
        rep == IF applied THEN [c.replaced EXCEPT ![p].replaced = TRUE] ELSE c.replaced
        b == IF applied THEN [b0 EXCEPT !.version = c.replaced[p].version] ELSE b0
        old == c.bm[p]
        newRefuses == Against(old.version, b)
        oldRefuses == Against(b.version, old)
        differ == b.version # old.version
        both == differ /\ newRefuses # <<>> /\ oldRefuses # <<>>
        users == \E k \in ToSet(newRefuses) : k.by = CmdLine
        dependents == Those(newRefuses, {k \in ToSet(newRefuses) : k.by # CmdLine})
        newWins == IF both THEN users
                   ELSE IF ~differ \/ newRefuses = oldRefuses
                   THEN PreferNew(c, p, old, b)
                   ELSE newRefuses # <<>>
        \* Either is noted together with the one it conflicts with.
        pair(k, j) == IF PreferNew(c, p, old, b) THEN <<k, j>> ELSE <<j, k>>
        ignored == IF ~both THEN <<>>
                   ELSE IF users
                   THEN [i \in DOMAIN oldRefuses |->
                            Unsatisfied(oldRefuses[i].by, p,
                                        pair(newRefuses[1], oldRefuses[i]))]
                   ELSE [i \in DOMAIN dependents |->
                            Unsatisfied(dependents[i].by, p,
                                        pair(dependents[i], oldRefuses[1]))]
        d == [c EXCEPT !.replaced = rep, !.taken = TRUE]
        e == [d EXCEPT !.unsat = Noted(@, ignored)]
    IN  IF Waits(c, p) /\ c.replaced[p].version = 0 /\ ~b0.byDependents
        THEN CollectDrop([c EXCEPT !.replaced[p].replaced = TRUE], p)
        ELSE IF ~Has(c, p) \/ old.action = "drop" THEN [d EXCEPT !.bm = Put(c.bm, p, b)]
        ELSE IF old.action # "build" THEN [d EXCEPT !.bm[p] = Merge(b, old)]
        ELSE IF ~newWins THEN [e EXCEPT !.bm[p] = Merge(old, b), !.taken = FALSE]
        ELSE IF ~differ THEN [e EXCEPT !.bm[p] = Merge(b, old)]
        ELSE [e EXCEPT !.scratch = TRUE,
                       !.replaced = Put(rep, p, Replacement(b.version, old.version))]

\* The version to build dependency d in, if there is one: the selected one if it
\* will do, otherwise the latest available that will.
Candidates(world, sel, d, allowed) ==
    IF sel[d].version \in allowed THEN {sel[d].version}
    ELSE LET vs == world.available[d] \cap allowed
         IN  {v \in vs : \A w \in vs : w <= v}

\* Whether the prerequisites of p need no collection: it stays configured, at
\* the version it has.
Pruned(sel, bm, p) ==
    /\ sel[p].state = "configured"
    /\ sel[p].version = bm[p].version
    /\ ~bm[p].collected

---------------------------------------------------------------------------
(* collect_dependents(): who has to be reconfigured.                        *)
ConfiguredDependents(sel, d) ==
    {p \in Pkgs : sel[p].state = "configured" /\ d \in DOMAIN sel[p].prereqs}

Dropped(bm, p) == p \in DOMAIN bm /\ bm[p].action = "drop"

\* With a fault: only of what is taken apart, as the plan needs them.
RootsReconfigured(sel, bm, reconfigured) ==
    IF reconfigured
    THEN Listed({p \in DOMAIN bm : /\ bm[p].action \in {"build", "adjust"}
                                   /\ sel[p].state = "configured"
                                   /\ Reconfigure(sel, bm, p)})
    ELSE <<>>

\* From where the dependents are visited: the configured packages that the plan
\* takes apart, or those that it does not.
Roots(sel, bm, reconfigured) ==
    Listed({p \in DOMAIN bm : /\ bm[p].action \in {"build", "adjust"}
                              /\ sel[p].state = "configured"
                              /\ Reconfigure(sel, bm, p) = reconfigured})

\* The dependents to visit from p.
DependentsToVisit(sel, bm, p) ==
    Listed({q \in ConfiguredDependents(sel, p) : ~Dropped(bm, q)})

\* Mark a dependent of a package for reconfiguration. One that refuses the
\* version its prerequisite changes to is unsatisfied; its constraint joins those
\* of the prerequisite, unless the dependent's own prerequisites are collected,
\* which has added it.
CollectDependent(sel, c, p, q) ==
    LET known == Has(c, q)
        collected == known /\ c.bm[q].collected
        constraint == [by |-> q, allowed |-> sel[q].prereqs[p]]
        refused == /\ c.bm[p].action = "build" /\ c.bm[p].version # sel[p].version
                   /\ ~collected /\ c.bm[p].version \notin constraint.allowed
        adjustment == [BuildPackage("adjust", 0) EXCEPT !.reconfigure = TRUE]
        adjusted == IF ~known THEN adjustment
                    ELSE IF c.bm[q].action = "build"
                    THEN [c.bm[q] EXCEPT !.reconfigure = TRUE]
                    ELSE Merge(adjustment, c.bm[q])
        d == [c EXCEPT !.bm = Put(@, q, adjusted),
                       !.unsat = IF refused THEN Noted(@, <<Unsatisfied(q, p, <<>>)>>) ELSE @]
    IN  IF collected THEN d
        ELSE [d EXCEPT !.bm[p].constraints = Extended(@, <<constraint>>)]

\* cancel_bogus(): the replacements that were not applied go.
CancelBogus(replaced) ==
    [p \in {q \in DOMAIN replaced : replaced[q].replaced} |-> replaced[p]]

\* With faults: no replacement is cancelled; those tried before are not told apart.
RedundantNever(c, former, initial) == {}

RedundantAlways(c, former, initial) ==
    {p \in DOMAIN c.replaced :
        /\ c.replaced[p].replaced /\ c.replaced[p].version # 0
        /\ c.replaced[p].original > c.bm[p].version
        /\ Satisfies(c.replaced[p].original, c.bm[p].constraints)}

\* cancel_redundant(): a downgrade that all the constraints, as they are now,
\* could do without. What was tried from the same initial state is not again.
Redundant(c, former, initial) ==
    {p \in DOMAIN c.replaced :
        /\ c.replaced[p].replaced /\ c.replaced[p].version # 0
        /\ c.replaced[p].original > c.bm[p].version
        /\ Satisfies(c.replaced[p].original, c.bm[p].constraints)
        /\ <<initial, p, c.replaced[p].original, c.bm[p].version>> \notin former}

---------------------------------------------------------------------------
(* order(): the plan, every package before what it depends on.              *)
\* What the plan does something about.
Acted(bm) == {p \in DOMAIN bm : bm[p].action # "enter"}

\* With a fault: only the order of configuration is kept.
OrderedByManifest(world, sel, bm, p) ==
    IF bm[p].action # "build" THEN <<>>
    ELSE Listed(DependsOn(world, p, bm[p].version) \cap Acted(bm))

\* What p is configured against.
ConfiguredAgainst(sel, bm, p) == Listed(DOMAIN sel[p].prereqs \cap Acted(bm))

\* If p is disfigured, that part of it which is disfigured as well.
CurrentDisfigured(sel, bm, p) ==
    Listed({q \in DOMAIN sel[p].prereqs \cap Acted(bm) :
               /\ sel[p].state = "configured" /\ Disfigures(sel, bm, p)
               /\ Disfigures(sel, bm, q)})

\* What p is ordered before: what it is going to be configured against, in the
\* reverse order of the manifest so that the plan comes close to that order, and
\* what has to be disfigured after it.
Ordered(world, sel, bm, p) ==
    LET ds == Depends(world, p, bm[p].version)
        manifest == [i \in DOMAIN ds |-> ds[i].name]
        builds == bm[p].action = "build"
    IN  IF builds /\ ~bm[p].collected THEN ConfiguredAgainst(sel, bm, p)
        ELSE (IF builds THEN Those(Reverse(manifest), Acted(bm)) ELSE <<>>)
             \o CurrentDisfigured(sel, bm, p)

Position(s, x) == CHOOSE i \in DOMAIN s : s[i] = x

\* Before the earliest of the packages qs, or at the end.
Insert(plan, p, qs) ==
    LET first == {i \in DOMAIN plan : \A j \in 1..i : plan[j] \notin ToSet(qs)}
    IN  InsertAt(plan, Cardinality(first) + 1, p)
===========================================================================
