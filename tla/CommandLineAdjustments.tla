----------------------- MODULE CommandLineAdjustments -----------------------
(* What pkg-build does about a dependent that the versions it has collected *)
(* do not satisfy: adjust the command line, as if the user had asked for    *)
(* another version of a dependency or of a dependent, and collect again     *)
(* (cmdline_adjustments, try_replace_dependency, try_replace_dependent).    *)
(*                                                                          *)
(* The adjustments are a stack, each with the part of the command line that *)
(* it has changed. No command line is tried twice. The command line is a    *)
(* record "line":                                                           *)
(*   hold, order   the packages to hold, and their order,                   *)
(*   expect        what is expected of dependencies,                        *)
(*   stack         the adjustments,                                         *)
(*   former        the sets of adjustments tried,                           *)
(*   denyDowngrade, denyProjects     what is not offered,                   *)
(*   downgrades, projects            whether something was not offered,     *)
(*   dropped, index  the adjustment being dropped in the refinement, if     *)
(*                 any, and its index; -1 outside of the refinement,        *)
(*   iteration     the number of times the line has been changed.           *)
EXTENDS BuildPackages

NoRefinement == -1

\* A package to hold, and what is expected of a dependency.
HoldSpec(v, allowed) == [version |-> v, allowed |-> allowed, pinned |-> FALSE, variables |-> FALSE]
DependencySpec(allowed) == [allowed |-> allowed, pinned |-> FALSE, upgrade |-> FALSE]

HoldSpecs == [version : Versions, allowed : SUBSET Versions, pinned : BOOLEAN,
              variables : BOOLEAN]
DependencySpecs == [allowed : SUBSET Versions, pinned : BOOLEAN, upgrade : BOOLEAN]

\* Every version will do: there is no constraint.
AnyVersion == Versions

Exact(allowed) == Cardinality(allowed) = 1

\* The constraint of a part of the command line, if it has one.
Imposed(spec) == IF spec.allowed = AnyVersion THEN <<>>
                 ELSE <<[by |-> CmdLine, allowed |-> spec.allowed]>>

CommandLine(hold, expect, denyDowngrade) ==
    [hold |-> hold, order |-> Listed(DOMAIN hold),
     expect |-> expect, stack |-> <<>>, former |-> {},
     denyDowngrade |-> denyDowngrade, denyProjects |-> TRUE,
     downgrades |-> FALSE, projects |-> FALSE,
     dropped |-> <<>>, index |-> NoRefinement, iteration |-> 0]

---------------------------------------------------------------------------
(* The stack.                                                               *)
\* state(): what identifies a command line, the order of its adjustments apart.
State(stack) == {<<a.name, a.version>> : a \in ToSet(stack)}

\* tried_earlier()
TriedEarlier(l, p, v) == State(l.stack) \cup {<<p, v>>} \in l.former

\* Put the adjustment into the command line, a new package at its end, and keep
\* what was there instead.
Push(l, a) ==
    LET p == a.name
        holds == a.type \in {"hold_existing", "hold_new"}
        original == IF a.type = "hold_existing" THEN <<l.hold[p]>>
                    ELSE IF a.type = "dep_existing" THEN <<l.expect[p]>> ELSE <<>>
        held == IF a.type = "hold_existing"
                THEN [l.hold[p] EXCEPT !.version = a.version, !.allowed = {a.version}]
                ELSE HoldSpec(a.version, {a.version})
        expected == IF a.type = "dep_existing"
                    THEN [l.expect[p] EXCEPT !.allowed = {a.version}]
                    ELSE DependencySpec({a.version})
        stack == Append(l.stack, [a EXCEPT !.original = original])
    IN  [l EXCEPT !.stack = stack,
                  !.former = @ \cup {State(stack)},
                  !.hold = IF holds THEN Put(@, p, held) ELSE @,
                  !.order = IF a.type = "hold_new" THEN Append(@, p) ELSE @,
                  !.expect = IF holds THEN @ ELSE Put(@, p, expected)]

\* Roll back the adjustment, the stack being what remains.
Pop(l, a, stack) ==
    LET p == a.name
    IN  [l EXCEPT !.stack = stack,
                  !.hold = IF a.type = "hold_existing" THEN Put(@, p, a.original[1])
                           ELSE IF a.type = "hold_new" THEN Without(@, p) ELSE @,
                  !.order = IF a.type = "hold_new" THEN Those(@, Pkgs \ {p}) ELSE @,
                  !.expect = IF a.type = "dep_existing" THEN Put(@, p, a.original[1])
                             ELSE IF a.type = "dep_new" THEN Without(@, p) ELSE @]

---------------------------------------------------------------------------
(* Another version of one package.                                          *)

\* The version p is collected in; an adjusted package stays as it is.
Current(sel, c, p) == IF c.bm[p].action = "build" THEN c.bm[p].version ELSE sel[p].version

\* satisfactory(): those a version does not satisfy, the user apart.
Refusing(b, v) == Dependents(Against(v, b))

\* skip_project_version(): the command line has another version of the project.
OtherVersion(world, l, p, v) ==
    \E a \in ToSet(l.stack) : world.project[a.name] = world.project[p] /\ a.version # v

\* Nothing else is offered for a package whose version the user, or an earlier
\* adjustment, asks for exactly, nor for one that is held at its version.
Fixed(sel, l, p) ==
    \/ p \in DOMAIN l.hold /\ Exact(l.hold[p].allowed)
    \/ p \in DOMAIN l.expect /\ Exact(l.expect[p].allowed)
    \/ sel[p].holdVersion /\ p \notin DOMAIN l.hold \cup DOMAIN l.expect

\* The user's constraint on the package.
Constraint(l, p) ==
    IF p \in DOMAIN l.hold THEN l.hold[p].allowed
    ELSE IF p \in DOMAIN l.expect THEN l.expect[p].allowed ELSE AnyVersion

\* The versions that may be offered.
Offers(world, sel, l, p) ==
    IF Fixed(sel, l, p) THEN {} ELSE world.available[p] \cap Constraint(l, p)

\* What the consideration of one version finds: the version to offer, if any, the
\* versions left to consider, the dependents that refuse those considered, and
\* whether one was denied for the sake of not downgrading, or of one version for
\* each project.
Found(offer, versions, refused, downgrades, projects) ==
    [offer |-> offer, versions |-> versions, refused |-> refused,
     downgrades |-> downgrades, projects |-> projects]

\* Consider version v of p, the latest of those left. Rather than an older version
\* the selected one is offered if it will do; if it will not, and downgrades are
\* denied, the search is over.
Consider(world, sel, c, l, p, versions, refused, v) ==
    LET b == c.bm[p]
        s == sel[p].version
        suits(w) == /\ Satisfies(w, b.constraints) /\ w # Current(sel, c, p)
                    /\ ~TriedEarlier(l, p, w)
        older == Constraint(l, p) = AnyVersion /\ s # 0 /\ v < s
        other(w) == l.denyProjects /\ OtherVersion(world, l, p, w)
        rest == versions \ {v}
        refuse == Extended(refused, Refusing(b, v))
        refuseBoth == IF older THEN Extended(refuse, Refusing(b, s)) ELSE refuse
        denied == older /\ suits(s) /\ other(s)
    IN  IF ~suits(v) THEN Found(<<>>, rest, refuse, FALSE, FALSE)
        ELSE IF older /\ suits(s) /\ ~other(s) THEN Found(<<s>>, {}, refuseBoth, FALSE, FALSE)
        ELSE IF older /\ l.denyDowngrade THEN Found(<<>>, {}, refuseBoth, TRUE, denied)
        ELSE IF other(v) THEN Found(<<>>, rest, refuseBoth, FALSE, TRUE)
        ELSE Found(<<v>>, {}, refuseBoth, FALSE, denied)

\* The adjustment: of what the command line has for the package, or a new one.
Adjustment(sel, l, p, v) ==
    [type |-> IF p \in DOMAIN l.hold THEN "hold_existing"
              ELSE IF p \in DOMAIN l.expect THEN "dep_existing"
              ELSE IF sel[p].hold THEN "hold_new" ELSE "dep_new",
     name |-> p, version |-> v, original |-> <<>>]

---------------------------------------------------------------------------
(* Another version of a dependent. A search is a record                     *)
(*   deps, dpts   the packages visited as dependencies, as dependents,      *)
(*   tried        the dependents of the dependency at hand that there is no *)
(*                other version for, with those that refuse their versions. *)
NoSearch == [deps |-> {}, dpts |-> {}, tried |-> <<>>]

\* A constraint and another of which neither allows all that the other allows.
Incompatible(k, ks) ==
    \E j \in ToSet(ks) : ~(k.allowed \subseteq j.allowed) /\ ~(j.allowed \subseteq k.allowed)

\* The dependents of p in the order they are tried: those p does not satisfy,
\* those they conflict with, those no version can satisfy together with others,
\* and those that refuse the other versions of p.
ToReplace(sel, c, p, conflicting, refused) ==
    LET ks == c.bm[p].constraints
        unsatisfied == Dependents(Against(Current(sel, c, p), c.bm[p]))
        unsatisfiable == Dependents(Those(ks, {k \in ToSet(ks) : Incompatible(k, ks)}))
    IN  unsatisfied \o conflicting \o unsatisfiable \o refused
===========================================================================
