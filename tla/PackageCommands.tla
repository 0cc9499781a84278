-------------------------- MODULE PackageCommands --------------------------
(* pkg-build and pkg-drop on one configuration, from the request to the     *)
(* last transaction, with failures and kills in between.                    *)
(*                                                                          *)
(* pkg-build collects the packages to build, starting over from scratch     *)
(* whenever a version it has already acted upon has to be another, orders   *)
(* them, simulates the plan, refines it with the drops of what is no longer *)
(* used and with the versions the user expects of dependencies, adjusts the *)
(* command line until every dependent is satisfied, and at last executes    *)
(* it: disfigures, fetches and configures, each package in a transaction of *)
(* its own. pkg-drop disfigures and purges the same way.                    *)
EXTENDS CommandLineAdjustments

CONSTANTS
    Worlds,         \* the repositories a configuration may have
    Requests,       \* what users ask for
    FetchCache,     \* whether the fetch cache is enabled
    MaxCommands,    \* bound: the commands of a behaviour
    MaxFaults,      \* bound: the steps that fail or are killed
    MaxIterations   \* bound: where the iterations of a collection stop counting

\* What a package depends on is in the manifest of each version that is available.
ASSUME WorldsAssumption ==
    \A w \in Worlds :
        /\ w.available \in [Pkgs -> SUBSET Versions]
        /\ \A p \in Pkgs : \A v \in w.available[p] :
              LET ds == Depends(w, p, v)
              IN  /\ ds \in Seq([name : Pkgs, allowed : SUBSET Versions])
                  /\ \A i, j \in DOMAIN ds : ds[i].name = ds[j].name => i = j

\* A package is either to be held or a dependency; what is asked for is a version
\* that is asked for.
ASSUME RequestsAssumption ==
    \A r \in Requests :
        /\ r.kind \in {"build", "drop"} /\ r.keep \in BOOLEAN
        /\ r.kind = "drop" => r.names \subseteq Pkgs /\ r.dependents \in BOOLEAN
        /\ r.kind = "build" =>
              /\ r.upgrade \in BOOLEAN
              /\ DOMAIN r.hold \cup DOMAIN r.expect \subseteq Pkgs
              /\ DOMAIN r.hold \cap DOMAIN r.expect = {}
              /\ r.hold \in [DOMAIN r.hold -> HoldSpecs]
              /\ r.expect \in [DOMAIN r.expect -> DependencySpecs]
              /\ \A p \in DOMAIN r.hold : r.hold[p].version \in r.hold[p].allowed

VARIABLES
    world,      \* the repositories
    selected,   \* the selected packages: all that is on disk
    phase,      \* what the command is doing; "idle" for no command
    req,        \* the request
    line,       \* the command line as adjusted
    judged,     \* history: the sets of adjustments that satisfied everyone or not
    col,        \* the collection
    tasks,      \* what is left to do in this phase, a stack
    search,     \* the packages visited, of the dependents or for an adjustment
    deps,       \* replaced_deps: the versions of dependencies decided, 0 to drop
    initial,    \* the state this iteration of the collection has started from
    iterations, \* how many the command has begun
    former,     \* former_redundant_replacements_
    plan,       \* the packages in the order of the plan
    todo,       \* those the current stage of the execution has yet to visit
    before,     \* history: the selected packages when the command began
    outcome,    \* how the last command has ended
    commands, faults

command == <<req, line, judged, col, tasks, search, deps, initial, iterations, former, plan>>
vars == <<world, selected, phase, command, todo, before, outcome, commands, faults>>

Config == INSTANCE ConfiguredPackages

None == Config!NoPackage
NoMap == [p \in {} |-> 0]
NoCollection == [bm |-> NoMap, replaced |-> NoMap, unsat |-> <<>>,
                 scratch |-> FALSE, taken |-> FALSE]
NoLine == CommandLine(NoMap, NoMap, FALSE)
NotJudged == [good |-> {}, bad |-> {}]

Init ==
    /\ world \in Worlds
    /\ selected = [p \in Pkgs |-> None]
    /\ phase = "idle" /\ outcome = "none"
    /\ before = selected
    /\ req = [kind |-> "none"]
    /\ line = NoLine /\ judged = NotJudged
    /\ col = NoCollection
    /\ tasks = <<>> /\ search = NoSearch
    /\ deps = <<>> /\ initial = NoMap /\ iterations = 0
    /\ former = {} /\ plan = <<>> /\ todo = <<>>
    /\ commands = 0 /\ faults = 0

\* A command ends and nothing of it stays but what it has committed.
Finish(how) ==
    /\ phase' = "idle" /\ outcome' = how
    /\ line' = NoLine /\ judged' = NotJudged
    /\ col' = NoCollection
    /\ tasks' = <<>> /\ search' = NoSearch
    /\ deps' = <<>> /\ initial' = NoMap /\ iterations' = 0
    /\ former' = {} /\ plan' = <<>> /\ todo' = <<>>

Ends(how) == Finish(how) /\ UNCHANGED <<world, selected, req, before, commands, faults>>

Fail == Ends("failed")

\* An assertion of the code does not hold.
FailAssertion == Ends("asserted")

\* What most steps of pkg-build leave alone.
Staying == UNCHANGED <<world, selected, req, former, todo, before, outcome, commands, faults>>

---------------------------------------------------------------------------
(* pkg-build: collecting.                                                   *)

\* With a fault: a pinned version is not a constraint.
HoldBuildLoosely(p) ==
    [BuildPackage("build", line.hold[p].version) EXCEPT
        !.hold = TRUE, !.user = TRUE, !.reconfigure = line.hold[p].variables]

\* A package to hold. A version is a constraint of the user's, and held if the
\* user has asked for it, otherwise the latest one is asked for; variables mean
\* it is to be reconfigured.
HoldBuild(p) ==
    LET h == line.hold[p]
    IN  [BuildPackage("build", h.version) EXCEPT
            !.hold = TRUE, !.holdVersion = IF h.pinned THEN 2 ELSE 1,
            !.user = TRUE, !.reconfigure = h.variables,
            !.constraints = Imposed(h)]

\* The dependencies that something is expected of are entered beforehand.
Entered(l) ==
    [p \in DOMAIN l.expect |->
        [BuildPackage("enter", 0) EXCEPT
            !.user = TRUE, !.holdVersion = IF l.expect[p].pinned THEN 2 ELSE 1,
            !.constraints = Imposed(l.expect[p])]]

Do(op, p) == [op |-> op, name |-> p]
Tasks(op, ps) == [i \in DOMAIN ps |-> Do(op, ps[i])]

Decided(ds) ==
    [i \in DOMAIN ds |-> [op |-> "replaced", name |-> ds[i].name, version |-> ds[i].version]]

\* Begin an iteration: from scratch, after a change of the decisions made for
\* dependencies (which drops the replacements) or not, or going on with the map
\* as it is to add the decisions just made.
Iterate(l, ds, replaced, bm, scratch) ==
    LET start == [bm |-> IF scratch THEN Entered(l) ELSE bm,
                  replaced |-> IF scratch
                               THEN [p \in DOMAIN replaced |->
                                        [replaced[p] EXCEPT !.replaced = FALSE]]
                               ELSE replaced,
                  unsat |-> <<>>, scratch |-> FALSE, taken |-> FALSE]
    IN  /\ col' = start
        /\ line' = l
        /\ deps' = ds
        /\ initial' = <<start.bm, start.replaced, ds, l.iteration>>
        /\ iterations' = IF iterations < MaxIterations THEN iterations + 1 ELSE iterations
        /\ tasks' = (IF scratch THEN Tasks("hold", l.order) \o Tasks("prerequisites", l.order)
                     ELSE <<>>) \o Decided(ds)
        /\ phase' = "collect"
        /\ search' = NoSearch /\ plan' = <<>>

\* cmdline_upgrade: whether a package the user has already is to be upgraded.
Upgrades(r) ==
    \/ r.upgrade /\ \E p \in DOMAIN r.hold : /\ selected[p].state # "none"
                                           /\ r.hold[p].allowed = AnyVersion
    \/ \E p \in DOMAIN r.expect : r.expect[p].upgrade

RequestBuild ==
    /\ phase = "idle" /\ commands < MaxCommands
    /\ \E r \in Requests :
          /\ r.kind = "build"
          /\ \A p \in DOMAIN r.hold :
                /\ r.hold[p].version \in world.available[p]
                /\ selected[p].state # "broken"
          /\ \A p \in DOMAIN r.expect :
                /\ ~selected[p].hold
                /\ r.expect[p].allowed \cap world.available[p] # {}
          /\ req' = r
          /\ Iterate(CommandLine(r.hold, r.expect, Upgrades(r)), <<>>, NoMap, NoMap, TRUE)
    /\ judged' = NotJudged
    /\ commands' = commands + 1
    /\ outcome' = "none"
    /\ before' = selected
    /\ UNCHANGED <<world, selected, former, todo, faults>>

Task(op) == tasks # <<>> /\ Head(tasks).op = op

\* The first task is done, but for more.
More(more) == tasks' = more \o Tail(tasks)

\* Go on with a collection, or start over from scratch, without the
\* replacements that were not applied.
Collected(c, more) ==
    /\ IF c.scratch
       THEN Iterate(line, deps, CancelBogus(c.replaced), NoMap, TRUE)
       ELSE /\ col' = c
            /\ More(more)
            /\ UNCHANGED <<line, search, deps, initial, iterations, plan, phase>>
    /\ UNCHANGED judged
    /\ Staying

\* The dependencies of p from the i-th on.
Dependency(p, i) == [op |-> "depend", name |-> p, at |-> i]

\* The user selection, one package after another and not recursively.
CollectHold ==
    /\ Task("hold")
    /\ LET p == Head(tasks).name IN Collected(CollectBuild(col, p, HoldBuild(p)), <<>>)

\* collect_build_prerequisites(): unless the package stays as it is.
CollectPrerequisites ==
    /\ Task("prerequisites")
    /\ LET p == Head(tasks).name
           pruned == col.bm[p].collected \/ Pruned(selected, col.bm, p)
       IN  IF ~Has(col, p) \/ col.bm[p].action # "build" THEN FailAssertion
           ELSE Collected([col EXCEPT !.bm[p].recursive = TRUE,
                                      !.bm[p].collected = @ \/ ~pruned],
                          IF pruned THEN <<>> ELSE <<Dependency(p, 1)>>)

\* One dependency of the package being collected, recursively and before the
\* next one. What the user expects of it, if it is only pre-entered, replaces
\* what the dependent allows. The command fails without a version to choose, and
\* rather than let a dependent change a version that is held.
CollectDependency ==
    /\ Task("depend")
    /\ LET p == Head(tasks).name
           i == Head(tasks).at
           ds == Depends(world, p, col.bm[p].version)
           d == ds[i]
           entered == d.name \in DOMAIN col.bm /\ col.bm[d.name].action = "enter"
           user == IF entered THEN col.bm[d.name].constraints ELSE <<>>
           allowed == IF user # <<>> THEN user[1].allowed ELSE d.allowed
           imposed == [by |-> p, allowed |-> d.allowed]
           vs == Candidates(world, selected, d.name, allowed)
           b == [BuildPackage("build", CHOOSE v \in vs : TRUE) EXCEPT
                    !.byDependents = TRUE,
                    !.constraints = Append(user, imposed)]
           ignored == IF allowed \subseteq d.allowed THEN <<>>
                      ELSE <<Unsatisfied(p, d.name, <<imposed>>)>>
           c == CollectBuild([col EXCEPT !.unsat = Noted(@, ignored)], d.name, b)
           forces == /\ c.taken /\ ~entered /\ selected[d.name].holdVersion
                     /\ selected[d.name].version \notin allowed
           next == Dependency(p, i + 1)
       IN  IF i > Len(ds) THEN Collected(col, <<>>)
           ELSE IF selected[d.name].state = "broken" \/ vs = {} \/ forces THEN Fail
           ELSE Collected(c, IF c.scratch \/ c.bm[d.name].recursive THEN <<next>>
                             ELSE <<Do("prerequisites", d.name), next>>)

\* A version decided for a dependency, or its drop.
CollectReplaced ==
    /\ Task("replaced")
    /\ LET p == Head(tasks).name
           v == Head(tasks).version
           c == IF v = 0 THEN CollectDrop(col, p)
                ELSE CollectBuild(col, p, [BuildPackage("build", v) EXCEPT !.user = TRUE])
       IN  Collected(c, IF v = 0 \/ c.scratch \/ c.bm[p].action # "build" THEN <<>>
                        ELSE <<Do("prerequisites", p)>>)

\* Cancel the drops of what a package depends on that was to be dropped and is
\* built after all, staying as it is (cancel_drop_prerequisites()).
CancelDrops(bm) ==
    LET revived == {p \in DOMAIN bm :
                       /\ bm[p].action # "drop" /\ ~bm[p].collected
                       /\ selected[p].state = "configured"
                       /\ \E i \in DOMAIN deps : deps[i].name = p /\ deps[i].version = 0}
        next == [p \in Pkgs |-> {q \in DOMAIN selected[p].prereqs : Dropped(bm, q)}]
        cancelled == {q \in Closure(revived, next) : Dropped(bm, q)}
    IN  [p \in DOMAIN bm \ cancelled |-> bm[p]]

\* collect_dependents(): visit the packages ps.
Visit(c, ps) ==
    /\ col' = c
    /\ tasks' = Tasks("visit", ps) /\ search' = NoSearch
    /\ UNCHANGED <<line, judged, deps, initial, iterations, plan>>
    /\ Staying

\* Everything is collected: the dependents of what is taken apart follow.
FinishCollection ==
    /\ phase = "collect" /\ tasks = <<>>
    /\ phase' = "dependents"
    /\ LET c == [col EXCEPT !.bm = CancelDrops(@)]
       IN  Visit(c, Roots(selected, c.bm, TRUE))

\* A dependency, once: from it to its configured dependents, but for those that
\* are dropped.
VisitDependency ==
    /\ Task("visit")
    /\ LET p == Head(tasks).name
           qs == DependentsToVisit(selected, col.bm, p)
       IN  IF p \in search.deps THEN More(<<>>) /\ UNCHANGED search
           ELSE /\ More([i \in DOMAIN qs |-> [op |-> "dependent", name |-> qs[i], of |-> p]])
                /\ search' = [search EXCEPT !.deps = @ \cup {p}]
    /\ UNCHANGED <<phase, line, judged, col, deps, initial, iterations, plan>>
    /\ Staying

\* And on from every dependent to its own.
VisitDependent ==
    /\ Task("dependent")
    /\ LET q == Head(tasks).name
       IN  /\ col' = CollectDependent(selected, col, Head(tasks).of, q)
           /\ More(<<Do("visit", q)>>)
    /\ UNCHANGED <<phase, line, judged, search, deps, initial, iterations, plan>>
    /\ Staying

\* What the plan is made of, in this order: the versions decided for dependencies,
\* the packages to hold, last one first, the dependents to reconfigure, and the
\* drops that are still to be made.
ToOrder ==
    LET names(rs) == [i \in DOMAIN rs |-> rs[i].name]
        builds == Those(deps, {r \in ToSet(deps) : r.version # 0})
        drops == Those(deps, {r \in ToSet(deps) : r.version = 0 /\ Dropped(col.bm, r.name)})
        adjusted == Listed({p \in Acted(col.bm) : col.bm[p].reconfigure})
    IN  Tasks("order", names(builds)) \o Tasks("reorder", Reverse(line.order))
        \o Tasks("order", adjusted) \o Tasks("order", names(drops))

\* The replacements that were not needed are taken back, one iteration for each;
\* then the packages are ordered.
Settle ==
    /\ phase = "dependents" /\ tasks = <<>>
    /\ LET redundant == Redundant(col, former, initial)
           p == CHOOSE q \in redundant :
                    \A r \in redundant : Position(Names, q) <= Position(Names, r)
       IN  IF CancelBogus(col.replaced) # col.replaced
           THEN /\ Iterate(line, deps, CancelBogus(col.replaced), NoMap, TRUE)
                /\ UNCHANGED former
           ELSE IF redundant # {}
           THEN /\ Iterate(line, deps, Without(col.replaced, p), NoMap, TRUE)
                /\ former' = former \cup
                       {<<initial, p, col.replaced[p].original, col.bm[p].version>>}
           ELSE /\ phase' = "order" /\ tasks' = ToOrder /\ search' = NoSearch
                /\ UNCHANGED <<line, col, deps, initial, iterations, plan, former>>
    /\ UNCHANGED <<world, selected, req, judged, todo, before, outcome, commands, faults>>

---------------------------------------------------------------------------
(* The order of the plan, of pkg-build and of pkg-drop.                     *)
\* A package that is built, or reconfigured, depends on one that is dropped.
DependsOnDropped(p) ==
    /\ col.bm[p].action = "build"
    /\ \E q \in IF col.bm[p].collected THEN DependsOn(world, p, col.bm[p].version)
             ELSE DOMAIN selected[p].prereqs : Dropped(col.bm, q)

\* order(): what p is ordered before and then, before it, p, unless the plan has
\* it and it is not to be moved there. A package that is being ordered already
\* closes a cycle of dependencies.
Order ==
    /\ Task("order") \/ Task("reorder")
    /\ LET p == Head(tasks).name
       IN  IF p \notin Acted(col.bm) THEN FailAssertion
           ELSE IF Do("insert", p) \in ToSet(Tail(tasks)) THEN Fail
           ELSE IF p \in ToSet(plan) /\ Task("order")
           THEN More(<<>>) /\ UNCHANGED <<phase, line, judged, col, search, deps, initial,
                                          iterations, plan>> /\ Staying
           ELSE IF DependsOnDropped(p) THEN FailAssertion
           ELSE /\ More(Tasks("order", Ordered(world, selected, col.bm, p))
                        \o <<Do("insert", p)>>)
                /\ plan' = Those(plan, Pkgs \ {p})
                /\ UNCHANGED <<phase, line, judged, col, search, deps, initial, iterations>>
                /\ Staying

InsertPackage ==
    /\ Task("insert")
    /\ LET p == Head(tasks).name
       IN  plan' = Insert(plan, p, Ordered(world, selected, col.bm, p))
    /\ More(<<>>)
    /\ UNCHANGED <<phase, line, judged, col, search, deps, initial, iterations>>
    /\ Staying

---------------------------------------------------------------------------
(* pkg-build: the plan, its simulation and refinement.                      *)
\* The version the plan leaves p at, from sel, and what p then depends on.
Target(sel, p) == IF col.bm[p].action = "build" THEN col.bm[p].version ELSE sel[p].version

Resolved(p, v) ==
    [d \in DependsOn(world, p, v) |->
        (CHOOSE r \in ToSet(Depends(world, p, v)) : r.name = d).allowed]

\* Whether the plan configures p: it is not configured or is taken apart.
Configures(sel, p) ==
    /\ ~Dropped(col.bm, p)
    /\ sel[p].state = "configured" => Disfigures(sel, col.bm, p)

\* The flags that p has once the plan is executed.
HoldPackage(sel, p) == col.bm[p].hold \/ sel[p].hold
HoldVersion(sel, p) == IF col.bm[p].holdVersion = 0 THEN sel[p].holdVersion
                       ELSE col.bm[p].holdVersion = 2

\* What p is configured with in the simulation: the constraints that are ignored
\* are left out.
Unconstrained(sel, p) ==
    [d \in DependsOn(world, p, Target(sel, p)) |->
        IF IgnoredBy(col, p, d) THEN AnyVersion ELSE Resolved(p, Target(sel, p))[d]]

\* What p becomes, and all packages, as the plan is executed from sel.
Planned(sel, p) ==
    LET configures == Configures(sel, p)
    IN  IF Dropped(col.bm, p) THEN None
        ELSE [state |-> IF configures THEN "configured" ELSE sel[p].state,
              version |-> IF configures THEN Target(sel, p) ELSE sel[p].version,
              hold |-> HoldPackage(sel, p), holdVersion |-> HoldVersion(sel, p),
              prereqs |-> IF configures THEN Unconstrained(sel, p) ELSE sel[p].prereqs]

Simulated(sel) ==
    [p \in Pkgs |-> IF p \in ToSet(plan) THEN Planned(sel, p) ELSE sel[p]]

\* Whether the simulated execution is refused: a package is disfigured before a
\* dependent, or configured before what it depends on, or against a version it
\* does not allow although its dependency has not been noted as one to be ignored.
Refuses(sel) ==
    \E i \in DOMAIN plan :
        \/ /\ Disfigures(sel, col.bm, plan[i])
           /\ \E q \in ConfiguredDependents(sel, plan[i]) :
                 ~(q \in ToSet(SubSeq(plan, 1, i - 1)) /\ Disfigures(sel, col.bm, q))
        \/ /\ Configures(sel, plan[i])
           /\ \E d \in DependsOn(world, plan[i], Target(sel, plan[i])) :
                 \/ Simulated(sel)[d].state # "configured"
                 \/ d \in ToSet(SubSeq(plan, 1, i)) /\ Configures(sel, d)
                 \/ Simulated(sel)[d].version \notin Unconstrained(sel, plan[i])[d]

\* pkg_disfigure() asserts that what it is given is configured, or broken.
DisfiguresOther(sel) ==
    \E p \in ToSet(plan) : /\ Disfigures(sel, col.bm, p)
                           /\ sel[p].state \notin {"configured", "broken"}

\* The versions of p that are available, that the user's constraint allows and all
\* the dependents accept.
Acceptable(sel, p) ==
    {v \in world.available[p] \cap line.expect[p].allowed :
        \A q \in ConfiguredDependents(sel, p) : v \in sel[q].prereqs[p]}

\* Whether p, which is used, is not what the user expects of it.
Unexpected(sel, p) ==
    /\ p \in DOMAIN line.expect /\ ConfiguredDependents(sel, p) # {}
    /\ IF line.expect[p].allowed = AnyVersion THEN line.expect[p].upgrade
       ELSE sel[p].version \notin line.expect[p].allowed

\* The latest of them, unless that is what p is at or, for an upgrade, older.
Recommended(sel, p) ==
    {v \in Acceptable(sel, p) :
        /\ \A w \in Acceptable(sel, p) : w <= v
        /\ v # sel[p].version
        /\ line.expect[p].allowed = AnyVersion => v > sel[p].version}

\* evaluate_dependency(): a package that is not held is dropped if nothing
\* depends on it (version 0) and brought to the version recommended if it is not
\* what the user expects.
Evaluate(sel, p) ==
    IF sel[p].hold THEN {}
    ELSE IF ConfiguredDependents(sel, p) = {} THEN {0}
    ELSE IF Unexpected(sel, p) THEN Recommended(sel, p) ELSE {}

\* Whether what was decided for a dependency is not what would be decided now.
Changed(sel, r) ==
    IF sel[r.name].state = "none" THEN r.version # 0
    ELSE LET e == Evaluate(sel, r.name)
         IN  r.version \notin (IF e = {} THEN {sel[r.name].version} ELSE e)

\* With a fault: only what the user expects.
RefinementsExpected(sel) ==
    LET ps == Listed({p \in Pkgs : /\ sel[p].state = "configured"
                                   /\ Evaluate(sel, p) \notin {{}, {0}}})
    IN  [i \in DOMAIN ps |->
            [name |-> ps[i], version |-> CHOOSE v \in Evaluate(sel, ps[i]) : TRUE]]

\* What remains to be decided, in the order of the packages.
Refinements(sel) ==
    LET ps == Listed({p \in Pkgs : /\ sel[p].state = "configured"
                                   /\ Evaluate(sel, p) # {}
                                   /\ req.keep => 0 \notin Evaluate(sel, p)})
    IN  [i \in DOMAIN ps |->
            [name |-> ps[i], version |-> CHOOSE v \in Evaluate(sel, ps[i]) : TRUE]]

\* What the user expects of a dependency and does not get.
Unmet(sel) ==
    {p \in DOMAIN line.expect :
        /\ sel[p].state = "configured" /\ ~sel[p].hold
        /\ line.expect[p].allowed # AnyVersion
        /\ Unexpected(sel, p)}

\* Collect again, with other decisions: from scratch, or adding to the map.
Again(ds, scratch) ==
    /\ IF scratch THEN Iterate(line, ds, NoMap, NoMap, TRUE)
       ELSE Iterate(line, ds, col.replaced, col.bm, FALSE)
    /\ UNCHANGED judged
    /\ Staying

\* Simulate the plan. Decisions that no longer hold go, and everything is
\* collected from scratch; new ones are added to what is collected, or from
\* scratch if some dependents are not satisfied. With nothing left to decide the
\* command fails if the user's expectation cannot be met.
Refine ==
    /\ phase = "order" /\ tasks = <<>> /\ req.kind = "build"
    /\ LET sel == Simulated(selected)
           kept == Those(deps, {r \in ToSet(deps) : ~Changed(sel, r)})
           new == Refinements(sel)
       IN  IF DisfiguresOther(selected) THEN FailAssertion
           ELSE IF Refuses(selected) THEN Ends("refused")
           ELSE IF kept # deps THEN Again(kept, TRUE)
           ELSE IF new # <<>> THEN Again(deps \o new, col.unsat # <<>>)
           ELSE IF Unmet(sel) # {} THEN Fail
           ELSE /\ phase' = "adjust"
                /\ judged' = IF col.unsat = <<>>
                             THEN [good |-> judged.good \cup {State(line.stack)},
                                   bad |-> judged.bad]
                             ELSE [good |-> judged.good,
                                   bad |-> judged.bad \cup {State(line.stack)}]
                /\ UNCHANGED <<line, col, tasks, search, deps, initial, iterations, plan>>
                /\ Staying

---------------------------------------------------------------------------
(* pkg-build: the adjustments of the command line.                          *)
Adjusting(satisfied) == phase = "adjust" /\ (col.unsat = <<>>) = satisfied

\* Collect from the very beginning, with another command line.
Recollect(l) ==
    /\ Iterate([l EXCEPT !.iteration = @ + 1], <<>>, NoMap, NoMap, TRUE)
    /\ UNCHANGED judged
    /\ Staying

\* Once more with all the command lines to try, under other rules.
Cycle(l) ==
    Recollect([l EXCEPT !.former = {}, !.downgrades = FALSE, !.projects = FALSE])

\* A dependent is not satisfied: the configured dependents of what stays as it is
\* follow, so that their constraints are known as well.
Adjust ==
    /\ Adjusting(FALSE) /\ line.index = NoRefinement
    /\ phase' = "kept"
    /\ Visit(col, Roots(selected, col.bm, FALSE))

\* The search goes on.
Searching(more, s) ==
    /\ More(more)
    /\ search' = s
    /\ UNCHANGED <<phase, line, judged, col, deps, initial, iterations, plan>>
    /\ Staying

Builds(p) == Has(col, p) /\ col.bm[p].action = "build"
Replaceable(p) == Has(col, p) /\ col.bm[p].action \in {"build", "adjust"}

\* The first unsatisfied constraint is the one to resolve: by another version of
\* the dependency, and failing that of one of its dependents.
StartSearch ==
    /\ phase = "kept" /\ tasks = <<>>
    /\ LET d == Head(col.unsat).dep
       IN  IF ~Builds(d) THEN FailAssertion
           ELSE /\ phase' = "search"
                /\ tasks' = <<Do("replace", d), Do("others", d)>>
                /\ search' = NoSearch
                /\ UNCHANGED <<line, judged, col, deps, initial, iterations, plan>>
                /\ Staying

\* The configured dependents of a package which are not in the map; they are only
\* looked up if their repositories matter.
DependentsMissing(p) ==
    /\ ~Fixed(selected, line, p)
    /\ ~(p \in DOMAIN line.hold \/ selected[p].hold)
    /\ \E q \in ConfiguredDependents(selected, p) : ~Has(col, q) \/ col.bm[q].action = "enter"

\* try_replace(): one package, once. Its versions are considered.
TryReplace ==
    /\ Task("replace")
    /\ LET q == Head(tasks).name
       IN  IF ~Has(col, q) THEN FailAssertion
           ELSE IF q \in search.deps \cup search.dpts THEN Searching(<<>>, search)
           ELSE IF ~Replaceable(q) \/ DependentsMissing(q) THEN FailAssertion
           ELSE Searching(<<[op |-> "consider", name |-> q, refused |-> <<>>,
                             versions |-> Offers(world, selected, line, q)]>>,
                          [search EXCEPT !.dpts = @ \cup {q}])

\* try_replace_dependency(): the latest of the versions left. With the one that is
\* offered the command line is adjusted.
ConsiderVersion ==
    /\ Task("consider")
    /\ LET t == Head(tasks)
       IN  \E v \in t.versions :
              /\ \A w \in t.versions : w <= v
              /\ LET found == Consider(world, selected, col, line, t.name, t.versions,
                                       t.refused, v)
                     l == [line EXCEPT !.downgrades = @ \/ found.downgrades,
                                       !.projects = @ \/ found.projects]
                 IN  IF \E q \in ToSet(found.refused) : ~Has(col, q) THEN FailAssertion
                     ELSE IF found.offer # <<>>
                     THEN Recollect(Push(l, Adjustment(selected, l, t.name, found.offer[1])))
                     ELSE /\ line' = l
                          /\ More(<<[op |-> "consider", name |-> t.name,
                                    refused |-> found.refused, versions |-> found.versions]>>)
                          /\ UNCHANGED <<phase, judged, col, search, deps, initial,
                                         iterations, plan>>
                          /\ Staying

NothingOffered ==
    /\ Task("consider") /\ Head(tasks).versions = {}
    /\ Searching(<<>>, [search EXCEPT
                           !.tried = Append(@, [name |-> Head(tasks).name,
                                                refused |-> Head(tasks).refused])])

\* try_replace_dependent(): with all the dependents of a package tried in vain,
\* theirs are, recursively.
TryOthers ==
    /\ Task("others")
    /\ LET tried == search.tried
       IN  Searching([i \in DOMAIN tried |-> [op |-> "dependents", name |-> tried[i].name,
                                              refused |-> tried[i].refused]],
                     [search EXCEPT !.tried = <<>>])

\* The dependents of p, once.
TryDependents ==
    /\ Task("dependents")
    /\ LET p == Head(tasks).name
           u == Head(col.unsat)
           conflicting == IF p = u.dep THEN u.conflicting ELSE <<>>
       IN  IF ~Has(col, p) THEN FailAssertion
           ELSE IF p \in search.deps THEN Searching(<<>>, search)
           ELSE IF ~Replaceable(p) THEN FailAssertion
           ELSE Searching(Tasks("replace", ToReplace(selected, col, p, conflicting,
                                                     Head(tasks).refused))
                          \o <<Do("others", p)>>,
                          [search EXCEPT !.deps = @ \cup {p}])

\* No version can be replaced: the latest adjustment is taken back; with none left
\* downgrades are allowed, and then different versions in one project, if that is
\* what was denied.
GiveUp ==
    /\ phase = "search" /\ tasks = <<>>
    /\ IF line.stack # <<>>
       THEN Recollect(Pop(line, Last(line.stack), Front(line.stack)))
       ELSE IF line.denyDowngrade /\ line.downgrades
       THEN Cycle([line EXCEPT !.denyDowngrade = FALSE])
       ELSE IF line.denyProjects /\ line.projects
       THEN Cycle([line EXCEPT !.denyProjects = FALSE, !.denyDowngrade = Upgrades(req)])
       ELSE Fail

\* The refinement: collect without the first adjustment.
Without1st(l, index) ==
    Recollect([Pop(l, Head(l.stack), Tail(l.stack)) EXCEPT !.dropped = <<Head(l.stack)>>,
                                                           !.index = index])

\* The adjustment being dropped is essential: back to the end of the stack with
\* it and on with the next one; after the last one the final collection.
KeepAdjustment ==
    /\ Adjusting(FALSE) /\ line.index # NoRefinement
    /\ IF line.dropped = <<>> THEN FailAssertion
       ELSE LET l == [Push(line, line.dropped[1]) EXCEPT !.dropped = <<>>]
                next == line.index + 1
            IN  IF next # Len(l.stack) THEN Without1st(l, next)
                ELSE Recollect([l EXCEPT !.index = next])

ExecutePlan(l) ==
    /\ phase' = "disfigure"
    /\ line' = l
    /\ todo' = Those(plan, {p \in ToSet(plan) : Disfigures(selected, col.bm, p)})
    /\ UNCHANGED <<world, selected, req, judged, col, tasks, search, deps, initial, iterations,
                   former, plan, before, outcome, commands, faults>>

\* With a fault: the adjustments are not refined.
DropAdjustmentNever == Adjusting(TRUE) /\ ExecutePlan(line)

\* Everyone is satisfied. If the command line has been adjusted, whatever
\* adjustment is being dropped is redundant, and the refinement starts over; the
\* plan is executed once there is but one adjustment, or the last one has been
\* dropped, or none could be.
DropAdjustment ==
    /\ Adjusting(TRUE)
    /\ IF line.former = {} \/ line.index = Len(line.stack) THEN ExecutePlan(line)
       ELSE IF line.stack = <<>> \/ (line.index # NoRefinement /\ line.dropped = <<>>)
       THEN FailAssertion
       ELSE IF Len(line.stack) # 1 THEN Without1st(line, 0)
       ELSE ExecutePlan([line EXCEPT !.dropped = <<>>, !.index = NoRefinement])

---------------------------------------------------------------------------
(* The execution: one transaction for each step of each package.            *)
Package(p, s) == [selected EXCEPT ![p] = s]

\* Not configured any more, or not yet: it has no prerequisites.
Unconfigured(p, state) ==
    Package(p, [selected[p] EXCEPT !.state = state, !.prereqs = None.prereqs])

\* One step for the first package that the stage has yet to visit.
Stage(s) == phase = s /\ todo # <<>>
Visited == todo' = Tail(todo)

Kept == UNCHANGED <<world, req, before, commands>>
Going == Kept /\ UNCHANGED <<command, phase, outcome, faults>>

\* Begin the next stage once the stage s is over.
Proceed(s, next, ps) ==
    /\ phase = s /\ todo = <<>>
    /\ phase' = next /\ todo' = ps
    /\ Kept /\ UNCHANGED <<selected, command, outcome, faults>>

Refused == Ends("refused")

\* pkg_disfigure(): refused while configured packages depend on it.
Disfigure ==
    /\ Stage("disfigure")
    /\ LET p == Head(todo)
       IN  IF ConfiguredDependents(selected, p) # {} THEN Refused
           ELSE /\ selected' = Unconfigured(p, "unpacked")
                /\ Visited /\ Going

Fetch == req.kind = "build" /\ Proceed("disfigure", "fetch", Reverse(plan))

\* Whether the package has to be fetched, or only unpacked.
Fetches(p) ==
    /\ col.bm[p].action = "build"
    /\ selected[p].version # col.bm[p].version

\* The preference among the repositories that have a package: local ones first;
\* an archive that has been fetched is in the cache, if there is one.
Preference(r) ==
    CASE r.basis = "directory" -> 1
      [] r.local /\ r.basis = "version-control" -> 2
      [] r.local /\ r.basis = "archive" -> 3
      [] ~r.local /\ r.basis = (IF FetchCache THEN "archive" ELSE "version-control") -> 4
      [] OTHER -> 5

Basis(p) ==
    LET best == CHOOSE r \in world.sources[p] :
                    \A s \in world.sources[p] : Preference(r) <= Preference(s)
    IN  best.basis

\* pkg_purge() of a package that is dropped.
PurgeDropped ==
    /\ Stage("fetch") /\ Dropped(col.bm, Head(todo))
    /\ selected' = Package(Head(todo), None)
    /\ Visited /\ Going

Of(p, state) == [selected[p] EXCEPT !.state = state, !.version = col.bm[p].version]

\* With a fault: an archive that is fetched is not unpacked.
FetchPackageOnly ==
    /\ Stage("fetch")
    /\ LET p == Head(todo)
       IN  /\ Fetches(p)
           /\ selected' = Package(p, Of(p, IF Basis(p) = "archive" THEN "fetched"
                                           ELSE "unpacked"))
    /\ Visited /\ Going

\* pkg_fetch() of an archive, with pkg_unpack() in the same transaction if it is
\* safe to keep that; pkg_checkout(), or pkg_unpack() of a directory. The user's
\* hold survives the replacement.
FetchPackage ==
    /\ Stage("fetch")
    /\ LET p == Head(todo)
       IN  /\ Fetches(p)
           /\ \/ /\ Basis(p) = "archive"
                 /\ selected' = Package(p, Of(p, "fetched"))
                 /\ UNCHANGED todo
              \/ selected' = Package(p, Of(p, "unpacked")) /\ Visited
    /\ Going

\* pkg_unpack() of what has been fetched, in a transaction of its own.
Unpack ==
    /\ Stage("fetch")
    /\ LET p == Head(todo)
       IN  /\ ~Dropped(col.bm, p) /\ ~Fetches(p)
           /\ selected' = IF col.bm[p].action = "build" /\ selected[p].state = "fetched"
                          THEN Package(p, Of(p, "unpacked")) ELSE selected
    /\ Visited /\ Going

\* Of the packages of the plan, in the order they are put together.
Remaining(ps) == Those(Reverse(plan), ps)

Configuring ==
    Proceed("fetch", "configure",
            Remaining({p \in ToSet(plan) : /\ ~Dropped(col.bm, p)
                                           /\ selected[p].state # "configured"}))

\* pkg_configure(): against prerequisites that are configured and satisfy it.
Configure ==
    /\ Stage("configure")
    /\ LET p == Head(todo)
           ds == Resolved(p, selected[p].version)
       IN  IF \A d \in DOMAIN ds : selected[d].state = "configured"
                                   /\ selected[d].version \in ds[d]
           THEN /\ selected' = Package(p, [selected[p] EXCEPT !.state = "configured",
                                                             !.prereqs = ds])
                /\ Visited /\ Going
           ELSE Refused

Holding ==
    Proceed("configure", "hold",
            Remaining({p \in ToSet(plan) :
                          /\ ~Dropped(col.bm, p)
                          /\ \/ HoldPackage(selected, p) # selected[p].hold
                             \/ HoldVersion(selected, p) # selected[p].holdVersion}))

Hold ==
    /\ Stage("hold")
    /\ LET p == Head(todo)
       IN  selected' = Package(p, [selected[p] EXCEPT
                                      !.hold = HoldPackage(selected, p),
                                      !.holdVersion = HoldVersion(selected, p)])
    /\ Visited /\ Going

\* The command is done.
Done ==
    /\ phase \in {"hold", "purge"} /\ todo = <<>>
    /\ Ends("ok")

---------------------------------------------------------------------------
(* pkg-drop.                                                                *)

\* collect_dependents(): those of the packages to drop, recursively.
WithDependents(names) ==
    Closure(names, [p \in Pkgs |-> IF selected[p].state = "configured"
                                   THEN ConfiguredDependents(selected, p) ELSE {}])

\* collect_prerequisites(): recursively, but for the packages that are held.
Unheld(sel, p) == {d \in DOMAIN sel[p].prereqs : ~sel[d].hold}

WithPrerequisites(ps) == Closure(ps, [p \in Pkgs |-> Unheld(selected, p)])

\* The user's packages, their dependents if they are to be dropped as well, and
\* the prerequisites of either. They are ordered like those that pkg-build drops.
RequestDrop ==
    /\ phase = "idle" /\ commands < MaxCommands
    /\ \E r \in Requests :
          /\ r.kind = "drop"
          /\ \A p \in r.names : selected[p].state \notin {"none", "broken"}
          /\ WithDependents(r.names) # r.names => r.dependents
          /\ LET asked == WithDependents(r.names)
                 all == WithPrerequisites(asked)
             IN  /\ req' = r
                 /\ col' = [NoCollection EXCEPT
                               !.bm = [p \in all |-> [DropPackage EXCEPT !.user = p \in asked]]]
                 /\ tasks' = Tasks("order", Listed(r.names) \o Listed(asked \ r.names)
                                            \o Listed(all \ asked))
    /\ phase' = "order"
    /\ commands' = commands + 1
    /\ outcome' = "none" /\ before' = selected
    /\ UNCHANGED <<world, selected, line, judged, search, deps, initial, iterations, former,
                   plan, todo, faults>>

\* filter_prerequisites(): one pass over the list, every package before what it
\* depends on.
Filter ==
    /\ phase = "order" /\ tasks = <<>> /\ req.kind = "drop"
    /\ phase' = "filter" /\ tasks' = Tasks("filter", plan)
    /\ UNCHANGED <<line, judged, col, search, deps, initial, iterations, plan>>
    /\ Staying

\* A prerequisite that a package which stays depends on stays, and all of them do
\* if they are to be kept.
FilterPrerequisite ==
    /\ Task("filter")
    /\ LET p == Head(tasks).name
           stays == /\ ~col.bm[p].user
                    /\ req.keep \/ ConfiguredDependents(selected, p) \ DOMAIN col.bm # {}
       IN  /\ col' = IF stays THEN [col EXCEPT !.bm = Without(@, p)] ELSE col
           /\ plan' = IF stays THEN Those(plan, Pkgs \ {p}) ELSE plan
    /\ More(<<>>)
    /\ UNCHANGED <<phase, line, judged, search, deps, initial, iterations>>
    /\ Staying

\* What is left is disfigured, and then purged, in that order.
ExecuteDrop ==
    /\ phase = "filter" /\ tasks = <<>>
    /\ phase' = "disfigure"
    /\ todo' = Those(plan, {p \in ToSet(plan) : selected[p].state = "configured"})
    /\ UNCHANGED <<world, selected, command, before, outcome, commands, faults>>

Purging == req.kind = "drop" /\ Proceed("disfigure", "purge", plan)

Purge ==
    /\ Stage("purge")
    /\ selected' = Package(Head(todo), None)
    /\ Visited /\ Going

---------------------------------------------------------------------------
(* Faults.                                                                  *)
Executing == phase \in {"disfigure", "fetch", "configure", "hold", "purge"}

Fault(how) ==
    /\ faults < MaxFaults
    /\ faults' = faults + 1
    /\ Finish(how)
    /\ Kept

\* The command is killed between two transactions, or a transaction fails and is
\* rolled back.
Interrupt == Executing /\ Fault("interrupted") /\ UNCHANGED selected

\* The build system fails: a package that cannot be disfigured is broken, one
\* that cannot be configured is disfigured again or, failing that, broken.
FailDisfigure ==
    /\ Stage("disfigure") /\ ConfiguredDependents(selected, Head(todo)) = {}
    /\ selected' = Unconfigured(Head(todo), "broken")
    /\ Fault("failed")

FailConfigure ==
    /\ Stage("configure")
    /\ \E state \in {"unpacked", "broken"} : selected' = Unconfigured(Head(todo), state)
    /\ Fault("failed")

\* pkg-purge --force: the way out for a broken package.
PurgeBroken(p) ==
    /\ phase = "idle" /\ selected[p].state = "broken"
    /\ selected' = Package(p, None)
    /\ outcome' = "none"
    /\ UNCHANGED <<world, phase, command, todo, before, commands, faults>>

---------------------------------------------------------------------------
Collect == \/ CollectHold \/ CollectPrerequisites \/ CollectDependency
           \/ CollectReplaced \/ FinishCollection
           \/ VisitDependency \/ VisitDependent \/ Settle
           \/ Order \/ InsertPackage
AdjustCommandLine ==
    \/ Refine \/ Adjust \/ StartSearch \/ TryReplace \/ ConsiderVersion
    \/ NothingOffered \/ TryOthers \/ TryDependents \/ GiveUp
    \/ KeepAdjustment \/ DropAdjustment
Drop == Filter \/ FilterPrerequisite \/ ExecuteDrop
Execute == \/ Disfigure \/ Fetch \/ PurgeDropped \/ FetchPackage \/ Unpack
           \/ Configuring \/ Configure \/ Holding \/ Hold \/ Purging \/ Purge \/ Done

\* Between commands nothing has to happen.
Rest == phase = "idle" /\ UNCHANGED vars

Next == \/ Rest \/ RequestBuild \/ RequestDrop
        \/ Collect \/ AdjustCommandLine \/ Drop \/ Execute
        \/ Interrupt \/ FailDisfigure \/ FailConfigure
        \/ \E p \in Pkgs : PurgeBroken(p)

Spec == Init /\ [][Next]_vars

(* Properties.                                                              *)

\* Whatever is interrupted or fails, each transaction of pkg-build and pkg-drop
\* takes apart a package nothing depends on or configures one all of whose
\* prerequisites are configured: the commands implement ConfiguredPackages.
ConfigurationKept == Config!Spec

\* The order of the plan is one the configuration accepts: execute_plan() is
\* never refused to disfigure a package because of its dependents or to
\* configure one because of its prerequisites, simulated or not. (It can be where a
\* decision to drop a dependency is kept by a collection that starts from scratch
\* and finds it in use.)
NeverRefused == outcome # "refused"

Ended(kind) == phase = "idle" /\ outcome = "ok" /\ req.kind = kind

Unused(sel) == {p \in Pkgs : /\ sel[p].state = "configured" /\ ~sel[p].hold
                             /\ ConfiguredDependents(sel, p) = {}}

\* The refinement of the plan ends with no dependency left that nothing uses, and
\* pkg-drop leaves none that was used before.
UnusedDropped ==
    /\ Ended("build") /\ ~req.keep => Unused(selected) = {}
    /\ Ended("drop") /\ ~req.keep => Unused(selected) \subseteq Unused(before)

\* However the versions were arbitrated and the command line adjusted, what the
\* user asked for is configured and held, in a version asked for, and so is what
\* the user expected of a dependency that is used; a version is held only if the
\* user has asked for it; packages held before stay, and stay held. pkg-build puts
\* back together whatever it takes apart, the dependents of what it changes
\* included.
RequestMet ==
    Ended("build") =>
        /\ \A p \in DOMAIN req.hold :
              /\ selected[p].state = "configured" /\ selected[p].hold
              /\ selected[p].version \in req.hold[p].allowed
              /\ selected[p].holdVersion = req.hold[p].pinned
        /\ \A p \in DOMAIN req.expect :
              selected[p].state = "configured" /\ ConfiguredDependents(selected, p) # {} =>
                  selected[p].version \in req.expect[p].allowed
        /\ \A p \in Pkgs :
              before[p].hold /\ before[p].state = "configured" =>
                  selected[p].hold /\ selected[p].state = "configured"
        /\ (\A p \in Pkgs : before[p].state \in {"none", "configured"})
           => \A p \in Pkgs : selected[p].state \in {"none", "configured"}

\* The packages that have changed to another version, and not by an adjustment of
\* the command line, although all that depends on them, as it is now, would do
\* with the version they had.
ChangedForNoReason ==
    {p \in Pkgs \ (DOMAIN line.hold \cup DOMAIN line.expect) :
        /\ before[p].state = "configured" /\ selected[p].state = "configured"
        /\ before[p].version # selected[p].version
        /\ \A q \in ConfiguredDependents(selected, p) :
               before[p].version \in selected[q].prereqs[p]}

Executed == phase = "hold" /\ todo = <<>>

\* No dependency is left downgraded by a constraint that has gone away while the
\* packages were collected (cancel_redundant()).
DowngradedForAReason ==
    Executed => \A p \in ChangedForNoReason : selected[p].version > before[p].version

\* A plan is only executed on an adjusted command line if the dependents are not
\* satisfied by the one the user has given, nor by this one without any one of
\* its adjustments: or, where the last adjustment has been found redundant, by the
\* one with it and without any one of the others.
AdjustmentsNeeded ==
    phase = "disfigure" /\ line.stack # <<>> =>
        LET s == State(line.stack)
            all == State(line.stack \o line.dropped)
        IN  /\ s \in judged.good /\ {} \in judged.bad
            /\ \A a \in s : \/ s \ {a} \in judged.bad
                            \/ line.dropped # <<>> /\ all \ {a} \in judged.bad

\* What pkg-build asserts: that the packages it looks up for an adjustment are in
\* the map ("please report" otherwise), that the collection which ends the
\* refinement satisfies everyone, that not every adjustment is redundant, that
\* what is collected is built and what is ordered is in the plan, and that only
\* configured packages are disfigured.
NeverAsserted == outcome # "asserted"

\* Starting over after every replacement, cancellation and refinement comes to an
\* end: no command begins iterations without bound. With no deadlock before a
\* command is over, every command ends.
Terminates == iterations < MaxIterations
===========================================================================
