------------------------ MODULE PackageCommandsInvariant ------------------------
(* The inductive invariant of PackageCommands: what is true throughout a    *)
(* command, so that what it leaves behind is as promised.                   *)
(*                                                                          *)
(* The command line is the request but for the adjustments on its stack     *)
(* (Collecting); the map has every package that is asked for, as it is      *)
(* asked for, or a task that will enter it; every such package is in the    *)
(* plan, or a task will put it there (Ordering); what has been simulated    *)
(* when the plan is executed is refined (Simulating); and at every stage of *)
(* the execution each package is either what it was or what the stage makes *)
(* of it, which in the end is what has been simulated (Progressing).        *)
(*                                                                          *)
(* A second part (Orderly) is about the order of the plan: every package is *)
(* before what it has to be disfigured before or configured after, at every *)
(* stage of order() and of the filter of pkg-drop (Arranging, Filtering),   *)
(* and so is what is left of it to execute (Disfigurable, Configurable).    *)
(*                                                                          *)
(* A third part (Grounded) is about what the order is made from: everything *)
(* that is built has its prerequisites collected, or stays configured as    *)
(* its manifest says (Gathered, Manifested).                                *)
EXTENDS PackageCommands

---------------------------------------------------------------------------
(* The types of what the commands keep.                                     *)
Constraints == [by : Pkgs \cup {CmdLine}, allowed : SUBSET Versions]

Unsatisfieds == [by : Pkgs \cup {CmdLine}, dep : Pkgs, conflicting : Seq(Pkgs)]

Entries == [action : {"enter", "build", "adjust", "drop"}, version : Versions \cup {0},
            hold : BOOLEAN, holdVersion : 0..2, user : BOOLEAN, byDependents : BOOLEAN,
            constraints : Seq(Constraints), collected : BOOLEAN, recursive : BOOLEAN,
            reconfigure : BOOLEAN]

Replacements == [version : Versions \cup {0}, original : Versions \cup {0}, replaced : BOOLEAN]

IsCollection(c) ==
    c = [bm |-> c.bm, replaced |-> c.replaced, unsat |-> c.unsat,
         scratch |-> c.scratch, taken |-> c.taken]

\* A collection: what is in the map, the replacements and the unsatisfied.
Collection(c) ==
    /\ c = [bm |-> c.bm, replaced |-> c.replaced, unsat |-> c.unsat,
            scratch |-> c.scratch, taken |-> c.taken]
    /\ DOMAIN c.bm \subseteq Pkgs /\ c.bm \in [DOMAIN c.bm -> Entries]
    /\ DOMAIN c.replaced \subseteq Pkgs /\ c.replaced \in [DOMAIN c.replaced -> Replacements]
    /\ c.unsat \in Seq(Unsatisfieds)
    /\ c.scratch \in BOOLEAN

Decisions == [name : Pkgs, version : Versions \cup {0}]

Specs == HoldSpecs \cup DependencySpecs

Adjustments == [type : {"hold_existing", "hold_new", "dep_existing", "dep_new"},
                name : Pkgs, version : Versions, original : Seq(Specs)]

Lines(l) ==
    /\ l = [hold |-> l.hold, order |-> l.order, expect |-> l.expect, stack |-> l.stack,
            former |-> l.former, denyDowngrade |-> l.denyDowngrade,
            denyProjects |-> l.denyProjects, downgrades |-> l.downgrades,
            projects |-> l.projects, dropped |-> l.dropped, index |-> l.index,
            iteration |-> l.iteration]
    /\ DOMAIN l.hold \cup DOMAIN l.expect \subseteq Pkgs
    /\ l.hold \in [DOMAIN l.hold -> HoldSpecs]
    /\ l.expect \in [DOMAIN l.expect -> DependencySpecs]
    /\ l.order \in Seq(Pkgs) /\ ToSet(l.order) = DOMAIN l.hold
    /\ l.stack \in Seq(Adjustments) /\ l.dropped \in Seq(Adjustments)
    /\ l.index \in Int

Searches == [deps : SUBSET Pkgs, dpts : SUBSET Pkgs,
             tried : Seq([name : Pkgs, refused : Seq(Pkgs)])]

TaskRecords ==
    [op : {"hold", "prerequisites", "visit", "order", "reorder", "insert", "replace",
           "others", "filter"}, name : Pkgs]
    \cup [op : {"depend"}, name : Pkgs, at : Nat \ {0}]
    \cup [op : {"replaced"}, name : Pkgs, version : Versions \cup {0}]
    \cup [op : {"dependent"}, name : Pkgs, of : Pkgs]
    \cup [op : {"consider"}, name : Pkgs, refused : Seq(Pkgs), versions : SUBSET Versions]
    \cup [op : {"dependents"}, name : Pkgs, refused : Seq(Pkgs)]

\* The tasks of a phase.
Ops(ph) ==
    CASE ph = "collect" -> {"hold", "prerequisites", "depend", "replaced"}
      [] ph \in {"dependents", "kept"} -> {"visit", "dependent"}
      [] ph = "order" -> {"order", "reorder", "insert"}
      [] ph = "search" -> {"replace", "others", "consider", "dependents"}
      [] ph = "filter" -> {"filter"}
      [] OTHER -> {}

Stages == {"disfigure", "fetch", "configure", "hold", "purge"}
BuildPhases == {"collect", "dependents", "order", "adjust", "kept", "search"}
OfBuild == (BuildPhases \ {"order"}) \cup {"fetch", "configure", "hold"}
Planning == {"order", "adjust", "filter"} \cup Stages

---------------------------------------------------------------------------
(* The parts of the inductive invariant.                                    *)
\* The packages of a configuration are available, but for those it does not have.
Configuration(w, sel) ==
    /\ sel = [p \in Pkgs |-> sel[p]]
    /\ \A p \in Pkgs : /\ Config!IsPackage(sel[p])
                       /\ sel[p].state = "none" => sel[p] = None
                       /\ sel[p].state # "none" => sel[p].version \in w.available[p]

\* Up to its execution a command changes no package.
Undisturbed ==
    /\ world \in Worlds
    /\ Configuration(world, selected) /\ Configuration(world, before)
    /\ Config!PrerequisitesHeld
    /\ phase \in BuildPhases \cup {"idle", "filter"} \cup Stages
    /\ phase # "idle" => req \in Requests
    /\ phase \in OfBuild => req.kind = "build"
    /\ phase \in {"filter", "purge"} => req.kind = "drop"
    /\ phase \notin Stages \cup {"idle"} => selected = before
    /\ phase \in {"idle", "collect", "dependents"} => plan = <<>>
    /\ phase \in {"idle", "adjust"} \cup Stages => tasks = <<>>

Commanded == phase # "idle" /\ req.kind = "build"

\* What p may be held in.
Holdable(w, sel, p, h) ==
    h.version \in w.available[p] /\ h.version \in h.allowed /\ sel[p].state # "broken"

\* An adjustment changes what the request has, or what it does not have.
Adjustable(w, sel, r, a) ==
    /\ a.type \in {"hold_existing", "hold_new"} =>
          a.version \in w.available[a.name] /\ sel[a.name].state # "broken"
    /\ a.type = "hold_existing" =>
          a.name \in DOMAIN r.hold /\ a.version \in r.hold[a.name].allowed
    /\ a.type = "dep_existing" =>
          a.name \in DOMAIN r.expect /\ a.version \in r.expect[a.name].allowed
    /\ a.type \in {"hold_new", "dep_new"} => a.name \notin DOMAIN r.hold \cup DOMAIN r.expect

\* It is in force on the command line.
InForce(r, l, a) ==
    LET p == a.name
    IN  CASE a.type = "hold_existing" ->
               /\ a.original = <<r.hold[p]>>
               /\ p \in DOMAIN l.hold \ DOMAIN l.expect
               /\ l.hold[p] = [r.hold[p] EXCEPT !.version = a.version, !.allowed = {a.version}]
          [] a.type = "hold_new" ->
               /\ p \in DOMAIN l.hold \ DOMAIN l.expect
               /\ l.hold[p] = HoldSpec(a.version, {a.version})
          [] a.type = "dep_existing" ->
               /\ a.original = <<r.expect[p]>>
               /\ p \in DOMAIN l.expect \ DOMAIN l.hold
               /\ l.expect[p] = [r.expect[p] EXCEPT !.allowed = {a.version}]
          [] a.type = "dep_new" ->
               /\ p \in DOMAIN l.expect \ DOMAIN l.hold
               /\ l.expect[p] = DependencySpec({a.version})

\* As the request has it.
AsRequested(r, l, p) ==
    /\ p \in DOMAIN l.hold <=> p \in DOMAIN r.hold
    /\ p \in DOMAIN l.expect <=> p \in DOMAIN r.expect
    /\ p \in DOMAIN r.hold => l.hold[p] = r.hold[p]
    /\ p \in DOMAIN r.expect => l.expect[p] = r.expect[p]

NamesOf(s) == {a.name : a \in ToSet(s)}

\* The command line is the request but for the adjustments on the stack.
Requested(w, sel, r, l) ==
    /\ Lines(l)
    /\ \A p \in DOMAIN r.hold : Holdable(w, sel, p, r.hold[p])
    /\ \A p \in DOMAIN r.expect : ~sel[p].hold
    /\ \A a \in ToSet(l.stack) \cup ToSet(l.dropped) : Adjustable(w, sel, r, a)
    /\ \A a \in ToSet(l.stack) : InForce(r, l, a)
    /\ \A p \in Pkgs \ NamesOf(l.stack) : AsRequested(r, l, p)
    /\ IsInjective(l.stack)
    /\ \A a, b \in ToSet(l.stack) : a.name = b.name => a = b
    /\ NamesOf(l.dropped) \cap NamesOf(l.stack) = {}

\* What is held of the version of p.
Wanted(l, p) ==
    IF p \in DOMAIN l.hold THEN IF l.hold[p].pinned THEN 2 ELSE 1
    ELSE IF p \in DOMAIN l.expect THEN IF l.expect[p].pinned THEN 2 ELSE 1
    ELSE 0

Droppable(sel, l, p) == ~sel[p].hold /\ p \notin DOMAIN l.hold
Buildable(w, sel, p, v) == v \in w.available[p] /\ sel[p].state # "broken"

\* What the map may have for p.
Enterable(w, sel, l, p, b) ==
    /\ b.action = "build" => Buildable(w, sel, p, b.version)
    /\ b.action = "adjust" => sel[p].state = "configured"
    /\ b.action = "drop" => Droppable(sel, l, p)
    /\ b.hold => p \in DOMAIN l.hold
    /\ b.holdVersion \in {0, Wanted(l, p)}

Replaces(w, sel, l, p, r) ==
    IF r.version = 0 THEN Droppable(sel, l, p) ELSE r.version \in w.available[p]

Collects(w, sel, l, c) ==
    /\ Collection(c)
    /\ \A p \in DOMAIN c.bm : Enterable(w, sel, l, p, c.bm[p])
    /\ \A p \in DOMAIN c.replaced : Replaces(w, sel, l, p, c.replaced[p])

Decides(w, sel, l, d) ==
    IF d.version = 0 THEN Droppable(sel, l, d.name) ELSE Buildable(w, sel, d.name, d.version)

\* The package the user has asked for is built as asked for.
AsAsked(l, c, p) ==
    /\ p \in DOMAIN c.bm /\ c.bm[p].action = "build" /\ c.bm[p].hold
    /\ c.bm[p].holdVersion = Wanted(l, p) /\ c.bm[p].version \in l.hold[p].allowed

Collecting ==
    IF Commanded
    THEN /\ Requested(world, before, req, line)
         /\ Collects(world, before, line, col)
         /\ deps \in Seq(Decisions)
         /\ \A d \in ToSet(deps) : Decides(world, before, line, d)
         /\ \A p \in DOMAIN line.hold :
               AsAsked(line, col, p) \/ (phase = "collect" /\ Do("hold", p) \in ToSet(tasks))
    ELSE line = NoLine /\ deps = <<>>

Building(c, p) == p \in DOMAIN c.bm /\ c.bm[p].action = "build"
Remade(c, p) == p \in DOMAIN c.bm /\ c.bm[p].action \in {"build", "adjust"}

Tasked(ph, w, sel, l, c, ps, t) ==
    /\ t.op \in Ops(ph)
    /\ t.op = "hold" => t.name \in DOMAIN l.hold
    /\ t.op = "depend" => Building(c, t.name)
    /\ t.op = "replaced" => Decides(w, sel, l, t)
    /\ t.op = "dependent" => t.name \in ConfiguredDependents(sel, t.of)
    /\ t.op = "consider" => /\ Remade(c, t.name)
                            /\ t.versions \subseteq Offers(w, sel, l, t.name)
    /\ t.op = "insert" => t.name \in Acted(c.bm) \ ps

Tasking ==
    /\ tasks \in Seq(TaskRecords)
    /\ \A t \in ToSet(tasks) : Tasked(phase, world, before, line, col, ToSet(plan), t)
    /\ search \in Searches

\* The elements of I are once in s.
Once(s, I) == \A i, j \in DOMAIN s : s[i] \in I /\ s[i] = s[j] => i = j

Inserts == [op : {"insert"}, name : Pkgs]
Awaited(p) == \E t \in ToSet(tasks) : t.name = p
ToPlan == IF req.kind = "build" THEN DOMAIN line.hold ELSE DOMAIN col.bm

\* Everything is in the plan, or will be.
Ordering ==
    phase \in Planning =>
        /\ plan \in Seq(Pkgs) /\ IsInjective(plan)
        /\ ToSet(plan) \subseteq Acted(col.bm)
        /\ Once(tasks, Inserts)
        /\ \A p \in ToPlan : p \in ToSet(plan) \/ (phase = "order" /\ Awaited(p))

---------------------------------------------------------------------------
Key(a) == <<a.name, a.version>>

\* Of the adjustments on the stack those that are kept are needed.
Refining(bad, l) ==
    /\ l.former = {} => l.stack = <<>>
    /\ l.stack # <<>> \/ l.former # {} \/ l.index # NoRefinement => {} \in bad
    /\ l.index = NoRefinement => l.dropped = <<>>
    /\ l.dropped = <<>> \/ Len(l.dropped) = 1
    /\ l.index # NoRefinement =>
          /\ l.index \in 0..Len(l.stack)
          /\ l.dropped = <<>> => l.index = Len(l.stack)
          /\ \A i \in 1..Len(l.stack) :
                i > Len(l.stack) - l.index =>
                    (State(l.stack) \cup State(l.dropped)) \ {Key(l.stack[i])} \in bad

Judging ==
    /\ Commanded /\ phase \notin Stages => Refining(judged.bad, line)
    /\ phase = "adjust" => IF col.unsat = <<>> THEN State(line.stack) \in judged.good
                           ELSE State(line.stack) \in judged.bad
    /\ phase \in {"kept", "search"} => /\ State(line.stack) \in judged.bad
                                       /\ line.index = NoRefinement /\ col.unsat # <<>>
    /\ AdjustmentsNeeded

\* What is simulated when the plan is refined, and then executed, is refined.
Simulating ==
    (phase = "adjust" \/ (phase \in Stages /\ req.kind = "build")) =>
        /\ ~DisfiguresOther(before)
        /\ Refinements(Simulated(before)) = <<>>
        /\ Unmet(Simulated(before)) = {}
        /\ phase \in Stages => col.unsat = <<>>

---------------------------------------------------------------------------
\* What the execution makes of a package, stage by stage.
Disfiguring(p) ==
    IF req.kind = "build" THEN Disfigures(before, col.bm, p) ELSE before[p].state = "configured"

Disfigured(p) ==
    IF Disfiguring(p)
    THEN [before[p] EXCEPT !.state = "unpacked", !.prereqs = None.prereqs]
    ELSE before[p]

Obtained(p, state) == [Disfigured(p) EXCEPT !.state = state, !.version = col.bm[p].version]

Fetched(p) ==
    IF Dropped(col.bm, p) THEN None
    ELSE IF col.bm[p].action = "build"
            /\ (before[p].version # col.bm[p].version \/ Disfigured(p).state = "fetched")
    THEN Obtained(p, "unpacked")
    ELSE Disfigured(p)

Reconfigured(p) ==
    IF ~Dropped(col.bm, p) /\ Fetched(p).state # "configured"
    THEN [Fetched(p) EXCEPT !.state = "configured",
                            !.prereqs = Resolved(p, Fetched(p).version)]
    ELSE Fetched(p)

Held(p) ==
    IF Dropped(col.bm, p) THEN None
    ELSE [Reconfigured(p) EXCEPT !.hold = HoldPackage(before, p),
                                 !.holdVersion = HoldVersion(before, p)]

\* A package in a stage that makes the latter of the former.
Progress(p, former_, latter) ==
    selected[p] = IF p \in ToSet(todo) THEN former_ ELSE latter

Progressing ==
    phase \in Stages =>
        /\ todo \in Seq(Pkgs) /\ IsInjective(todo) /\ ToSet(todo) \subseteq ToSet(plan)
        /\ \A p \in Pkgs \ ToSet(plan) : selected[p] = before[p]
        /\ \A p \in ToSet(plan) :
              CASE phase = "disfigure" ->
                     /\ Progress(p, before[p], Disfigured(p))
                     /\ p \in ToSet(todo) => Disfiguring(p)
                [] phase = "fetch" ->
                     \/ Progress(p, Disfigured(p), Fetched(p))
                     \/ /\ todo # <<>> /\ p = Head(todo) /\ col.bm[p].action = "build"
                        /\ before[p].version # col.bm[p].version
                        /\ selected[p] = Obtained(p, "fetched")
                [] phase = "configure" ->
                     /\ Progress(p, Fetched(p), Reconfigured(p))
                     /\ p \in ToSet(todo) => /\ ~Dropped(col.bm, p)
                                             /\ Fetched(p).state # "configured"
                [] phase = "hold" ->
                     /\ Progress(p, Reconfigured(p), Held(p))
                     /\ p \in ToSet(todo) => ~Dropped(col.bm, p)
                [] phase = "purge" -> Progress(p, Disfigured(p), None)

---------------------------------------------------------------------------
\* pkg-drop: what nothing else uses goes with what used it.
Dropping ==
    phase # "idle" /\ req.kind = "drop" =>
        /\ DOMAIN col.bm \subseteq Pkgs /\ col.bm \in [DOMAIN col.bm -> Entries]
        /\ IsCollection(col) /\ \A p \in DOMAIN col.bm : col.bm[p].action = "drop"
        /\ req.keep \/ \A r \in DOMAIN col.bm : \A p \in Unheld(before, r) :
              p \in DOMAIN col.bm \/ ConfiguredDependents(before, p) \ DOMAIN col.bm # {}

Inv == /\ Undisturbed /\ Collecting /\ Tasking /\ Ordering /\ Judging /\ Simulating
       /\ Progressing /\ Dropping /\ UnusedDropped /\ RequestMet

---------------------------------------------------------------------------
(* The order of the plan, and what it means for its execution.              *)
Precedes(s, x, y) == \E i, j \in DOMAIN s : i < j /\ s[i] = x /\ s[j] = y

\* What has to be after p in the plan.
After(p) == ToSet(Ordered(world, before, col.bm, p))

\* What is in the plan s is before all that has to be after it, or will be once that
\* is put there: which is before all that has to be after that.
Placed(s, ts) ==
    \A x \in ToSet(s) : \A y \in After(x) :
        \/ Precedes(s, x, y)
        \/ Do("insert", y) \in ts /\ \A z \in After(y) : Precedes(s, x, z)

\* What has to be after a package is in the plan before that package is put there.
Prepared(ps, ts) ==
    \A i \in DOMAIN ts :
        ts[i].op = "insert" =>
            /\ \A y \in After(ts[i].name) : y \in ps \/ \E j \in 1..(i - 1) : ts[j].name = y
            /\ \A j \in 1..(i - 1) : ts[j].op # "reorder"

Arranging ==
    phase \in Planning => Placed(plan, ToSet(tasks)) /\ Prepared(ToSet(plan), tasks)

Depending(p) == ConfiguredDependents(before, p)

\* pkg-drop: the dependents of what the user drops are dropped, and so are those of
\* a prerequisite that the filter has left in the plan.
Filtering ==
    phase # "idle" /\ req.kind = "drop" =>
        /\ \A p \in DOMAIN col.bm :
              col.bm[p].user => \A q \in Depending(p) : q \in DOMAIN col.bm /\ col.bm[q].user
        /\ phase \in {"filter"} \cup Stages =>
              /\ \A p \in ToSet(plan) : Awaited(p) \/ Depending(p) \subseteq DOMAIN col.bm
              /\ \A i \in DOMAIN tasks : \A p \in ToSet(plan) :
                    Precedes(plan, tasks[i].name, p) => Awaited(p)
              /\ \A i, k \in DOMAIN tasks :
                    Precedes(plan, tasks[i].name, tasks[k].name) => i < k

\* What is executed has been simulated, and was not refused.
Accepted ==
    phase \in {"adjust", "disfigure", "fetch"} /\ req.kind = "build" => ~Refuses(before)

\* What is disfigured has no dependents left but for those disfigured before it.
Disfigurable ==
    phase = "disfigure" =>
        \A x \in ToSet(todo) : \A q \in Depending(x) :
            /\ q \in ToSet(plan) /\ Disfiguring(q)
            /\ q \in ToSet(todo) => Precedes(todo, q, x)

\* What d is once everything is configured.
Eventual(d) == IF d \in ToSet(plan) THEN Reconfigured(d) ELSE before[d]

\* What is configured finds its prerequisites as it needs them, but for those that
\* are configured before it.
Configurable ==
    phase = "configure" =>
        \A x \in ToSet(todo) :
            LET ds == Resolved(x, Fetched(x).version)
            IN  \A d \in DOMAIN ds :
                    /\ Eventual(d).state = "configured" /\ Eventual(d).version \in ds[d]
                    /\ d \in ToSet(todo) => Precedes(todo, d, x)

Orderly == Arranging /\ Filtering /\ Accepted /\ Disfigurable /\ Configurable

---------------------------------------------------------------------------
(* What the order is for.                                                   *)
\* Where nothing is left to order every package is before all it is ordered before.
PlanOrdered ==
    phase \in Planning /\ tasks = <<>> =>
        \A x \in ToSet(plan) : \A y \in After(x) : Precedes(plan, x, y)

\* The simulation of a plan is refused.
SimulationRefused ==
    phase = "order" /\ tasks = <<>> /\ req.kind = "build" /\ Refuses(before)

\* A command that is refused is one of pkg-build, and has changed nothing.
RefusedUnchanged == outcome = "refused" => req.kind = "build" /\ selected = before

\* A command tells how it has ended when it has.
Telling == (phase # "idle" => outcome = "none") /\ RefusedUnchanged

\* A command is only refused as its plan is simulated.
RefusedOnlySimulated ==
    [][outcome' = "refused" /\ outcome # "refused" => SimulationRefused]_vars
---------------------------------------------------------------------------
(* What the order is made from.                                             *)
\* A configured package depends on what its manifest names.
Manifested(sel) ==
    \A p \in Pkgs : sel[p].state = "configured" =>
        DOMAIN sel[p].prereqs = DependsOn(world, p, sel[p].version)

\* The prerequisites of p, if it is built, are collected, or p stays as it is
\* configured, or they are left for the tasks ts.
GatheredFor(bm, p, ts) ==
    p \in DOMAIN bm /\ bm[p].action = "build" =>
        IF bm[p].recursive THEN bm[p].collected \/ Pruned(before, bm, p)
        ELSE Do("prerequisites", p) \in ts

Gathered ==
    Commanded =>
        \A p \in Pkgs :
            GatheredFor(col.bm, p, IF phase = "collect" THEN ToSet(tasks) ELSE {})

\* The user's packages are entered first, and their prerequisites after that.
Announced ==
    phase = "collect" =>
        \A i \in DOMAIN tasks :
            tasks[i].op = "hold" => /\ \A j \in 1..i : tasks[j].op = "hold"
                                    /\ Do("prerequisites", tasks[i].name) \in ToSet(tasks)

Grounded == Gathered /\ Announced /\ Manifested(before) /\ Manifested(selected)

\* The plan leaves out a dependent of what it takes apart, or leaves something that
\* it configures without a prerequisite, or with one at a version refused.
Incomplete ==
    \E p \in ToSet(plan) :
        \/ /\ Disfigures(before, col.bm, p)
           /\ \E q \in Depending(p) :
                 ~(q \in ToSet(plan) /\ Disfigures(before, col.bm, q))
        \/ /\ Configures(before, p)
           /\ \E d \in DependsOn(world, p, Target(before, p)) :
                 \/ Simulated(before)[d].state # "configured"
                 \/ Simulated(before)[d].version \notin Unconstrained(before, p)[d]

\* Where a plan is refused it is for what is in it, and not for its order: no other
\* order of the same packages would have been accepted.
NotForItsOrder == SimulationRefused => Incomplete
===========================================================================
