------------------------- MODULE PackageNegotiation -------------------------
(* The collection of the packages to build when some dependents have clauses
   about the configuration of their dependencies: collect_build_prerequisites()
   and collect_build_postponed(), and the loop of pkg_build() that starts over.
   The recursion of the program is a stack of tasks, the nested calls that each
   negotiate one more cluster are levels with a snapshot of the collection to
   return to, and the exceptions are steps that drop tasks and levels.

   A world has the packages the user asks for ("hold"), what each package
   depends on, "depends[p]" a sequence of depends values, each a sequence of
   alternatives [deps, enable, clause], and the variables of
   ConfigurationNegotiation. All the packages are new; the dependencies of a
   value with several alternatives are pre-entered on the command line, so that
   every alternative is a reused one. Left out: dependents and dependencies that
   are configured already (and so are re-evaluated), postponements for want of a
   repository or of an alternative, the choice and replacement of versions,
   reflect clauses, and system dependencies. *)
EXTENDS ConfigurationNegotiation

CONSTANTS
    Names,     \* all packages in the order of their names
    Worlds,    \* the worlds to explore
    NoClause   \* an alternative without configuration clause

VARIABLES
    world,
    col,          \* what is collected: all that a snapshot saves
    phase,        \* what the current level is doing
    todo,         \* the packages it still has to go through
    at,           \* the dependent it negotiates with
    tasks,        \* the functions being executed for packages, innermost first
    levels,       \* the nested negotiations, outermost first
    tried,        \* the configurations bogus values were removed from
    unacceptable, \* the alternatives found unacceptable
    outcome

vars == <<world, col, phase, todo, at, tasks, levels, tried, unacceptable,
          outcome>>

level == <<phase, todo, at, levels>>
given == <<world, tried, unacceptable>>

(* The state of the collection: the packages entered, the alternatives selected
   for each (0: none enabled), those waiting for a negotiation, those collected
   recursively and the configuration they have got, the dependencies postponed
   with the kinds of dependents seen, the clusters and the next number. *)
Collection(w, deps) ==
    [entered |-> ToSet(w.hold), chosen |-> Nothing, waiting |-> {},
     recursive |-> {}, configured |-> Nothing, deps |-> deps,
     cfgs |-> <<>>, next |-> 1]

Init ==
    /\ world \in Worlds
    /\ col = Collection(world, Nothing)
    /\ phase = "hold" /\ todo = world.hold /\ at = 1
    /\ tasks = <<>> /\ levels = <<>> /\ tried = {} /\ unacceptable = {}
    /\ outcome = "running"

Running == outcome = "running"

Stops(how) ==
    /\ outcome' = how
    /\ UNCHANGED <<world, col, phase, todo, at, tasks, levels>>

Ends(how) == Stops(how) /\ UNCHANGED <<tried, unacceptable>>

-----------------------------------------------------------------------------
(* Exceptions. *)

Temporary == UNION {tasks[i].temp : i \in DOMAIN tasks}

(* scratch_collection: collect everything again, with the postponed
   dependencies and the unacceptable alternatives known so far. *)
Scratch(deps) ==
    LET kept == DOMAIN deps \ Temporary
    IN  /\ col' = Collection(world, [d \in kept |-> [wout |-> FALSE, with |-> FALSE]])
        /\ phase' = "hold" /\ todo' = world.hold /\ at' = 1
        /\ tasks' = <<>> /\ levels' = <<>> /\ tried' = {}
        /\ UNCHANGED <<world, outcome>>

Dependents(c) == SelectSeq(Names, LAMBDA p : p \in DOMAIN c.dependents)

(* (Re)start the negotiation at depth d of the cluster at index i. *)
Negotiation(c, d, i) ==
    /\ col' = c
    /\ levels' = Append(SubSeq(levels, 1, d - 1),
                        [snapshot |-> c, index |-> i, id |-> c.cfgs[i].id])
    /\ phase' = "negotiate" /\ todo' = Dependents(c.cfgs[i]) /\ at' = 1
    /\ tasks' = <<>>
    /\ UNCHANGED <<world, outcome>>

(* What is returned to when the negotiation of a level starts over, and what is
   kept of its cluster: its configuration, as not confirmed, and its history. *)
\* With a fault: the packages entered since then stay.
RestoredPartly(l) == [l.snapshot EXCEPT !.entered = col.entered]
Restored(l) == l.snapshot

\* With faults: all values stay confirmed; the history starts anew.
RefinedConfirmed(old, new) ==
    [old EXCEPT !.config = new.config, !.history = new.history]
RefinedWithoutHistory(old, new) ==
    [old EXCEPT !.config = [v \in DOMAIN new.config |->
                              [new.config[v] EXCEPT !.confirmed = FALSE]]]
Refined(old, new) ==
    [old EXCEPT !.config = [v \in DOMAIN new.config |->
                              [new.config[v] EXCEPT !.confirmed = FALSE]],
                !.history = new.history]

(* retry_configuration. The cluster is found by its index in the list; "cfgs" is
   the list of the moment the exception was thrown. *)
Retry(cfgs, d) ==
    LET l == levels[d]
    IN  IF l.index \notin DOMAIN cfgs THEN Stops("asserted") ELSE
        Negotiation([Restored(l) EXCEPT !.cfgs[l.index] = Refined(@, cfgs[l.index])],
                    d, l.index)

(* merge_configuration: restore, merge into the cluster what had been merged
   into it, and let it be the one its former dependents are added to. *)
MergeConfiguration(cfgs, d) ==
    LET l      == levels[d]
        shadow == cfgs[l.index]
        old    == Restored(l).cfgs
        c      == [old[l.index] EXCEPT !.config = Nothing, !.history = <<>>]
        merged == TakeIn(old, l.index, c, shadow.merged)
        i      == Lowest(FindById(merged, c.id))
    IN  IF \/ l.index \notin DOMAIN cfgs
           \/ \E j \in DOMAIN old : /\ Contains(shadow.merged, old[j].id)
                                    /\ old[j].negotiated # "no"
        THEN Stops("asserted")
        ELSE Negotiation([Restored(l) EXCEPT
                            !.cfgs = [merged EXCEPT ![i] = SetShadow(@, shadow)]],
                         d, i)

Raise(how, cfgs, d) ==
    /\ IF how = "retry" THEN Retry(cfgs, d) ELSE MergeConfiguration(cfgs, d)
    /\ UNCHANGED <<tried, unacceptable>>

-----------------------------------------------------------------------------
(* collect_build_prerequisites(). *)

Collect(p) == [op |-> "collect", pkg |-> p, temp |-> {}]

Call(c, ts) ==
    /\ col' = c /\ tasks' = ts
    /\ UNCHANGED <<given, level, outcome>>

Task(op) == Running /\ tasks # <<>> /\ Head(tasks).op = op

Depends(p) == world.depends[p]
Config(p) == At(col.configured, p)

Enabled(p, di) ==
    {ai \in DOMAIN Depends(p)[di] : Holds(world, Config(p), Depends(p)[di][ai].enable)}

Acceptable(p, di) == {ai \in Enabled(p, di) : <<p, di, ai>> \notin unacceptable}

Alternative(t) == Depends(t.pkg)[t.di][t.ai]

Selected(c, p, ai) ==
    [c EXCEPT !.chosen = (p :> Append(At(@, p), ai)) @@ @, !.waiting = @ \ {p}]

(* Begin with the dependencies of p, or resume. *)
Begun(p) == [col EXCEPT !.recursive = @ \cup {p}, !.chosen = @ @@ (p :> <<>>)]

(* The next depends value, if any. *)
NextDepends ==
    /\ Task("collect")
    /\ LET p  == Head(tasks).pkg
           c  == Begun(p)
           di == Len(c.chosen[p]) + 1
       IN  CASE di > Len(Depends(p)) -> Call(c, Tail(tasks))
             [] di <= Len(Depends(p)) /\ Enabled(p, di) = {} ->
                  Call(Selected(c, p, 0), tasks)
             [] di <= Len(Depends(p)) /\ Enabled(p, di) # {}
                /\ Acceptable(p, di) = {} -> Ends("failed")
             [] OTHER ->
                  LET ai == Lowest(Acceptable(p, di))
                  IN  Call([c EXCEPT !.waiting = @ \ {p}],
                           <<[op |-> "dependency", pkg |-> p, di |-> di, ai |-> ai,
                              rest |-> Depends(p)[di][ai].deps, temp |-> {}]>>
                           \o Tail(tasks))

Rest(t) == [t EXCEPT !.rest = Tail(@)]

InCluster(d) == FindDependency(col.cfgs, d) # {}

(* A dependency of an alternative without clause: it is collected recursively
   right away unless its configuration is (to be) negotiated. *)
CollectDependency ==
    /\ Task("dependency") /\ Head(tasks).rest # <<>>
    /\ Alternative(Head(tasks)).clause = NoClause
    /\ LET t == Head(tasks)
           d == Head(t.rest)
           c == [col EXCEPT !.entered = @ \cup {d}]
           ts == <<Rest(t)>> \o Tail(tasks)
       IN  CASE d \in DOMAIN col.deps ->
                  Call([c EXCEPT !.deps[d].wout = TRUE], ts)
             [] d \notin DOMAIN col.deps /\ (InCluster(d) \/ d \in col.recursive) ->
                  Call(c, ts)
             [] OTHER -> Call(c, <<Collect(d)>> \o ts)

(* A dependency of an alternative with a clause: its collection is postponed; if
   it is collected already, without being negotiated, everything starts over. *)
PostponeDependency ==
    /\ Task("dependency") /\ Head(tasks).rest # <<>>
    /\ Alternative(Head(tasks)).clause # NoClause
    /\ LET t == Head(tasks)
           d == Head(t.rest)
           new == d \notin DOMAIN col.deps
           deps == (d :> [wout |-> IF new THEN FALSE ELSE col.deps[d].wout,
                          with |-> TRUE]) @@ col.deps
           premature == /\ d \in col.recursive
                        /\ \A i \in FindDependency(col.cfgs, d) :
                              col.cfgs[i].negotiated = "no"
       IN  IF premature
           THEN Scratch(deps) /\ UNCHANGED unacceptable
           ELSE Call([col EXCEPT !.entered = @ \cup {d}, !.deps = deps],
                     <<[Rest(t) EXCEPT !.temp = @ \cup (IF new THEN {d} ELSE {})]>>
                     \o Tail(tasks))

(* All dependencies of the alternative are dealt with: go on with the next
   depends value. *)
SelectAlternative(c, t) ==
    Call([Selected(c, t.pkg, t.ai) EXCEPT !.deps = Only(@, DOMAIN @ \ t.temp)],
         <<Collect(t.pkg)>> \o Tail(tasks))

DependenciesCollected ==
    /\ Task("dependency") /\ Head(tasks).rest = <<>>
    /\ Alternative(Head(tasks)).clause = NoClause
    /\ SelectAlternative(col, Head(tasks))

HasAlternative(t) == Acceptable(t.pkg, t.di) # {t.ai}

(* The alternative has a clause: add the dependent to a cluster. *)
AddingDependent ==
    /\ Task("dependency") /\ Head(tasks).rest = <<>>
    /\ Alternative(Head(tasks)).clause # NoClause

Added(t) ==
    Add(col.cfgs, col.next, t.pkg, <<t.di, t.ai>>, Alternative(t).deps, HasAlternative(t))

AddedTo(a) == Lowest(FindById(a.cfgs, a.id))

AfterAdding(a, cfgs) ==
    [col EXCEPT !.cfgs = cfgs, !.next = IF a.id = @ THEN @ + 1 ELSE @]

(* It has to wait if that cluster is not yet negotiated... *)
AwaitNegotiation ==
    /\ AddingDependent
    /\ LET t == Head(tasks)
           a == Added(t)
       IN  IF ~a.sound THEN Ends("asserted")
           ELSE /\ a.cfgs[AddedTo(a)].depth = 0
                /\ Call([AfterAdding(a, a.cfgs) EXCEPT
                            !.waiting = @ \cup {t.pkg},
                            !.deps = Only(@, DOMAIN @ \ t.temp)],
                        Tail(tasks))

(* ... and everything in it is merged first... *)
MergeNegotiated ==
    /\ AddingDependent
    /\ LET a == Added(Head(tasks))
           d == a.cfgs[AddedTo(a)].depth
       IN  /\ a.sound /\ d # 0 /\ a.merged = "partly"
           /\ Raise("merge", a.cfgs, d)

(* ... and then its configuration is negotiated further, which starts that
   negotiation over if it changes. *)
UpNegotiate ==
    /\ AddingDependent
    /\ LET t   == Head(tasks)
           alt == Alternative(t)
           a   == Added(t)
           cfg == a.cfgs[AddedTo(a)]
           n   == Negotiate(world, cfg, t.pkg, alt.clause, alt.deps,
                            HasAlternative(t))
           cfgs == [a.cfgs EXCEPT ![AddedTo(a)] = n.cluster]
       IN  /\ a.sound /\ cfg.depth # 0 /\ a.merged # "partly"
           /\ CASE n.how = "failed" -> Ends("failed")
                [] n.how = "unacceptable" ->
                     /\ unacceptable' = unacceptable \cup {<<t.pkg, t.di, t.ai>>}
                     /\ Scratch(col.deps)
                [] n.how = "changed" -> Raise("retry", cfgs, cfg.depth)
                [] n.how = "same" ->
                     Call(AfterAdding(a, cfgs),
                          <<[op |-> "configure", pkg |-> t.pkg, di |-> t.di,
                             ai |-> t.ai, id |-> a.id, rest |-> alt.deps,
                             temp |-> t.temp]>> \o Tail(tasks))

(* A dependency that is not yet collected gets its configuration from the
   cluster. *)
Configured(cfg, d) ==
    IF d \in col.recursive THEN col
    ELSE [col EXCEPT !.configured =
            (d :> Only(cfg.config, Owned(world, <<d>>))) @@ @]

Uncollected(d) == IF d \in col.recursive THEN <<>> ELSE <<Collect(d)>>

ConfigureDependency ==
    /\ Task("configure")
    /\ LET t  == Head(tasks)
           is == FindById(col.cfgs, t.id)
           d  == Head(t.rest)
       IN  CASE t.rest = <<>> -> SelectAlternative(col, t)
             [] t.rest # <<>> /\ is = {} -> Ends("asserted")
             [] OTHER -> Call(Configured(col.cfgs[Lowest(is)], d),
                              Uncollected(d) \o <<Rest(t)>> \o Tail(tasks))

-----------------------------------------------------------------------------
(* collect_build_postponed() and its caller. *)

In(p) == Running /\ tasks = <<>> /\ phase = p

Go(ph, ps, c) ==
    /\ phase' = ph /\ todo' = ps /\ at' = 1 /\ col' = c
    /\ UNCHANGED <<given, tasks, levels, outcome>>

(* The next package the user has asked for. *)
CollectHold ==
    /\ In("hold") /\ todo # <<>>
    /\ LET p == Head(todo)
       IN  /\ todo' = Tail(todo)
           /\ IF p \in DOMAIN col.deps
              THEN col' = [col EXCEPT !.deps[p].wout = TRUE] /\ UNCHANGED tasks
              ELSE /\ tasks' = IF InCluster(p) THEN <<>> ELSE <<Collect(p)>>
                   /\ UNCHANGED col
           /\ UNCHANGED <<given, phase, at, levels, outcome>>

Bogus(deps) == {d \in DOMAIN deps : deps[d].wout /\ ~deps[d].with}

CollectPostponed == In("hold") /\ todo = <<>> /\ Go("loop", <<>>, col)

Waiting == {i \in DOMAIN col.cfgs : col.cfgs[i].negotiated = "no"}

(* Negotiate the next cluster, at one more level. *)
NextCluster ==
    /\ In("loop") /\ Waiting # {}
    /\ LET d == Len(levels) + 1
           i == Lowest(Waiting)
       IN  Negotiation([col EXCEPT !.cfgs[i].depth = d], d, i)
    /\ UNCHANGED <<tried, unacceptable>>

Level == levels[Len(levels)]
Current == Lowest(FindById(col.cfgs, Level.id))

(* The dependent whose turn is next. *)
\* With a fault: those who have agreed are not asked again.
TurnNext(how) == at + 1
Turn(how) == IF how = "changed" /\ at # 1 THEN 1 ELSE at + 1

(* The initial negotiation gives each dependent its turn, and starts over with
   the first one when the configuration has changed. *)
NegotiateDependent ==
    /\ In("negotiate") /\ at <= Len(todo)
    /\ LET p   == todo[at]
           cfg == col.cfgs[Current]
           pos == CHOOSE x \in DOMAIN cfg.dependents[p] : TRUE
           dep == cfg.dependents[p][pos]
           n   == Negotiate(world, cfg, p, Depends(p)[pos[1]][pos[2]].clause,
                            dep.deps, dep.alternative)
       IN  CASE \/ Cardinality(DOMAIN cfg.dependents[p]) # 1
                \/ ToSet(cfg.dependencies) \cap col.recursive # {}
                  -> Ends("asserted")
             [] OTHER ->
                  CASE n.how = "failed" -> Ends("failed")
                    [] n.how = "unacceptable" ->
                         /\ unacceptable' = unacceptable \cup {<<p, pos[1], pos[2]>>}
                         /\ Scratch(col.deps)
                    [] n.how \in {"same", "changed"} ->
                         /\ col' = [col EXCEPT !.cfgs[Current] = n.cluster]
                         /\ at' = Turn(n.how)
                         /\ UNCHANGED <<given, phase, todo, tasks, levels, outcome>>

(* Agreed: from now on the configuration can only be negotiated further. The
   dependencies and dependents to go through are those of this moment. *)
Agree ==
    /\ In("negotiate") /\ at > Len(todo)
    /\ phase' = "dependencies"
    /\ todo' = col.cfgs[Current].dependencies
    /\ levels' = [levels EXCEPT ![Len(levels)] =
                    [dependents |-> Dependents(col.cfgs[Current])] @@ @]
    /\ col' = [col EXCEPT !.cfgs[Current].negotiated = "being"]
    /\ UNCHANGED <<given, at, tasks, outcome>>

Through(c, ts) ==
    /\ todo' = Tail(todo) /\ col' = c /\ tasks' = ts
    /\ UNCHANGED <<given, phase, at, levels, outcome>>

Gone == FindById(col.cfgs, Level.id) = {}

(* Collect the dependencies with this configuration... *)
CollectNegotiated ==
    /\ In("dependencies") /\ todo # <<>>
    /\ IF Gone THEN Ends("asserted")
       ELSE Through(Configured(col.cfgs[Current], Head(todo)),
                    Uncollected(Head(todo)))

DependenciesNegotiated ==
    /\ In("dependencies") /\ todo = <<>>
    /\ Go("dependents", Level.dependents, col)

(* ... and the dependents from the next depends value on. *)
ResumeDependent ==
    /\ In("dependents") /\ todo # <<>>
    /\ LET p   == Head(todo)
           ps  == col.cfgs[Current].dependents[p]
           pos == CHOOSE x \in DOMAIN ps : TRUE
       IN  IF Gone \/ p \notin col.waiting \/ Cardinality(DOMAIN ps) # 1
              \/ pos[1] # Len(col.chosen[p]) + 1
           THEN Ends("asserted")
           ELSE Through(Selected(col, p, pos[2]), <<Collect(p)>>)

DependentsNegotiated ==
    /\ In("dependents") /\ todo = <<>>
    /\ IF Gone THEN Ends("asserted")
       ELSE Go("loop", <<>>, [col EXCEPT !.cfgs[Current].negotiated = "done"])

Collected == In("loop") /\ Waiting = {}

(* Dependencies postponed for a dependent with a clause that has not turned up:
   start over without postponing them. *)
CancelBogus ==
    /\ Collected /\ Bogus(col.deps) # {}
    /\ Scratch(Only(col.deps, DOMAIN col.deps \ Bogus(col.deps)))
    /\ UNCHANGED unacceptable

Unconfirmed(c) == {v \in DOMAIN c.config : ~c.config[v].confirmed}
Leftover == {i \in DOMAIN col.cfgs : /\ col.cfgs[i].negotiated = "done"
                                     /\ Unconfirmed(col.cfgs[i]) # {}}

Agreement ==
    [i \in DOMAIN col.cfgs |->
       [v \in DOMAIN col.cfgs[i].config |->
          <<col.cfgs[i].config[v].value, col.cfgs[i].config[v].dependent,
            col.cfgs[i].config[v].confirmed>>]]

(* Values that a dependent has set which was not visited again after the last
   refinement: remove them from their cluster and negotiate it again, unless
   that has been tried. *)
RemoveBogus ==
    /\ Collected /\ Bogus(col.deps) = {} /\ Leftover # {}
    /\ IF Agreement \in tried THEN Ends("failed")
       ELSE LET i == Lowest(Leftover)
                c == col.cfgs[i]
            IN  /\ tried' = tried \cup {Agreement}
                /\ Retry([col.cfgs EXCEPT ![i].config =
                            Only(@, DOMAIN @ \ Unconfirmed(c))], c.depth)
                /\ UNCHANGED unacceptable

Done ==
    /\ Collected /\ Bogus(col.deps) = {} /\ Leftover = {}
    /\ Ends(IF Negotiated(col.cfgs) THEN "done" ELSE "asserted")

Ended == ~Running /\ UNCHANGED vars

Prerequisites == \/ NextDepends \/ CollectDependency \/ PostponeDependency
                 \/ DependenciesCollected \/ AwaitNegotiation
                 \/ MergeNegotiated \/ UpNegotiate \/ ConfigureDependency

Postponed == \/ CollectHold \/ CollectPostponed \/ NextCluster
             \/ NegotiateDependent \/ Agree \/ CollectNegotiated
             \/ DependenciesNegotiated \/ ResumeDependent \/ DependentsNegotiated
             \/ CancelBogus \/ RemoveBogus \/ Done

Next == Prerequisites \/ Postponed \/ Ended

Spec == Init /\ [][Next]_vars

(* The program goes on as long as it can. *)
FairSpec == Spec /\ WF_vars(Next)

(* Properties. *)

(* The selected alternatives and, of them, the clauses that are in force. *)
Chosen == UNION {{<<p, Depends(p)[di][col.chosen[p][di]]>> :
                    di \in {i \in DOMAIN col.chosen[p] : col.chosen[p][i] # 0}} :
                  p \in DOMAIN col.chosen}
InForce == {x \in Chosen : x[2].clause # NoClause}

(* What the packages are configured with, all together. *)
Given(ds) == FoldLeft(LAMBDA f, d : Config(d) @@ f, Nothing, ds)

(* A cluster that has been negotiated was merged into another one. *)
Bridged == \E d \in DOMAIN levels : FindById(col.cfgs, levels[d].id) = {}

Met(config, clause) ==
    IF clause.require THEN Holds(world, config, clause.set)
    ELSE PreferAccepts(world, config, clause)

Honoured == \A x \in InForce : Met(Given(x[2].deps), x[2].clause)

(* Every dependent accepts what its dependencies are configured with in the end,
   those included that joined an already negotiated cluster. *)
Accepted == outcome = "done" /\ ~Bridged => Honoured

(* The configuration is one no dependent would change any more: the refinement
   ended where it is, not merely when time was up. *)
Settled ==
    outcome = "done" /\ ~Bridged =>
      \A x \in InForce :
         LET now  == Given(x[2].deps)
             then == Evaluate(world, Unset(world, now, x[1], x[2].deps), x[1],
                              x[2].clause, FALSE)
         IN  \A v \in DOMAIN now \cup DOMAIN then :
               ValueIn(world, now, v) = ValueIn(world, then, v)

(* A dependency is collected once, with the configuration its cluster has in the
   end: nothing that was negotiated later has passed it by. *)
AsNegotiated ==
    outcome = "done" /\ ~Bridged =>
      \A i \in DOMAIN col.cfgs : \A d \in ToSet(col.cfgs[i].dependencies) :
         \A v \in Owned(world, <<d>>) :
            ValueIn(world, Config(d), v) = ValueIn(world, col.cfgs[i].config, v)

(* No value is left of a dependent that is not part of the build or has selected
   an alternative that does not set it. *)
NoBogusValue ==
    outcome = "done" /\ ~Bridged =>
      \A d \in DOMAIN col.configured : \A v \in DOMAIN Config(d) :
         \E x \in InForce : /\ x[1] = Config(d)[v].dependent
                            /\ d \in ToSet(x[2].deps)
                            /\ v \in DOMAIN x[2].clause.set

Needed ==
    LET Direct(ps) == UNION {ToSet(x[2].deps) : x \in {y \in Chosen : y[1] \in ps}}
        all[n \in 0..Len(Names)] ==
           IF n = 0 THEN ToSet(world.hold) ELSE all[n-1] \cup Direct(all[n-1])
    IN  all[Len(Names)]

(* What is built is what the user asked for and the dependencies of the selected
   alternatives, each collected to the end: nothing is left over from a pass
   that was given up, and nothing is still postponed. *)
ExactlyNeeded ==
    outcome = "done" =>
      /\ col.entered = Needed /\ col.recursive = Needed /\ col.waiting = {}
      /\ \A p \in Needed : Len(col.chosen[p]) = Len(Depends(p))

(* The clusters found by index or reference are those that are meant, and none
   is merged away while it is being negotiated. *)
NeverAsserted == outcome = "asserted" => Bridged

(* The collection ends, whatever it postpones, refines and starts over: it takes
   finitely many steps and, as it always can take one until the outcome is
   known, comes to one. *)
FinitelyManySteps == <>[][FALSE]_vars
Terminates == <>(~Running)
=============================================================================
