---------------------------- MODULE LinkedPackages ----------------------------
(***************************************************************************)
(* Selected packages across linked configurations.                         *)
(*                                                                         *)
(* A package configured in one configuration records its prerequisites as  *)
(* (configuration, name) pairs, found by walking the links at that moment. *)
(* Nothing else keeps the two ends together: the commands that take a      *)
(* package out of the configured state, and the one that removes a link,   *)
(* look for dependents by walking the links the other way round.  This     *)
(* module composes the links with the package life cycle of every          *)
(* configuration (PkgLifecycle has the file system side of one of them).   *)
(* Commands that share a configuration exclude one another through the     *)
(* exclusive lock on its database, so each is one step here.               *)
(***************************************************************************)
EXTENDS ConfigLinks

CONSTANTS
    Name,          \* package names
    Home,          \* bound: the <<configuration, name>> pairs packages get to
    Requires,      \* [Name -> set of dependency sets, any of which will do]
    SystemHome,    \* bound: the homes configured as sys: packages
    Unlinkable     \* bound: the links the user ever removes

DependencyKind == {"runtime", Host, Build2}
Dependency == [name : Name, kind : DependencyKind]

ASSUME PackagesAssumption ==
    /\ "runtime" \notin {Host, Build2}
    /\ Home \subseteq Config \X Name
    /\ SystemHome \subseteq Home
    /\ Requires \in [Name -> SUBSET SUBSET Dependency]
    /\ Unlinkable \subseteq Config \X Config

VARIABLES
    state,         \* state[c][n]; "system" is configured with that substate
    prerequisites  \* prerequisites[c][n], a set of <<configuration, name>>

vars == <<link, present, state, prerequisites>>

State == {"transient", "fetched", "unpacked", "configured", "system", "broken"}
Configured == {"configured", "system"}
Replaceable == {"fetched", "unpacked"}

TypeOK ==
    /\ LinksTypeOK
    /\ state \in [Config -> [Name -> State]]
    /\ prerequisites \in [Config -> [Name -> SUBSET (Config \X Name)]]

Init ==
    /\ LinksInit
    /\ state = [c \in Config |-> [n \in Name |-> "transient"]]
    /\ prerequisites = [c \in Config |-> [n \in Name |-> {}]]

SetState(c, n, s) == state' = [state EXCEPT ![c] = [@ EXCEPT ![n] = s]]
SetPrerequisites(c, n, ps) ==
    prerequisites' = [prerequisites EXCEPT ![c] = [@ EXCEPT ![n] = ps]]

-----------------------------------------------------------------------------
\* query_dependents(): some package of d has <<c, n>> among its prerequisites.
HasDependents(d, c, n) == \E p \in Name : <<c, n>> \in prerequisites[d][p]

\* find_dependency(): the configurations, among those the links lead to, that
\* have a package of this name.  More than one is an error.
Found(c, dep) ==
    {d \in DependencyConfigs(link, c, dep.kind) :
        state[d][dep.name] # "transient"}

\* pkg_configure_prerequisites() for one way to satisfy the depends values.
\* (Which of several it prefers, and the version constraints, are left open.)
Resolved(c, req) ==
    \A dep \in req :
        \E d \in Found(c, dep) :
            Found(c, dep) = {d} /\ state[d][dep.name] \in Configured
PrerequisitesOf(c, req) == {<<d, dep.name>> : dep \in req, d \in Config}
                           \cap UNION {Found(c, dep) \X {dep.name} : dep \in req}

-----------------------------------------------------------------------------
(* Package commands, run in configuration c.  The database constructor has *)
(* attached all that c explicitly links.                                   *)

\* pkg-fetch [--replace]: fails on any other state.
PkgFetch(c, n) ==
    /\ <<c, n>> \in Home
    /\ state[c][n] \in {"transient"} \cup Replaceable
    /\ Opens(link, c)
    /\ SetState(c, n, "fetched")
    /\ UNCHANGED <<link, present, prerequisites>>

\* pkg-unpack: from the archive, or an external directory [--replace].
PkgUnpack(c, n) ==
    /\ <<c, n>> \in Home
    /\ state[c][n] \in {"transient"} \cup Replaceable
    /\ Opens(link, c)
    /\ SetState(c, n, "unpacked")
    /\ UNCHANGED <<link, present, prerequisites>>

\* pkg-purge, and pkg-purge --force of a broken package cleaned up by hand.
PkgPurge(c, n) ==
    /\ state[c][n] \in Replaceable \cup {"broken"}
    /\ Opens(link, c)
    /\ SetState(c, n, "transient")
    /\ UNCHANGED <<link, present, prerequisites>>

\* pkg_purge_fs(), in any of the above, could not remove the old files.
PkgPurgeFail(c, n) ==
    /\ state[c][n] \in Replaceable
    /\ Opens(link, c)
    /\ SetState(c, n, "broken")
    /\ UNCHANGED <<link, present, prerequisites>>

\* pkg-configure.
PkgConfigure(c, n) ==
    /\ state[c][n] = "unpacked"
    /\ Opens(link, c)
    /\ \E req \in Requires[n] :
        /\ Resolved(c, req)
        /\ SetPrerequisites(c, n, PrerequisitesOf(c, req))
    /\ SetState(c, n, "configured")
    /\ UNCHANGED <<link, present>>

\* The build system failed, and failed again to disfigure what was there.
\* (When the second one succeeds the package stays unpacked.)
PkgConfigureFail(c, n) ==
    /\ state[c][n] = "unpacked"
    /\ Opens(link, c)
    /\ \E req \in Requires[n] : Resolved(c, req)
    /\ SetState(c, n, "broken")
    /\ UNCHANGED <<link, present, prerequisites>>

\* pkg-configure sys:<name>.
PkgConfigureSystem(c, n) ==
    /\ <<c, n>> \in SystemHome
    /\ state[c][n] = "transient"
    /\ Opens(link, c)
    /\ SetState(c, n, "system")
    /\ UNCHANGED <<link, present, prerequisites>>

\* pkg-disfigure: refused while any dependent configuration has a dependent.
\* A system package is erased; otherwise the build system may fail.
PkgDisfigure(c, n) ==
    /\ state[c][n] \in Configured
    /\ Opens(link, c)
    /\ DependentsOpen(link, c)
    /\ \A d \in DependentConfigs(link, c) : ~HasDependents(d, c, n)
    /\ \/ state[c][n] = "system" /\ SetState(c, n, "transient")
       \/ state[c][n] = "configured" /\ SetState(c, n, "unpacked")
       \/ state[c][n] = "configured" /\ SetState(c, n, "broken")
    /\ SetPrerequisites(c, n, {})
    /\ UNCHANGED <<link, present>>

-----------------------------------------------------------------------------
(* Link commands.                                                          *)

Link(c, d) == CfgLink(c, d) /\ UNCHANGED <<state, prerequisites>>

UnlinkUnchecked(m, u) == link[m][u] = "explicit"  \* with a fault

\* What cfg-unlink of u from m verifies before it changes anything: no package
\* configured in u has a dependent in a configuration that, without the link,
\* no longer leads to u.  A private u must have no dependents at all.
UnlinkAllowed(m, u) ==
    /\ link[m][u] = "explicit"
    /\ Opens(link, m)
    /\ DependentsOpen(link, u)
    /\ \A d \in DependentConfigs(link, u) \ {u} : \A n \in Name :
        state[u][n] \in Configured /\ HasDependents(d, u, n)
        => /\ ~Private(u)
           /\ u \in AnyDependencyConfigs(SetLink(link, m, u, "none"), d)

\* With a fault: only the object of the unlinking configuration is erased.
CfgUnlinkOneSided(m, u) ==
    /\ <<m, u>> \in Unlinkable
    /\ UnlinkAllowed(m, u)
    /\ link' = SetLink(link, m, u, "none")
    /\ UNCHANGED <<present, state, prerequisites>>

\* cfg-unlink: a mutual link is turned into a backlink, otherwise both objects
\* are erased, and a private configuration is removed together with its links
\* and packages.  (A missing backlink fails an assertion: nothing is changed.)
CfgUnlink(m, u) ==
    /\ <<m, u>> \in Unlinkable
    /\ UnlinkAllowed(m, u)
    /\ link[u][m] # "none"
    /\ IF link[u][m] = "explicit" /\ ~Private(u)
       THEN link' = SetLink(link, m, u, "implicit")
       ELSE link' = [SetLink(SetLink(link, m, u, "none"), u, m, "none")
                     EXCEPT ![u] = IF Private(u)
                                   THEN [d \in Config |-> "none"] ELSE @]
    /\ IF Private(u)
       THEN /\ present' = present \ {u}
            /\ state' = [state EXCEPT ![u] = [n \in Name |-> "transient"]]
            /\ prerequisites' = [prerequisites EXCEPT ![u] = [n \in Name |-> {}]]
       ELSE UNCHANGED <<present, state, prerequisites>>

UnlinkDangling(c) == CfgUnlinkDangling(c) /\ UNCHANGED <<state, prerequisites>>
MoveAway(c) == CfgMoveAway(c) /\ UNCHANGED <<state, prerequisites>>
MoveBack(c) == CfgMoveBack(c) /\ UNCHANGED <<state, prerequisites>>

Next ==
    \/ \E c \in Config, n \in Name :
        \/ PkgFetch(c, n) \/ PkgUnpack(c, n)
        \/ PkgPurge(c, n) \/ PkgPurgeFail(c, n)
        \/ PkgConfigure(c, n) \/ PkgConfigureFail(c, n)
        \/ PkgConfigureSystem(c, n) \/ PkgDisfigure(c, n)
    \/ \E c, d \in Config : Link(c, d) \/ CfgUnlink(c, d)
    \/ \E c \in Config : UnlinkDangling(c) \/ MoveAway(c) \/ MoveBack(c)

Spec == Init /\ [][Next]_vars

(* Properties.                                                             *)

\* The packages whose prerequisites bpkg answers for.  A comment in to_ptr()
\* gives up on a configuration renamed away while its prerequisites are dropped.
Dependent == {d \in Config \X Name : d[1] \notin Movable}

\* Every prerequisite of a configured package is itself configured, in the
\* configuration it was recorded in: what "still has dependents" in
\* pkg_disfigure() and cfg_unlink_config() are there to protect.
PrerequisitesConfigured ==
    \A d \in Dependent : \A q \in prerequisites[d[1]][d[2]] :
        state[q[1]][q[2]] \in Configured

\* The dependent can still load its prerequisites: _selected_package_ref::
\* to_ptr() finds the recorded configuration among those the links lead to.
PrerequisitesLoadable ==
    \A d \in Dependent : \A q \in prerequisites[d[1]][d[2]] :
        q[1] \in AnyDependencyConfigs(link, d[1])

\* The two traversals agree: a configuration that holds a dependent is among
\* the dependent configurations of the one that holds its prerequisite, so
\* that dependent_configs() misses nobody.
DependentsVisible ==
    \A d \in Dependent : \A q \in prerequisites[d[1]][d[2]] :
        d[1] \in DependentConfigs(link, q[1])

\* Only configured packages have prerequisites: a package that broke halfway
\* through a command holds on to nobody.
OnlyConfiguredDepend ==
    \A c \in Config, n \in Name :
        prerequisites[c][n] # {} => state[c][n] = "configured"

\* Links come in pairs: a backlink always has the explicit link it was made
\* for ("both sides of the link cannot be implicit"), but for the backlinks to
\* a private configuration that was removed.
BacklinksMatchLinks ==
    \A c, d \in Config :
        link[c][d] = "implicit" =>
            \/ link[d][c] = "explicit"
            \/ Private(d) /\ d \notin present
=============================================================================
