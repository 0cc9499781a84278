------------------------ MODULE ConfiguredPackages ------------------------
(* What the commands that change packages promise of a configuration: the   *)
(* state every one of their transactions leaves behind.                     *)
(*                                                                          *)
(* A package is configured against its prerequisites: packages that are     *)
(* themselves configured, at versions it allows. A package is taken apart   *)
(* only while no configured package depends on it, and configured only once *)
(* everything it depends on is. PackageCommands shows that pkg-build and    *)
(* pkg-drop, interrupted at any of their transactions, do nothing else.     *)
EXTENDS Integers

CONSTANTS
    Pkgs,       \* the names of packages
    Versions    \* the versions of packages

VARIABLE
    selected    \* the selected_package objects of the configuration

\* A package depends on others: it maps each to the versions it allows.
Prerequisites == UNION {[D -> SUBSET Versions] : D \in SUBSET Pkgs}

States == {"none", "fetched", "unpacked", "configured", "broken"}

\* selected_package: version 0 and the state "none" for no object.
Package == [state : States, version : Versions \cup {0},
            hold : BOOLEAN, holdVersion : BOOLEAN, prereqs : Prerequisites]

\* An element of Package, of which there are too many to enumerate.
IsPackage(x) ==
    /\ DOMAIN x.prereqs \subseteq Pkgs
    /\ x \in [state : States, version : Versions \cup {0}, hold : BOOLEAN,
              holdVersion : BOOLEAN, prereqs : [DOMAIN x.prereqs -> SUBSET Versions]]

NoPackage == [state |-> "none", version |-> 0, hold |-> FALSE,
              holdVersion |-> FALSE, prereqs |-> [d \in {} |-> {}]]

Configured(p) == selected[p].state = "configured"

\* query_dependents(): the configured packages that depend on d.
Dependents(d) == {p \in Pkgs : Configured(p) /\ d \in DOMAIN selected[p].prereqs}

\* p can be configured against ds: they are configured, at allowed versions.
Satisfied(ds) ==
    \A d \in DOMAIN ds : Configured(d) /\ selected[d].version \in ds[d]

TypeOK == selected \in [Pkgs -> Package]

\* Every prerequisite of a configured package is configured, at a version
\* that the package allows, and a package that is not configured has none.
PrerequisitesHeld ==
    \A p \in Pkgs :
        /\ Configured(p) => Satisfied(selected[p].prereqs)
        /\ ~Configured(p) => DOMAIN selected[p].prereqs = {}

---------------------------------------------------------------------------
Init == selected = [p \in Pkgs |-> NoPackage]

\* A step changes one package.
Becomes(p, package) ==
    /\ IsPackage(package)
    /\ selected' = [selected EXCEPT ![p] = package]

\* Fetch, unpack, replace, purge or break a package that is not configured, or
\* take one apart that no package depends on.
TakeApart(p) ==
    /\ Dependents(p) = {}
    /\ Becomes(p, selected'[p])
    /\ selected'[p].state # "configured" /\ DOMAIN selected'[p].prereqs = {}

\* Configure a package against prerequisites that are configured.
Configure(p) ==
    /\ selected[p].state = "unpacked"
    /\ Becomes(p, [selected[p] EXCEPT !.state = "configured",
                                      !.prereqs = selected'[p].prereqs])
    /\ Satisfied(selected'[p].prereqs)

\* Hold a package or its version, or stop holding it.
Hold(p) ==
    Becomes(p, [selected[p] EXCEPT !.hold = selected'[p].hold,
                                   !.holdVersion = selected'[p].holdVersion])

Next == \E p \in Pkgs : TakeApart(p) \/ Configure(p) \/ Hold(p)

Spec == Init /\ [][Next]_selected
===========================================================================
