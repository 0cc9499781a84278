----------------------------- MODULE ConfigLinks -----------------------------
(***************************************************************************)
(* Linked build configurations (bpkg/cfg-link.cxx, bpkg/cfg-unlink.cxx,    *)
(* bpkg/database.cxx).                                                     *)
(*                                                                         *)
(* Every configuration keeps, in its own database, one `configuration`     *)
(* object per configuration it is linked with.  cfg-link persists an       *)
(* explicit object in the linking configuration and an implicit one (the   *)
(* backlink) in the linked configuration.  Everything bpkg knows about     *)
(* other configurations it finds by walking these objects: explicit ones   *)
(* from a dependent to its prerequisites (dependency_configs), implicit    *)
(* ones from a prerequisite to its dependents (dependent_configs).         *)
(***************************************************************************)
EXTENDS Naturals, FiniteSets

CONSTANTS
    Config,      \* the configurations (a configuration is its uuid)
    Type,        \* [Config -> type]: target, host, build2 or a user's own
    Host,        \* the host configuration type
    Build2,      \* the build2 (build system module) configuration type
    Parent,      \* [Config -> Config \cup {NoParent}]: parent of a private one
    NoParent,
    Linkable,    \* bound: the ordered pairs the user ever links
    Movable      \* bound: the configurations the user ever renames

Private(c) == Parent[c] # NoParent

ASSUME ConfigAssumption ==
    /\ NoParent \notin Config
    /\ Parent \in [Config -> Config \cup {NoParent}]
    /\ \A c \in Config : Private(c) => Parent[c] # c /\ ~Private(Parent[c])
    /\ Host # Build2
    /\ Linkable \subseteq Config \X Config
    /\ Movable \subseteq {c \in Config : ~Private(c)}

VARIABLES
    link,        \* link[c][d]: the object for d in the database of c
    present      \* configurations whose directory is where the links say

LinkKind == {"none", "implicit", "explicit"}

LinksTypeOK ==
    /\ link \in [Config -> [Config -> LinkKind]]
    /\ present \subseteq Config

-----------------------------------------------------------------------------
(* Walking the links.  The traversals of database.cxx are depth-first      *)
(* searches with a visited list; what they return is the set of nodes      *)
(* reachable through the edges they are allowed to take.                   *)

\* The intersection of all the sets that hold c and are closed under R.
Reachable(R, c) ==
    LET Edges == R
        Closed == {S \in SUBSET Config :
                      c \in S /\ \A e \in Edges : e[1] \in S => e[2] \in S}
    IN  {d \in Config : \A S \in Closed : d \in S}

Linked(lk, c, d) == lk[c][d] = "explicit"

\* implicit_links(): dangling backlinks are skipped, an explicit link counts
\* when it is also a backlink.
Backlinked(lk, c, d) ==
    \/ lk[c][d] = "implicit" /\ d \in present
    \/ lk[c][d] = "explicit" /\ lk[d][c] = "explicit"

\* The edges dependency_configs() descends: explicit links, and for a private
\* host configuration its parent's links to build2 configurations, as long as
\* the linked configuration has the type of the linking one or an allowed type.
DependencyEdges(lk, allowed) ==
    {e \in Config \X Config :
        /\ \/ Linked(lk, e[1], e[2])
           \/ /\ Private(e[1]) /\ Type[e[1]] = Host /\ Type[e[2]] = Build2
              /\ Linked(lk, Parent[e[1]], e[2])
        /\ Type[e[2]] \in {Type[e[1]]} \cup allowed}

\* dependency_configs(): every configuration a package of c may be resolved in.
AnyDependencyConfigs(lk, c) == Reachable(DependencyEdges(lk, {Host, Build2}), c)

\* dependency_configs(name, buildtime): kind is "runtime", or the type of the
\* configurations in which a build-time dependency is looked up.
DependencyConfigs(lk, c, kind) ==
    IF kind = "runtime"
    THEN Reachable(DependencyEdges(lk, {}), c)
    ELSE {d \in Reachable(DependencyEdges(lk, {kind}), c) : Type[d] = kind}

\* Variations with a fault, for the mutation checks: the traversal stops at the
\* build-time boundary; it forgets the private host configurations.
DependentEdgesOwnType(lk, start) ==
    {e \in Config \X Config :
        Backlinked(lk, e[1], e[2]) /\ Type[e[2]] = Type[e[1]]}
DependentEdgesNoPrivate(lk, start) ==
    {e \in Config \X Config :
        /\ Backlinked(lk, e[1], e[2])
        /\ \/ Type[e[2]] = Type[e[1]]
           \/ Type[e[1]] = Type[start] /\ Type[start] \in {Host, Build2}}

\* The edges dependent_configs() of `start` follows.  The build-time boundary
\* is crossed only out of configurations of the start's own host/build2 type.
DependentEdges(lk, start) ==
    {e \in Config \X Config :
        /\ \/ Backlinked(lk, e[1], e[2])
           \/ /\ Type[e[1]] = Build2 /\ Private(e[2]) /\ Type[e[2]] = Host
              /\ \E d \in Config : Backlinked(lk, e[1], d) /\ Linked(lk, d, e[2])
        /\ \/ Type[e[2]] = Type[e[1]]
           \/ Type[e[1]] = Type[start] /\ Type[start] \in {Host, Build2}}

DependentConfigs(lk, c) == Reachable(DependentEdges(lk, c), c)

\* attach_explicit(): opening c attaches all it explicitly links, recursively,
\* and fails when one of them is not there.
Attached(lk, c) ==
    Reachable({e \in Config \X Config : Linked(lk, e[1], e[2])}, c)
Opens(lk, c) == Attached(lk, c) \subseteq present

\* dependent_configs() attaches what it visits and fails on an explicit link
\* whose other end has no backlink.
DependentsOpen(lk, c) ==
    \A d \in DependentConfigs(lk, c) :
        /\ Opens(lk, d)
        /\ \A e \in Config : Linked(lk, d, e) => lk[e][d] # "none"

-----------------------------------------------------------------------------
(* Commands.                                                               *)

SetLink(lk, c, d, k) == [lk EXCEPT ![c] = [@ EXCEPT ![d] = k]]

\* cfg-link attaches just the two configurations.  It refuses a second explicit
\* link and a link to itself.  A backlink already there is made explicit,
\* provided the other end links explicitly; a dead backlink found at the other
\* end is reused.
CfgLink(c, d) ==
    /\ <<c, d>> \in Linkable
    /\ c # d
    /\ {c, d} \subseteq present
    /\ \/ /\ link[c][d] = "implicit"
          /\ link[d][c] = "explicit"
          /\ link' = SetLink(link, c, d, "explicit")
       \/ /\ link[c][d] = "none"
          /\ link[d][c] # "explicit"
          /\ link' = SetLink(SetLink(link, c, d, "explicit"), d, c, "implicit")
    /\ UNCHANGED present

\* cfg-unlink --dangling: erases the backlinks to missing directories.
CfgUnlinkDangling(c) ==
    /\ c \in present
    /\ link' = [link EXCEPT ![c] = [d \in Config |->
                   IF @[d] = "implicit" /\ d \notin present
                   THEN "none" ELSE @[d]]]
    /\ UNCHANGED present

\* The user renames a configuration directory away and back.
CfgMoveAway(c) ==
    /\ c \in Movable \cap present
    /\ present' = present \ {c}
    /\ UNCHANGED link
CfgMoveBack(c) ==
    /\ c \in Movable \ present
    /\ present' = present \cup {c}
    /\ UNCHANGED link

\* Only private configurations are linked to begin with: bpkg creates them
\* inside the configuration they are private to and links the two at once.
LinksInit ==
    /\ link = [c \in Config |-> [d \in Config |->
                 IF Parent[d] = c THEN "explicit"
                 ELSE IF Parent[c] = d THEN "implicit" ELSE "none"]]
    /\ present = Config
=============================================================================
