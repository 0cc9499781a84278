------------------------- MODULE LinkedPackagesProofs -------------------------
(***************************************************************************)
(* What holds of linked configurations for any set of configurations,      *)
(* packages and links: types, the pairing of links and backlinks, and that *)
(* only configured packages have prerequisites.  As long as nothing is     *)
(* renamed and no path is lost by which a prerequisite was found, the      *)
(* search for dependents along the backlinks misses nobody, so that no     *)
(* configured package loses a prerequisite.  And no path is lost when only *)
(* the ends of chains are unlinked: what cfg-unlink verifies sees to that. *)
(***************************************************************************)
EXTENDS LinkedPackages, TLAPS

\* No configuration is linked with itself (cfg-link refuses it).  Without this
\* cfg-unlink could turn both sides of a link into backlinks.
NoSelfLink == \A c \in Config : link[c][c] # "explicit"

\* The inductive invariant.
LinksInv == TypeOK /\ NoSelfLink /\ BacklinksMatchLinks
Inv == LinksInv /\ OnlyConfiguredDepend

-----------------------------------------------------------------------------
LEMMA LinkKinds ==
    "none" \in LinkKind /\ "implicit" \in LinkKind /\ "explicit" \in LinkKind
BY DEF LinkKind

\* A package command changes one state, to a legal one.
LEMMA SetStateType ==
    ASSUME TypeOK, NEW c \in Config, NEW n \in Name, NEW s \in State,
           SetState(c, n, s)
    PROVE  /\ state' \in [Config -> [Name -> State]]
           /\ \A x \in Config, y \in Name :
                state'[x][y] = IF x = c /\ y = n THEN s ELSE state[x][y]
BY DEF TypeOK, SetState

LEMMA SetPrerequisitesType ==
    ASSUME TypeOK, NEW c \in Config, NEW n \in Name,
           NEW ps \in SUBSET (Config \X Name), SetPrerequisites(c, n, ps)
    PROVE  /\ prerequisites' \in [Config -> [Name -> SUBSET (Config \X Name)]]
           /\ \A x \in Config, y \in Name :
                prerequisites'[x][y] =
                    IF x = c /\ y = n THEN ps ELSE prerequisites[x][y]
BY DEF TypeOK, SetPrerequisites

LEMMA PrerequisitesOfType ==
    ASSUME NEW c \in Config, NEW n \in Name, NEW req \in Requires[n]
    PROVE  PrerequisitesOf(c, req) \in SUBSET (Config \X Name)
<1>1. req \in SUBSET Dependency
  BY PackagesAssumption
<1>2. \A dep \in req : dep.name \in Name
  BY <1>1 DEF Dependency
<1> QED
  BY <1>2 DEF PrerequisitesOf

-----------------------------------------------------------------------------
LEMMA InitInv == Init => Inv
<1> SUFFICES ASSUME Init PROVE Inv
  OBVIOUS
<1> USE DEF Init, LinksInit
<1>1. TypeOK
  BY DEF TypeOK, LinksTypeOK, LinkKind, State
<1>2. NoSelfLink
  BY ConfigAssumption DEF NoSelfLink, Private
<1>3. BacklinksMatchLinks
  BY DEF BacklinksMatchLinks
<1>4. OnlyConfiguredDepend
  BY DEF OnlyConfiguredDepend
<1> QED
  BY <1>1, <1>2, <1>3, <1>4 DEF Inv, LinksInv

-----------------------------------------------------------------------------
\* The package commands leave the links alone.
LEMMA PackageStepLinks ==
    ASSUME LinksInv, UNCHANGED <<link, present>>,
           state' \in [Config -> [Name -> State]],
           prerequisites' \in [Config -> [Name -> SUBSET (Config \X Name)]]
    PROVE  LinksInv'
BY DEF LinksInv, TypeOK, LinksTypeOK, NoSelfLink, BacklinksMatchLinks

\* A command that moves a package between states other than configured.
LEMMA UnconfiguredStep ==
    ASSUME Inv, NEW c \in Config, NEW n \in Name, NEW s \in State,
           state[c][n] # "configured", SetState(c, n, s),
           UNCHANGED <<link, present, prerequisites>>
    PROVE  Inv'
<1>1. TypeOK
  BY DEF Inv, LinksInv
<1>2. /\ state' \in [Config -> [Name -> State]]
      /\ \A x \in Config, y \in Name :
           state'[x][y] = IF x = c /\ y = n THEN s ELSE state[x][y]
  BY <1>1, SetStateType
<1>3. LinksInv'
  BY <1>1, <1>2, PackageStepLinks DEF Inv, TypeOK
<1>4. OnlyConfiguredDepend'
  BY <1>2 DEF Inv, OnlyConfiguredDepend
<1> QED
  BY <1>3, <1>4 DEF Inv

\* A command that sets the prerequisites of a package along with its state.
LEMMA PrerequisitesStep ==
    ASSUME Inv, NEW c \in Config, NEW n \in Name, NEW s \in State,
           NEW ps \in SUBSET (Config \X Name), ps # {} => s = "configured",
           SetState(c, n, s), SetPrerequisites(c, n, ps),
           UNCHANGED <<link, present>>
    PROVE  Inv'
<1>1. TypeOK
  BY DEF Inv, LinksInv
<1>2. /\ state' \in [Config -> [Name -> State]]
      /\ \A x \in Config, y \in Name :
           state'[x][y] = IF x = c /\ y = n THEN s ELSE state[x][y]
  BY <1>1, SetStateType
<1>3. /\ prerequisites' \in [Config -> [Name -> SUBSET (Config \X Name)]]
      /\ \A x \in Config, y \in Name :
           prerequisites'[x][y] =
               IF x = c /\ y = n THEN ps ELSE prerequisites[x][y]
  BY <1>1, SetPrerequisitesType
<1>4. LinksInv'
  BY <1>2, <1>3, PackageStepLinks DEF Inv
<1>5. OnlyConfiguredDepend'
  BY <1>2, <1>3 DEF Inv, OnlyConfiguredDepend
<1> QED
  BY <1>4, <1>5 DEF Inv

-----------------------------------------------------------------------------
\* The link commands.
LEMMA LinkStep ==
    ASSUME Inv, NEW c \in Config, NEW d \in Config, Link(c, d)
    PROVE  Inv'
<1>1. /\ TypeOK
      /\ link \in [Config -> [Config -> LinkKind]]
  BY DEF Inv, LinksInv, TypeOK, LinksTypeOK
<1>2. /\ c # d
      /\ UNCHANGED <<present, state, prerequisites>>
  BY DEF Link, CfgLink
<1>3. CASE /\ link[c][d] = "implicit"
           /\ link[d][c] = "explicit"
           /\ link' = SetLink(link, c, d, "explicit")
  <2>1. /\ link' \in [Config -> [Config -> LinkKind]]
        /\ \A x, y \in Config :
             link'[x][y] = IF x = c /\ y = d THEN "explicit" ELSE link[x][y]
    BY <1>1, <1>3, LinkKinds DEF SetLink
  <2>2. TypeOK'
    BY <1>1, <1>2, <2>1 DEF TypeOK, LinksTypeOK
  <2>3. NoSelfLink'
    BY <1>2, <2>1 DEF Inv, LinksInv, NoSelfLink
  <2>4. BacklinksMatchLinks'
    BY <1>2, <2>1 DEF Inv, LinksInv, BacklinksMatchLinks
  <2>5. OnlyConfiguredDepend'
    BY <1>2 DEF Inv, OnlyConfiguredDepend
  <2> QED
    BY <2>2, <2>3, <2>4, <2>5 DEF Inv, LinksInv
<1>4. CASE /\ link[c][d] = "none"
           /\ link[d][c] # "explicit"
           /\ link' = SetLink(SetLink(link, c, d, "explicit"), d, c, "implicit")
  <2> DEFINE lk == SetLink(link, c, d, "explicit")
  <2>1. /\ lk \in [Config -> [Config -> LinkKind]]
        /\ \A x, y \in Config :
             lk[x][y] = IF x = c /\ y = d THEN "explicit" ELSE link[x][y]
    BY <1>1, LinkKinds DEF SetLink
  <2> HIDE DEF lk
  <2>2. link' = SetLink(lk, d, c, "implicit")
    BY <1>4 DEF lk
  <2>3. /\ link' \in [Config -> [Config -> LinkKind]]
        /\ \A x, y \in Config :
             link'[x][y] = IF x = d /\ y = c THEN "implicit" ELSE lk[x][y]
    BY <2>1, <2>2, LinkKinds DEF SetLink
  <2>4. TypeOK'
    BY <1>1, <1>2, <2>3 DEF TypeOK, LinksTypeOK
  <2>5. NoSelfLink'
    BY <1>2, <2>1, <2>3 DEF Inv, LinksInv, NoSelfLink
  <2>6. BacklinksMatchLinks'
    BY <1>2, <2>1, <2>3 DEF Inv, LinksInv, BacklinksMatchLinks
  <2>7. OnlyConfiguredDepend'
    BY <1>2 DEF Inv, OnlyConfiguredDepend
  <2> QED
    BY <2>4, <2>5, <2>6, <2>7 DEF Inv, LinksInv
<1> QED
  BY <1>3, <1>4 DEF Link, CfgLink

LEMMA UnlinkStep ==
    ASSUME Inv, NEW m \in Config, NEW u \in Config, CfgUnlink(m, u)
    PROVE  Inv'
<1>1. /\ TypeOK
      /\ link \in [Config -> [Config -> LinkKind]]
  BY DEF Inv, LinksInv, TypeOK, LinksTypeOK
<1>2. link[m][u] = "explicit" /\ m # u
  BY DEF CfgUnlink, UnlinkAllowed, Inv, LinksInv, NoSelfLink
<1>3. /\ present' \subseteq present
      /\ Private(u) => present' = present \ {u}
      /\ state' \in [Config -> [Name -> State]]
      /\ prerequisites' \in [Config -> [Name -> SUBSET (Config \X Name)]]
      /\ OnlyConfiguredDepend'
  <2>1. CASE Private(u)
    <3>1. /\ present' = present \ {u}
          /\ state' = [state EXCEPT ![u] = [n \in Name |-> "transient"]]
          /\ prerequisites' = [prerequisites EXCEPT ![u] = [n \in Name |-> {}]]
      BY <2>1 DEF CfgUnlink
    <3>2. /\ state' \in [Config -> [Name -> State]]
          /\ prerequisites' \in [Config -> [Name -> SUBSET (Config \X Name)]]
      BY <1>1, <3>1 DEF TypeOK, State
    <3>3. OnlyConfiguredDepend'
      BY <1>1, <3>1 DEF Inv, TypeOK, OnlyConfiguredDepend
    <3> QED
      BY <3>1, <3>2, <3>3
  <2>2. CASE ~Private(u)
    BY <1>1, <2>2 DEF CfgUnlink, Inv, TypeOK, OnlyConfiguredDepend
  <2> QED
    BY <2>1, <2>2
<1>4. CASE link[u][m] = "explicit" /\ ~Private(u)
  <2>1. link' = SetLink(link, m, u, "implicit")
    BY <1>4 DEF CfgUnlink
  <2>2. /\ link' \in [Config -> [Config -> LinkKind]]
        /\ \A x, y \in Config :
             link'[x][y] = IF x = m /\ y = u THEN "implicit" ELSE link[x][y]
    BY <1>1, <2>1, LinkKinds DEF SetLink
  <2>3. NoSelfLink'
    BY <2>2 DEF Inv, LinksInv, NoSelfLink
  <2>4. BacklinksMatchLinks'
    <3> SUFFICES ASSUME NEW x \in Config, NEW y \in Config,
                        link'[x][y] = "implicit"
                 PROVE  \/ link'[y][x] = "explicit"
                        \/ Private(y) /\ y \notin present'
      BY DEF BacklinksMatchLinks
    <3>1. CASE x = m /\ y = u
      BY <1>2, <1>4, <2>2, <3>1
    <3>2. CASE ~(x = m /\ y = u)
      <4>1. link[x][y] = "implicit"
        BY <2>2, <3>2
      <4>2. ~(y = m /\ x = u)
        BY <1>4, <4>1
      <4> QED
        BY <1>3, <2>2, <4>1, <4>2 DEF Inv, LinksInv, BacklinksMatchLinks
    <3> QED
      BY <3>1, <3>2
  <2> QED
    BY <1>1, <1>3, <2>2, <2>3, <2>4 DEF Inv, LinksInv, TypeOK, LinksTypeOK
<1>5. CASE ~(link[u][m] = "explicit" /\ ~Private(u))
  <2> DEFINE lk == SetLink(SetLink(link, m, u, "none"), u, m, "none")
  <2>1. /\ lk \in [Config -> [Config -> LinkKind]]
        /\ \A x, y \in Config :
             lk[x][y] = IF (x = m /\ y = u) \/ (x = u /\ y = m)
                        THEN "none" ELSE link[x][y]
    BY <1>1, LinkKinds DEF SetLink
  <2> HIDE DEF lk
  <2>2. link' = [lk EXCEPT ![u] = IF Private(u)
                                  THEN [d \in Config |-> "none"] ELSE @]
    BY <1>5 DEF CfgUnlink, lk
  <2>3. /\ link' \in [Config -> [Config -> LinkKind]]
        /\ \A x, y \in Config :
             link'[x][y] = IF x = u /\ Private(u) THEN "none" ELSE lk[x][y]
    BY <2>1, <2>2 DEF LinkKind
  <2>4. NoSelfLink'
    BY <2>1, <2>3 DEF Inv, LinksInv, NoSelfLink
  <2>5. BacklinksMatchLinks'
    <3> SUFFICES ASSUME NEW x \in Config, NEW y \in Config,
                        link'[x][y] = "implicit"
                 PROVE  \/ link'[y][x] = "explicit"
                        \/ Private(y) /\ y \notin present'
      BY DEF BacklinksMatchLinks
    <3>1. /\ ~(x = m /\ y = u) /\ ~(x = u /\ y = m)
          /\ link[x][y] = "implicit"
      BY <2>1, <2>3
    <3>2. \/ link[y][x] = "explicit"
          \/ Private(y) /\ y \notin present
      BY <3>1 DEF Inv, LinksInv, BacklinksMatchLinks
    <3> QED
      BY <1>3, <2>1, <2>3, <3>1, <3>2
  <2> QED
    BY <1>1, <1>3, <2>3, <2>4, <2>5 DEF Inv, LinksInv, TypeOK, LinksTypeOK
<1> QED
  BY <1>4, <1>5

LEMMA UnlinkDanglingStep ==
    ASSUME Inv, NEW c \in Config, UnlinkDangling(c)
    PROVE  Inv'
<1>1. /\ TypeOK
      /\ link \in [Config -> [Config -> LinkKind]]
      /\ UNCHANGED <<present, state, prerequisites>>
  BY DEF Inv, LinksInv, TypeOK, LinksTypeOK, UnlinkDangling, CfgUnlinkDangling
<1>2. link' = [link EXCEPT ![c] = [d \in Config |->
                  IF link[c][d] = "implicit" /\ d \notin present
                  THEN "none" ELSE link[c][d]]]
  BY <1>1 DEF UnlinkDangling, CfgUnlinkDangling
<1>3. /\ link' \in [Config -> [Config -> LinkKind]]
      /\ \A x, y \in Config :
           \/ link'[x][y] = link[x][y]
           \/ link[x][y] = "implicit" /\ link'[x][y] = "none"
  BY <1>1, <1>2 DEF LinkKind
<1>4. NoSelfLink' /\ BacklinksMatchLinks'
  BY <1>1, <1>3 DEF Inv, LinksInv, NoSelfLink, BacklinksMatchLinks
<1> QED
  BY <1>1, <1>3, <1>4
     DEF Inv, LinksInv, TypeOK, LinksTypeOK, OnlyConfiguredDepend

LEMMA MoveStep ==
    ASSUME Inv, NEW c \in Config, MoveAway(c) \/ MoveBack(c)
    PROVE  Inv'
<1>1. UNCHANGED <<link, state, prerequisites>>
  BY DEF MoveAway, CfgMoveAway, MoveBack, CfgMoveBack
<1>2. /\ present' \subseteq Config
      /\ \A d \in Config : Private(d) /\ d \notin present => d \notin present'
  BY ConfigAssumption DEF Inv, LinksInv, TypeOK, LinksTypeOK,
                          MoveAway, CfgMoveAway, MoveBack, CfgMoveBack
<1>3. BacklinksMatchLinks'
  BY <1>1, <1>2 DEF Inv, LinksInv, BacklinksMatchLinks
<1> QED
  BY <1>1, <1>2, <1>3
     DEF Inv, LinksInv, TypeOK, LinksTypeOK, NoSelfLink, OnlyConfiguredDepend

-----------------------------------------------------------------------------
LEMMA NextInv == Inv /\ [Next]_vars => Inv'
<1> SUFFICES ASSUME Inv, [Next]_vars PROVE Inv'
  OBVIOUS
<1> USE DEF Replaceable
<1>1. ASSUME NEW c \in Config, NEW n \in Name, PkgFetch(c, n) PROVE Inv'
  BY <1>1, UnconfiguredStep DEF PkgFetch, State
<1>2. ASSUME NEW c \in Config, NEW n \in Name, PkgUnpack(c, n) PROVE Inv'
  BY <1>2, UnconfiguredStep DEF PkgUnpack, State
<1>3. ASSUME NEW c \in Config, NEW n \in Name, PkgPurge(c, n) PROVE Inv'
  BY <1>3, UnconfiguredStep DEF PkgPurge, State
<1>4. ASSUME NEW c \in Config, NEW n \in Name, PkgPurgeFail(c, n) PROVE Inv'
  BY <1>4, UnconfiguredStep DEF PkgPurgeFail, State
<1>5. ASSUME NEW c \in Config, NEW n \in Name, PkgConfigure(c, n) PROVE Inv'
  <2>1. PICK req \in Requires[n] :
          SetPrerequisites(c, n, PrerequisitesOf(c, req))
    BY <1>5 DEF PkgConfigure
  <2>2. PrerequisitesOf(c, req) \in SUBSET (Config \X Name)
    BY PrerequisitesOfType
  <2> QED
    BY <1>5, <2>1, <2>2, PrerequisitesStep DEF PkgConfigure, State
<1>6. ASSUME NEW c \in Config, NEW n \in Name, PkgConfigureFail(c, n)
      PROVE  Inv'
  BY <1>6, UnconfiguredStep DEF PkgConfigureFail, State
<1>7. ASSUME NEW c \in Config, NEW n \in Name, PkgConfigureSystem(c, n)
      PROVE  Inv'
  BY <1>7, UnconfiguredStep DEF PkgConfigureSystem, State
<1>8. ASSUME NEW c \in Config, NEW n \in Name, PkgDisfigure(c, n) PROVE Inv'
  <2>1. /\ SetPrerequisites(c, n, {})
        /\ \E s \in State : SetState(c, n, s)
        /\ UNCHANGED <<link, present>>
    BY <1>8 DEF PkgDisfigure, State
  <2> QED
    BY <2>1, PrerequisitesStep
<1>9. ASSUME NEW c \in Config, NEW d \in Config, Link(c, d) PROVE Inv'
  BY <1>9, LinkStep
<1>10. ASSUME NEW c \in Config, NEW d \in Config, CfgUnlink(c, d) PROVE Inv'
  BY <1>10, UnlinkStep
<1>11. ASSUME NEW c \in Config, UnlinkDangling(c) PROVE Inv'
  BY <1>11, UnlinkDanglingStep
<1>12. ASSUME NEW c \in Config, MoveAway(c) \/ MoveBack(c) PROVE Inv'
  BY <1>12, MoveStep
<1>13. CASE UNCHANGED vars
  BY <1>13 DEF vars, Inv, LinksInv, TypeOK, LinksTypeOK, NoSelfLink,
               BacklinksMatchLinks, OnlyConfiguredDepend
<1> QED
  BY <1>1, <1>2, <1>3, <1>4, <1>5, <1>6, <1>7, <1>8, <1>9, <1>10, <1>11,
     <1>12, <1>13 DEF Next

\* Inv holds of every reachable state.
THEOREM Invariance == Spec => []Inv
<1>1. Init => Inv
  BY InitInv
<1>2. Inv /\ [Next]_vars => Inv'
  BY NextInv
<1> QED
  BY <1>1, <1>2, PTL DEF Spec

\* The tables of links, states and prerequisites keep their types.
THEOREM TypeCorrect == Spec => []TypeOK
BY Invariance, PTL DEF Inv, LinksInv

\* A backlink always has the explicit link it was made for (cfg-link.cxx: "both
\* sides of the link cannot be implicit"), whatever is linked, unlinked,
\* renamed or cleaned up, in whatever order.
THEOREM BacklinksPaired == Spec => []BacklinksMatchLinks
BY Invariance, PTL DEF Inv, LinksInv

\* A package that is not configured, a broken one included, has no
\* prerequisites: it keeps nobody from being disfigured or unlinked.
THEOREM OnlyConfiguredDependent == Spec => []OnlyConfiguredDepend
BY Invariance, PTL DEF Inv
-----------------------------------------------------------------------------
(* The two traversals.                                                     *)

\* More edges lead to more configurations.
LEMMA ReachableMonotone ==
    ASSUME NEW R, NEW S, R \subseteq S, NEW c
    PROVE  Reachable(R, c) \subseteq Reachable(S, c)
BY DEF Reachable

\* The links as cfg-link and the creation of private configurations leave them:
\* every directory is in its place, every explicit link has its other half, and
\* a private configuration is linked from its parent.
Intact ==
    /\ present = Config
    /\ \A c, d \in Config : link[c][d] = "explicit" => link[d][c] # "none"
    /\ \A d \in Config : Private(d) => link[Parent[d]][d] = "explicit"

\* What is kept in such links: an explicit link is seen from its other end.
LEMMA SeenFromOtherEnd ==
    ASSUME LinksTypeOK, Intact, NEW c \in Config, NEW d \in Config,
           Linked(link, c, d)
    PROVE  Backlinked(link, d, c)
BY DEF LinksTypeOK, LinkKind, Intact, Linked, Backlinked

\* An edge dependency_configs() descends leads dependent_configs() back, on its
\* way from a configuration of a type that justifies the edge.
LEMMA EdgeLeadsBack ==
    ASSUME LinksTypeOK, Intact, NEW allowed, NEW start \in Config,
           \A k \in allowed : k \in {Host, Build2} /\ k = Type[start],
           NEW c \in Config, NEW d \in Config,
           <<c, d>> \in DependencyEdges(link, allowed)
    PROVE  <<d, c>> \in DependentEdges(link, start)
<1>1. \/ Linked(link, c, d)
      \/ /\ Private(c) /\ Type[c] = Host /\ Type[d] = Build2
         /\ Linked(link, Parent[c], d)
  BY DEF DependencyEdges
<1>2. \/ Type[c] = Type[d]
      \/ Type[d] = Type[start] /\ Type[start] \in {Host, Build2}
  BY DEF DependencyEdges
<1>3. \/ Backlinked(link, d, c)
      \/ /\ Type[d] = Build2 /\ Private(c) /\ Type[c] = Host
         /\ \E e \in Config : Backlinked(link, d, e) /\ Linked(link, e, c)
  <2>1. CASE Linked(link, c, d)
    BY <2>1, SeenFromOtherEnd
  <2>2. CASE /\ Private(c) /\ Type[c] = Host /\ Type[d] = Build2
             /\ Linked(link, Parent[c], d)
    <3>1. Parent[c] \in Config
      BY <2>2, ConfigAssumption DEF Private
    <3>2. Backlinked(link, d, Parent[c])
      BY <2>2, <3>1, SeenFromOtherEnd
    <3>3. Linked(link, Parent[c], c)
      BY <2>2 DEF Intact, Linked
    <3> QED
      BY <2>2, <3>1, <3>2, <3>3
  <2> QED
    BY <1>1, <2>1, <2>2
<1> QED
  BY <1>2, <1>3 DEF DependentEdges

\* dependent_configs() finds whoever may resolve a dependency in `c`: what a
\* walk back from `c` does not reach is closed under the edges ahead.
LEMMA TraversalsAgree ==
    ASSUME LinksTypeOK, Intact, NEW c \in Config, NEW d \in Config,
           NEW kind \in DependencyKind, c \in DependencyConfigs(link, d, kind)
    PROVE  d \in DependentConfigs(link, c)
<1> DEFINE allowed == IF kind = "runtime" THEN {} ELSE {kind}
<1>1. /\ c \in Reachable(DependencyEdges(link, allowed), d)
      /\ \A k \in allowed : k \in {Host, Build2} /\ k = Type[c]
  BY DEF DependencyConfigs, DependencyKind
<1> HIDE DEF allowed
<1> SUFFICES ASSUME NEW S \in SUBSET Config, c \in S,
                    \A e \in DependentEdges(link, c) : e[1] \in S => e[2] \in S
             PROVE  d \in S
  BY DEF DependentConfigs, Reachable
<1>2. SUFFICES ASSUME d \notin S PROVE FALSE
  OBVIOUS
<1> DEFINE T == Config \ S
<1>3. \A e \in DependencyEdges(link, allowed) : e[1] \in T => e[2] \in T
  <2> SUFFICES ASSUME NEW x \in Config, NEW y \in Config,
                      <<x, y>> \in DependencyEdges(link, allowed), x \in T
               PROVE  y \in T
    BY DEF DependencyEdges
  <2>1. <<y, x>> \in DependentEdges(link, c)
    BY <1>1, EdgeLeadsBack
  <2>2. y \in S => x \in S
    BY <2>1
  <2> QED
    BY <2>2
<1>4. c \in T
  BY <1>1, <1>2, <1>3 DEF Reachable
<1> QED
  BY <1>4

\* The kinds of dependencies are allowed together when a dependent is loaded.
LEMMA FoundForAny ==
    ASSUME NEW lk, NEW c \in Config, NEW kind \in DependencyKind
    PROVE  DependencyConfigs(lk, c, kind) \subseteq AnyDependencyConfigs(lk, c)
<1> DEFINE allowed == IF kind = "runtime" THEN {} ELSE {kind}
<1>1. /\ DependencyConfigs(lk, c, kind)
           \subseteq Reachable(DependencyEdges(lk, allowed), c)
      /\ allowed \subseteq {Host, Build2}
  BY DEF DependencyConfigs, DependencyKind
<1> HIDE DEF allowed
<1>2. DependencyEdges(lk, allowed) \subseteq DependencyEdges(lk, {Host, Build2})
  BY <1>1 DEF DependencyEdges
<1> QED
  BY <1>1, <1>2, ReachableMonotone DEF AnyDependencyConfigs

-----------------------------------------------------------------------------
(* Prerequisites stay configured and within reach.                         *)

\* Every recorded prerequisite is configured, and is found where it was found
\* when it was recorded.
Recorded ==
    \A c \in Config, n \in Name : \A q \in prerequisites[c][n] :
        /\ state[q[1]][q[2]] \in Configured
        /\ \E kind \in DependencyKind :
               q[1] \in DependencyConfigs(link, c, kind)

HeldInv == Inv /\ Intact /\ Recorded

\* What has to be so for prerequisites to stay: nothing is renamed, private
\* configurations are not removed,
NothingMoves == Movable = {} /\ \A e \in Unlinkable : ~Private(e[2])

\* and a step takes no link by which a recorded prerequisite is found, unless
\* another one is left.  (The run links_chain shows that cfg-unlink may.)
PathsKept ==
    \A c \in Config, n \in Name : \A q \in prerequisites[c][n] :
        (\E kind \in DependencyKind : q[1] \in DependencyConfigs(link, c, kind))
            => \E kind \in DependencyKind :
                   q[1] \in DependencyConfigs(link', c, kind)

LEMMA InitHeld == Init => HeldInv
<1> SUFFICES ASSUME Init PROVE HeldInv
  OBVIOUS
<1>1. Inv
  BY InitInv
<1>2. Intact
  <2> USE DEF Init, LinksInit
  <2>1. ASSUME NEW c \in Config, NEW d \in Config, link[c][d] = "explicit"
        PROVE  link[d][c] # "none"
    BY <2>1
  <2>2. ASSUME NEW d \in Config, Private(d)
        PROVE  link[Parent[d]][d] = "explicit"
    BY <2>2, ConfigAssumption DEF Private
  <2> QED
    BY <2>1, <2>2 DEF Intact
<1>3. Recorded
  BY DEF Init, Recorded
<1> QED
  BY <1>1, <1>2, <1>3 DEF HeldInv

\* Nobody's prerequisite changes, and whatever is configured remains so.
LEMMA KeepsRecorded ==
    ASSUME HeldInv, PathsKept,
           \A x \in Config, y \in Name :
               prerequisites'[x][y] \subseteq prerequisites[x][y],
           \A x \in Config, y \in Name :
               state[x][y] \in Configured => state'[x][y] \in Configured
    PROVE  Recorded'
<1> SUFFICES ASSUME NEW c \in Config, NEW n \in Name,
                    NEW q \in prerequisites'[c][n]
             PROVE  /\ state'[q[1]][q[2]] \in Configured
                    /\ \E kind \in DependencyKind :
                           q[1] \in DependencyConfigs(link', c, kind)
  BY DEF Recorded
<1>1. q \in prerequisites[c][n]
  OBVIOUS
<1>2. q[1] \in Config /\ q[2] \in Name
  BY <1>1 DEF HeldInv, Inv, LinksInv, TypeOK
<1> QED
  BY <1>1, <1>2 DEF HeldInv, Recorded, PathsKept

\* A package command run on a package that is not configured.
LEMMA UnconfiguredHeld ==
    ASSUME HeldInv, PathsKept, NEW c \in Config, NEW n \in Name,
           NEW s \in State, state[c][n] \notin Configured, SetState(c, n, s),
           UNCHANGED <<link, present, prerequisites>>
    PROVE  HeldInv'
<1>1. Inv'
  BY UnconfiguredStep DEF HeldInv, Configured
<1>2. \A x \in Config, y \in Name :
        state'[x][y] = IF x = c /\ y = n THEN s ELSE state[x][y]
  BY SetStateType DEF HeldInv, Inv, LinksInv
<1>3. Recorded'
  BY <1>2, KeepsRecorded
<1>4. Intact'
  BY DEF HeldInv, Intact
<1> QED
  BY <1>1, <1>3, <1>4 DEF HeldInv

LEMMA ConfigureHeld ==
    ASSUME HeldInv, NEW c \in Config, NEW n \in Name, PkgConfigure(c, n), Inv'
    PROVE  HeldInv'
<1>1. /\ state[c][n] = "unpacked"
      /\ SetState(c, n, "configured")
      /\ UNCHANGED <<link, present>>
  BY DEF PkgConfigure
<1>2. PICK req \in Requires[n] :
        Resolved(c, req) /\ SetPrerequisites(c, n, PrerequisitesOf(c, req))
  BY DEF PkgConfigure
<1>3. \A x \in Config, y \in Name :
        state'[x][y] = IF x = c /\ y = n THEN "configured" ELSE state[x][y]
  BY <1>1, SetStateType DEF HeldInv, Inv, LinksInv, State
<1>4. PrerequisitesOf(c, req) \in SUBSET (Config \X Name)
  BY PrerequisitesOfType
<1>5. \A x \in Config, y \in Name :
        prerequisites'[x][y] = IF x = c /\ y = n THEN PrerequisitesOf(c, req)
                               ELSE prerequisites[x][y]
  BY <1>2, <1>4, SetPrerequisitesType DEF HeldInv, Inv, LinksInv
<1>6. ASSUME NEW q \in PrerequisitesOf(c, req)
      PROVE  /\ state[q[1]][q[2]] \in Configured
             /\ \E kind \in DependencyKind :
                    q[1] \in DependencyConfigs(link, c, kind)
  <2>1. PICK dep \in req : q \in Found(c, dep) \X {dep.name}
    BY DEF PrerequisitesOf
  <2>2. dep \in Dependency
    BY PackagesAssumption
  <2>3. PICK d \in Found(c, dep) :
          Found(c, dep) = {d} /\ state[d][dep.name] \in Configured
    BY <1>2 DEF Resolved
  <2>4. q[1] = d /\ q[2] = dep.name
    BY <2>1, <2>3
  <2>5. d \in DependencyConfigs(link, c, dep.kind)
    BY <2>3 DEF Found
  <2>6. dep.kind \in DependencyKind
    BY <2>2 DEF Dependency
  <2> QED
    BY <2>3, <2>4, <2>5, <2>6
<1>7. Recorded'
  <2> SUFFICES ASSUME NEW x \in Config, NEW y \in Name,
                      NEW q \in prerequisites'[x][y]
               PROVE  /\ state'[q[1]][q[2]] \in Configured
                      /\ \E kind \in DependencyKind :
                             q[1] \in DependencyConfigs(link, x, kind)
    BY <1>1 DEF Recorded
  <2>1. q[1] \in Config /\ q[2] \in Name
    BY <1>4, <1>5 DEF HeldInv, Inv, LinksInv, TypeOK
  <2>2. /\ state[q[1]][q[2]] \in Configured
        /\ \E kind \in DependencyKind :
               q[1] \in DependencyConfigs(link, x, kind)
    BY <1>5, <1>6 DEF HeldInv, Recorded
  <2> QED
    BY <1>3, <2>1, <2>2 DEF Configured
<1>8. Intact'
  BY <1>1 DEF HeldInv, Intact
<1> QED
  BY <1>7, <1>8 DEF HeldInv

\* pkg-disfigure finds every dependent there is, and is refused.
LEMMA DisfigureHeld ==
    ASSUME HeldInv, NEW c \in Config, NEW n \in Name, PkgDisfigure(c, n), Inv'
    PROVE  HeldInv'
<1>1. UNCHANGED <<link, present>> /\ SetPrerequisites(c, n, {})
  BY DEF PkgDisfigure
<1>2. PICK s \in State : SetState(c, n, s)
  BY DEF PkgDisfigure, State
<1>3. \A x \in Config, y \in Name :
        state'[x][y] = IF x = c /\ y = n THEN s ELSE state[x][y]
  BY <1>2, SetStateType DEF HeldInv, Inv, LinksInv
<1>4. \A x \in Config, y \in Name :
        prerequisites'[x][y] = IF x = c /\ y = n THEN {}
                               ELSE prerequisites[x][y]
  BY <1>1, SetPrerequisitesType DEF HeldInv, Inv, LinksInv
<1>5. ASSUME NEW x \in Config, NEW y \in Name
      PROVE  <<c, n>> \notin prerequisites[x][y]
  <2>1. SUFFICES ASSUME <<c, n>> \in prerequisites[x][y] PROVE FALSE
    OBVIOUS
  <2>2. PICK kind \in DependencyKind : c \in DependencyConfigs(link, x, kind)
    BY <2>1 DEF HeldInv, Recorded
  <2>3. x \in DependentConfigs(link, c)
    BY <2>2, TraversalsAgree DEF HeldInv, Inv, LinksInv, TypeOK
  <2>4. HasDependents(x, c, n)
    BY <2>1 DEF HasDependents
  <2> QED
    BY <2>3, <2>4 DEF PkgDisfigure
<1>6. Recorded'
  <2> SUFFICES ASSUME NEW x \in Config, NEW y \in Name,
                      NEW q \in prerequisites'[x][y]
               PROVE  /\ state'[q[1]][q[2]] \in Configured
                      /\ \E kind \in DependencyKind :
                             q[1] \in DependencyConfigs(link, x, kind)
    BY <1>1 DEF Recorded
  <2>1. q \in prerequisites[x][y]
    BY <1>4
  <2>2. q[1] \in Config /\ q[2] \in Name /\ q = <<q[1], q[2]>>
    BY <2>1 DEF HeldInv, Inv, LinksInv, TypeOK
  <2>3. ~(q[1] = c /\ q[2] = n)
    BY <1>5, <2>1, <2>2
  <2> QED
    BY <1>3, <2>1, <2>2, <2>3 DEF HeldInv, Recorded
<1>7. Intact'
  BY <1>1 DEF HeldInv, Intact
<1> QED
  BY <1>6, <1>7 DEF HeldInv

\* What cfg-link and cfg-unlink do to the links, as a table.
LEMMA LinkTable ==
    ASSUME LinksTypeOK, NEW c \in Config, NEW d \in Config, CfgLink(c, d)
    PROVE  /\ c # d
           /\ link[d][c] = "none" => link'[d][c] = "implicit"
           /\ \A x, y \in Config :
                \/ x = c /\ y = d /\ link'[x][y] = "explicit"
                \/ /\ x = d /\ y = c /\ link[x][y] # "explicit"
                   /\ link'[x][y] = "implicit"
                \/ link'[x][y] = link[x][y]
<1>1. link \in [Config -> [Config -> LinkKind]] /\ c # d
  BY DEF LinksTypeOK, CfgLink
<1>2. CASE /\ link[d][c] = "explicit"
           /\ link' = SetLink(link, c, d, "explicit")
  BY <1>1, <1>2 DEF SetLink
<1>3. CASE /\ link[d][c] # "explicit"
           /\ link' = SetLink(SetLink(link, c, d, "explicit"), d, c, "implicit")
  <2> DEFINE lk == SetLink(link, c, d, "explicit")
  <2>1. /\ lk \in [Config -> [Config -> LinkKind]]
        /\ \A x, y \in Config :
             lk[x][y] = IF x = c /\ y = d THEN "explicit" ELSE link[x][y]
    BY <1>1, LinkKinds DEF SetLink
  <2> HIDE DEF lk
  <2>2. link' = SetLink(lk, d, c, "implicit")
    BY <1>3 DEF lk
  <2>3. \A x, y \in Config :
          link'[x][y] = IF x = d /\ y = c THEN "implicit" ELSE lk[x][y]
    BY <2>1, <2>2 DEF SetLink
  <2> QED
    BY <1>1, <1>3, <2>1, <2>3
<1> QED
  BY <1>2, <1>3 DEF CfgLink

LEMMA UnlinkTable ==
    ASSUME LinksTypeOK, NoSelfLink, NEW m \in Config, NEW u \in Config,
           CfgUnlink(m, u), ~Private(u)
    PROVE  /\ UNCHANGED <<present, state, prerequisites>>
           /\ \/ /\ link[u][m] = "explicit"
                 /\ \A x, y \in Config :
                      link'[x][y] = IF x = m /\ y = u THEN "implicit"
                                    ELSE link[x][y]
              \/ /\ link[u][m] # "explicit"
                 /\ \A x, y \in Config :
                      link'[x][y] = IF (x = m /\ y = u) \/ (x = u /\ y = m)
                                    THEN "none" ELSE link[x][y]
<1>1. /\ link \in [Config -> [Config -> LinkKind]]
      /\ UNCHANGED <<present, state, prerequisites>>
  BY DEF LinksTypeOK, CfgUnlink
<1>2. CASE link[u][m] = "explicit"
  <2>1. link' = SetLink(link, m, u, "implicit")
    BY <1>2 DEF CfgUnlink
  <2> QED
    BY <1>1, <1>2, <2>1 DEF SetLink
<1>3. CASE link[u][m] # "explicit"
  <2> DEFINE lk == SetLink(SetLink(link, m, u, "none"), u, m, "none")
  <2>1. /\ lk \in [Config -> [Config -> LinkKind]]
        /\ \A x, y \in Config :
             lk[x][y] = IF (x = m /\ y = u) \/ (x = u /\ y = m)
                        THEN "none" ELSE link[x][y]
    BY <1>1, LinkKinds DEF SetLink
  <2> HIDE DEF lk
  <2>2. link' = [lk EXCEPT ![u] = lk[u]]
    BY <1>3 DEF CfgUnlink, lk
  <2>3. link' = lk
    BY <2>1, <2>2
  <2> QED
    BY <1>1, <1>3, <2>1, <2>3
<1> QED
  BY <1>1, <1>2, <1>3

LEMMA LinkHeld ==
    ASSUME HeldInv, PathsKept, NEW c \in Config, NEW d \in Config, Link(c, d),
           Inv'
    PROVE  HeldInv'
<1>1. CfgLink(c, d) /\ UNCHANGED <<present, state, prerequisites>>
  BY DEF Link, CfgLink
<1>2. Recorded'
  BY <1>1, KeepsRecorded
<1>3. LinksTypeOK /\ Intact
  BY DEF HeldInv, Inv, LinksInv, TypeOK
<1>4. ASSUME NEW x \in Config, NEW y \in Config, link'[x][y] = "explicit"
      PROVE  link'[y][x] # "none"
  BY <1>1, <1>3, <1>4, LinkTable DEF Intact
<1>5. ASSUME NEW x \in Config, Private(x)
      PROVE  link'[Parent[x]][x] = "explicit"
  <2>1. Parent[x] \in Config /\ link[Parent[x]][x] = "explicit"
    BY <1>3, <1>5, ConfigAssumption DEF Intact, Private
  <2> QED
    BY <1>1, <1>3, <2>1, LinkTable
<1>6. Intact'
  BY <1>1, <1>3, <1>4, <1>5 DEF Intact, Private
<1> QED
  BY <1>2, <1>6 DEF HeldInv

LEMMA UnlinkHeld ==
    ASSUME HeldInv, PathsKept, NothingMoves, NEW m \in Config, NEW u \in Config,
           CfgUnlink(m, u), Inv'
    PROVE  HeldInv'
<1>1. ~Private(u)
  BY DEF NothingMoves, CfgUnlink
<1>2. LinksTypeOK /\ NoSelfLink /\ Intact
  BY DEF HeldInv, Inv, LinksInv, TypeOK
<1>3. UNCHANGED <<present, state, prerequisites>>
  BY <1>1, <1>2, UnlinkTable
<1>4. Recorded'
  BY <1>3, KeepsRecorded
<1>5. ASSUME NEW x \in Config, NEW y \in Config, link'[x][y] = "explicit"
      PROVE  link'[y][x] # "none"
  BY <1>1, <1>2, <1>5, UnlinkTable DEF Intact
<1>6. ASSUME NEW x \in Config, Private(x)
      PROVE  link'[Parent[x]][x] = "explicit"
  <2>1. Parent[x] \in Config /\ link[Parent[x]][x] = "explicit" /\ x # u
    BY <1>1, <1>2, <1>6, ConfigAssumption DEF Intact, Private
  <2> QED
    BY <1>1, <1>2, <2>1, UnlinkTable
<1>7. Intact'
  BY <1>2, <1>3, <1>5, <1>6 DEF Intact, Private
<1> QED
  BY <1>4, <1>7 DEF HeldInv

\* No backlink dangles while nothing is renamed.
LEMMA UnlinkDanglingIdle ==
    ASSUME LinksTypeOK, Intact, NEW c \in Config, UnlinkDangling(c)
    PROVE  UNCHANGED vars
<1>1. link' = [link EXCEPT ![c] = [d \in Config |->
                  IF link[c][d] = "implicit" /\ d \notin present
                  THEN "none" ELSE link[c][d]]]
  BY DEF LinksTypeOK, UnlinkDangling, CfgUnlinkDangling
<1>2. [d \in Config |-> IF link[c][d] = "implicit" /\ d \notin present
                        THEN "none" ELSE link[c][d]] = link[c]
  BY DEF Intact, LinksTypeOK
<1>3. link' = link
  BY <1>1, <1>2 DEF LinksTypeOK
<1> QED
  BY <1>3 DEF UnlinkDangling, CfgUnlinkDangling, vars

LEMMA NextHeld ==
    ASSUME NothingMoves, HeldInv, [Next /\ PathsKept]_vars
    PROVE  HeldInv'
<1>1. CASE UNCHANGED vars
  BY <1>1, NextInv DEF vars, HeldInv, Intact, Recorded
<1>2. CASE Next /\ PathsKept
  <2>1. Inv'
    BY <1>2, NextInv DEF HeldInv
  <2> USE DEF Replaceable, Configured
  <2>2. ASSUME NEW c \in Config, NEW n \in Name,
               \/ PkgFetch(c, n) \/ PkgUnpack(c, n) \/ PkgPurge(c, n)
               \/ PkgPurgeFail(c, n) \/ PkgConfigureFail(c, n)
               \/ PkgConfigureSystem(c, n)
        PROVE  HeldInv'
    <3>1. PICK s \in State :
            /\ state[c][n] \notin Configured
            /\ SetState(c, n, s)
            /\ UNCHANGED <<link, present, prerequisites>>
      BY <2>2 DEF PkgFetch, PkgUnpack, PkgPurge, PkgPurgeFail,
                  PkgConfigureFail, PkgConfigureSystem, State
    <3> QED
      BY <1>2, <3>1, UnconfiguredHeld
  <2>3. ASSUME NEW c \in Config, NEW n \in Name, PkgConfigure(c, n)
        PROVE  HeldInv'
    BY <2>1, <2>3, ConfigureHeld
  <2>4. ASSUME NEW c \in Config, NEW n \in Name, PkgDisfigure(c, n)
        PROVE  HeldInv'
    BY <2>1, <2>4, DisfigureHeld
  <2>5. ASSUME NEW c \in Config, NEW d \in Config, Link(c, d)
        PROVE  HeldInv'
    BY <1>2, <2>1, <2>5, LinkHeld
  <2>6. ASSUME NEW c \in Config, NEW d \in Config, CfgUnlink(c, d)
        PROVE  HeldInv'
    BY <1>2, <2>1, <2>6, UnlinkHeld
  <2>7. ASSUME NEW c \in Config, UnlinkDangling(c) PROVE HeldInv'
    <3>1. UNCHANGED vars
      BY <2>7, UnlinkDanglingIdle DEF HeldInv, Inv, LinksInv, TypeOK
    <3> QED
      BY <1>1, <3>1
  <2>8. ASSUME NEW c \in Config, MoveAway(c) \/ MoveBack(c) PROVE FALSE
    BY <2>8 DEF NothingMoves, MoveAway, CfgMoveAway, MoveBack, CfgMoveBack
  <2> QED
    BY <1>2, <2>2, <2>3, <2>4, <2>5, <2>6, <2>7, <2>8 DEF Next
<1> QED
  BY <1>1, <1>2

\* What the invariant says of the properties the runs check.
LEMMA HeldImplies ==
    HeldInv => PrerequisitesConfigured /\ PrerequisitesLoadable
               /\ DependentsVisible
<1> SUFFICES ASSUME HeldInv, NEW d \in Dependent,
                    NEW q \in prerequisites[d[1]][d[2]]
             PROVE  /\ state[q[1]][q[2]] \in Configured
                    /\ q[1] \in AnyDependencyConfigs(link, d[1])
                    /\ d[1] \in DependentConfigs(link, q[1])
  BY DEF PrerequisitesConfigured, PrerequisitesLoadable, DependentsVisible
<1>1. d[1] \in Config /\ d[2] \in Name
  BY DEF Dependent
<1>2. q[1] \in Config
  BY <1>1 DEF HeldInv, Inv, LinksInv, TypeOK
<1>3. state[q[1]][q[2]] \in Configured
  BY <1>1 DEF HeldInv, Recorded
<1>4. PICK kind \in DependencyKind : q[1] \in DependencyConfigs(link, d[1], kind)
  BY <1>1 DEF HeldInv, Recorded
<1>5. q[1] \in AnyDependencyConfigs(link, d[1])
  BY <1>1, <1>4, FoundForAny
<1>6. d[1] \in DependentConfigs(link, q[1])
  BY <1>1, <1>2, <1>4, TraversalsAgree DEF HeldInv, Inv, LinksInv, TypeOK
<1> QED
  BY <1>3, <1>5, <1>6

\* HeldInv holds of every reachable state as long as no path is lost.
THEOREM HeldInvariance ==
    ASSUME NothingMoves
    PROVE  Spec /\ [][PathsKept]_vars => []HeldInv
<1>1. Init => HeldInv
  BY InitHeld
<1>2. HeldInv /\ [Next /\ PathsKept]_vars => HeldInv'
  BY NextHeld
<1>3. [Next]_vars /\ [PathsKept]_vars => [Next /\ PathsKept]_vars
  OBVIOUS
<1> QED
  BY <1>1, <1>2, <1>3, PTL DEF Spec

\* Every prerequisite of a configured package stays configured, whatever the
\* links between the configurations are: pkg_disfigure() finds its dependents.
THEOREM DependentsProtected ==
    ASSUME NothingMoves
    PROVE  Spec /\ [][PathsKept]_vars => []PrerequisitesConfigured
<1>1. Spec /\ [][PathsKept]_vars => []HeldInv
  BY HeldInvariance
<1>2. HeldInv => PrerequisitesConfigured
  BY HeldImplies
<1> QED
  BY <1>1, <1>2, PTL

\* dependent_configs() of a configuration returns every configuration that
\* has a dependent of one of its packages, private host ones included.
THEOREM DependentsStayVisible ==
    ASSUME NothingMoves
    PROVE  Spec /\ [][PathsKept]_vars => []DependentsVisible
<1>1. Spec /\ [][PathsKept]_vars => []HeldInv
  BY HeldInvariance
<1>2. HeldInv => DependentsVisible
  BY HeldImplies
<1> QED
  BY <1>1, <1>2, PTL

-----------------------------------------------------------------------------
(* As long as nothing is unlinked either, no path is ever lost.            *)

LEMMA MoreLinksMorePaths ==
    ASSUME NEW lk, NEW more, NEW c \in Config, NEW kind \in DependencyKind,
           \A x, y \in Config : lk[x][y] = "explicit" => more[x][y] = "explicit"
    PROVE  DependencyConfigs(lk, c, kind) \subseteq DependencyConfigs(more, c, kind)
<1>1. ASSUME NEW allowed
      PROVE  DependencyEdges(lk, allowed) \subseteq DependencyEdges(more, allowed)
  BY ConfigAssumption DEF DependencyEdges, Linked, Private
<1>2. ASSUME NEW allowed
      PROVE  Reachable(DependencyEdges(lk, allowed), c)
                 \subseteq Reachable(DependencyEdges(more, allowed), c)
  BY <1>1, ReachableMonotone
<1> QED
  BY <1>2 DEF DependencyConfigs

LEMMA LinksGrown ==
    ASSUME \A x, y \in Config : link[x][y] = "explicit" => link'[x][y] = "explicit"
    PROVE  PathsKept
<1>1. ASSUME NEW c \in Config, NEW kind \in DependencyKind
      PROVE  DependencyConfigs(link, c, kind)
                 \subseteq DependencyConfigs(link', c, kind)
  BY MoreLinksMorePaths
<1> QED
  BY <1>1 DEF PathsKept

\* No command but cfg-unlink takes a link away.
LEMMA OtherStepsLink ==
    ASSUME NothingMoves, HeldInv, [Next]_vars
    PROVE  \/ \A x, y \in Config : link[x][y] = "explicit"
                                     => link'[x][y] = "explicit"
           \/ \E m, u \in Config : CfgUnlink(m, u)
<1>1. LinksTypeOK /\ Intact
  BY DEF HeldInv, Inv, LinksInv, TypeOK
<1>2. CASE UNCHANGED link
  BY <1>2
<1>3. ASSUME NEW c \in Config, NEW d \in Config, Link(c, d)
      PROVE  \A x, y \in Config :
               link[x][y] = "explicit" => link'[x][y] = "explicit"
  BY <1>1, <1>3, LinkTable DEF Link
<1>4. ASSUME NEW c \in Config, UnlinkDangling(c) PROVE UNCHANGED link
  BY <1>1, <1>4, UnlinkDanglingIdle DEF vars
<1>5. ASSUME NEW c \in Config, NEW n \in Name,
             \/ PkgFetch(c, n) \/ PkgUnpack(c, n)
             \/ PkgPurge(c, n) \/ PkgPurgeFail(c, n)
             \/ PkgConfigure(c, n) \/ PkgConfigureFail(c, n)
             \/ PkgConfigureSystem(c, n) \/ PkgDisfigure(c, n)
      PROVE  UNCHANGED link
  BY <1>5 DEF PkgFetch, PkgUnpack, PkgPurge, PkgPurgeFail, PkgConfigure,
              PkgConfigureFail, PkgConfigureSystem, PkgDisfigure
<1>6. ASSUME NEW c \in Config, MoveAway(c) \/ MoveBack(c)
      PROVE  UNCHANGED link
  BY <1>6 DEF MoveAway, CfgMoveAway, MoveBack, CfgMoveBack
<1> QED
  BY <1>2, <1>3, <1>4, <1>5, <1>6 DEF Next, vars

\* Configurations that are only ever linked keep all three promises, however
\* many there are and whichever way they are linked.
THEOREM LinkedForGood ==
    ASSUME Movable = {}, Unlinkable = {}
    PROVE  Spec => []( /\ PrerequisitesConfigured
                       /\ PrerequisitesLoadable
                       /\ DependentsVisible )
<1>1. NothingMoves
  BY DEF NothingMoves
<1>2. Init => HeldInv
  BY InitHeld
<1>3. HeldInv /\ [Next]_vars => HeldInv'
  <2> SUFFICES ASSUME HeldInv, [Next]_vars PROVE HeldInv'
    OBVIOUS
  <2>1. PathsKept
    BY <1>1, OtherStepsLink, LinksGrown DEF CfgUnlink
  <2>2. [Next /\ PathsKept]_vars
    BY <2>1
  <2> QED
    BY <1>1, <2>2, NextHeld
<1>4. HeldInv => /\ PrerequisitesConfigured
                 /\ PrerequisitesLoadable
                 /\ DependentsVisible
  BY HeldImplies
<1> QED
  BY <1>2, <1>3, <1>4, PTL DEF Spec
-----------------------------------------------------------------------------
(* Links are removed from their far end.                                   *)

\* Whoever unlinks a configuration does so when it links none itself: a chain
\* of links is taken apart from its end.
EndsUnlinked ==
    \A m, u \in Config :
        CfgUnlink(m, u) => \A x \in Config : ~Linked(link, u, x)

\* A configuration of build tools and one of build system modules.
Crosses(c, d) == {Type[c], Type[d]} = {Host, Build2}

\* Neither of the two is linked with the other, and a private configuration is
\* linked from its parent alone.
KindsApart ==
    /\ \A e \in Linkable : ~Private(e[2]) /\ ~Crosses(e[1], e[2])
    /\ \A d \in Config : Private(d) => ~Crosses(Parent[d], d)

\* The explicit links of lk are such as cfg-link and the creation of a private
\* configuration make.
Drawn(lk) ==
    \A c, d \in Config :
        lk[c][d] = "explicit" => <<c, d>> \in Linkable \/ Parent[d] = c

LEMMA ReachableClosed ==
    ASSUME NEW R, NEW c \in Config
    PROVE  /\ c \in Reachable(R, c)
           /\ Reachable(R, c) \subseteq Config
           /\ \A x, y \in Config :
                x \in Reachable(R, c) /\ <<x, y>> \in R => y \in Reachable(R, c)
BY DEF Reachable

\* A link is not from host to build2 or back, and one to a private
\* configuration is its parent's.
LEMMA DrawnApart ==
    ASSUME KindsApart, NEW lk, Drawn(lk), NEW c \in Config, NEW d \in Config,
           Linked(lk, c, d)
    PROVE  /\ ~Crosses(c, d)
           /\ Private(d) => Parent[d] = c
BY ConfigAssumption DEF KindsApart, Drawn, Linked, Private

\* Then a walk with all kinds of dependencies allowed finds nothing that a walk
\* for one of them does not: nothing is found by way of both.
LEMMA OneKindSuffices ==
    ASSUME KindsApart, NEW lk, Drawn(lk), NEW c \in Config,
           NEW u \in AnyDependencyConfigs(lk, c)
    PROVE  \E kind \in DependencyKind : u \in DependencyConfigs(lk, c, kind)
<1> DEFINE E(allowed) == DependencyEdges(lk, allowed)
           Own == Reachable(E({}), c)
           For(k) == Reachable(E({k}), c)
           FromParent(y) == \/ y = c
                            \/ Type[Parent[y]] = Host
                            \/ Type[Parent[y]] = Type[c] /\ Parent[y] \in Own
           S == {y \in Config :
                    /\ \/ Type[y] = Type[c] /\ y \in Own
                       \/ Type[y] \in {Host, Build2} /\ y \in For(Type[y])
                    /\ Private(y) /\ Type[y] = Host => FromParent(y)}
<1>1. ASSUME NEW k
      PROVE  /\ Own \subseteq For(k)
             /\ \A x, y \in Config : x \in For(k) /\ <<x, y>> \in E({k})
                                     => y \in For(k)
  <2>1. E({}) \subseteq E({k})
    BY DEF DependencyEdges
  <2>2. Own \subseteq For(k)
    BY <2>1, ReachableMonotone
  <2> QED
    BY <2>2, ReachableClosed
<1>2. /\ c \in Own
      /\ \A x, y \in Config : x \in Own /\ <<x, y>> \in E({}) => y \in Own
  BY ReachableClosed
<1> HIDE DEF Own, For
<1>3. c \in S
  BY <1>2
<1>4. ASSUME NEW y \in Config, NEW z \in Config, y \in S,
             <<y, z>> \in E({Host, Build2})
      PROVE  z \in S
  <2>1. \/ Linked(lk, y, z)
        \/ /\ Private(y) /\ Type[y] = Host /\ Type[z] = Build2
           /\ Linked(lk, Parent[y], z)
    BY <1>4 DEF DependencyEdges
  <2>2. Type[z] \in {Type[y], Host, Build2}
    BY <1>4 DEF DependencyEdges
  <2>3. ASSUME Linked(lk, y, z), Type[z] = Type[y] PROVE z \in S
    <3>1. \A a : <<y, z>> \in E(a)
      BY <2>3 DEF DependencyEdges
    <3>2. \/ Type[z] = Type[c] /\ z \in Own
          \/ Type[z] \in {Host, Build2} /\ z \in For(Type[z])
      BY <1>1, <1>2, <1>4, <2>3, <3>1
    <3>3. Private(z) /\ Type[z] = Host => FromParent(z)
      BY <2>3, DrawnApart
    <3> QED
      BY <3>2, <3>3
  <2>4. ASSUME Linked(lk, y, z), Type[z] # Type[y] PROVE z \in S
    <3>1. ~Crosses(y, z)
      BY <2>4, DrawnApart
    <3>2. Type[z] \in {Host, Build2} /\ Type[y] \notin {Host, Build2}
      BY <2>2, <2>4, <3>1 DEF Crosses
    <3>3. Type[y] = Type[c] /\ y \in Own
      BY <1>4, <3>2
    <3>4. <<y, z>> \in E({Type[z]})
      BY <2>4 DEF DependencyEdges
    <3>5. z \in For(Type[z])
      BY <1>1, <3>3, <3>4
    <3>6. Private(z) /\ Type[z] = Host => FromParent(z)
      BY <2>4, <3>3, DrawnApart
    <3> QED
      BY <3>2, <3>5, <3>6
  <2>5. ASSUME Private(y), Type[y] = Host, Type[z] = Build2,
               Linked(lk, Parent[y], z)
        PROVE  z \in S
    <3>1. Parent[y] \in Config /\ Host # Build2
      BY <2>5, ConfigAssumption DEF Private
    <3>2. Type[Parent[y]] \notin {Host, Build2}
      BY <2>5, <3>1, DrawnApart DEF KindsApart, Crosses
    <3>3. CASE y = c
      <4>1. <<c, z>> \in E({Build2})
        BY <2>5, <3>3 DEF DependencyEdges
      <4> QED
        BY <1>1, <1>2, <2>5, <3>1, <4>1
    <3>4. CASE y # c
      <4>1. Type[Parent[y]] = Type[c] /\ Parent[y] \in Own
        BY <1>4, <2>5, <3>2, <3>4
      <4>2. <<Parent[y], z>> \in E({Build2})
        BY <2>5, <3>1 DEF DependencyEdges
      <4> QED
        BY <1>1, <2>5, <3>1, <4>1, <4>2
    <3> QED
      BY <3>3, <3>4
  <2> QED
    BY <2>1, <2>3, <2>4, <2>5
<1>5. u \in S
  <2> HIDE DEF S
  <2>1. S \in SUBSET Config
    BY DEF S
  <2>2. \A e \in E({Host, Build2}) : e[1] \in S => e[2] \in S
    <3> SUFFICES ASSUME NEW e \in E({Host, Build2}), e[1] \in S
                 PROVE  e[2] \in S
      OBVIOUS
    <3>1. e[1] \in Config /\ e[2] \in Config /\ e = <<e[1], e[2]>>
      BY DEF DependencyEdges
    <3> QED
      BY <1>4, <3>1
  <2> QED
    BY <1>3, <2>1, <2>2 DEF AnyDependencyConfigs, Reachable
<1>6. CASE u \in Own
  BY <1>6 DEF DependencyConfigs, DependencyKind, Own
<1>7. CASE Type[u] \in {Host, Build2} /\ u \in For(Type[u])
  <2>1. Type[u] # "runtime"
    BY <1>7, PackagesAssumption
  <2>2. u \in DependencyConfigs(lk, c, Type[u])
    BY <1>7, <2>1 DEF DependencyConfigs, For
  <2> QED
    BY <1>7, <2>2 DEF DependencyKind
<1> QED
  BY <1>5, <1>6, <1>7

\* Taking away the only link to a configuration that links none itself leaves
\* every path that does not end there.
LEMMA OtherPathsKept ==
    ASSUME NEW lk, NEW less, NEW m \in Config, NEW u \in Config, ~Private(u),
           \A x \in Config : ~Linked(lk, u, x),
           \A x, y \in Config :
               Linked(lk, x, y) => Linked(less, x, y) \/ (x = m /\ y = u),
           NEW c \in Config, NEW kind \in DependencyKind,
           NEW d \in DependencyConfigs(lk, c, kind), d # u
    PROVE  d \in DependencyConfigs(less, c, kind)
<1> DEFINE allowed == IF kind = "runtime" THEN {} ELSE {kind}
           R == DependencyEdges(lk, allowed)
           Left == Reachable(DependencyEdges(less, allowed), c)
           S == Left \cup {u}
<1>1. d \in Reachable(R, c) /\ (kind = "runtime" \/ Type[d] = kind)
  BY DEF DependencyConfigs
<1>2. ASSUME NEW x \in Config, NEW y \in Config, <<x, y>> \in R, x \in S
      PROVE  y \in S
  <2>1. /\ \/ Linked(lk, x, y)
           \/ /\ Private(x) /\ Type[x] = Host /\ Type[y] = Build2
              /\ Linked(lk, Parent[x], y)
        /\ Type[y] \in {Type[x]} \cup allowed
    BY <1>2 DEF DependencyEdges
  <2>2. x # u
    BY <2>1
  <2>3. x \in Left
    BY <1>2, <2>2
  <2>4. Private(x) => Parent[x] \in Config
    BY ConfigAssumption DEF Private
  <2>5. CASE <<x, y>> \in DependencyEdges(less, allowed)
    <3> HIDE DEF allowed
    <3> QED
      BY <2>3, <2>5, ReachableClosed
  <2>6. CASE <<x, y>> \notin DependencyEdges(less, allowed)
    <3> HIDE DEF allowed
    <3>1. y = u
      BY <2>1, <2>4, <2>6 DEF DependencyEdges
    <3> QED
      BY <3>1
  <2> QED
    BY <2>5, <2>6
<1>3. S \in SUBSET Config /\ c \in S
  BY ReachableClosed
<1>4. \A e \in R : e[1] \in S => e[2] \in S
  <2> SUFFICES ASSUME NEW e \in R, e[1] \in S PROVE e[2] \in S
    OBVIOUS
  <2>1. e[1] \in Config /\ e[2] \in Config /\ e = <<e[1], e[2]>>
    BY DEF DependencyEdges
  <2> HIDE DEF R, S
  <2> QED
    BY <1>2, <2>1
<1>5. d \in S
  <2> HIDE DEF R, S
  <2> QED
    BY <1>1, <1>3, <1>4 DEF Reachable
<1> QED
  BY <1>1, <1>5 DEF DependencyConfigs

EndsInv == HeldInv /\ Drawn(link)

\* cfg-unlink refuses to cut the unlinked configuration itself off from its
\* dependents, and at the end of a chain there is nothing else to cut off.
LEMMA UnlinkKeepsPaths ==
    ASSUME NothingMoves, KindsApart, EndsInv, NEW m \in Config, NEW u \in Config,
           CfgUnlink(m, u), \A x \in Config : ~Linked(link, u, x)
    PROVE  PathsKept
<1>1. ~Private(u) /\ UnlinkAllowed(m, u)
  BY DEF NothingMoves, CfgUnlink
<1>2. LinksTypeOK /\ NoSelfLink /\ Intact /\ TypeOK /\ Recorded
  BY DEF EndsInv, HeldInv, Inv, LinksInv, TypeOK
<1>3. \A x, y \in Config :
        link'[x][y] = IF (x = m /\ y = u) \/ (x = u /\ y = m)
                      THEN "none" ELSE link[x][y]
  BY <1>1, <1>2, UnlinkTable DEF Linked
<1> DEFINE left == SetLink(link, m, u, "none")
<1>4. \A x, y \in Config :
        left[x][y] = IF x = m /\ y = u THEN "none" ELSE link[x][y]
  BY <1>2 DEF LinksTypeOK, SetLink
<1> HIDE DEF left
<1>5. Drawn(left) /\ \A x, y \in Config :
        left[x][y] = "explicit" => link'[x][y] = "explicit"
  BY <1>3, <1>4 DEF EndsInv, Drawn, Linked
<1> SUFFICES ASSUME NEW c \in Config, NEW n \in Name,
                    NEW q \in prerequisites[c][n],
                    NEW kind \in DependencyKind,
                    q[1] \in DependencyConfigs(link, c, kind)
             PROVE  \E k \in DependencyKind :
                        q[1] \in DependencyConfigs(link', c, k)
  BY DEF PathsKept
<1>6. q[1] \in Config /\ q[2] \in Name /\ q = <<q[1], q[2]>>
  BY <1>2 DEF TypeOK
<1>7. CASE q[1] # u
  <2>1. \A x, y \in Config :
          Linked(link, x, y) => Linked(link', x, y) \/ (x = m /\ y = u)
    BY <1>3 DEF Linked
  <2> QED
    BY <1>1, <1>7, <2>1, OtherPathsKept
<1>8. CASE q[1] = u /\ c = u
  BY <1>8, ReachableClosed DEF DependencyConfigs, DependencyKind
<1>9. CASE q[1] = u /\ c # u
  <2>1. c \in DependentConfigs(link, u) \ {u}
    BY <1>2, <1>9, TraversalsAgree
  <2>2. state[u][q[2]] \in Configured /\ HasDependents(c, u, q[2])
    BY <1>2, <1>6, <1>9 DEF Recorded, HasDependents
  <2>3. u \in AnyDependencyConfigs(left, c)
    BY <1>1, <1>6, <2>1, <2>2 DEF UnlinkAllowed, left
  <2>4. PICK k \in DependencyKind : u \in DependencyConfigs(left, c, k)
    BY <1>5, <2>3, OneKindSuffices
  <2>5. u \in DependencyConfigs(link', c, k)
    BY <1>5, <2>4, MoreLinksMorePaths
  <2> QED
    BY <1>9, <2>5
<1> QED
  BY <1>7, <1>8, <1>9

LEMMA EndsNext ==
    ASSUME NothingMoves, KindsApart, EndsInv, [Next /\ EndsUnlinked]_vars
    PROVE  EndsInv'
<1>1. PathsKept
  <2>1. CASE \E m, u \in Config : CfgUnlink(m, u)
    <3>1. EndsUnlinked \/ UNCHANGED link
      BY DEF vars
    <3>2. CASE UNCHANGED link
      BY <3>2, LinksGrown
    <3>3. CASE EndsUnlinked
      BY <2>1, <3>3, UnlinkKeepsPaths DEF EndsUnlinked
    <3> QED
      BY <3>1, <3>2, <3>3
  <2> QED
    BY <2>1, OtherStepsLink, LinksGrown DEF EndsInv
<1>2. HeldInv'
  BY <1>1, NextHeld DEF EndsInv
<1>3. Drawn(link')
  <2> SUFFICES ASSUME NEW x \in Config, NEW y \in Config,
                      link'[x][y] = "explicit", link[x][y] # "explicit"
               PROVE  <<x, y>> \in Linkable
    BY DEF EndsInv, Drawn
  <2>1. LinksTypeOK /\ NoSelfLink /\ Intact
    BY DEF EndsInv, HeldInv, Inv, LinksInv, TypeOK
  <2>2. CASE UNCHANGED link
    BY <2>2
  <2>3. ASSUME NEW c \in Config, NEW d \in Config, Link(c, d)
        PROVE  <<x, y>> \in Linkable
    <3>1. x = c /\ y = d
      BY <2>1, <2>3, LinkTable DEF Link
    <3> QED
      BY <2>3, <3>1 DEF Link, CfgLink
  <2>4. ASSUME NEW c \in Config, NEW d \in Config, CfgUnlink(c, d)
        PROVE  FALSE
    <3>1. ~Private(d)
      BY <2>4 DEF NothingMoves, CfgUnlink
    <3> QED
      BY <2>1, <2>4, <3>1, UnlinkTable
  <2>5. ASSUME NEW c \in Config, UnlinkDangling(c) PROVE UNCHANGED link
    BY <2>1, <2>5, UnlinkDanglingIdle DEF vars
  <2>6. ASSUME NEW c \in Config, NEW n \in Name,
               \/ PkgFetch(c, n) \/ PkgUnpack(c, n)
               \/ PkgPurge(c, n) \/ PkgPurgeFail(c, n)
               \/ PkgConfigure(c, n) \/ PkgConfigureFail(c, n)
               \/ PkgConfigureSystem(c, n) \/ PkgDisfigure(c, n)
        PROVE  UNCHANGED link
    BY <2>6 DEF PkgFetch, PkgUnpack, PkgPurge, PkgPurgeFail, PkgConfigure,
                PkgConfigureFail, PkgConfigureSystem, PkgDisfigure
  <2>7. ASSUME NEW c \in Config, MoveAway(c) \/ MoveBack(c)
        PROVE  UNCHANGED link
    BY <2>7 DEF MoveAway, CfgMoveAway, MoveBack, CfgMoveBack
  <2> QED
    BY <2>2, <2>3, <2>4, <2>5, <2>6, <2>7 DEF Next, vars
<1> QED
  BY <1>2, <1>3 DEF EndsInv

\* Configurations that are linked and unlinked in any order, as long as what is
\* unlinked is the end of a chain: to_ptr() finds the configuration of every
\* recorded prerequisite, and pkg_disfigure() every dependent.  What cfg-unlink
\* verifies of the unlinked configuration's own packages is enough.
THEOREM PrerequisitesStayLoadable ==
    ASSUME NothingMoves, KindsApart
    PROVE  Spec /\ [][EndsUnlinked]_vars => []( /\ PrerequisitesLoadable
                                               /\ PrerequisitesConfigured
                                               /\ DependentsVisible )
<1>1. Init => EndsInv
  <2>1. Init => Drawn(link)
    BY DEF Init, LinksInit, Drawn
  <2> QED
    BY <2>1, InitHeld DEF EndsInv
<1>2. EndsInv /\ [Next /\ EndsUnlinked]_vars => EndsInv'
  BY EndsNext
<1>3. [Next]_vars /\ [EndsUnlinked]_vars => [Next /\ EndsUnlinked]_vars
  OBVIOUS
<1>4. EndsInv => /\ PrerequisitesLoadable
                 /\ PrerequisitesConfigured
                 /\ DependentsVisible
  BY HeldImplies DEF EndsInv
<1> QED
  BY <1>1, <1>2, <1>3, <1>4, PTL DEF Spec
=============================================================================
