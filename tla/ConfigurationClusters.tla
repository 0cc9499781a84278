------------------------ MODULE ConfigurationClusters ------------------------
(* The clusters of packages whose configuration has to be negotiated
   (postponed_configuration, postponed_configurations): which dependents take
   part, for which dependencies, and how the clusters of a list are extended
   and merged. A cluster is a record:

     id, merged      its number and those of the clusters merged into it
     dependents      dependent -> position -> [deps, alternative]
     dependencies    the dependencies, in the order they were added
     config, history the configuration negotiated so far and the changes of
                     one dependent's value by another it has been through
     shadow          dependent -> positions that are to be added to this
                     cluster whatever the others contain
     negotiated      "no", "being" or "done"
     depth           of the recursion that negotiates it, 0 when none does     *)
EXTENDS Naturals, FiniteSets, TLC, SequencesExt

Nothing == [p \in {} |-> 0]

(* The value of a map at a key, an empty map where it has none. *)
At(f, k) == IF k \in DOMAIN f THEN f[k] ELSE Nothing

Union(f, g) == [k \in DOMAIN f \cup DOMAIN g |-> At(f, k) @@ At(g, k)]

NewCluster(id, p, pos, deps, alternative) ==
    [id |-> id, merged |-> <<>>,
     dependents |-> p :> (pos :> [deps |-> deps, alternative |-> alternative]),
     dependencies |-> deps, config |-> Nothing, history |-> <<>>,
     shadow |-> Nothing, negotiated |-> "no", depth |-> 0]

AddDependencies(ds, more) == ds \o SelectSeq(more, LAMBDA d : d \notin ToSet(ds))

AddDependent(c, p, pos, deps, alternative) ==
    [c EXCEPT !.dependencies = AddDependencies(@, deps),
              !.dependents =
                 Union(@, p :> (pos :> [deps |-> deps,
                                        alternative |-> alternative]))]

(* The depth of the outermost negotiation of the two. *)
\* With a fault: that of the innermost.
Innermost(d, e) == IF d > e THEN d ELSE e
Outermost(d, e) ==
    IF d # 0 /\ e # 0 THEN (IF d < e THEN d ELSE e) ELSE d + e

(* What is negotiated of the cluster merged in is not carried over. *)
Merge(c, from) ==
    [c EXCEPT !.merged = @ \o <<from.id>> \o from.merged,
              !.dependents = Union(@, from.dependents),
              !.dependencies = AddDependencies(@, from.dependencies),
              !.depth = Outermost(@, from.depth)]

Intersects(c, ds) == ToSet(c.dependencies) \cap ds # {}

(* The list after cluster i, now c, has taken in those with these numbers, in
   their order: they leave the list, the others keep their order. *)
TakeIn(cfgs, i, c, ids) ==
    LET Take(into, id) ==
          LET is == {j \in DOMAIN cfgs : cfgs[j].id = id}
          IN  IF is = {} THEN into ELSE Merge(into, cfgs[CHOOSE j \in is : TRUE])
    IN  SelectSeq([cfgs EXCEPT ![i] = FoldLeft(Take, c, ids)],
                  LAMBDA o : ~Contains(ids, o.id))

InShadow(c, p, pos) == p \in DOMAIN c.shadow /\ pos \in c.shadow[p]

SetShadow(c, from) ==
    [c EXCEPT !.shadow = [p \in DOMAIN from.dependents |->
                            DOMAIN from.dependents[p]]]

Lowest(is) == CHOOSE i \in is : \A j \in is : i <= j

FindById(cfgs, id) == {i \in DOMAIN cfgs : cfgs[i].id = id}

FindDependency(cfgs, d) == {i \in DOMAIN cfgs : Intersects(cfgs[i], {d})}

(* Of the clusters the dependencies intersect with, the one negotiated
   outermost, the first one if none is being or has been negotiated. *)
Receiving(cfgs, is) ==
    LET deep == {i \in is : cfgs[i].depth # 0}
    IN  Lowest(IF deep = {} THEN is
               ELSE {i \in deep : \A j \in deep : cfgs[i].depth <= cfgs[j].depth})

(* A dependent and its dependencies are added to cluster i, which takes in every
   other one that now intersects with it. "settled" tells whether all of these
   have been negotiated. *)
Join(cfgs, i, p, pos, deps, alternative) ==
    LET c == AddDependent(cfgs[i], p, pos, deps, alternative)
        others == {j \in DOMAIN cfgs \ {i} : Intersects(cfgs[j], ToSet(c.dependencies))}
    IN  [cfgs |-> TakeIn(cfgs, i, c, SetToSortSeq({cfgs[j].id : j \in others}, <)),
         id |-> c.id,
         settled |-> \A j \in others : cfgs[j].negotiated = "done"]

(* The result of adding has the list, the cluster, and in "merged" whether a
   shadow decided ("shadow"), a cluster that is not negotiated was taken in
   ("partly") or neither ("negotiated"). "sound" is the assertion that only
   negotiated clusters follow a shadow. *)
AddByShadow(cfgs, is, p, pos, deps, alternative) ==
    LET joined == Join(cfgs, Lowest(is), p, pos, deps, alternative)
    IN  [cfgs |-> joined.cfgs, id |-> joined.id, merged |-> "shadow",
         sound |-> joined.settled]

AddByDependencies(cfgs, is, p, pos, deps, alternative) ==
    LET joined == Join(cfgs, Receiving(cfgs, is), p, pos, deps, alternative)
    IN  [cfgs |-> joined.cfgs, id |-> joined.id, sound |-> TRUE,
         merged |-> IF joined.settled THEN "negotiated" ELSE "partly"]

(* Add a dependent at a position with its dependencies: to the cluster whose
   shadow has it, else to one it intersects with, else to a new one. *)
Add(cfgs, id, p, pos, deps, alternative) ==
    LET shadows == {i \in DOMAIN cfgs : InShadow(cfgs[i], p, pos)}
        meets == {i \in DOMAIN cfgs : Intersects(cfgs[i], ToSet(deps))}
    IN  IF shadows # {} THEN AddByShadow(cfgs, shadows, p, pos, deps, alternative)
        ELSE IF meets # {} THEN AddByDependencies(cfgs, meets, p, pos, deps, alternative)
        ELSE [cfgs |-> Append(cfgs, NewCluster(id, p, pos, deps, alternative)),
              id |-> id, merged |-> "negotiated", sound |-> TRUE]

Negotiated(cfgs) == \A i \in DOMAIN cfgs : cfgs[i].negotiated = "done"
=============================================================================
