----------------------- MODULE RepositoryCommandsProofs -----------------------
(***************************************************************************)
(* What holds of the repository commands for any repositories, contents    *)
(* and order of the calls: types; that a fetched git repository has its    *)
(* state; and, unless repositories share fragments that require them, that *)
(* every command leaves exactly what can be reached, as it was published,  *)
(* that it is the atomic step it promises to be, and that searching with   *)
(* repositories masked finds what it would find were they removed.         *)
(*                                                                         *)
(* BaseInv is about the states and needs nothing else.  GraphInv says what *)
(* a running command still has in hand: while rep_fetch() visits, all it   *)
(* has not visited is as before, all it has is as published, and nothing   *)
(* to visit or to remove is forgotten (VisitInv); while objects are        *)
(* removed, all that cannot be reached can be from what is queued, and     *)
(* what can be is final (PruneInv).  MaskInv is about rep_mask(), which    *)
(* walks the graph without removing anything: what it has masked is what   *)
(* rep_remove() would have removed by then.                                *)
(*                                                                         *)
(* The lemmas on looking for packages come first: the query and the two    *)
(* forms of satisfies() agree on what is within a constraint, and the      *)
(* search finds packages exactly where the repositories declare them to be *)
(* visible.  The search and what it is compared with are recursive: what   *)
(* they are is shown by induction over the number of fragments left to     *)
(* look in, with a set of numbers in place of a property.                  *)
(***************************************************************************)
EXTENDS RepositoryCommands, FiniteSetTheorems, NaturalsInduction,
        WellFoundedInduction, TLAPS

-----------------------------------------------------------------------------
(* Versions and constraints, and the search for packages.                  *)
(* What is known of the fields of a version. *)
LEMMA RevisionRange ==
    ASSUME NEW n \in Absent..LastRevision
    PROVE  n \in Int /\ n >= -1 /\ n <= 65535
BY DEF Absent, LastRevision

LEMMA VersionFields ==
    ASSUME NEW v \in Version
    PROVE  /\ v.upstream \in Nat /\ v.release \in Nat
           /\ v.revision \in Int /\ v.revision >= -1 /\ v.revision <= 65535
<1>1. v.upstream \in Nat /\ v.release \in Nat
  BY VersionAssumption
<1>2. v.revision \in Absent..LastRevision
  BY VersionAssumption
<1>3. v.revision \in Int /\ v.revision >= -1 /\ v.revision <= 65535
  BY ONLY <1>2, RevisionRange
<1> QED BY ONLY <1>1, <1>3

LEMMA CanonicalFields ==
    ASSUME NEW v \in Version
    PROVE  /\ Canonical(v).upstream = v.upstream /\ Canonical(v).release = v.release
           /\ Canonical(v).revision \in Int
           /\ Canonical(v).revision >= 0 /\ Canonical(v).revision <= 65535
           /\ v.revision # Absent => Canonical(v).revision = v.revision
<1>1. /\ Canonical(v).upstream = v.upstream /\ Canonical(v).release = v.release
      /\ Canonical(v).revision = EffectiveRevision(v)
  BY VersionAssumption DEF Canonical
<1>2. /\ v.revision # Absent => EffectiveRevision(v) = v.revision
      /\ EffectiveRevision(v) \in Int
      /\ EffectiveRevision(v) >= 0 /\ EffectiveRevision(v) <= 65535
  BY VersionFields DEF EffectiveRevision, Absent
<1> QED BY <1>1, <1>2

(* The comparisons of the query are those of satisfies(), at each kind of an end
   of the range. *)
LEMMA ComparisonsAgree ==
    ASSUME NEW v \in Version, NEW e \in Version, NEW c
    PROVE  LET u == Canonical(v)
               end == Canonical(e)
               rev == WithRevision(c, e, FALSE)
           IN  /\ Gt(u, end, rev, FALSE) <=> Before(e, u, e.revision # Absent)
               /\ Ge(u, end, rev, FALSE) <=> ~Before(u, e, e.revision # Absent)
               /\ Lt(u, end, rev, FALSE) <=> Before(u, e, e.revision # Absent)
               /\ Le(u, end, rev, FALSE) <=> ~Before(e, u, e.revision # Absent)
               /\ Eq(u, end, rev, FALSE) <=> /\ ~Before(u, e, e.revision # Absent)
                                             /\ ~Before(e, u, e.revision # Absent)
<1> DEFINE u == Canonical(v)
           end == Canonical(e)
<1>1. /\ u.upstream \in Nat /\ u.release \in Nat /\ u.revision \in Int
      /\ e.upstream \in Nat /\ e.release \in Nat /\ e.revision \in Int
      /\ end.upstream = e.upstream /\ end.release = e.release
      /\ e.revision # Absent => end.revision = e.revision
  BY VersionFields, CanonicalFields
<1> HIDE DEF u, end
<1>2. Gt(u, end, WithRevision(c, e, FALSE), FALSE) <=> Before(e, u, e.revision # Absent)
  BY <1>1 DEF Gt, Before, SameRelease, WithRevision
<1>3. Ge(u, end, WithRevision(c, e, FALSE), FALSE) <=> ~Before(u, e, e.revision # Absent)
  BY <1>1 DEF Ge, Before, SameRelease, WithRevision
<1>4. Lt(u, end, WithRevision(c, e, FALSE), FALSE) <=> Before(u, e, e.revision # Absent)
  BY <1>1 DEF Lt, Before, SameRelease, WithRevision
<1>5. Le(u, end, WithRevision(c, e, FALSE), FALSE) <=> ~Before(e, u, e.revision # Absent)
  BY <1>1 DEF Le, Before, SameRelease, WithRevision
<1>6. Eq(u, end, WithRevision(c, e, FALSE), FALSE)
      <=> ~Before(u, e, e.revision # Absent) /\ ~Before(e, u, e.revision # Absent)
  BY <1>1 DEF Eq, Before, SameRelease, WithRevision
<1> QED BY <1>2, <1>3, <1>4, <1>5, <1>6 DEF u, end

(* The query of the database and satisfies() agree on what is within a
   constraint. *)
THEOREM QueriesAgree ==
    \A v \in Version, c \in Constraint : QueryAgrees(v, c)
<1> SUFFICES ASSUME NEW v \in Version, NEW c \in Constraint
             PROVE  QueryAgrees(v, c)
  OBVIOUS
<1> DEFINE u == Canonical(v)
           Low == c.min.revision # Absent
           High == c.max.revision # Absent
<1>1. /\ c.min \in Version /\ c.max \in Version
      /\ c.from \in {"any", "open", "closed"} /\ c.to \in {"any", "open", "closed"}
      /\ c.from # "any" /\ c.to # "any" /\ c.min = c.max => {c.from, c.to} = {"closed"}
  BY DEF Constraint
<1>2. InRange(u, c, FALSE)
      <=> /\ c.from = "open" => Before(c.min, u, Low)
          /\ c.from = "closed" => ~Before(u, c.min, Low)
          /\ c.to = "open" => Before(u, c.max, High)
          /\ c.to = "closed" => ~Before(c.max, u, High)
  <2>1. CASE c.from # "any" /\ c.to # "any" /\ c.min = c.max
    <3>1. c.from = "closed" /\ c.to = "closed"
      BY <1>1, <2>1
    <3>2. Eq(u, Canonical(c.min), WithRevision(c, c.min, FALSE), FALSE)
          <=> ~Before(u, c.min, Low) /\ ~Before(c.min, u, Low)
      BY <1>1, ComparisonsAgree
    <3> HIDE DEF u
    <3>3. InRange(u, c, FALSE)
          <=> Eq(u, Canonical(c.min), WithRevision(c, c.min, FALSE), FALSE)
      BY <2>1 DEF InRange
    <3> QED BY <2>1, <3>1, <3>2, <3>3
  <2>2. CASE ~(c.from # "any" /\ c.to # "any" /\ c.min = c.max)
    <3>1. /\ Gt(u, Canonical(c.min), WithRevision(c, c.min, FALSE), FALSE)
             <=> Before(c.min, u, Low)
          /\ Ge(u, Canonical(c.min), WithRevision(c, c.min, FALSE), FALSE)
             <=> ~Before(u, c.min, Low)
          /\ Lt(u, Canonical(c.max), WithRevision(c, c.max, FALSE), FALSE)
             <=> Before(u, c.max, High)
          /\ Le(u, Canonical(c.max), WithRevision(c, c.max, FALSE), FALSE)
             <=> ~Before(c.max, u, High)
      BY <1>1, ComparisonsAgree
    <3> HIDE DEF u
    <3>2. InRange(u, c, FALSE)
          <=> /\ c.from = "open" => Gt(u, Canonical(c.min), WithRevision(c, c.min, FALSE), FALSE)
              /\ c.from = "closed" => Ge(u, Canonical(c.min), WithRevision(c, c.min, FALSE), FALSE)
              /\ c.to = "open" => Lt(u, Canonical(c.max), WithRevision(c, c.max, FALSE), FALSE)
              /\ c.to = "closed" => Le(u, Canonical(c.max), WithRevision(c, c.max, FALSE), FALSE)
      BY <2>2, Zenon DEF InRange
    <3> QED BY <3>1, <3>2
  <2> QED BY <2>1, <2>2
<1>3. v = Wildcard => Stub(v)
  BY DEF Stub, Eq, SameRelease
<1>4. Satisfies(v, c) <=> v = Wildcard \/ InRange(u, c, FALSE)
  BY <1>2 DEF Satisfies
<1> QED BY <1>3, <1>4 DEF QueryAgrees, Queried

(* To compare the version of a package with an end of a range is to compare it,
   with its revision, with the end as normalized. *)
LEMMA NormalizedFields ==
    ASSUME NEW e \in Version, NEW low \in BOOLEAN
    PROVE  /\ Normalized(e, low).upstream = e.upstream
           /\ Normalized(e, low).release = e.release
           /\ Normalized(e, low).revision =
                IF e.revision # Absent \/ e.release = Earliest THEN e.revision
                ELSE IF low THEN 0 ELSE LastRevision
<1>1. CASE e.revision # Absent \/ e.release = Earliest
  BY <1>1 DEF Normalized
<1>2. CASE ~(e.revision # Absent \/ e.release = Earliest) /\ low
  <2>1. Normalized(e, low) = [e EXCEPT !.revision = 0]
    BY <1>2 DEF Normalized
  <2> QED BY <1>2, <2>1, VersionAssumption
<1>3. CASE ~(e.revision # Absent \/ e.release = Earliest) /\ ~low
  <2>1. Normalized(e, low) = [e EXCEPT !.revision = LastRevision]
    BY <1>3 DEF Normalized
  <2> QED BY <1>3, <2>1, VersionAssumption
<1> QED BY <1>1, <1>2, <1>3

LEMMA NormalizedCompares ==
    ASSUME NEW v \in PackageVersion, NEW e \in Version
    PROVE  LET u == Canonical(v)
           IN  /\ Before(u, e, e.revision # Absent) <=> Before(u, Normalized(e, TRUE), TRUE)
               /\ Before(e, u, e.revision # Absent) <=> Before(Normalized(e, FALSE), u, TRUE)
<1> DEFINE u == Canonical(v)
           first == Normalized(e, TRUE)
           last == Normalized(e, FALSE)
<1>1. /\ u.upstream \in Nat /\ u.release \in Nat /\ u.release # Earliest
      /\ u.revision \in Int /\ u.revision >= 0 /\ u.revision <= 65535
      /\ e.upstream \in Nat /\ e.release \in Nat /\ e.revision \in Int
  BY VersionFields, CanonicalFields DEF PackageVersion
<1>2. /\ first.upstream = e.upstream /\ first.release = e.release
      /\ first.revision = IF e.revision # Absent \/ e.release = Earliest THEN e.revision
                          ELSE 0
      /\ last.upstream = e.upstream /\ last.release = e.release
      /\ last.revision = IF e.revision # Absent \/ e.release = Earliest THEN e.revision
                         ELSE 65535
  <2>1. /\ first.upstream = e.upstream /\ first.release = e.release
        /\ first.revision = IF e.revision # Absent \/ e.release = Earliest THEN e.revision
                            ELSE IF TRUE THEN 0 ELSE LastRevision
    BY ONLY e \in Version, NormalizedFields DEF first
  <2>2. /\ last.upstream = e.upstream /\ last.release = e.release
        /\ last.revision = IF e.revision # Absent \/ e.release = Earliest THEN e.revision
                           ELSE IF FALSE THEN 0 ELSE LastRevision
    BY ONLY e \in Version, NormalizedFields DEF last
  <2> HIDE DEF first, last
  <2> QED BY <2>1, <2>2 DEF LastRevision
<1> HIDE DEF u, first, last
<1>3. Before(u, e, e.revision # Absent) <=> Before(u, first, TRUE)
  BY <1>1, <1>2 DEF Before, SameRelease, Absent, Earliest
<1>4. Before(e, u, e.revision # Absent) <=> Before(last, u, TRUE)
  BY <1>1, <1>2 DEF Before, SameRelease, Absent, Earliest
<1> QED BY <1>3, <1>4 DEF u, first, last

(* Before is a weak order. *)
Comparable(x) == x.upstream \in Int /\ x.release \in Int /\ x.revision \in Int

LEMMA BeforeOrders ==
    ASSUME NEW x, NEW y, NEW z, Comparable(x), Comparable(y), Comparable(z),
           Before(x, z, TRUE)
    PROVE  /\ ~Before(z, x, TRUE)
           /\ Before(x, y, TRUE) \/ Before(y, z, TRUE)
BY DEF Comparable, Before, SameRelease

LEMMA NormalizedComparable ==
    ASSUME NEW e \in Version, NEW low \in BOOLEAN
    PROVE  Comparable(Normalized(e, low))
BY NormalizedFields, VersionFields DEF Comparable, LastRevision

(* A stricter constraint is within the other one. *)
THEOREM StricterIsWithin ==
    \A v \in PackageVersion, l, r \in Constraint : StricterImplies(v, l, r)
<1> SUFFICES ASSUME NEW v \in PackageVersion, NEW l \in Constraint, NEW r \in Constraint,
                    Stricter(l, r), Satisfies(v, l), v # Wildcard
             PROVE  Satisfies(v, r)
  BY DEF StricterImplies, Satisfies
<1> DEFINE u == Canonical(v)
<1>1. /\ l.min \in Version /\ l.max \in Version /\ r.min \in Version /\ r.max \in Version
      /\ l.from \in {"any", "open", "closed"} /\ l.to \in {"any", "open", "closed"}
      /\ r.from \in {"any", "open", "closed"} /\ r.to \in {"any", "open", "closed"}
  BY DEF Constraint
<1>2. Comparable(u)
  BY VersionFields, CanonicalFields DEF Comparable, PackageVersion
<1>3. /\ Comparable(NormalizedMin(l)) /\ Comparable(NormalizedMin(r))
      /\ Comparable(NormalizedMax(l)) /\ Comparable(NormalizedMax(r))
  BY <1>1, NormalizedComparable DEF NormalizedMin, NormalizedMax
<1>4. ASSUME NEW c \in Constraint, c.min \in Version, c.max \in Version
      PROVE  /\ c.from = "open" => (Before(c.min, u, c.min.revision # Absent)
                                    <=> Before(NormalizedMin(c), u, TRUE))
             /\ c.from = "closed" => (Before(u, c.min, c.min.revision # Absent)
                                      <=> Before(u, NormalizedMin(c), TRUE))
             /\ c.to = "open" => (Before(u, c.max, c.max.revision # Absent)
                                  <=> Before(u, NormalizedMax(c), TRUE))
             /\ c.to = "closed" => (Before(c.max, u, c.max.revision # Absent)
                                    <=> Before(NormalizedMax(c), u, TRUE))
  <2>1. /\ c.from = "open" => NormalizedMin(c) = Normalized(c.min, FALSE)
        /\ c.from = "closed" => NormalizedMin(c) = Normalized(c.min, TRUE)
        /\ c.to = "open" => NormalizedMax(c) = Normalized(c.max, TRUE)
        /\ c.to = "closed" => NormalizedMax(c) = Normalized(c.max, FALSE)
    BY DEF NormalizedMin, NormalizedMax
  <2> QED BY <1>4, <2>1, NormalizedCompares
<1>5. /\ l.from = "open" => Before(NormalizedMin(l), u, TRUE)
      /\ l.from = "closed" => ~Before(u, NormalizedMin(l), TRUE)
      /\ l.to = "open" => Before(u, NormalizedMax(l), TRUE)
      /\ l.to = "closed" => ~Before(NormalizedMax(l), u, TRUE)
  BY <1>1, <1>4 DEF Satisfies
<1> HIDE DEF u
<1>6. /\ r.from = "open" => Before(NormalizedMin(r), u, TRUE)
      /\ r.from = "closed" => ~Before(u, NormalizedMin(r), TRUE)
  <2>1. /\ r.from # "any" => l.from # "any"
        /\ l.from = "closed" /\ r.from = "open"
              => Before(NormalizedMin(r), NormalizedMin(l), TRUE)
        /\ r.from # "any" /\ ~(l.from = "closed" /\ r.from = "open")
              => ~Before(NormalizedMin(l), NormalizedMin(r), TRUE)
    BY <1>1 DEF Stricter, BeginsIn
  <2> DEFINE m == NormalizedMin(l)
             n == NormalizedMin(r)
  <2>2. /\ Comparable(m) /\ Comparable(n)
        /\ l.from = "open" => Before(m, u, TRUE)
        /\ l.from = "closed" => ~Before(u, m, TRUE)
    BY <1>3, <1>5
  <2> HIDE DEF m, n
  <2>3. /\ Before(m, u, TRUE) => ~Before(u, m, TRUE) /\ (Before(m, n, TRUE) \/ Before(n, u, TRUE))
        /\ Before(n, m, TRUE) => Before(n, u, TRUE) \/ Before(u, m, TRUE)
        /\ Before(u, n, TRUE) => Before(u, m, TRUE) \/ Before(m, n, TRUE)
    BY <1>2, <2>2, BeforeOrders
  <2> QED BY <1>1, <2>1, <2>2, <2>3 DEF m, n
<1>7. /\ r.to = "open" => Before(u, NormalizedMax(r), TRUE)
      /\ r.to = "closed" => ~Before(NormalizedMax(r), u, TRUE)
  <2>1. /\ r.to # "any" => l.to # "any"
        /\ l.to = "closed" /\ r.to = "open"
              => Before(NormalizedMax(l), NormalizedMax(r), TRUE)
        /\ r.to # "any" /\ ~(l.to = "closed" /\ r.to = "open")
              => ~Before(NormalizedMax(r), NormalizedMax(l), TRUE)
    BY <1>1 DEF Stricter, EndsIn
  <2> DEFINE m == NormalizedMax(l)
             n == NormalizedMax(r)
  <2>2. /\ Comparable(m) /\ Comparable(n)
        /\ l.to = "open" => Before(u, m, TRUE)
        /\ l.to = "closed" => ~Before(m, u, TRUE)
    BY <1>3, <1>5
  <2> HIDE DEF m, n
  <2>3. /\ Before(u, m, TRUE) => ~Before(m, u, TRUE) /\ (Before(u, n, TRUE) \/ Before(n, m, TRUE))
        /\ Before(m, n, TRUE) => Before(m, u, TRUE) \/ Before(u, n, TRUE)
        /\ Before(n, u, TRUE) => Before(n, m, TRUE) \/ Before(m, u, TRUE)
    BY <1>2, <2>2, BeforeOrders
  <2> QED BY <1>1, <2>1, <2>2, <2>3 DEF m, n
<1> QED BY <1>1, <1>4, <1>6, <1>7 DEF Satisfies, u

(* The query, satisfies() of a version and satisfies() of a constraint agree. *)
THEOREM ConstraintsAlwaysAgree == ConstraintsAgree
BY QueriesAgree, StricterIsWithin DEF ConstraintsAgree, PackageVersion
-----------------------------------------------------------------------------
\* Induction over the natural numbers, for a set of them instead of a property.

\* A number is below another.
Below == {s \in Nat \X Nat : s[1] < s[2]}

LEMMA BelowWellFounded == IsWellFoundedOn(Below, Nat)
<1>1. OpToRel(<, Nat) = Below
  BY Zenon DEF OpToRel, Below
<1> QED
  BY <1>1, NatLessThanWellFounded, Zenon

\* A set that has 0, and n + 1 with every n, has all numbers.
LEMMA SetInduction ==
  ASSUME NEW T, 0 \in T, \A n \in Nat : n \in T => n + 1 \in T
  PROVE  Nat \subseteq T
<1> SUFFICES ASSUME Nat \ T # {} PROVE FALSE
  OBVIOUS
<1>1. PICK x \in Nat \ T : \A y \in Nat \ T : ~(<<y, x>> \in Below)
  BY BelowWellFounded, WFMin, Nat \ T \subseteq Nat
<1>2. \A y \in Nat \ T : ~(y < x)
  BY <1>1 DEF Below
<1>3. x # 0 /\ x - 1 \in Nat
  BY <1>1
<1>4. x - 1 \in T
  BY <1>2, <1>3
<1> QED
  BY <1>1, <1>3, <1>4
-----------------------------------------------------------------------------
\* How many fragments a chain leaves to look in.
Left(chain) == Cardinality(Node \ chain)

LEMMA LeftTyped ==
  ASSUME NEW chain
  PROVE  Left(chain) \in Nat /\ (Left(chain) = 0 => Node \subseteq chain)
<1>1. IsFiniteSet(Node)
  BY GraphAssumption, FS_AddElement DEF Node
<1>2. IsFiniteSet(Node \ chain)
  BY <1>1, FS_Subset
<1>3. Cardinality(Node \ chain) \in Nat
  BY <1>2, FS_CardinalityType
<1>4. Cardinality(Node \ chain) = 0 <=> Node \ chain = {}
  BY <1>2, FS_EmptySet
<1> QED
  BY <1>3, <1>4 DEF Left

\* Each fragment that a chain is extended by is one less.
LEMMA LeftLess ==
  ASSUME NEW chain, NEW f \in Node \ chain
  PROVE  Left(chain \cup {f}) = Left(chain) - 1
<1>1. IsFiniteSet(Node)
  BY GraphAssumption, FS_AddElement DEF Node
<1>2. IsFiniteSet(Node \ chain)
  BY <1>1, FS_Subset
<1>3. Node \ (chain \cup {f}) = (Node \ chain) \ {f}
  OBVIOUS
<1> QED
  BY <1>2, <1>3, FS_RemoveElement DEF Left

\* What repositories consist of are fragments.
LEMMA FragmentsTyped ==
  ASSUME NEW g \in Graph, NEW m, NEW f \in Node
  PROVE  /\ FragmentsOf(g, m, g.complements[f]) \subseteq Node
         /\ FragmentsOf(g, m, g.prerequisites[f]) \subseteq Node
<1>1. \A r \in Repo \cup {RootRepo} : FragmentsIn(g, r) \subseteq Node
  BY DEF FragmentsIn, Graph, Node
<1>2. g.complements[f] \subseteq Repo \cup {RootRepo} /\ g.prerequisites[f] \subseteq Repo
  BY DEF Graph
<1> QED
  BY <1>1, <1>2 DEF FragmentsOf
-----------------------------------------------------------------------------
\* h and k have the same for all that a search leads to.
Alike(h, k, chain, f) ==
    f \notin chain => \A x \in Node : h[<<chain \cup {f}, x, FALSE>>] = k[<<chain \cup {f}, x, FALSE>>]

\* A search depends on those it leads to only.
LEMMA FoundSame ==
  ASSUME NEW g \in Graph, NEW m, NEW p, NEW h, NEW k,
         NEW chain \in SUBSET Node, NEW f \in Node, NEW prereq \in BOOLEAN,
         Alike(h, k, chain, f)
  PROVE  FoundFrom(g, m, p, h, chain, f, prereq) = FoundFrom(g, m, p, k, chain, f, prereq)
<1> DEFINE cs == FragmentsOf(g, m, g.complements[f])
           ps == IF prereq THEN FragmentsOf(g, m, g.prerequisites[f]) ELSE {}
<1>1. cs \subseteq Node /\ ps \subseteq Node
  BY FragmentsTyped
<1>2. CASE f \in chain
  BY <1>2 DEF FoundFrom
<1>3. CASE f \notin chain
  <2>1. \A x \in Node : h[<<chain \cup {f}, x, FALSE>>] = k[<<chain \cup {f}, x, FALSE>>]
    BY <1>3 DEF Alike
  <2>2. UNION {h[<<chain \cup {f}, x, FALSE>>] : x \in cs} = UNION {k[<<chain \cup {f}, x, FALSE>>] : x \in cs}
    <3> HIDE DEF cs
    <3> QED BY <1>1, <2>1
  <2>3. UNION {h[<<chain \cup {f}, x, FALSE>>] : x \in ps} = UNION {k[<<chain \cup {f}, x, FALSE>>] : x \in ps}
    <3> HIDE DEF ps
    <3> QED BY <1>1, <2>1
  <2> QED
    BY <2>2, <2>3, Zenon DEF FoundFrom
<1> QED
  BY <1>2, <1>3

\* Every search ends: there are results that are as the search has them.
LEMMA SearchesEnd ==
  ASSUME NEW g \in Graph, NEW m, NEW p
  PROVE  \E h : h = [s \in Search |-> FoundFrom(g, m, p, h, s[1], s[2], s[3])]
<1> DEFINE Ended(h, n) == \A s \in Search :
                Left(s[1]) <= n => h[s] = FoundFrom(g, m, p, h, s[1], s[2], s[3])
           T == {n \in Nat : \E h : Ended(h, n)}
<1>1. 0 \in T
  <2> DEFINE h == [s \in Search |-> {}]
  <2>1. ASSUME NEW s \in Search, Left(s[1]) <= 0
        PROVE  h[s] = FoundFrom(g, m, p, h, s[1], s[2], s[3])
    <3>1. s[1] \in SUBSET Node /\ s[2] \in Node
      BY DEF Search
    <3>2. Left(s[1]) = 0
      BY <2>1, LeftTyped
    <3>3. s[2] \in s[1]
      BY <3>1, <3>2, LeftTyped
    <3> QED
      BY <3>3 DEF FoundFrom
  <2>2. Ended(h, 0)
    BY <2>1
  <2> QED
    BY <2>2
<1>2. ASSUME NEW n \in Nat, n \in T
      PROVE  n + 1 \in T
  <2>1. PICK h : Ended(h, n)
    BY <1>2
  <2> DEFINE k == [s \in Search |-> FoundFrom(g, m, p, h, s[1], s[2], s[3])]
  <2>2. ASSUME NEW s \in Search, Left(s[1]) <= n + 1
        PROVE  k[s] = FoundFrom(g, m, p, k, s[1], s[2], s[3])
    <3>1. s[1] \in SUBSET Node /\ s[2] \in Node /\ s[3] \in BOOLEAN
      BY DEF Search
    <3>2. ASSUME s[2] \notin s[1], NEW x \in Node
          PROVE  h[<<s[1] \cup {s[2]}, x, FALSE>>] = k[<<s[1] \cup {s[2]}, x, FALSE>>]
      <4> DEFINE t == <<s[1] \cup {s[2]}, x, FALSE>>
      <4>1. t \in Search
        BY <3>1 DEF Search
      <4>2. Left(t[1]) = Left(s[1]) - 1
        BY <3>1, <3>2, LeftLess
      <4>3. Left(t[1]) <= n
        BY <2>2, <4>2, LeftTyped
      <4>4. h[t] = FoundFrom(g, m, p, h, t[1], t[2], t[3])
        BY <2>1, <4>1, <4>3
      <4> HIDE DEF t
      <4>5. k[t] = FoundFrom(g, m, p, h, t[1], t[2], t[3])
        BY <4>1
      <4> QED
        BY <4>4, <4>5 DEF t
    <3>3. FoundFrom(g, m, p, h, s[1], s[2], s[3]) = FoundFrom(g, m, p, k, s[1], s[2], s[3])
      <4> HIDE DEF k
      <4>1. Alike(h, k, s[1], s[2])
        BY <3>2 DEF Alike
      <4> QED
        BY <3>1, <4>1, FoundSame
    <3> QED
      BY <3>3
  <2>3. Ended(k, n + 1)
    BY <2>2
  <2> HIDE DEF k, Ended
  <2> QED
    BY <2>3
<1>3. Nat \subseteq T
  <2> HIDE DEF T
  <2> QED
    BY <1>1, <1>2, SetInduction
<1>4. PICK h : Ended(h, Left({}))
  BY <1>3, LeftTyped
<1> DEFINE k == [s \in Search |-> FoundFrom(g, m, p, h, s[1], s[2], s[3])]
<1>5. ASSUME NEW s \in Search
      PROVE  k[s] = h[s]
  <2>1. Left(s[1]) <= Left({})
    <3>1. IsFiniteSet(Node)
      BY GraphAssumption, FS_AddElement DEF Node
    <3>2. Node \ s[1] \in SUBSET Node /\ Node \ {} = Node
      OBVIOUS
    <3> QED
      BY <3>1, <3>2, FS_Subset DEF Left
  <2> QED
    BY <1>4, <2>1
<1>6. ASSUME NEW s \in Search
      PROVE  FoundFrom(g, m, p, h, s[1], s[2], s[3]) = FoundFrom(g, m, p, k, s[1], s[2], s[3])
  <2>1. s[1] \in SUBSET Node /\ s[2] \in Node /\ s[3] \in BOOLEAN
    BY DEF Search
  <2>2. Alike(h, k, s[1], s[2])
    <3> HIDE DEF k
    <3>1. \A x \in Node : <<s[1] \cup {s[2]}, x, FALSE>> \in Search
      BY <2>1 DEF Search
    <3> QED
      BY <1>5, <3>1 DEF Alike
  <2> HIDE DEF k
  <2> QED
    BY <2>1, <2>2, FoundSame
<1>7. k = [s \in Search |-> FoundFrom(g, m, p, k, s[1], s[2], s[3])]
  BY <1>6
<1> HIDE DEF k
<1> QED
  BY <1>7

\* So Find has the results of every search.
LEMMA FindSteps ==
  ASSUME NEW g \in Graph, NEW m, NEW p, NEW chain \in SUBSET Node, NEW f \in Node,
         NEW prereq \in BOOLEAN
  PROVE  Find(g, m, p)[<<chain, f, prereq>>] = FoundFrom(g, m, p, Find(g, m, p), chain, f, prereq)
<1> DEFINE P(find) == find = [s \in Search |-> FoundFrom(g, m, p, find, s[1], s[2], s[3])]
<1>1. Find(g, m, p) = CHOOSE find : P(find)
  BY DEF Find
<1>2. PICK h : P(h)
  BY SearchesEnd
<1>3. P(Find(g, m, p))
  <2> HIDE DEF P
  <2> QED
    BY <1>1, <1>2
<1>4. \A s \in Search : Find(g, m, p)[s] = FoundFrom(g, m, p, Find(g, m, p), s[1], s[2], s[3])
  BY <1>3, Zenon
<1> DEFINE s == <<chain, f, prereq>>
<1>5. s \in Search /\ s[1] = chain /\ s[2] = f /\ s[3] = prereq
  BY DEF Search
<1> HIDE DEF s
<1>6. Find(g, m, p)[s] = FoundFrom(g, m, p, Find(g, m, p), s[1], s[2], s[3])
  BY <1>4, <1>5
<1> QED
  BY <1>5, <1>6 DEF s
-----------------------------------------------------------------------------
\* What a search finds where prerequisites do not matter.
Sought(g, m, p, chain, f) == Find(g, m, p)[<<chain, f, FALSE>>]

\* What is here, or else what is found through what complements the fragment.
LEMMA SoughtSteps ==
  ASSUME NEW g \in Graph, NEW m, NEW p, NEW chain \in SUBSET Node, NEW f \in Node
  PROVE  LET cs == FragmentsOf(g, m, g.complements[f])
             here == Locations(g, m, p) \cap ({f} \cup cs)
         IN  /\ f \in chain => Sought(g, m, p, chain, f) = {}
             /\ f \notin chain =>
                    Sought(g, m, p, chain, f)
                      = IF here # {} THEN here
                        ELSE UNION {Sought(g, m, p, chain \cup {f}, x) : x \in cs}
<1> DEFINE cs == FragmentsOf(g, m, g.complements[f])
           here == Locations(g, m, p) \cap ({f} \cup cs)
           through == UNION {Sought(g, m, p, chain \cup {f}, x) : x \in cs}
<1>1. Sought(g, m, p, chain, f) = FoundFrom(g, m, p, Find(g, m, p), chain, f, FALSE)
  BY FindSteps, Zenon DEF Sought
<1>2. CASE f \in chain
  BY <1>1, <1>2, Zenon DEF FoundFrom
<1>3. CASE f \notin chain
  <2>1. Locations(g, m, p) \cap ({f} \cup cs \cup {}) = here
    OBVIOUS
  <2>2. UNION {Find(g, m, p)[<<chain \cup {f}, x, FALSE>>] : x \in cs} = through
    BY Zenon DEF Sought
  <2>3. UNION {Find(g, m, p)[<<chain \cup {f}, x, FALSE>>] : x \in {}} = {}
    OBVIOUS
  <2>4. FoundFrom(g, m, p, Find(g, m, p), chain, f, FALSE)
          = IF here # {} THEN here ELSE IF through # {} THEN through ELSE {}
    BY <1>3, <2>1, <2>2, <2>3, Zenon DEF FoundFrom
  <2> HIDE DEF here, through
  <2>5. Sought(g, m, p, chain, f) = IF here # {} THEN here ELSE through
    BY <1>1, <2>4
  <2> QED
    BY <1>3, <2>5 DEF here, through
<1> QED
  BY <1>2, <1>3

\* S has, of what is not masked, whatever complements its members.
Complete(g, m, S) == \A x \in S : FragmentsOf(g, m, g.complements[x]) \subseteq S

\* What a search finds from within such a set is in it.
LEMMA FoundWithin ==
  ASSUME NEW g \in Graph, NEW m, NEW p, NEW S \in SUBSET Node, Complete(g, m, S),
         NEW f \in S, NEW chain \in SUBSET Node
  PROVE  Sought(g, m, p, chain, f) \subseteq Locations(g, m, p) \cap S
<1> DEFINE Within(n) == \A c \in SUBSET Node, x \in S :
                Left(c) <= n => Sought(g, m, p, c, x) \subseteq Locations(g, m, p) \cap S
           T == {n \in Nat : Within(n)}
<1>1. ASSUME NEW c \in SUBSET Node, NEW x \in S, x \in c
      PROVE  Sought(g, m, p, c, x) = {}
  BY <1>1, SoughtSteps
<1>2. 0 \in T
  <2>1. ASSUME NEW c \in SUBSET Node, NEW x \in S, Left(c) <= 0
        PROVE  x \in c
    BY <2>1, LeftTyped
  <2> QED
    BY <1>1, <2>1
<1>3. ASSUME NEW n \in Nat, n \in T
      PROVE  n + 1 \in T
  <2>1. ASSUME NEW c \in SUBSET Node, NEW x \in S, Left(c) <= n + 1, x \notin c
        PROVE  Sought(g, m, p, c, x) \subseteq Locations(g, m, p) \cap S
    <3> DEFINE cs == FragmentsOf(g, m, g.complements[x])
               here == Locations(g, m, p) \cap ({x} \cup cs)
               through == UNION {Sought(g, m, p, c \cup {x}, y) : y \in cs}
    <3>1. Sought(g, m, p, c, x) = IF here # {} THEN here ELSE through
      BY <2>1, SoughtSteps
    <3>2. cs \subseteq S
      BY DEF Complete
    <3>3. \A y \in cs : Sought(g, m, p, c \cup {x}, y) \subseteq Locations(g, m, p) \cap S
      <4>1. c \cup {x} \in SUBSET Node
        OBVIOUS
      <4>2. Left(c \cup {x}) <= n
        BY <2>1, LeftLess, LeftTyped
      <4>3. Within(n)
        BY <1>3
      <4> HIDE DEF cs
      <4> QED
        BY <3>2, <4>1, <4>2, <4>3
    <3>4. through \subseteq Locations(g, m, p) \cap S
      <4> HIDE DEF cs
      <4> QED
        BY <3>3
    <3>5. here \subseteq Locations(g, m, p) \cap S
      BY <3>2
    <3> HIDE DEF through, here
    <3> QED
      BY <3>1, <3>4, <3>5
  <2>2. Within(n + 1)
    BY <1>1, <2>1
  <2> QED
    BY <2>2
<1>4. Nat \subseteq T
  <2> HIDE DEF T
  <2> QED
    BY <1>2, <1>3, SetInduction
<1>5. Within(Left(chain))
  BY <1>4, LeftTyped
<1> HIDE DEF Within
<1>6. Left(chain) \in Nat
  BY LeftTyped
<1> QED
  BY <1>5, <1>6 DEF Within

\* Package p is not in S, nor is there anything else to complement it but what is
\* in the chain.
Barren(g, m, p, S, chain) ==
    /\ Locations(g, m, p) \cap S = {}
    /\ \A x \in S : FragmentsOf(g, m, g.complements[x]) \subseteq S \cup chain

\* A search that finds nothing has gone through such a set.
LEMMA NothingFound ==
  ASSUME NEW g \in Graph, NEW m, NEW p, NEW chain \in SUBSET Node, NEW f \in Node \ chain,
         Sought(g, m, p, chain, f) = {}
  PROVE  \E S \in SUBSET Node : f \in S /\ Barren(g, m, p, S, chain)
<1> DEFINE Gone(c, x) == \E S \in SUBSET Node : x \in S /\ Barren(g, m, p, S, c)
           Empty(n) == \A c \in SUBSET Node : \A x \in Node \ c :
                Left(c) <= n /\ Sought(g, m, p, c, x) = {} => Gone(c, x)
           T == {n \in Nat : Empty(n)}
<1>1. 0 \in T
  <2>1. ASSUME NEW c \in SUBSET Node, NEW x \in Node \ c, Left(c) <= 0
        PROVE  FALSE
    BY <2>1, LeftTyped
  <2>2. Empty(0)
    BY <2>1
  <2> QED
    BY <2>2
<1>2. ASSUME NEW n \in Nat, n \in T
      PROVE  n + 1 \in T
  <2>1. ASSUME NEW c \in SUBSET Node, NEW x \in Node \ c, Left(c) <= n + 1,
               Sought(g, m, p, c, x) = {}
        PROVE  Gone(c, x)
    <3> DEFINE cs == FragmentsOf(g, m, g.complements[x])
               here == Locations(g, m, p) \cap ({x} \cup cs)
               d == c \cup {x}
               through == UNION {Sought(g, m, p, d, y) : y \in cs}
    <3>1. Sought(g, m, p, c, x) = IF here # {} THEN here ELSE through
      BY <2>1, SoughtSteps
    <3>2. here = {} /\ through = {}
      <4> HIDE DEF here, through
      <4> QED
        BY <2>1, <3>1
    <3>3. cs \subseteq Node
      BY FragmentsTyped
    <3> DEFINE W == UNION {S \in SUBSET Node : Barren(g, m, p, S, d)}
    <3>4. Locations(g, m, p) \cap W = {}
          /\ \A y \in W : FragmentsOf(g, m, g.complements[y]) \subseteq W \cup d
      BY DEF Barren
    <3>5. cs \subseteq W \cup d
      <4>1. d \in SUBSET Node
        OBVIOUS
      <4>2. Left(d) <= n
        BY <2>1, LeftLess, LeftTyped
      <4>3. Empty(n)
        BY <1>2
      <4>4. \A y \in cs : Sought(g, m, p, d, y) = {}
        <5> HIDE DEF cs, d
        <5> QED
          BY <3>2
      <4>5. ASSUME NEW y \in cs, y \notin d
            PROVE  y \in W
        <5>1. Gone(d, y)
          <6> HIDE DEF cs, d, Gone
          <6> QED
            BY <3>3, <4>1, <4>2, <4>3, <4>4, <4>5
        <5> QED
          BY <5>1
      <4> QED
        BY <4>5
    <3> DEFINE S == W \cup {x}
    <3>6. S \in SUBSET Node /\ x \in S
      OBVIOUS
    <3>7. Barren(g, m, p, S, c)
      <4>1. Locations(g, m, p) \cap S = {}
        BY <3>2, <3>4
      <4>2. \A y \in S : FragmentsOf(g, m, g.complements[y]) \subseteq S \cup c
        <5>1. W \cup d = S \cup c
          OBVIOUS
        <5>2. FragmentsOf(g, m, g.complements[x]) \subseteq S \cup c
          BY <3>5, <5>1
        <5> HIDE DEF W, d
        <5> QED
          BY <3>4, <5>1, <5>2
      <4> QED
        BY <4>1, <4>2 DEF Barren
    <3> QED
      BY <3>6, <3>7
  <2>2. Empty(n + 1)
    <3> HIDE DEF Gone
    <3> QED
      BY <2>1
  <2> QED
    BY <2>2
<1>3. Nat \subseteq T
  <2> HIDE DEF T
  <2> QED
    BY <1>1, <1>2, SetInduction
<1>4. Left(chain) \in Nat
  BY LeftTyped
<1>5. Empty(Left(chain))
  BY <1>3, <1>4
<1>6. Gone(chain, f)
  <2> HIDE DEF Gone
  <2> QED
    BY <1>4, <1>5
<1> QED
  BY <1>6
-----------------------------------------------------------------------------
\* S together with what complements its members.
Grown(g, S) == S \cup UNION {FragmentsOf(g, Everything, g.complements[f]) : f \in S}

LEMMA GrownTyped ==
  ASSUME NEW g \in Graph, NEW S \in SUBSET Node
  PROVE  /\ S \subseteq Grown(g, S) /\ Grown(g, S) \in SUBSET Node
         /\ Grown(g, S) = S <=> Complete(g, Everything, S)
         /\ Grown(g, S) # S => Left(Grown(g, S)) < Left(S)
<1>1. S \subseteq Grown(g, S)
  BY DEF Grown
<1>2. Grown(g, S) \in SUBSET Node
  BY FragmentsTyped DEF Grown
<1>3. Grown(g, S) = S <=> Complete(g, Everything, S)
  BY DEF Grown, Complete
<1>4. ASSUME Grown(g, S) # S
      PROVE  Left(Grown(g, S)) < Left(S)
  <2> DEFINE A == Node \ S
             B == Node \ Grown(g, S)
  <2>1. IsFiniteSet(A)
    <3>1. IsFiniteSet(Node)
      BY GraphAssumption, FS_AddElement DEF Node
    <3> QED
      BY <3>1, FS_Subset
  <2>2. B \in SUBSET A /\ B # A
    BY <1>1, <1>2, <1>4
  <2>3. Cardinality(B) <= Cardinality(A) /\ Cardinality(B) # Cardinality(A)
    <3> HIDE DEF A, B
    <3> QED
      BY <2>1, <2>2, FS_Subset
  <2>4. Cardinality(A) \in Nat /\ Cardinality(B) \in Nat
    BY <2>1, <2>2, FS_Subset, FS_CardinalityType
  <2> HIDE DEF A, B
  <2>5. Cardinality(B) < Cardinality(A)
    BY <2>3, <2>4
  <2> QED
    BY <2>5 DEF A, B, Left
<1> QED
  BY <1>1, <1>2, <1>3, <1>4

\* C is the least set that has F and whatever complements its members.
IsLeast(g, F, C) ==
    /\ F \subseteq C /\ C \in SUBSET Node
    /\ Complete(g, Everything, C)
    /\ \A S \in SUBSET Node : F \subseteq S /\ Complete(g, Everything, S) => C \subseteq S

\* Growing does not change which one that is.
LEMMA LeastGrown ==
  ASSUME NEW g \in Graph, NEW F \in SUBSET Node, NEW C, IsLeast(g, Grown(g, F), C)
  PROVE  IsLeast(g, F, C)
<1>1. F \subseteq C
  BY GrownTyped DEF IsLeast
<1>2. ASSUME NEW S \in SUBSET Node, F \subseteq S, Complete(g, Everything, S)
      PROVE  C \subseteq S
  <2>1. Grown(g, F) \subseteq S
    BY <1>2 DEF Grown, Complete
  <2> QED
    BY <1>2, <2>1 DEF IsLeast
<1> QED
  BY <1>1, <1>2 DEF IsLeast

\* Growing ends.
LEMMA GrowthEnds ==
  ASSUME NEW g \in Graph
  PROVE  \E h : h = [S \in SUBSET Node |-> IF Grown(g, S) = S THEN S ELSE h[Grown(g, S)]]
<1> DEFINE next(h, S) == IF Grown(g, S) = S THEN S ELSE h[Grown(g, S)]
           Ended(h, n) == \A S \in SUBSET Node : Left(S) <= n => h[S] = next(h, S)
           T == {n \in Nat : \E h : Ended(h, n)}
<1>1. 0 \in T
  <2> DEFINE h == [S \in SUBSET Node |-> S]
  <2>1. ASSUME NEW S \in SUBSET Node, Left(S) <= 0
        PROVE  h[S] = next(h, S)
    <3>1. Left(S) = 0
      BY <2>1, LeftTyped
    <3>2. Grown(g, S) = S
      BY <3>1, LeftTyped, GrownTyped
    <3> QED
      BY <3>2
  <2>2. Ended(h, 0)
    BY <2>1
  <2> HIDE DEF h, Ended
  <2> QED
    BY <2>2
<1>2. ASSUME NEW n \in Nat, n \in T
      PROVE  n + 1 \in T
  <2>1. PICK h : Ended(h, n)
    BY <1>2
  <2> DEFINE k == [S \in SUBSET Node |-> next(h, S)]
  <2>2. ASSUME NEW S \in SUBSET Node, Left(S) <= n + 1
        PROVE  k[S] = next(k, S)
    <3> DEFINE G == Grown(g, S)
    <3>1. k[S] = next(h, S)
      OBVIOUS
    <3>2. CASE G = S
      BY <3>1, <3>2
    <3>3. CASE G # S
      <4>1. G \in SUBSET Node /\ Left(G) <= n
        BY <2>2, <3>3, GrownTyped, LeftTyped
      <4>2. h[G] = next(h, G)
        BY <2>1, <4>1
      <4>3. k[G] = next(h, G)
        BY <4>1
      <4>4. next(h, S) = h[G] /\ next(k, S) = k[G]
        BY <3>3
      <4> HIDE DEF next, k, G
      <4> QED
        BY <3>1, <4>2, <4>3, <4>4
    <3> QED
      BY <3>2, <3>3
  <2>3. Ended(k, n + 1)
    BY <2>2
  <2> HIDE DEF k, Ended
  <2> QED
    BY <2>3
<1>3. Nat \subseteq T
  <2> HIDE DEF T
  <2> QED
    BY <1>1, <1>2, SetInduction
<1>4. PICK h : Ended(h, Left({}))
  BY <1>3, LeftTyped
<1> DEFINE k == [S \in SUBSET Node |-> next(h, S)]
<1>5. ASSUME NEW S \in SUBSET Node
      PROVE  h[S] = next(h, S)
  <2>1. Left(S) <= Left({})
    <3>1. IsFiniteSet(Node)
      BY GraphAssumption, FS_AddElement DEF Node
    <3>2. Node \ S \in SUBSET Node /\ Node \ {} = Node
      OBVIOUS
    <3> QED
      BY <3>1, <3>2, FS_Subset DEF Left
  <2> QED
    BY <1>4, <2>1
<1>6. ASSUME NEW S \in SUBSET Node
      PROVE  next(h, S) = next(k, S)
  <2>1. Grown(g, S) \in SUBSET Node
    BY GrownTyped
  <2>2. h[Grown(g, S)] = k[Grown(g, S)]
    BY <1>5, <2>1
  <2> HIDE DEF k
  <2> QED
    BY <2>2
<1>7. k = [S \in SUBSET Node |-> next(k, S)]
  BY <1>6
<1> HIDE DEF k
<1> QED
  BY <1>7

\* So Complemented is the least such set.
LEMMA ComplementedLeast ==
  ASSUME NEW g \in Graph, NEW F \in SUBSET Node
  PROVE  IsLeast(g, F, Complemented(g, F))
<1> DEFINE P(h) == h = [S \in SUBSET Node |-> IF Grown(g, S) = S THEN S ELSE h[Grown(g, S)]]
           With == CHOOSE h : P(h)
<1>1. Complemented(g, F) = With[F]
  BY DEF Complemented, Grown
<1>2. PICK h : P(h)
  BY GrowthEnds
<1>3. P(With)
  <2> HIDE DEF P
  <2> QED
    BY <1>2
<1>4. \A S \in SUBSET Node : With[S] = IF Grown(g, S) = S THEN S ELSE With[Grown(g, S)]
  <2> HIDE DEF With
  <2> QED
    BY <1>3, Zenon
<1> HIDE DEF With
<1> DEFINE Right(n) == \A S \in SUBSET Node : Left(S) <= n => IsLeast(g, S, With[S])
           T == {n \in Nat : Right(n)}
<1>5. ASSUME NEW S \in SUBSET Node, Grown(g, S) = S
      PROVE  IsLeast(g, S, With[S])
  <2>1. With[S] = S
    BY <1>4, <1>5
  <2> QED
    BY <1>5, <2>1, GrownTyped DEF IsLeast
<1>6. 0 \in T
  <2>1. ASSUME NEW S \in SUBSET Node, Left(S) <= 0
        PROVE  Grown(g, S) = S
    BY <2>1, LeftTyped, GrownTyped
  <2>2. Right(0)
    BY <1>5, <2>1
  <2> QED
    BY <2>2
<1>7. ASSUME NEW n \in Nat, n \in T
      PROVE  n + 1 \in T
  <2>1. ASSUME NEW S \in SUBSET Node, Left(S) <= n + 1, Grown(g, S) # S
        PROVE  IsLeast(g, S, With[S])
    <3>1. Grown(g, S) \in SUBSET Node /\ Left(Grown(g, S)) <= n
      BY <2>1, GrownTyped, LeftTyped
    <3>2. IsLeast(g, Grown(g, S), With[Grown(g, S)])
      BY <1>7, <3>1
    <3>3. With[S] = With[Grown(g, S)]
      BY <1>4, <2>1
    <3> QED
      BY <3>2, <3>3, LeastGrown
  <2>2. Right(n + 1)
    BY <1>5, <2>1
  <2> QED
    BY <2>2
<1>8. Nat \subseteq T
  <2> HIDE DEF T
  <2> QED
    BY <1>6, <1>7, SetInduction
<1>9. Left(F) \in Nat
  BY LeftTyped
<1>10. Right(Left(F))
  BY <1>8, <1>9
<1> QED
  BY <1>1, <1>9, <1>10
-----------------------------------------------------------------------------
\* What is found in a graph with a mask is what is declared by another graph: the
\* nodes of N are alike in both, and nothing else leads out of N.
SameWithin(g, mask, rest, N) ==
    /\ N \in SUBSET Node
    /\ \A f \in N :
        /\ FragmentsOf(g, mask, g.complements[f])
             = FragmentsOf(rest, Everything, rest.complements[f])
        /\ FragmentsOf(g, mask, g.prerequisites[f])
             = FragmentsOf(rest, Everything, rest.prerequisites[f])
        /\ FragmentsOf(rest, Everything, rest.complements[f]) \subseteq N
        /\ FragmentsOf(rest, Everything, rest.prerequisites[f]) \subseteq N
    /\ \A p \in Package : Locations(g, mask, p) = Locations(rest, Everything, p)

\* Where package p is found (find()).
LEMMA FoundDeclared ==
  ASSUME NEW g \in Graph, NEW rest \in Graph, NEW mask, NEW N, SameWithin(g, mask, rest, N),
         NEW f \in N, NEW p \in Package, NEW prereq \in BOOLEAN
  PROVE  FoundWhereDeclared(g, mask, f, p, prereq,
                            Locations(rest, Everything, p) \cap Declared(rest, f, prereq))
<1> DEFINE cs == FragmentsOf(g, mask, g.complements[f])
           ps == IF prereq THEN FragmentsOf(g, mask, g.prerequisites[f]) ELSE {}
           here == Locations(g, mask, p) \cap ({f} \cup cs \cup ps)
           through(F) == UNION {Sought(g, mask, p, {f}, x) : x \in F}
           F0 == {f} \cup ps
           C == Complemented(rest, F0)
           found == Filter(g, mask, f, p, prereq)
<1>1. found = IF here # {} THEN here
              ELSE IF through(cs) # {} THEN through(cs) ELSE through(ps)
  <2>1. found = FoundFrom(g, mask, p, Find(g, mask, p), {}, f, prereq)
    <3> DEFINE none == {}
    <3>1. f \in Node /\ none \in SUBSET Node
      BY DEF SameWithin
    <3> HIDE DEF none
    <3>2. Find(g, mask, p)[<<none, f, prereq>>]
            = FoundFrom(g, mask, p, Find(g, mask, p), none, f, prereq)
      BY <3>1, prereq \in BOOLEAN, FindSteps
    <3> QED
      BY <3>2, Zenon DEF Filter, none
  <2>2. \A F : UNION {Find(g, mask, p)[<<{} \cup {f}, x, FALSE>>] : x \in F} = through(F)
    <3>1. {} \cup {f} = {f}
      OBVIOUS
    <3> QED
      BY <3>1, Zenon DEF Sought
  <2> HIDE DEF through
  <2>3. FoundFrom(g, mask, p, Find(g, mask, p), {}, f, prereq)
          = IF here # {} THEN here
            ELSE IF through(cs) # {} THEN through(cs) ELSE through(ps)
    BY <2>2, Zenon DEF FoundFrom
  <2> QED
    BY <2>1, <2>3
<1>2. Declared(rest, f, prereq) = C
  <2>1. ps = IF prereq THEN FragmentsOf(rest, Everything, rest.prerequisites[f]) ELSE {}
    BY DEF SameWithin
  <2> HIDE DEF ps
  <2> QED
    BY <2>1 DEF Declared
<1>3. f \in Node /\ cs \subseteq N /\ ps \subseteq N /\ N \subseteq Node /\ F0 \in SUBSET N
  BY DEF SameWithin
<1>4. IsLeast(rest, F0, C)
  BY <1>3, ComplementedLeast
<1>5. C \subseteq N
  <2>1. Complete(rest, Everything, N)
    BY DEF SameWithin, Complete
  <2> HIDE DEF C, F0
  <2> QED
    BY <1>3, <1>4, <2>1 DEF IsLeast
<1> HIDE DEF C
<1>6. Complete(g, mask, C) /\ C \in SUBSET Node /\ f \in C /\ cs \subseteq C /\ ps \subseteq C
  BY <1>4, <1>5 DEF IsLeast, Complete, SameWithin
<1>7. Locations(g, mask, p) = Locations(rest, Everything, p)
  BY DEF SameWithin
<1>8. found \subseteq Locations(g, mask, p) \cap C
  <2>1. \A x \in cs \cup ps : Sought(g, mask, p, {f}, x) \subseteq Locations(g, mask, p) \cap C
    <3>1. \A x \in C : Find(g, mask, p)[<<{f}, x, FALSE>>] \subseteq Locations(g, mask, p) \cap C
      BY <1>3, <1>6, FoundWithin DEF Sought
    <3> HIDE DEF cs, ps
    <3> QED
      BY <1>6, <3>1 DEF Sought
  <2>2. through(cs) \subseteq Locations(g, mask, p) \cap C
    <3> HIDE DEF cs
    <3> QED
      BY <2>1
  <2>3. through(ps) \subseteq Locations(g, mask, p) \cap C
    <3> HIDE DEF ps
    <3> QED
      BY <2>1
  <2>4. here \subseteq Locations(g, mask, p) \cap C
    BY <1>6
  <2> HIDE DEF here, through, found, cs, ps
  <2> QED
    BY <1>1, <2>2, <2>3, <2>4
<1>9. ASSUME found = {}
      PROVE  Locations(g, mask, p) \cap C = {}
  <2>1. here = {} /\ through(cs) = {} /\ through(ps) = {}
    <3> HIDE DEF here, through, found, cs, ps
    <3> QED
      BY <1>1, <1>9
  <2> DEFINE W == UNION {S \in SUBSET Node : Barren(g, mask, p, S, {f})}
             S == W \cup {f}
  <2>2. /\ W \in SUBSET Node
        /\ Locations(g, mask, p) \cap W = {}
        /\ \A y \in W : FragmentsOf(g, mask, g.complements[y]) \subseteq W \cup {f}
    BY DEF Barren
  <2>3. cs \cup ps \subseteq S
    <3>1. ASSUME NEW x \in cs \cup ps, x # f
          PROVE  x \in W
      <4>1. Sought(g, mask, p, {f}, x) = {} /\ x \in Node /\ {f} \in SUBSET Node
        <5> HIDE DEF cs, ps
        <5> QED
          BY <1>3, <2>1
      <4>2. \E S0 \in SUBSET Node : x \in S0 /\ Barren(g, mask, p, S0, {f})
        BY <3>1, <4>1, NothingFound
      <4> QED
        BY <4>2
    <3> HIDE DEF W, cs, ps
    <3> QED
      BY <3>1
  <2> HIDE DEF W
  <2>4. Complete(rest, Everything, S \cap N)
    <3>1. ASSUME NEW x \in S \cap N
          PROVE  FragmentsOf(g, mask, g.complements[x]) \subseteq S
      BY <2>2, <2>3
    <3> HIDE DEF S
    <3> QED
      BY <3>1 DEF Complete, SameWithin
  <2>5. F0 \subseteq S \cap N /\ S \cap N \in SUBSET Node
    BY <1>3, <2>3
  <2>6. C \subseteq S
    <3> HIDE DEF S, F0
    <3> QED
      BY <1>4, <2>4, <2>5 DEF IsLeast
  <2>7. Locations(g, mask, p) \cap S = {}
    BY <2>1, <2>2
  <2> HIDE DEF S
  <2> QED
    BY <2>6, <2>7
<1> HIDE DEF found, C
<1> QED
  BY <1>2, <1>7, <1>8, <1>9 DEF FoundWhereDeclared, found
-----------------------------------------------------------------------------
\* Package q comes before p in the order of the query.
Later(q, p) == Gt(Canonical(VersionOf[q]), Canonical(VersionOf[p]), TRUE, TRUE)

\* No other package is later than p.
IsLatest(p, ps) == p \in ps /\ \A q \in ps : ~Later(q, p)

\* It is a strict order that leaves equal versions only.
LEMMA LaterOrder ==
  ASSUME NEW p \in Package, NEW q \in Package, NEW t \in Package
  PROVE  /\ ~Later(p, p)
         /\ Later(q, p) /\ ~Later(q, t) => Later(t, p)
         /\ Later(q, p) => ~Later(p, q)
<1>1. \A x \in Package : /\ Canonical(VersionOf[x]).upstream \in Int
                         /\ Canonical(VersionOf[x]).release \in Int
                         /\ Canonical(VersionOf[x]).revision \in Int
                         /\ Canonical(VersionOf[x]).iteration \in Int
  <2>1. ASSUME NEW x \in Package
        PROVE  /\ Canonical(VersionOf[x]).upstream \in Int
               /\ Canonical(VersionOf[x]).release \in Int
               /\ Canonical(VersionOf[x]).revision \in Int
               /\ Canonical(VersionOf[x]).iteration \in Int
    <3>1. VersionOf[x] \in Version
      BY PackagesAssumption DEF PackageVersion
    <3> DEFINE v == VersionOf[x]
    <3>2. v \in Version
      BY <3>1
    <3> HIDE DEF v
    <3>3. v.iteration \in Nat /\ Canonical(v).iteration = v.iteration
      BY <3>2, VersionAssumption DEF Canonical
    <3> QED
      BY <3>2, <3>3, VersionFields, CanonicalFields DEF v
  <2> QED
    BY <2>1
<1> QED
  BY <1>1 DEF Later, Gt, SameRelease, SameRevision

\* Of finitely many packages one is the latest.
LEMMA LatestExists ==
  ASSUME NEW ps \in SUBSET Package, ps # {}
  PROVE  \E p \in ps : IsLatest(p, ps)
<1> DEFINE Has(n) == \A S \in SUBSET Package :
                        S # {} /\ Cardinality(S) <= n => \E p \in S : IsLatest(p, S)
           T == {n \in Nat : Has(n)}
<1>1. \A S \in SUBSET Package : IsFiniteSet(S) /\ Cardinality(S) \in Nat
  BY PackagesAssumption, FS_Subset, FS_CardinalityType
<1>2. 0 \in T
  <2>1. ASSUME NEW S \in SUBSET Package, S # {}, Cardinality(S) <= 0
        PROVE  FALSE
    BY <1>1, <2>1, FS_EmptySet
  <2>2. Has(0)
    BY <2>1
  <2> QED
    BY <2>2
<1>3. ASSUME NEW n \in Nat, n \in T
      PROVE  n + 1 \in T
  <2>1. ASSUME NEW S \in SUBSET Package, S # {}, Cardinality(S) <= n + 1
        PROVE  \E p \in S : IsLatest(p, S)
    <3>1. PICK p \in S : TRUE
      BY <2>1
    <3> DEFINE R == S \ {p}
    <3>2. R \in SUBSET Package /\ Cardinality(R) <= n
      <4>1. Cardinality(R) = Cardinality(S) - 1
        BY <1>1, FS_RemoveElement
      <4> QED
        BY <1>1, <2>1, <4>1
    <3>3. CASE R = {}
      <4>1. S = {p}
        BY <3>3
      <4> QED
        BY <4>1, LaterOrder DEF IsLatest
    <3>4. CASE R # {}
      <4>1. PICK q \in R : IsLatest(q, R)
        BY <1>3, <3>2, <3>4
      <4>2. CASE Later(p, q)
        <5>1. ASSUME NEW t \in R
              PROVE  ~Later(t, p)
          <6>1. ~Later(t, q)
            BY <4>1 DEF IsLatest
          <6>2. p \in Package /\ q \in Package /\ t \in Package
            OBVIOUS
          <6> QED
            BY <4>2, <6>1, <6>2, LaterOrder
        <5>2. ~Later(p, p)
          BY LaterOrder
        <5>3. IsLatest(p, S)
          BY <5>1, <5>2 DEF IsLatest
        <5> QED
          BY <5>3
      <4>3. CASE ~Later(p, q)
        <5>1. IsLatest(q, S)
          BY <4>1, <4>3 DEF IsLatest
        <5> QED
          BY <5>1
      <4> QED
        BY <4>2, <4>3
    <3> QED
      BY <3>3, <3>4
  <2>2. Has(n + 1)
    BY <2>1
  <2> QED
    BY <2>2
<1>4. Nat \subseteq T
  <2> HIDE DEF T
  <2> QED
    BY <1>2, <1>3, SetInduction
<1>5. Has(Cardinality(ps))
  BY <1>1, <1>4
<1> QED
  BY <1>1, <1>5

\* So the query takes it.
LEMMA LatestIsLatest ==
  ASSUME NEW ps \in SUBSET Package, ps # {}
  PROVE  IsLatest(Latest(ps), ps)
<1>1. Latest(ps) = CHOOSE p \in ps : \A q \in ps : ~Later(q, p)
  BY DEF Latest, Later
<1>2. \E p \in ps : \A q \in ps : ~Later(q, p)
  BY LatestExists DEF IsLatest
<1> QED
  BY <1>1, <1>2 DEF IsLatest

\* A package that is not the latest for the query is not before it for satisfies().
LEMMA LatestNotBefore ==
  ASSUME NEW p \in Package, NEW q \in Package, ~Later(q, p)
  PROVE  ~Before(VersionOf[p], VersionOf[q], TRUE)
<1> DEFINE v == VersionOf[p]
           w == VersionOf[q]
<1>1. v \in Version /\ w \in Version /\ w.revision # 0
  BY PackagesAssumption DEF PackageVersion
<1>2. ~Gt(Canonical(w), Canonical(v), TRUE, TRUE)
  BY DEF Later
<1> HIDE DEF v, w
<1>3. /\ Canonical(v).revision = EffectiveRevision(v)
      /\ Canonical(w).revision = EffectiveRevision(w)
  BY <1>1, VersionAssumption DEF Canonical
<1>4. ~Before(v, w, TRUE)
  BY <1>1, <1>2, <1>3, VersionFields, CanonicalFields
     DEF Gt, Before, SameRelease, EffectiveRevision, Absent
<1> QED
  BY <1>4 DEF v, w
-----------------------------------------------------------------------------
\* With neither end given, every version is within a constraint, whichever way it
\* is asked.
LEMMA AnyVersionSuits ==
  ASSUME NEW c, c.from = "any", c.to = "any", NEW v
  PROVE  Queried(v, c, FALSE) /\ Satisfies(v, c)
BY DEF Queried, InRange, Satisfies

\* So what holds of proper constraints holds of all that are looked for.
LEMMA WantedKinds ==
  ASSUME NEW c \in Wanted
  PROVE  c \in Constraint \/ (c.from = "any" /\ c.to = "any")
<1>1. c \in Constraint \/ \E d \in Constraint : c = [d EXCEPT !.from = "any", !.to = "any"]
  BY PackagesAssumption
<1>2. ASSUME NEW d \in Constraint, c = [d EXCEPT !.from = "any", !.to = "any"]
      PROVE  c.from = "any" /\ c.to = "any"
  BY <1>2 DEF Constraint
<1> QED
  BY <1>1, <1>2

\* The query has what suits.
LEMMA QueriedSuits ==
  ASSUME NEW v \in PackageVersion, NEW c \in Wanted
  PROVE  Queried(v, c, FALSE) <=> Satisfies(v, c) \/ Stub(v)
<1>1. CASE c \in Constraint
  BY <1>1, QueriesAgree DEF QueryAgrees, PackageVersion
<1>2. CASE c \notin Constraint
  BY <1>2, WantedKinds, AnyVersionSuits
<1> QED
  BY <1>1, <1>2

\* Each package is found where it is declared to be, which is where it is located.
FoundAt(g, mask, f, prereq, at) ==
    \A p \in Package : /\ at[p] \subseteq Locations(g, mask, p)
                       /\ FoundWhereDeclared(g, mask, f, p, prereq, at[p])

\* What is found under a constraint is the latest that suits, of what is declared.
LEMMA FoundIsLatest ==
  ASSUME NEW g \in Graph, NEW mask, NEW f, NEW prereq \in BOOLEAN,
         NEW at, FoundAt(g, mask, f, prereq, at)
  PROVE  LatestChosen(g, mask, f, prereq, {p \in Package : at[p] # {}})
<1> SUFFICES ASSUME NEW n, NEW c \in Wanted
             PROVE  LatestOf(FindAvailableOne(g, mask, n, c, {f}, prereq, FALSE),
                             Suiting(n, c, {p \in Package : at[p] # {}}))
  BY DEF LatestChosen
<1> DEFINE suiting == Suiting(n, c, {p \in Package : at[p] # {}})
           queried == QueryAvailable(g, n, c, FALSE)
           found == {p \in queried : FilterAll(g, mask, {f}, p, prereq) # {}}
           one == FindAvailableOne(g, mask, n, c, {f}, prereq, FALSE)
<1>1. \A p : FilterAll(g, mask, {f}, p, prereq) = Filter(g, mask, f, p, prereq)
  BY DEF FilterAll
<1>2. ASSUME NEW p \in Package
      PROVE  /\ Filter(g, mask, f, p, prereq) # {} <=> at[p] # {}
             /\ at[p] # {} => p \in Available(g)
             /\ Queried(VersionOf[p], c, FALSE)
                  <=> Satisfies(VersionOf[p], c) \/ Stub(VersionOf[p])
  <2>1. Filter(g, mask, f, p, prereq) # {} <=> at[p] # {}
    BY DEF FoundAt, FoundWhereDeclared
  <2>2. Locations(g, mask, p) \subseteq Locations(g, Everything, p)
    BY DEF Locations, Everything, Node
  <2>3. at[p] # {} => p \in Available(g)
    BY <2>2 DEF Available, FoundAt
  <2>4. VersionOf[p] \in PackageVersion
    BY PackagesAssumption
  <2> QED
    BY <2>1, <2>3, <2>4, QueriedSuits
<1>3. found = suiting
  <2>1. queried \subseteq Package
    BY DEF QueryAvailable, Available
  <2>2. \A p \in Package : p \in found <=> p \in suiting
    BY <1>1, <1>2 DEF QueryAvailable, Suiting
  <2>3. suiting \subseteq Package
    BY DEF Suiting
  <2> HIDE DEF suiting, queried
  <2> QED
    BY <2>1, <2>2, <2>3
<1>4. one = IF found = {} THEN NoPackage
            ELSE [package |-> Latest(found),
                  fragments |-> FilterAll(g, mask, {f}, Latest(found), prereq)]
  BY DEF FindAvailableOne, FilterOne
<1>5. suiting \subseteq Package
  BY DEF Suiting
<1> HIDE DEF suiting, found, one
<1>6. CASE suiting = {}
  BY <1>3, <1>4, <1>6 DEF LatestOf, suiting, one
<1>7. CASE suiting # {}
  <2>1. one.package = Latest(suiting)
    BY <1>3, <1>4, <1>7
  <2>2. IsLatest(Latest(suiting), suiting)
    BY <1>5, <1>7, LatestIsLatest
  <2>3. /\ one.package \in suiting
        /\ \A p \in suiting : ~Before(VersionOf[one.package], VersionOf[p], TRUE)
    BY <1>5, <2>1, <2>2, LatestNotBefore DEF IsLatest
  <2>4. LatestOf(one, suiting)
    BY <1>7, <2>3 DEF LatestOf
  <2> QED
    BY <2>4 DEF one, suiting
<1> QED
  BY <1>6, <1>7

\* The search finds what is declared, and the latest of it.
THEOREM SearchesAgree ==
  ASSUME NEW g \in Graph, NEW rest \in Graph, NEW mask, NEW N, SameWithin(g, mask, rest, N),
         rest.fragments \cup {Root} \subseteq N
  PROVE  FoundAsDeclared(g, mask, rest)
<1> SUFFICES ASSUME NEW f \in rest.fragments \cup {Root}, NEW prereq \in BOOLEAN
             PROVE  LET visible == Declared(rest, f, prereq)
                        at == [p \in Package |-> Locations(rest, Everything, p) \cap visible]
                    IN  /\ \A p \in Package : FoundWhereDeclared(g, mask, f, p, prereq, at[p])
                        /\ LatestChosen(g, mask, f, prereq, {p \in Package : at[p] # {}})
  BY DEF FoundAsDeclared
<1> DEFINE visible == Declared(rest, f, prereq)
           at == [p \in Package |-> Locations(rest, Everything, p) \cap visible]
<1>1. \A p \in Package : FoundWhereDeclared(g, mask, f, p, prereq,
                                            Locations(rest, Everything, p) \cap visible)
  BY FoundDeclared
<1>2. \A p \in Package : at[p] \subseteq Locations(g, mask, p)
  BY DEF SameWithin
<1> HIDE DEF visible
<1>3. \A p \in Package : FoundWhereDeclared(g, mask, f, p, prereq, at[p])
  BY <1>1
<1> HIDE DEF at
<1>4. LatestChosen(g, mask, f, prereq, {p \in Package : at[p] # {}})
  BY <1>2, <1>3, FoundIsLatest DEF FoundAt
<1> QED
  BY <1>3, <1>4 DEF at, visible

\* In a graph without a mask.
LEMMA UnmaskedSame ==
  ASSUME NEW g \in Graph
  PROVE  SameWithin(g, Everything, g, Node)
BY FragmentsTyped DEF SameWithin


-----------------------------------------------------------------------------
\* The repositories rep_fetch() is still to be called for, those of them with
\* --shallow, and the objects that tasks of a kind are about.
CalledIn(s) == {c.repo : c \in ToSet(s)}
ShallowIn(s) == {c.repo : c \in {e \in ToSet(s) : e.shallow}}
QueuedIn(kind, s) == {t.id : t \in {e \in ToSet(s) : e.kind = kind}}

\* The same of the running command.
Called == CalledIn(cmd.calls)
Queued(kind) == QueuedIn(kind, cmd.todo)

\* rep_fetch() visits repositories; objects are removed.
Visiting == cmd # Idle /\ ~cmd.pruning
Pruning == cmd # Idle /\ cmd.pruning

\* Only repositories there are have contents, and those added are there.
Orphanless(g) ==
    /\ Added(g) \subseteq g.repos
    /\ \A r \in Repo \ g.repos : g.contains[r] = {}

\* Only rep-fetch visits, and it does not remove anything before it is done.
Phases ==
    /\ Visiting => cmd.op = "fetch" /\ cmd.todo = <<>>
    /\ Pruning => cmd.calls = <<>>

\* What is to be visited is there, and so is what was found to be required.
CallsKnown ==
    Visiting => /\ Called \subseteq db.repos
                /\ \A f \in cmd.parsed : Required(db, f) \subseteq db.repos

\* The states are kept for the graph of the transaction, and for the committed
\* one as long as the command may end without a word.
StatesInv ==
    /\ cmd # Idle => Needed(db) \subseteq states \cup lost
    /\ cmd = Idle \/ Visiting \/ cmd.op = "mask" => Needed(committed) \subseteq states \cup lost
    /\ cmd # Idle /\ cmd.op = "mask" => Queued("state") = {}

\* The inductive invariant for the states.
BaseInv ==
    /\ TypeOK
    /\ Orphanless(committed) /\ Orphanless(db)
    /\ Phases
    /\ CallsKnown
    /\ StatesInv
-----------------------------------------------------------------------------
\* S has whatever its members require.
Closed(g, S) == \A s \in S : RequiredBy(g, s) \subseteq S

\* What can be reached from X.
From(g, X) ==
    {r \in Repo : \A S \in SUBSET Repo : X \subseteq S /\ Closed(g, S) => r \in S}

\* Repository r is as it was published some time, with the packages of its
\* fragments in P.
Published(g, r, P) ==
    \E o \in Offers[r] :
        /\ DOMAIN o = g.contains[r]
        /\ \A f \in DOMAIN o :
            /\ g.complements[f] = ComplementsOf(r, o[f])
            /\ g.prerequisites[f] = o[f].prerequisites
            /\ f \in P => g.packages[f] = o[f].packages

PublishedIn(g, P) == \A r \in Repo : g.contains[r] # {} => Published(g, r, P)

\* rep-fetch --shallow without arguments loses packages.
Whole == IF ShallowAll THEN {} ELSE Fragment

\* Nothing is left of what was erased, and what can be reached is there.
Shape(g) ==
    /\ g.prerequisites[Root] = {}
    /\ \A r \in Repo \ g.repos : g.contains[r] = {}
    /\ \A r \in Repo : g.contains[r] \subseteq g.fragments
    /\ \A f \in Fragment \ g.fragments :
        g.complements[f] = {} /\ g.prerequisites[f] = {} /\ g.packages[f] = {}
    /\ Reachable(g) \subseteq g.repos

\* Fragment f is contained in some repository.
InUse(g, f) == \E r \in Repo : f \in g.contains[r]

\* Moreover, everything can be reached: what a command has to leave.
Tidy(g) ==
    /\ Shape(g)
    /\ g.repos \subseteq Reachable(g)
    /\ \A f \in g.fragments : InUse(g, f)

\* Fragment f is no longer in a repository that has had it.
Offered(f, r) == \E o \in Offers[r] : f \in DOMAIN o
Dropped(g, f) == \E r \in Repo : Offered(f, r) /\ f \notin g.contains[r]

\* What repository r requires has not changed.
SameRequired(r) == RequiredBy(db, r) = RequiredBy(committed, r)

\* What rep_fetch() has visited is required by what it has visited before, or
\* was named: any set that has the latter and is closed has all of it.
Supporting(S) ==
    Added(db) \subseteq S /\ \A s \in S \cap cmd.fetched : RequiredBy(db, s) \subseteq S

Supported ==
    \A S \in SUBSET Repo :
        Supporting(S) => cmd.fetched \cup Called \cup (db.repos \ committed.repos) \subseteq S

\* What it has not visited is as before.
Unvisited ==
    /\ \A r \in Repo \ cmd.fetched : db.contains[r] = committed.contains[r]
    /\ \A f \in Fragment \ cmd.parsed :
        /\ db.complements[f] = committed.complements[f]
        /\ db.prerequisites[f] = committed.prerequisites[f]
    /\ db.fragments = committed.fragments \cup cmd.parsed
    /\ committed.repos \subseteq db.repos
    /\ Added(db) = Added(committed) \cup cmd.args

\* What it has visited is as published now.
Visited ==
    /\ \A r \in cmd.fetched : Published(db, r, Fragment)
    /\ cmd.parsed = UNION {db.contains[r] : r \in cmd.fetched}
    /\ \A r \in Repo : RequiredBy(db, r) \subseteq db.repos

\* Nothing is forgotten that may not be required any longer.
Remembered ==
    /\ \A f \in cmd.dangling : Dropped(db, f)
    /\ \A f \in db.fragments : f \in cmd.dangling \/ InUse(db, f)
    /\ \A r \in cmd.fetched :
        \/ RequiredBy(committed, r) \subseteq cmd.removed \cup cmd.fetched
        \/ SameRequired(r)

\* Nor anything that has to be visited.
Followed(r) == RequiredBy(db, r) \subseteq cmd.fetched \cup Called

AllFollowed ==
    /\ cmd.args # {}
    /\ cmd.args \subseteq cmd.fetched \cup Called
    /\ ShallowIn(cmd.calls) \subseteq cmd.args
    /\ \A r \in cmd.fetched :
        \/ Followed(r)
        \/ r \in cmd.args /\ SameRequired(r)

\* The packages of what has not been visited are as before; or they are all
\* erased, and then all has to be visited.
PackagesKept == \A f \in Fragment \ cmd.parsed : db.packages[f] = committed.packages[f]

AllVisited ==
    /\ Added(db) \subseteq cmd.args
    /\ ShallowIn(cmd.calls) = {}
    /\ \A r \in cmd.fetched : Followed(r)

PackagesErased ==
    /\ \A f \in Fragment \ cmd.parsed : db.packages[f] = {}
    /\ ShallowAll \/ AllVisited

\* While repositories are visited.
VisitInv ==
    /\ Shape(db)
    /\ Supported
    /\ Unvisited
    /\ Visited
    /\ Remembered
    /\ AllFollowed
    /\ PackagesKept \/ PackagesErased

\* What is queued leads to these.
Seeds == Queued("repo") \cup UNION {Required(db, f) : f \in Queued("fragment")}

\* A whole rep-fetch from graph g to h, as Repositories has it.
AsPublishedIn(h, r) ==
    \E o \in Offers[r] :
        /\ h.contains[r] = DOMAIN o
        /\ \A f \in DOMAIN o :
            /\ h.complements[f] = ComplementsOf(r, o[f])
            /\ h.prerequisites[f] = o[f].prerequisites
            /\ h.packages[f] = o[f].packages

UpdatedBy(g, h, R) ==
    LET F == UNION {h.contains[r] : r \in R} IN
    [repos |-> g.repos \cup h.repos,
     contains |-> [r \in Repo |-> IF r \in R THEN h.contains[r] ELSE g.contains[r]],
     fragments |-> g.fragments \cup F,
     complements |-> [n \in Node |-> IF n \in F \cup {Root} THEN h.complements[n]
                                     ELSE g.complements[n]],
     prerequisites |-> [n \in Node |-> IF n \in F THEN h.prerequisites[n]
                                       ELSE g.prerequisites[n]],
     packages |-> [f \in Fragment |-> IF f \in F THEN h.packages[f]
                                      ELSE g.packages[f]]]

FetchedTo(g, h) ==
    \E A \in SUBSET Repo :
        /\ A # {}
        /\ Added(h) = Added(g) \cup A
        /\ \E R \in SUBSET h.repos :
            /\ A \subseteq R
            /\ \A r \in R :
                /\ AsPublishedIn(h, r)
                /\ \/ RequiredBy(h, r) \subseteq R
                   \/ r \in A /\ RequiredBy(h, r) = RequiredBy(g, r)
            /\ h = Pruned(UpdatedBy(g, h, R))

\* While objects are removed: what can be reached does not change any more, and
\* what cannot be is reached from what is queued.
PruneInv ==
    /\ Shape(db)
    /\ PublishedIn(db, {})
    /\ db.repos \subseteq Reachable(db) \cup From(db, Seeds)
    /\ \A f \in db.fragments : f \in Queued("fragment") \/ InUse(db, f)
    /\ \A f \in Queued("fragment") : Dropped(db, f)
    /\ PublishedIn(Pruned(db), Whole)
    /\ cmd.op = "remove" =>
        /\ cmd.args \subseteq Added(committed)
        /\ Pruned(db) = Pruned(Unreference(committed, cmd.args, {Root}))
    /\ cmd.op = "fetch" /\ ~ShallowAll => FetchedTo(committed, Pruned(db))

\* The inductive invariant for the graph, on top of BaseInv.
GraphInv ==
    /\ Tidy(committed)
    /\ PublishedIn(committed, Whole)
    /\ Visiting => VisitInv
    /\ Pruning /\ cmd.op # "mask" => PruneInv
-----------------------------------------------------------------------------
\* Sequences of calls and tasks.

\* A sequence of the elements of a finite set has all of them.
LEMMA SetToSeqsOnto ==
  ASSUME NEW R, IsFiniteSet(R), NEW o \in SetToSeqs(R)
  PROVE  /\ o \in Seq(R)
         /\ \A x \in R : \E i \in DOMAIN o : o[i] = x
<1> DEFINE D == 1..Cardinality(R)
<1>1. Cardinality(R) \in Nat
  BY FS_CardinalityType
<1>2. o \in [D -> R] /\ \A i, j \in D : i # j => o[i] # o[j]
  BY DEF SetToSeqs
<1>3. o \in Injection(D, R)
  BY <1>2 DEF Injection, IsInjective
<1>4. Cardinality(D) = Cardinality(R)
  BY <1>1, FS_Interval
<1>5. o \in Surjection(D, R)
  BY <1>3, <1>4, FS_Injection
<1>6. o \in Seq(R)
  BY <1>1, <1>2
<1>7. \A x \in R : \E i \in DOMAIN o : o[i] = x
  BY <1>2, <1>5 DEF Surjection
<1> QED
  BY <1>6, <1>7

\* What the sets of repositories and fragments were taken to be.
LEMMA Finite == IsFiniteSet(Repo) /\ IsFiniteSet(Fragment)
BY GraphAssumption

\* A sequence has its first element and those of the rest.
LEMMA ElementsFirst ==
  ASSUME NEW T, NEW s \in Seq(T), s # <<>>
  PROVE  /\ Head(s) \in T
         /\ Tail(s) \in Seq(T)
         /\ ToSet(s) = {Head(s)} \cup ToSet(Tail(s))
<1>1. Len(s) \in Nat \ {0} /\ DOMAIN s = 1..Len(s) /\ Head(s) = s[1]
  OBVIOUS
<1>2. DOMAIN Tail(s) = 1..(Len(s) - 1) /\ \A i \in 1..(Len(s) - 1) : Tail(s)[i] = s[i + 1]
  OBVIOUS
<1>3. ASSUME NEW i \in DOMAIN s PROVE s[i] \in {Head(s)} \cup ToSet(Tail(s))
  <2>1. CASE i = 1
    BY <1>1, <2>1
  <2>2. CASE i # 1
    <3>1. i - 1 \in DOMAIN Tail(s) /\ Tail(s)[i - 1] = s[i]
      BY <1>1, <1>2, <2>2
    <3> QED
      BY <3>1 DEF ToSet
  <2> QED
    BY <2>1, <2>2
<1>4. ASSUME NEW i \in DOMAIN Tail(s) PROVE Tail(s)[i] \in ToSet(s)
  <2>1. i + 1 \in DOMAIN s /\ Tail(s)[i] = s[i + 1]
    BY <1>1, <1>2
  <2> QED
    BY <2>1 DEF ToSet
<1>5. Head(s) \in ToSet(s)
  BY <1>1 DEF ToSet
<1>6. ToSet(s) = {Head(s)} \cup ToSet(Tail(s))
  BY <1>3, <1>4, <1>5 DEF ToSet
<1> QED
  BY <1>6

\* Two sequences in a row have the elements of both.
LEMMA ElementsJoined ==
  ASSUME NEW T, NEW s \in Seq(T), NEW t \in Seq(T)
  PROVE  /\ s \o t \in Seq(T)
         /\ ToSet(s \o t) = ToSet(s) \cup ToSet(t)
<1>1. Len(s) \in Nat /\ Len(t) \in Nat /\ DOMAIN s = 1..Len(s) /\ DOMAIN t = 1..Len(t)
  OBVIOUS
<1>2. DOMAIN (s \o t) = 1..(Len(s) + Len(t))
  OBVIOUS
<1>3. ASSUME NEW i \in DOMAIN s PROVE s[i] \in ToSet(s \o t)
  <2>1. i \in DOMAIN (s \o t) /\ (s \o t)[i] = s[i]
    BY <1>1, <1>2
  <2> QED
    BY <2>1 DEF ToSet
<1>4. ASSUME NEW i \in DOMAIN t PROVE t[i] \in ToSet(s \o t)
  <2>1. Len(s) + i \in DOMAIN (s \o t) /\ (s \o t)[Len(s) + i] = t[i]
    BY <1>1, <1>2
  <2> QED
    BY <2>1 DEF ToSet
<1>5. ASSUME NEW i \in DOMAIN (s \o t) PROVE (s \o t)[i] \in ToSet(s) \cup ToSet(t)
  <2>1. CASE i <= Len(s)
    <3>1. i \in DOMAIN s /\ (s \o t)[i] = s[i]
      BY <1>1, <1>2, <2>1
    <3> QED
      BY <3>1 DEF ToSet
  <2>2. CASE ~(i <= Len(s))
    <3>1. i - Len(s) \in DOMAIN t /\ (s \o t)[i] = t[i - Len(s)]
      BY <1>1, <1>2, <2>2
    <3> QED
      BY <3>1 DEF ToSet
  <2> QED
    BY <2>1, <2>2
<1>6. ToSet(s \o t) = ToSet(s) \cup ToSet(t)
  BY <1>3, <1>4, <1>5 DEF ToSet
<1> QED
  BY <1>6

\* The calls for the repositories of R are for those of R.
LEMMA CallsOf ==
  ASSUME NEW R \in SUBSET Repo, NEW o \in SetToSeqs(R), NEW shallow \in BOOLEAN
  PROVE  /\ Calls(o, shallow) \in Seq(Call)
         /\ CalledIn(Calls(o, shallow)) = R
         /\ ShallowIn(Calls(o, shallow)) = IF shallow THEN R ELSE {}
<1>1. IsFiniteSet(R)
  BY Finite, FS_Subset
<1>2. o \in Seq(R) /\ \A x \in R : \E i \in DOMAIN o : o[i] = x
  BY <1>1, SetToSeqsOnto
<1>3. Len(o) \in Nat /\ o \in [1..Len(o) -> R] /\ DOMAIN o = 1..Len(o)
  BY <1>2
<1>4. Calls(o, shallow) \in [1..Len(o) -> Call]
  BY <1>3 DEF Calls, Call
<1>5. Calls(o, shallow) \in Seq(Call)
  BY <1>3, <1>4
<1>6. ToSet(Calls(o, shallow)) = {[repo |-> x, shallow |-> shallow] : x \in R}
  BY <1>2, <1>3 DEF Calls, ToSet
<1>7. /\ \A c \in ToSet(Calls(o, shallow)) : c.repo \in R /\ c.shallow = shallow
      /\ \A x \in R : \E c \in ToSet(Calls(o, shallow)) : c.repo = x /\ c.shallow = shallow
  <2>1. \A c \in ToSet(Calls(o, shallow)) : c.repo \in R /\ c.shallow = shallow
    BY <1>6
  <2>2. ASSUME NEW x \in R
        PROVE  \E c \in ToSet(Calls(o, shallow)) : c.repo = x /\ c.shallow = shallow
    <3>1. [repo |-> x, shallow |-> shallow] \in ToSet(Calls(o, shallow))
      BY <1>6
    <3> QED
      BY <3>1
  <2> QED
    BY <2>1, <2>2
<1>8. CalledIn(Calls(o, shallow)) = R
  BY <1>7 DEF CalledIn
<1>9. ShallowIn(Calls(o, shallow)) = IF shallow THEN R ELSE {}
  BY <1>7 DEF ShallowIn
<1> QED
  BY <1>5, <1>8, <1>9

\* The first call and the others.
LEMMA CallsFirst ==
  ASSUME NEW s \in Seq(Call), s # <<>>
  PROVE  /\ Head(s) \in Call
         /\ Tail(s) \in Seq(Call)
         /\ CalledIn(s) = {Head(s).repo} \cup CalledIn(Tail(s))
         /\ ShallowIn(s) = (IF Head(s).shallow THEN {Head(s).repo} ELSE {})
                           \cup ShallowIn(Tail(s))
BY ElementsFirst DEF CalledIn, ShallowIn

\* Calls in a row.
LEMMA CallsJoined ==
  ASSUME NEW s \in Seq(Call), NEW t \in Seq(Call)
  PROVE  /\ s \o t \in Seq(Call)
         /\ CalledIn(s \o t) = CalledIn(s) \cup CalledIn(t)
         /\ ShallowIn(s \o t) = ShallowIn(s) \cup ShallowIn(t)
BY ElementsJoined DEF CalledIn, ShallowIn

\* Without calls and tasks there is nothing to visit or to remove.
LEMMA NothingCalled ==
  CalledIn(<<>>) = {} /\ ShallowIn(<<>>) = {} /\ \A kind : QueuedIn(kind, <<>>) = {}
BY DEF CalledIn, ShallowIn, QueuedIn, ToSet

\* The tasks for the objects of R are about those of R.
LEMMA TasksOf ==
  ASSUME NEW kind \in {"repo", "state", "fragment"},
         NEW R \in SUBSET (IF kind = "fragment" THEN Fragment ELSE Repo),
         NEW o \in SetToSeqs(R), NEW checked \in BOOLEAN
  PROVE  /\ Tasks(kind, o, checked) \in Seq(Task)
         /\ \A k : QueuedIn(k, Tasks(kind, o, checked)) = IF k = kind THEN R ELSE {}
<1>1. IsFiniteSet(R)
  BY Finite, FS_Subset
<1>2. o \in Seq(R) /\ \A x \in R : \E i \in DOMAIN o : o[i] = x
  BY <1>1, SetToSeqsOnto
<1>3. Len(o) \in Nat /\ o \in [1..Len(o) -> R] /\ DOMAIN o = 1..Len(o)
  BY <1>2
<1>4. Tasks(kind, o, checked) \in [1..Len(o) -> Task]
  BY <1>3 DEF Tasks, Task
<1>5. Tasks(kind, o, checked) \in Seq(Task)
  BY <1>3, <1>4
<1>6. ToSet(Tasks(kind, o, checked)) = {[kind |-> kind, id |-> x, checked |-> checked] : x \in R}
  BY <1>2, <1>3 DEF Tasks, ToSet
<1>7. /\ \A t \in ToSet(Tasks(kind, o, checked)) : t.id \in R /\ t.kind = kind
      /\ \A x \in R : \E t \in ToSet(Tasks(kind, o, checked)) : t.id = x /\ t.kind = kind
  <2>1. \A t \in ToSet(Tasks(kind, o, checked)) : t.id \in R /\ t.kind = kind
    BY <1>6
  <2>2. ASSUME NEW x \in R
        PROVE  \E t \in ToSet(Tasks(kind, o, checked)) : t.id = x /\ t.kind = kind
    <3>1. [kind |-> kind, id |-> x, checked |-> checked] \in ToSet(Tasks(kind, o, checked))
      BY <1>6
    <3> QED
      BY <3>1
  <2> QED
    BY <2>1, <2>2
<1>8. ASSUME NEW k PROVE QueuedIn(k, Tasks(kind, o, checked)) = IF k = kind THEN R ELSE {}
  BY <1>7 DEF QueuedIn
<1> QED
  BY <1>5, <1>8

\* The first task and the others.
LEMMA TasksFirst ==
  ASSUME NEW s \in Seq(Task), s # <<>>
  PROVE  /\ Head(s) \in Task
         /\ Tail(s) \in Seq(Task)
         /\ \A k : QueuedIn(k, s) = (IF Head(s).kind = k THEN {Head(s).id} ELSE {})
                                    \cup QueuedIn(k, Tail(s))
BY ElementsFirst DEF QueuedIn

\* Tasks in a row.
LEMMA TasksJoined ==
  ASSUME NEW s \in Seq(Task), NEW t \in Seq(Task)
  PROVE  /\ s \o t \in Seq(Task)
         /\ \A k : QueuedIn(k, s \o t) = QueuedIn(k, s) \cup QueuedIn(k, t)
BY ElementsJoined DEF QueuedIn

\* The task to remove a state is about that state only.
LEMMA TaskOfState ==
  ASSUME NEW r \in Repo
  PROVE  /\ Tasks("state", <<r>>, FALSE) \in Seq(Task)
         /\ \A k : QueuedIn(k, Tasks("state", <<r>>, FALSE)) = IF k = "state" THEN {r} ELSE {}
<1> DEFINE o == <<r>>
           R == {r}
<1>1. Cardinality({r}) = 1
  BY FS_Singleton
<1>2. o \in SetToSeqs(R)
  BY <1>1 DEF SetToSeqs
<1>3. R \in SUBSET Repo
  OBVIOUS
<1> HIDE DEF o, R
<1>4. /\ Tasks("state", o, FALSE) \in Seq(Task)
      /\ \A k : QueuedIn(k, Tasks("state", o, FALSE)) = IF k = "state" THEN R ELSE {}
  BY <1>2, <1>3, TasksOf
<1> QED
  BY <1>4 DEF o, R
-----------------------------------------------------------------------------
\* Graphs and the operators on them.

\* What is published is about repositories and packages there are, and a
\* repository with no dependencies of its own complements only the root.
LEMMA OffersTyped ==
  ASSUME NEW r \in Repo, NEW o \in Offers[r]
  PROVE  /\ DOMAIN o \subseteq Fragment
         /\ \A f \in DOMAIN o :
              /\ o[f].complements \subseteq Repo
              /\ o[f].prerequisites \subseteq Repo
              /\ o[f].packages \subseteq Package
              /\ ComplementsOf(r, o[f]) \subseteq Repo \cup {RootRepo}
              /\ (ComplementsOf(r, o[f]) \cup o[f].prerequisites) \ {RootRepo}
                   = o[f].complements \cup o[f].prerequisites
<1>1. DOMAIN o \subseteq Fragment /\ \A f \in DOMAIN o : o[f] \in Manifest
  BY GraphAssumption
<1>2. RootRepo \notin Repo
  BY GraphAssumption
<1> QED
  BY <1>1, <1>2 DEF Manifest, ComplementsOf

\* The root is not one of the fragments or repositories.
LEMMA RootApart == Root \notin Fragment /\ RootRepo \notin Repo
BY GraphAssumption

\* What is required is a repository other than the root.
LEMMA RequiredTyped ==
  ASSUME NEW g \in Graph
  PROVE  /\ \A n \in Node : Required(g, n) \subseteq Repo
         /\ \A r \in Repo : RequiredBy(g, r) \subseteq Repo
<1>1. \A n \in Node : Required(g, n) \subseteq Repo
  BY DEF Graph, Required
<1>2. \A r \in Repo : g.contains[r] \subseteq Node
  BY DEF Graph, Node
<1> QED
  BY <1>1, <1>2 DEF RequiredBy

\* The empty graph is a graph.
LEMMA EmptyFields == EmptyGraph \in Graph
BY DEF EmptyGraph, Graph, Node

\* What rep_add() changes in a graph, and what it leaves alone.
LEMMA AddFields ==
  ASSUME NEW g \in Graph, NEW R \in SUBSET Repo
  PROVE  /\ AddRepos(g, R) \in Graph
         /\ AddRepos(g, R).repos = g.repos \cup R
         /\ AddRepos(g, R).contains = g.contains
         /\ AddRepos(g, R).fragments = g.fragments
         /\ AddRepos(g, R).complements[Root] = g.complements[Root] \cup R
         /\ \A f \in Fragment : AddRepos(g, R).complements[f] = g.complements[f]
         /\ AddRepos(g, R).prerequisites = g.prerequisites
         /\ AddRepos(g, R).packages = g.packages
BY RootApart DEF AddRepos, Graph, Node

\* What dropping repositories from fragments changes.
LEMMA UnreferenceFields ==
  ASSUME NEW g \in Graph, NEW R \in SUBSET Repo, NEW N \in SUBSET Node
  PROVE  /\ Unreference(g, R, N) \in Graph
         /\ Unreference(g, R, N).repos = g.repos
         /\ Unreference(g, R, N).contains = g.contains
         /\ Unreference(g, R, N).fragments = g.fragments
         /\ \A n \in Node : Unreference(g, R, N).complements[n]
                              = IF n \in N THEN g.complements[n] \ R ELSE g.complements[n]
         /\ \A n \in Node : Unreference(g, R, N).prerequisites[n]
                              = IF n \in N THEN g.prerequisites[n] \ R ELSE g.prerequisites[n]
         /\ Unreference(g, R, N).packages = g.packages
BY DEF Unreference, Graph

\* What erasing a repository changes.
LEMMA EraseRepoFields ==
  ASSUME NEW g \in Graph, NEW r \in Repo
  PROVE  /\ EraseRepo(g, r) \in Graph
         /\ EraseRepo(g, r).repos = g.repos \ {r}
         /\ EraseRepo(g, r).contains[r] = {}
         /\ \A s \in Repo \ {r} : EraseRepo(g, r).contains[s] = g.contains[s]
         /\ EraseRepo(g, r).fragments = g.fragments
         /\ EraseRepo(g, r).complements = g.complements
         /\ EraseRepo(g, r).prerequisites = g.prerequisites
         /\ EraseRepo(g, r).packages = g.packages
BY DEF EraseRepo, Graph

\* What erasing the locations of packages changes.
LEMMA ErasePackagesFields ==
  ASSUME NEW g \in Graph, NEW F \in SUBSET Fragment
  PROVE  /\ ErasePackages(g, F) \in Graph
         /\ ErasePackages(g, F).repos = g.repos
         /\ ErasePackages(g, F).contains = g.contains
         /\ ErasePackages(g, F).fragments = g.fragments
         /\ ErasePackages(g, F).complements = g.complements
         /\ ErasePackages(g, F).prerequisites = g.prerequisites
         /\ \A f \in Fragment : ErasePackages(g, F).packages[f]
                                  = IF f \in F THEN {} ELSE g.packages[f]
BY DEF ErasePackages, Graph

\* What erasing a fragment changes.
LEMMA EraseFragmentFields ==
  ASSUME NEW g \in Graph, NEW f \in Fragment
  PROVE  /\ EraseFragment(g, f) \in Graph
         /\ EraseFragment(g, f).repos = g.repos
         /\ EraseFragment(g, f).contains = g.contains
         /\ EraseFragment(g, f).fragments = g.fragments \ {f}
         /\ \A n \in Node : EraseFragment(g, f).complements[n]
                              = IF n = f THEN {} ELSE g.complements[n]
         /\ \A n \in Node : EraseFragment(g, f).prerequisites[n]
                              = IF n = f THEN {} ELSE g.prerequisites[n]
         /\ EraseFragment(g, f).packages = g.packages
BY DEF EraseFragment, Graph, Node

\* What is left of a graph that is cleaned.
LEMMA CleanedFields ==
  ASSUME NEW g \in Graph
  PROVE  /\ Cleaned(g) \in Graph
         /\ Cleaned(g).repos = g.repos \cap Added(g)
         /\ \A r \in Repo : Cleaned(g).contains[r] = {}
         /\ Cleaned(g).fragments = {}
         /\ Cleaned(g).complements[Root] = Added(g)
         /\ \A f \in Fragment : Cleaned(g).complements[f] = {}
         /\ \A n \in Node : Cleaned(g).prerequisites[n] = {}
         /\ \A f \in Fragment : Cleaned(g).packages[f] = {}
BY RootApart DEF Cleaned, EmptyGraph, Graph, Node, Added

\* What a repository that was found with the contents o changes.
LEMMA ParsedFields ==
  ASSUME NEW g \in Graph, NEW r \in Repo, NEW o \in Offers[r], NEW P \in SUBSET Fragment
  PROVE  LET new == DOMAIN o \ P IN
         /\ Parsed(g, r, o, P) \in Graph
         /\ Parsed(g, r, o, P).repos
              = g.repos \cup UNION {o[f].complements \cup o[f].prerequisites : f \in new}
         /\ Parsed(g, r, o, P).contains[r] = DOMAIN o
         /\ \A s \in Repo \ {r} : Parsed(g, r, o, P).contains[s] = g.contains[s]
         /\ Parsed(g, r, o, P).fragments = g.fragments \cup new
         /\ \A n \in Node : Parsed(g, r, o, P).complements[n]
                              = IF n \in new THEN ComplementsOf(r, o[n]) ELSE g.complements[n]
         /\ \A n \in Node : Parsed(g, r, o, P).prerequisites[n]
                              = IF n \in new THEN o[n].prerequisites ELSE g.prerequisites[n]
         /\ \A f \in Fragment : Parsed(g, r, o, P).packages[f]
                                  = IF f \in new THEN o[f].packages ELSE g.packages[f]
<1> DEFINE new == DOMAIN o \ P
<1>1. new \subseteq DOMAIN o /\ new \subseteq Fragment /\ DOMAIN o \subseteq Fragment
  BY OffersTyped
<1>2. \A f \in new : /\ o[f].complements \subseteq Repo
                     /\ o[f].prerequisites \subseteq Repo
                     /\ o[f].packages \subseteq Package
                     /\ ComplementsOf(r, o[f]) \subseteq Repo \cup {RootRepo}
  BY <1>1, OffersTyped
<1> DEFINE h == WithDependencies(g, r, o, new)
           k == WithPackages(h, o, new)
<1>3. /\ h \in Graph
      /\ h.repos = g.repos \cup UNION {o[f].complements \cup o[f].prerequisites : f \in new}
      /\ h.contains = g.contains
      /\ h.fragments = g.fragments
      /\ \A n \in Node : h.complements[n] = IF n \in new THEN ComplementsOf(r, o[n])
                                            ELSE g.complements[n]
      /\ \A n \in Node : h.prerequisites[n] = IF n \in new THEN o[n].prerequisites
                                              ELSE g.prerequisites[n]
      /\ h.packages = g.packages
  <2> DEFINE added == UNION {o[f].complements \cup o[f].prerequisites : f \in new}
             cs == [n \in Node |-> IF n \in new THEN ComplementsOf(r, o[n]) ELSE g.complements[n]]
             ps == [n \in Node |-> IF n \in new THEN o[n].prerequisites ELSE g.prerequisites[n]]
  <2>1. added \subseteq Repo
    BY <1>2
  <2>2. cs \in [Node -> SUBSET (Repo \cup {RootRepo})]
    BY <1>2 DEF Graph
  <2>3. ps \in [Node -> SUBSET Repo]
    BY <1>2 DEF Graph
  <2>4. h = [g EXCEPT !.repos = @ \cup added, !.complements = cs, !.prerequisites = ps]
    BY DEF WithDependencies, Graph
  <2> HIDE DEF added, cs, ps, h
  <2>5. /\ h \in Graph
        /\ h.repos = g.repos \cup added
        /\ h.contains = g.contains
        /\ h.fragments = g.fragments
        /\ h.complements = cs
        /\ h.prerequisites = ps
        /\ h.packages = g.packages
    BY <2>1, <2>2, <2>3, <2>4 DEF Graph
  <2> QED
    BY <2>5 DEF added, cs, ps
<1>4. /\ k \in Graph
      /\ k.repos = h.repos
      /\ k.contains = h.contains
      /\ k.fragments = h.fragments
      /\ k.complements = h.complements
      /\ k.prerequisites = h.prerequisites
      /\ \A f \in Fragment : k.packages[f] = IF f \in new THEN o[f].packages ELSE h.packages[f]
  <2> HIDE DEF h
  <2> QED
    BY <1>2, <1>3 DEF WithPackages, Graph
<1>5. Parsed(g, r, o, P) = [k EXCEPT !.contains[r] = DOMAIN o, !.fragments = @ \cup new]
  BY DEF Parsed
<1> HIDE DEF h, k
<1>6. /\ Parsed(g, r, o, P) \in Graph
      /\ Parsed(g, r, o, P).repos = k.repos
      /\ Parsed(g, r, o, P).contains[r] = DOMAIN o
      /\ \A s \in Repo \ {r} : Parsed(g, r, o, P).contains[s] = k.contains[s]
      /\ Parsed(g, r, o, P).fragments = k.fragments \cup new
      /\ Parsed(g, r, o, P).complements = k.complements
      /\ Parsed(g, r, o, P).prerequisites = k.prerequisites
      /\ Parsed(g, r, o, P).packages = k.packages
  <2> DEFINE cs == [k.contains EXCEPT ![r] = DOMAIN o]
  <2>1. cs \in [Repo -> SUBSET Fragment] /\ cs[r] = DOMAIN o
        /\ \A s \in Repo \ {r} : cs[s] = k.contains[s]
    BY <1>1, <1>4 DEF Graph
  <2>2. Parsed(g, r, o, P) = [k EXCEPT !.contains = cs, !.fragments = @ \cup new]
    BY <1>4, <1>5 DEF Graph
  <2> HIDE DEF cs
  <2>3. k.fragments \cup new \subseteq Fragment
    BY <1>1, <1>4 DEF Graph
  <2> QED
    BY <1>4, <2>1, <2>2, <2>3 DEF Graph
<1> QED
  BY <1>3, <1>4, <1>6

\* It is a graph again.
LEMMA ParsedTyped ==
  ASSUME NEW g \in Graph, NEW r \in Repo, NEW o \in Offers[r], NEW P \in SUBSET Fragment
  PROVE  Parsed(g, r, o, P) \in Graph
BY ParsedFields

\* Reachability.

\* From(g, X) is the least set of repositories that has X and is closed.
LEMMA FromTyped ==
  ASSUME NEW g, NEW X
  PROVE  From(g, X) \subseteq Repo
BY DEF From

\* It has X ...
LEMMA FromIncludes ==
  ASSUME NEW g, NEW X \in SUBSET Repo
  PROVE  X \subseteq From(g, X)
BY DEF From

\* ... is closed ...
LEMMA FromClosed ==
  ASSUME NEW g \in Graph, NEW X
  PROVE  Closed(g, From(g, X))
<1> SUFFICES ASSUME NEW r \in From(g, X), NEW x \in RequiredBy(g, r),
                    NEW S \in SUBSET Repo, X \subseteq S, Closed(g, S)
             PROVE  x \in Repo /\ x \in S
  BY RequiredTyped DEF From, Closed
<1>1. r \in S
  BY DEF From
<1> QED
  BY <1>1, RequiredTyped DEF Closed

\* ... and is the least such set.
LEMMA FromLeast ==
  ASSUME NEW g, NEW X, NEW S \in SUBSET Repo, X \subseteq S, Closed(g, S)
  PROVE  From(g, X) \subseteq S
BY DEF From

\* More can be reached from more.
LEMMA FromGrows ==
  ASSUME NEW g, NEW X, NEW Y, X \subseteq Y
  PROVE  From(g, X) \subseteq From(g, Y)
BY DEF From

\* What can be reached depends on what repositories require only.
LEMMA FromSame ==
  ASSUME NEW g, NEW h, NEW X, \A r \in Repo : RequiredBy(g, r) = RequiredBy(h, r)
  PROVE  From(g, X) = From(h, X)
BY DEF From, Closed

\* Reachable is what can be reached from those the user added.
LEMMA ReachableIsFrom ==
  ASSUME NEW g
  PROVE  Reachable(g) = From(g, Added(g))
BY DEF Reachable, From, Closed

\* It has them and is closed.
LEMMA ReachableClosed ==
  ASSUME NEW g \in Graph, Added(g) \subseteq Repo
  PROVE  /\ Reachable(g) \subseteq Repo
         /\ Added(g) \subseteq Reachable(g)
         /\ Closed(g, Reachable(g))
BY ReachableIsFrom, FromTyped, FromIncludes, FromClosed

\* It is the least such set.
LEMMA ReachableLeast ==
  ASSUME NEW g, NEW S \in SUBSET Repo, Added(g) \subseteq S, Closed(g, S)
  PROVE  Reachable(g) \subseteq S
BY ReachableIsFrom, FromLeast

\* From two sets together nothing else can be reached.
LEMMA FromUnion ==
  ASSUME NEW g \in Graph, NEW X \in SUBSET Repo, NEW Y \in SUBSET Repo
  PROVE  From(g, X \cup Y) = From(g, X) \cup From(g, Y)
<1>1. From(g, X) \cup From(g, Y) \subseteq From(g, X \cup Y)
  BY FromGrows
<1>2. Closed(g, From(g, X) \cup From(g, Y))
  BY FromClosed DEF Closed
<1>3. X \cup Y \subseteq From(g, X) \cup From(g, Y)
  BY FromIncludes
<1>4. From(g, X \cup Y) \subseteq From(g, X) \cup From(g, Y)
  BY <1>2, <1>3, FromTyped, FromLeast
<1> QED
  BY <1>1, <1>4
-----------------------------------------------------------------------------
\* How commands go on.

\* A running command is not idleness.
LEMMA NotIdle == \A c \in Command : c # Idle
BY DEF Command, Idle

\* An idle configuration runs no command of any kind.
LEMMA RunningTyped ==
  ASSUME TypeOK, cmd.op = "fetch"
  PROVE  cmd \in Command
<1>1. Idle.op = "none"
  BY DEF Idle
<1>2. cmd # Idle
  BY <1>1
<1> QED
  BY <1>2 DEF TypeOK

\* A set with the states of all repositories with contents is enough.
LEMMA NeededWithin ==
  ASSUME NEW g, NEW X,
         \A r \in g.repos : g.contains[r] # {} => StateOf[r] \in X \/ StateOf[r] = NoState
  PROVE  Needed(g) \subseteq X
BY DEF Needed, StatesOf

\* The states of all of them are needed.
LEMMA NeededAll ==
  ASSUME NEW g, NEW r \in g.repos, g.contains[r] # {}, StateOf[r] # NoState
  PROVE  StateOf[r] \in Needed(g)
BY DEF Needed, StatesOf

\* What is needed are states.
LEMMA NeededTyped ==
  ASSUME NEW g \in Graph
  PROVE  Needed(g) \subseteq State
BY DEF Needed, StatesOf, State, Graph

\* What a command starts with.
LEMMA StartFields ==
  ASSUME NEW op \in {"fetch", "remove", "mask"}, NEW R \in SUBSET Repo
  PROVE  /\ Start(op, R) \in Command
         /\ Start(op, R).op = op
         /\ Start(op, R).args = R
         /\ Start(op, R).pruning <=> op # "fetch"
         /\ Start(op, R).calls = <<>>
         /\ Start(op, R).todo = <<>>
         /\ Start(op, R).fetched = {}
         /\ Start(op, R).removed = {}
         /\ Start(op, R).parsed = {}
         /\ Start(op, R).dangling = {}
<1>1. /\ Start(op, R) \in Command
      /\ Start(op, R).op = op
      /\ Start(op, R).args = R
      /\ Start(op, R).calls = <<>>
      /\ Start(op, R).todo = <<>>
      /\ Start(op, R).fetched = {}
      /\ Start(op, R).removed = {}
      /\ Start(op, R).parsed = {}
      /\ Start(op, R).dangling = {}
  BY DEF Start, Command
<1>2. Start(op, R).pruning = (op # "fetch")
  BY DEF Start
<1> QED
  BY <1>1, <1>2

\* What rep-fetch starts with: calls for its arguments.
LEMMA StartFetchForm ==
  ASSUME NEW R \in SUBSET Repo, NEW g, NEW shallow \in BOOLEAN, StartFetch(R, g, shallow)
  PROVE  /\ cmd = Idle /\ R # {}
         /\ db' = g
         /\ UNCHANGED <<committed, states, lost>>
         /\ cmd' \in Command
         /\ cmd'.op = "fetch" /\ cmd'.args = R /\ ~cmd'.pruning
         /\ cmd'.todo = <<>>
         /\ cmd'.fetched = {} /\ cmd'.removed = {} /\ cmd'.parsed = {} /\ cmd'.dangling = {}
         /\ Called' = R
         /\ ShallowIn(cmd'.calls) = IF shallow THEN R ELSE {}
<1>1. PICK o \in SetToSeqs(R) : cmd' = [Start("fetch", R) EXCEPT !.calls = Calls(o, shallow)]
  BY DEF StartFetch
<1>2. /\ Calls(o, shallow) \in Seq(Call)
      /\ CalledIn(Calls(o, shallow)) = R
      /\ ShallowIn(Calls(o, shallow)) = IF shallow THEN R ELSE {}
  BY CallsOf
<1> DEFINE s == Start("fetch", R)
           cs == Calls(o, shallow)
<1>3. /\ s \in Command
      /\ s.op = "fetch" /\ s.args = R /\ ~s.pruning
      /\ s.calls = <<>> /\ s.todo = <<>>
      /\ s.fetched = {} /\ s.removed = {} /\ s.parsed = {} /\ s.dangling = {}
  BY StartFields
<1>4. cmd' = [s EXCEPT !.calls = cs]
  BY <1>1
<1> HIDE DEF s, cs
<1>5. /\ cmd' \in Command
      /\ cmd'.op = "fetch" /\ cmd'.args = R /\ ~cmd'.pruning
      /\ cmd'.todo = <<>>
      /\ cmd'.fetched = {} /\ cmd'.removed = {} /\ cmd'.parsed = {} /\ cmd'.dangling = {}
      /\ cmd'.calls = cs
  BY <1>2, <1>3, <1>4 DEF Command, cs
<1>6. Called' = CalledIn(cmd'.calls)
  BY DEF Called
<1> QED
  BY <1>2, <1>5, <1>6 DEF StartFetch, cs

\* What rep-remove and the masking start with: tasks for their arguments.
LEMMA StartRemoveForm ==
  ASSUME NEW op \in {"remove", "mask"}, NEW R \in SUBSET Repo, NEW g, StartRemove(op, R, g)
  PROVE  /\ cmd = Idle
         /\ db' = g
         /\ UNCHANGED <<committed, states, lost>>
         /\ cmd' \in Command
         /\ cmd'.op = op /\ cmd'.args = R /\ cmd'.pruning
         /\ cmd'.calls = <<>>
         /\ \A k : QueuedIn(k, cmd'.todo) = IF k = "repo" THEN R ELSE {}
<1>1. PICK o \in SetToSeqs(R) :
        cmd' = [Start(op, R) EXCEPT !.todo = Tasks("repo", o, FALSE)]
  BY DEF StartRemove
<1>2. /\ Tasks("repo", o, FALSE) \in Seq(Task)
      /\ \A k : QueuedIn(k, Tasks("repo", o, FALSE)) = IF k = "repo" THEN R ELSE {}
  BY TasksOf
<1> DEFINE s == Start(op, R)
           ts == Tasks("repo", o, FALSE)
<1>3. s \in Command /\ s.op = op /\ s.args = R /\ s.pruning /\ s.calls = <<>>
  BY StartFields
<1>4. cmd' = [s EXCEPT !.todo = ts]
  BY <1>1
<1> HIDE DEF s, ts
<1>5. /\ cmd' \in Command
      /\ cmd'.op = op /\ cmd'.args = R /\ cmd'.pruning /\ cmd'.calls = <<>>
      /\ cmd'.todo = ts
  BY <1>2, <1>3, <1>4 DEF Command, ts
<1> QED
  BY <1>2, <1>5 DEF StartRemove, ts

\* What a repository requires is called for.
LEMMA RequiredInTwo ==
  ASSUME NEW g \in Graph, NEW r \in Repo
  PROVE  /\ ComplementsIn(g, r) \subseteq Repo \cup {RootRepo}
         /\ PrerequisitesIn(g, r) \subseteq Repo
         /\ RequiredBy(g, r) = (ComplementsIn(g, r) \ {RootRepo})
                               \cup (PrerequisitesIn(g, r) \ ComplementsIn(g, r))
<1>1. \A f \in g.contains[r] : /\ g.complements[f] \subseteq Repo \cup {RootRepo}
                               /\ g.prerequisites[f] \subseteq Repo
  BY DEF Graph, Node
<1>2. RootRepo \notin Repo
  BY RootApart
<1> QED
  BY <1>1, <1>2 DEF ComplementsIn, PrerequisitesIn, RequiredBy, Required

VisitedNow(r, o) ==
    /\ cmd' \in Command
    /\ cmd'.op = "fetch" /\ cmd'.args = cmd.args /\ (cmd'.pruning <=> cmd.pruning)
    /\ cmd'.todo = cmd.todo
    /\ cmd'.fetched = cmd.fetched \cup {r}
    /\ cmd'.parsed = cmd.parsed \cup DOMAIN o
    /\ cmd'.dangling = (cmd.dangling \cup db.contains[r]) \ DOMAIN o
    /\ cmd'.changed = Changed(r)
    /\ ShallowIn(cmd'.calls) = ShallowIn(Tail(cmd.calls))

NotFollowed(r) ==
    /\ call.shallow /\ Unchanged(r)
    /\ Called' = CalledIn(Tail(cmd.calls))
    /\ cmd'.removed = cmd.removed \ {r}

FollowedNow(r) ==
    /\ Called' = RequiredBy(db', r) \cup CalledIn(Tail(cmd.calls))
    /\ cmd'.removed = (cmd.removed \ {r}) \cup (RequiredBy(db, r) \ cmd'.fetched)

\* What rep_fetch() changes: it may go on to what the repository requires, or not.
LEMMA FetchRepoForm ==
  ASSUME TypeOK, NEW r \in Repo, NEW o \in Offers[r], FetchRepo(r, o)
  PROVE  /\ cmd \in Command /\ cmd.op = "fetch" /\ cmd.calls # <<>>
         /\ Head(cmd.calls) \in Call /\ Head(cmd.calls).repo = r
         /\ r \notin cmd.fetched
         /\ db' \in Graph
         /\ VisitedNow(r, o)
         /\ NotFollowed(r) \/ FollowedNow(r)
<1>1. cmd \in Command
  BY RunningTyped DEF FetchRepo, Fetching
<1>2. cmd.op = "fetch" /\ cmd.calls \in Seq(Call) /\ cmd.calls # <<>> /\ cmd.parsed \subseteq Fragment
  BY <1>1 DEF FetchRepo, Fetching, Command
<1>3. /\ Head(cmd.calls) \in Call
      /\ Tail(cmd.calls) \in Seq(Call)
  BY <1>2, CallsFirst
<1>4. Head(cmd.calls).repo = r /\ r \notin cmd.fetched
  BY DEF FetchRepo, call, Fetched
<1>5. db' \in Graph
  BY <1>2, ParsedTyped DEF FetchRepo, TypeOK
<1>6. DOMAIN o \subseteq Fragment /\ db.contains[r] \subseteq Fragment
  BY OffersTyped DEF TypeOK, Graph
<1>7. RequiredBy(db, r) \subseteq Repo
  BY RequiredTyped DEF TypeOK
<1> DEFINE visited == [cmd EXCEPT !.calls = Tail(@),
                                  !.fetched = @ \cup {r},
                                  !.removed = @ \ {r},
                                  !.parsed = @ \cup DOMAIN o,
                                  !.dangling = (@ \cup db.contains[r]) \ DOMAIN o,
                                  !.changed = Changed(r)]
<1>8. Changed(r) \in BOOLEAN
  BY <1>1 DEF Changed, Command
<1>9. /\ visited \in Command
      /\ visited.op = "fetch" /\ visited.args = cmd.args /\ (visited.pruning <=> cmd.pruning)
      /\ visited.todo = cmd.todo
      /\ visited.calls = Tail(cmd.calls)
      /\ visited.fetched = cmd.fetched \cup {r}
      /\ visited.removed = cmd.removed \ {r}
      /\ visited.parsed = cmd.parsed \cup DOMAIN o
      /\ visited.dangling = (cmd.dangling \cup db.contains[r]) \ DOMAIN o
      /\ visited.changed = Changed(r)
  BY <1>1, <1>2, <1>3, <1>6, <1>8 DEF Command
<1>10. IF call.shallow /\ Unchanged(r) THEN cmd' = visited
       ELSE \E cs \in SetToSeqs(ComplementsIn(db', r) \ {RootRepo}),
               ps \in SetToSeqs(PrerequisitesIn(db', r) \ ComplementsIn(db', r)) :
                cmd' = [visited EXCEPT
                          !.calls = Calls(cs, FALSE) \o Calls(ps, FALSE) \o @,
                          !.removed = @ \cup (RequiredBy(db, r) \ visited.fetched)]
  BY DEF FetchRepo
<1> HIDE DEF visited
<1>11. CASE call.shallow /\ Unchanged(r)
  <2>1. cmd' = visited
    BY <1>10, <1>11
  <2>2. Called' = CalledIn(cmd'.calls)
    BY DEF Called
  <2> QED
    BY <1>1, <1>2, <1>3, <1>4, <1>5, <1>9, <1>11, <2>1, <2>2 DEF VisitedNow, NotFollowed
<1>12. CASE ~(call.shallow /\ Unchanged(r))
  <2>1. PICK cs \in SetToSeqs(ComplementsIn(db', r) \ {RootRepo}),
             ps \in SetToSeqs(PrerequisitesIn(db', r) \ ComplementsIn(db', r)) :
               cmd' = [visited EXCEPT
                         !.calls = Calls(cs, FALSE) \o Calls(ps, FALSE) \o @,
                         !.removed = @ \cup (RequiredBy(db, r) \ visited.fetched)]
    BY <1>10, <1>12
  <2> DEFINE C == ComplementsIn(db', r) \ {RootRepo}
             P == PrerequisitesIn(db', r) \ ComplementsIn(db', r)
             toC == Calls(cs, FALSE)
             toP == Calls(ps, FALSE)
             before == toC \o toP
             rest == Tail(cmd.calls)
             next == before \o rest
  <2>2. C \in SUBSET Repo /\ P \in SUBSET Repo /\ RequiredBy(db', r) = C \cup P
    BY <1>5, RequiredInTwo
  <2>3. toC \in Seq(Call) /\ CalledIn(toC) = C /\ ShallowIn(toC) = {}
    BY <2>2, CallsOf
  <2>4. toP \in Seq(Call) /\ CalledIn(toP) = P /\ ShallowIn(toP) = {}
    BY <2>2, CallsOf
  <2>7. Calls(cs, FALSE) \o Calls(ps, FALSE) \o visited.calls = next
    BY <1>9
  <2> HIDE DEF C, P, toC, toP
  <2>5. before \in Seq(Call) /\ CalledIn(before) = C \cup P /\ ShallowIn(before) = {}
    BY <2>3, <2>4, CallsJoined
  <2>11. rest \in Seq(Call)
    BY <1>3
  <2> HIDE DEF before, rest
  <2>6. next \in Seq(Call) /\ CalledIn(next) = C \cup P \cup CalledIn(rest)
        /\ ShallowIn(next) = ShallowIn(rest)
    <3>1. next \in Seq(Call)
      BY <2>5, <2>11, CallsJoined
    <3>2. CalledIn(next) = CalledIn(before) \cup CalledIn(rest)
      BY <2>5, <2>11, CallsJoined
    <3>3. ShallowIn(next) = ShallowIn(before) \cup ShallowIn(rest)
      BY <2>5, <2>11, CallsJoined
    <3> QED
      BY <2>5, <3>1, <3>2, <3>3
  <2>8. cmd' = [visited EXCEPT !.calls = next,
                               !.removed = @ \cup (RequiredBy(db, r) \ visited.fetched)]
    BY <2>1, <2>7
  <2> HIDE DEF next
  <2>9. /\ cmd' \in Command
        /\ cmd'.op = "fetch" /\ cmd'.args = cmd.args /\ (cmd'.pruning <=> cmd.pruning)
        /\ cmd'.todo = cmd.todo
        /\ cmd'.calls = next
        /\ cmd'.fetched = cmd.fetched \cup {r}
        /\ cmd'.removed = (cmd.removed \ {r}) \cup (RequiredBy(db, r) \ cmd'.fetched)
        /\ cmd'.parsed = cmd.parsed \cup DOMAIN o
        /\ cmd'.dangling = (cmd.dangling \cup db.contains[r]) \ DOMAIN o
        /\ cmd'.changed = Changed(r)
    BY <1>7, <1>9, <2>6, <2>8 DEF Command
  <2>10. Called' = CalledIn(cmd'.calls)
    BY DEF Called
  <2> QED
    BY <1>1, <1>2, <1>3, <1>4, <1>5, <2>2, <2>6, <2>9, <2>10 DEF VisitedNow, FollowedNow, rest
<1> QED
  BY <1>11, <1>12

\* What the removals of rep-fetch start with.
LEMMA StartPruningForm ==
  ASSUME TypeOK, StartPruning
  PROVE  /\ cmd \in Command /\ cmd.op = "fetch" /\ cmd.calls = <<>> /\ ~cmd.pruning
         /\ UNCHANGED <<committed, db, states, lost>>
         /\ cmd' \in Command
         /\ cmd'.op = "fetch" /\ cmd'.args = cmd.args /\ cmd'.pruning
         /\ cmd'.calls = <<>>
         /\ \A k : QueuedIn(k, cmd'.todo) = IF k = "repo" THEN cmd.removed
                                            ELSE IF k = "fragment" THEN cmd.dangling ELSE {}
<1>1. cmd \in Command
  BY RunningTyped DEF StartPruning
<1>2. PICK rs \in SetToSeqs(cmd.removed), fs \in SetToSeqs(cmd.dangling) :
        cmd' = [cmd EXCEPT !.pruning = TRUE,
                           !.todo = Tasks("repo", rs, TRUE) \o Tasks("fragment", fs, TRUE)]
  BY DEF StartPruning
<1>3. cmd.removed \in SUBSET Repo /\ cmd.dangling \in SUBSET Fragment
  BY <1>1 DEF Command
<1> DEFINE R == Tasks("repo", rs, TRUE)
           F == Tasks("fragment", fs, TRUE)
           todo == R \o F
<1>4. R \in Seq(Task) /\ \A k : QueuedIn(k, R) = IF k = "repo" THEN cmd.removed ELSE {}
  BY <1>3, TasksOf
<1>5. F \in Seq(Task) /\ \A k : QueuedIn(k, F) = IF k = "fragment" THEN cmd.dangling ELSE {}
  BY <1>3, TasksOf
<1> HIDE DEF R, F
<1>6. todo \in Seq(Task) /\ \A k : QueuedIn(k, todo) = QueuedIn(k, R) \cup QueuedIn(k, F)
  BY <1>4, <1>5, TasksJoined
<1>7. cmd' = [cmd EXCEPT !.pruning = TRUE, !.todo = todo]
  BY <1>2 DEF R, F
<1> HIDE DEF todo
<1>8. /\ cmd' \in Command
      /\ cmd'.op = cmd.op /\ cmd'.args = cmd.args /\ cmd'.pruning
      /\ cmd'.calls = cmd.calls /\ cmd'.todo = todo
  BY <1>1, <1>6, <1>7 DEF Command
<1>9. ASSUME NEW k
      PROVE  QueuedIn(k, cmd'.todo) = IF k = "repo" THEN cmd.removed
                                      ELSE IF k = "fragment" THEN cmd.dangling ELSE {}
  <2>1. QueuedIn(k, cmd'.todo) = QueuedIn(k, R) \cup QueuedIn(k, F)
    BY <1>6, <1>8
  <2> QED
    BY <1>4, <1>5, <2>1
<1> QED
  BY <1>1, <1>8, <1>9 DEF StartPruning

\* The task at hand.
LEMMA TaskTyped ==
  ASSUME TypeOK, NEW kind, Removing(kind)
  PROVE  /\ cmd \in Command /\ cmd.todo \in Seq(Task) /\ cmd.todo # <<>>
         /\ task \in Task /\ task.kind = kind
         /\ kind \in {"repo", "state"} => task.id \in Repo
         /\ kind = "fragment" => task.id \in Fragment
         /\ \A k : Queued(k) = (IF k = kind THEN {task.id} ELSE {}) \cup QueuedIn(k, Tail(cmd.todo))
<1>1. cmd \in Command /\ cmd.todo # <<>> /\ Head(cmd.todo).kind = kind
  BY DEF TypeOK, Removing
<1>2. cmd.todo \in Seq(Task)
  BY <1>1 DEF Command
<1>3. /\ Head(cmd.todo) \in Task
      /\ \A k : QueuedIn(k, cmd.todo) = (IF Head(cmd.todo).kind = k THEN {Head(cmd.todo).id} ELSE {})
                                        \cup QueuedIn(k, Tail(cmd.todo))
  BY <1>1, <1>2, TasksFirst
<1>4. /\ kind \in {"repo", "state"} => Head(cmd.todo).id \in Repo
      /\ kind = "fragment" => Head(cmd.todo).id \in Fragment
  BY <1>1, <1>3 DEF Task
<1> QED
  BY <1>1, <1>2, <1>3, <1>4 DEF task, Queued

\* What a task changes: others take its place.
LEMMA ThenForm ==
  ASSUME cmd \in Command, cmd.todo # <<>>, NEW tasks \in Seq(Task), Then(tasks)
  PROVE  /\ cmd' \in Command
         /\ cmd'.op = cmd.op /\ cmd'.args = cmd.args /\ (cmd'.pruning <=> cmd.pruning)
         /\ cmd'.calls = cmd.calls
         /\ \A k : QueuedIn(k, cmd'.todo) = QueuedIn(k, tasks) \cup QueuedIn(k, Tail(cmd.todo))
<1>1. cmd.todo \in Seq(Task)
  BY DEF Command
<1>2. Tail(cmd.todo) \in Seq(Task)
  BY <1>1, TasksFirst
<1> DEFINE next == tasks \o Tail(cmd.todo)
<1>3. next \in Seq(Task) /\ \A k : QueuedIn(k, next) = QueuedIn(k, tasks) \cup QueuedIn(k, Tail(cmd.todo))
  BY <1>2, TasksJoined
<1>4. cmd' = [cmd EXCEPT !.todo = next]
  BY DEF Then
<1> HIDE DEF next
<1>5. /\ cmd' \in Command
      /\ cmd'.op = cmd.op /\ cmd'.args = cmd.args /\ (cmd'.pruning <=> cmd.pruning)
      /\ cmd'.calls = cmd.calls /\ cmd'.todo = next
  BY <1>3, <1>4 DEF Command
<1> QED
  BY <1>3, <1>5
-----------------------------------------------------------------------------
\* BaseInv is inductive.

\* What the user added can be reached.
LEMMA AddedReachable ==
  ASSUME NEW g \in Graph, Added(g) \subseteq Repo
  PROVE  Added(g) \subseteq Reachable(g)
BY ReachableClosed

\* With no command running the state repositories are all there is to see to.
LEMMA IdleThen ==
  ASSUME committed' \in Graph, Orphanless(committed'), db' = committed',
         states' \subseteq State, lost' \subseteq State, cmd' = Idle,
         Needed(committed') \subseteq states' \cup lost'
  PROVE  BaseInv'
<1>1. Orphanless(committed)' /\ Orphanless(db)'
  BY DEF Orphanless, Added, Required
<1>2. Needed(committed)' \subseteq states' \cup lost'
  BY DEF Needed, StatesOf
<1>3. TypeOK'
  BY DEF TypeOK
<1> QED
  BY <1>1, <1>2, <1>3 DEF BaseInv, Phases, CallsKnown, StatesInv, Visiting, Pruning

\* BaseInv after a clean-up.
LEMMA CleanBase ==
  ASSUME BaseInv, Clean, db' = committed', cmd' = Idle
  PROVE  BaseInv'
<1>1. committed \in Graph /\ Added(committed) \subseteq committed.repos
  BY DEF BaseInv, TypeOK, Orphanless
<1>2. /\ committed' \in Graph
      /\ committed'.repos = committed.repos \cap Added(committed)
      /\ \A r \in Repo : committed'.contains[r] = {}
      /\ committed'.complements[Root] = Added(committed)
  BY <1>1, CleanedFields DEF Clean
<1>3. Orphanless(committed')
  BY <1>1, <1>2 DEF Orphanless, Added
<1>4. Needed(committed') \subseteq {}
  <2>1. ASSUME NEW x \in committed'.repos
        PROVE  committed'.contains[x] = {}
    BY <1>2 DEF Graph
  <2> QED
    BY <2>1, NeededWithin
<1> QED
  BY <1>2, <1>3, <1>4, IdleThen DEF Clean

\* BaseInv after a failure, if the states needed are still known.
LEMMA RollBackBase ==
  ASSUME BaseInv, NEW changed, NEW left \in SUBSET State, NEW missing \in SUBSET State,
         RollBack(changed, left, missing),
         ~changed => Needed(committed) \subseteq left \cup missing
  PROVE  BaseInv'
<1>1. CASE changed
  BY <1>1, CleanBase DEF RollBack
<1>2. CASE ~changed
  <2>1. committed' = committed /\ states' = left /\ lost' = missing /\ db' = committed' /\ cmd' = Idle
    BY <1>2 DEF RollBack
  <2>2. committed' \in Graph /\ Orphanless(committed')
    BY <2>1 DEF BaseInv, TypeOK
  <2>3. Needed(committed') \subseteq states' \cup lost'
    BY <1>2, <2>1
  <2> QED
    BY <2>1, <2>2, <2>3, IdleThen
<1> QED
  BY <1>1, <1>2

\* BaseInv at first.
LEMMA InitBase == Init => BaseInv
<1> SUFFICES ASSUME Init PROVE BaseInv
  OBVIOUS
<1>1. committed \in Graph /\ db \in Graph /\ committed = EmptyGraph /\ db = EmptyGraph
  BY EmptyFields DEF Init
<1>2. TypeOK
  BY <1>1 DEF Init, TypeOK
<1>3. Orphanless(EmptyGraph)
  BY DEF Orphanless, Added, EmptyGraph, Node
<1>4. Needed(EmptyGraph) \subseteq {}
  <2>1. \A r \in EmptyGraph.repos : FALSE
    BY DEF EmptyGraph
  <2> QED
    BY <2>1, NeededWithin
<1> QED
  BY <1>1, <1>2, <1>3, <1>4 DEF Init, BaseInv, Phases, CallsKnown, StatesInv, Visiting, Pruning

\* BaseInv after rep-add.
LEMMA RepAddBase ==
  ASSUME BaseInv, RepAdd
  PROVE  BaseInv'
<1>1. PICK r \in Repo : committed' = AddRepos(committed, {r})
  BY DEF RepAdd
<1>2. committed \in Graph /\ Orphanless(committed)
  BY DEF BaseInv, TypeOK
<1>3. /\ committed' \in Graph
      /\ committed'.repos = committed.repos \cup {r}
      /\ committed'.contains = committed.contains
      /\ committed'.complements[Root] = committed.complements[Root] \cup {r}
  BY <1>1, <1>2, AddFields
<1>4. Orphanless(committed')
  BY <1>2, <1>3 DEF Orphanless, Added
<1>5. Needed(committed') \subseteq Needed(committed)
  <2>1. ASSUME NEW x \in committed'.repos, committed'.contains[x] # {}
        PROVE  StateOf[x] \in Needed(committed) \/ StateOf[x] = NoState
    <3>1. x \in Repo /\ committed.contains[x] # {}
      BY <1>3, <2>1 DEF Graph
    <3>2. x \in committed.repos
      BY <1>2, <3>1 DEF Orphanless
    <3> QED
      BY <3>1, <3>2, NeededAll
  <2> QED
    BY <2>1, NeededWithin
<1>6. Needed(committed) \subseteq states \cup lost /\ states \subseteq State /\ lost \subseteq State
  BY DEF BaseInv, StatesInv, RepAdd, TypeOK
<1> QED
  BY <1>3, <1>4, <1>5, <1>6, IdleThen DEF RepAdd

\* BaseInv when rep_fetch() starts with the graph g.
LEMMA StartFetchBase ==
  ASSUME BaseInv, NEW R \in SUBSET Repo, NEW g \in Graph, NEW shallow \in BOOLEAN,
         StartFetch(R, g, shallow),
         Orphanless(g), R \subseteq g.repos, Needed(g) \subseteq Needed(committed)
  PROVE  BaseInv'
<1>1. /\ cmd = Idle
      /\ db' = g
      /\ UNCHANGED <<committed, states, lost>>
      /\ cmd' \in Command
      /\ cmd'.op = "fetch" /\ ~cmd'.pruning
      /\ cmd'.todo = <<>> /\ cmd'.parsed = {}
      /\ Called' = R
  BY StartFetchForm
<1>2. cmd' # Idle
  BY <1>1, NotIdle
<1>3. TypeOK'
  BY <1>1 DEF BaseInv, TypeOK
<1>4. Orphanless(committed)' /\ Orphanless(db)'
  BY <1>1 DEF BaseInv, Orphanless, Added
<1>5. Phases' /\ CallsKnown'
  BY <1>1 DEF Phases, CallsKnown, Visiting, Pruning
<1>6. Needed(committed) \subseteq states \cup lost
  BY <1>1 DEF BaseInv, StatesInv
<1>7. Needed(db') \subseteq states' \cup lost' /\ Needed(committed') \subseteq states' \cup lost'
  BY <1>1, <1>6
<1>8. StatesInv'
  BY <1>1, <1>7 DEF StatesInv, Needed, StatesOf
<1> QED
  BY <1>3, <1>4, <1>5, <1>8 DEF BaseInv

\* BaseInv when rep-fetch starts.
LEMMA RepFetchBase ==
  ASSUME BaseInv, RepFetchAll \/ RepFetch
  PROVE  BaseInv'
<1>1. committed \in Graph /\ Orphanless(committed)
  BY DEF BaseInv, TypeOK
<1>2. Added(committed) \subseteq committed.repos /\ committed.repos \subseteq Repo
  BY <1>1 DEF Orphanless, Graph
<1>3. CASE RepFetchAll
  <2>1. PICK shallow \in {FALSE, ShallowAll} :
          StartFetch(Added(committed), ErasePackages(committed, Fragment), shallow)
    BY <1>3 DEF RepFetchAll
  <2> DEFINE g == ErasePackages(committed, Fragment)
  <2>2. /\ g \in Graph /\ g.repos = committed.repos /\ g.contains = committed.contains
        /\ g.complements = committed.complements
    BY <1>1, ErasePackagesFields
  <2>3. shallow \in BOOLEAN
    BY CommandsAssumption
  <2>4. StartFetch(Added(committed), g, shallow)
    BY <2>1
  <2> HIDE DEF g
  <2>5. Orphanless(g)
    BY <1>1, <2>2 DEF Orphanless, Added
  <2>6. Needed(g) = Needed(committed)
    BY <2>2 DEF Needed
  <2> QED
    BY <1>2, <2>2, <2>3, <2>4, <2>5, <2>6, StartFetchBase
<1>4. CASE RepFetch
  <2>1. PICK R \in Arguments(Repo), shallow \in BOOLEAN :
          StartFetch(R, AddRepos(committed, R), shallow)
    BY <1>4 DEF RepFetch
  <2>2. R \in SUBSET Repo
    BY DEF Arguments
  <2> DEFINE g == AddRepos(committed, R)
  <2>3. /\ g \in Graph /\ g.repos = committed.repos \cup R /\ g.contains = committed.contains
        /\ g.complements[Root] = committed.complements[Root] \cup R
    BY <1>1, <2>2, AddFields
  <2>4. StartFetch(R, g, shallow)
    BY <2>1
  <2> HIDE DEF g
  <2>5. Orphanless(g)
    BY <1>1, <2>3 DEF Orphanless, Added
  <2>6. Needed(g) \subseteq Needed(committed)
    <3>1. ASSUME NEW x \in g.repos, g.contains[x] # {}
          PROVE  StateOf[x] \in Needed(committed) \/ StateOf[x] = NoState
      <4>1. x \in Repo /\ committed.contains[x] # {}
        BY <2>3, <3>1 DEF Graph
      <4>2. x \in committed.repos
        BY <1>1, <4>1 DEF Orphanless
      <4> QED
        BY <4>1, <4>2, NeededAll
    <3> QED
      BY <3>1, NeededWithin
  <2> QED
    BY <2>2, <2>3, <2>4, <2>5, <2>6, StartFetchBase
<1> QED
  BY <1>3, <1>4

\* BaseInv when rep_remove() starts.
LEMMA StartRemoveBase ==
  ASSUME BaseInv, NEW op \in {"remove", "mask"}, NEW R \in SUBSET Repo, NEW N \in SUBSET Node,
         StartRemove(op, R, Unreference(committed, R, N))
  PROVE  BaseInv'
<1> DEFINE g == Unreference(committed, R, N)
<1>1. committed \in Graph /\ Orphanless(committed) /\ Root \in Node
  BY DEF BaseInv, TypeOK, Node
<1>2. /\ g \in Graph /\ g.repos = committed.repos /\ g.contains = committed.contains
      /\ g.complements[Root] \subseteq committed.complements[Root]
  <2>1. /\ g \in Graph /\ g.repos = committed.repos /\ g.contains = committed.contains
        /\ \A n \in Node : g.complements[n] = IF n \in N THEN committed.complements[n] \ R
                                              ELSE committed.complements[n]
    BY <1>1, UnreferenceFields
  <2> HIDE DEF g
  <2>2. g.complements[Root] = IF Root \in N THEN committed.complements[Root] \ R
                              ELSE committed.complements[Root]
    BY <1>1, <2>1
  <2> QED
    BY <2>1, <2>2
<1>3. StartRemove(op, R, g)
  OBVIOUS
<1> HIDE DEF g
<1>4. /\ cmd = Idle
      /\ db' = g
      /\ UNCHANGED <<committed, states, lost>>
      /\ cmd' \in Command
      /\ cmd'.op = op /\ cmd'.pruning
      /\ cmd'.calls = <<>>
      /\ \A k : QueuedIn(k, cmd'.todo) = IF k = "repo" THEN R ELSE {}
  BY <1>3, StartRemoveForm
<1>5. TypeOK'
  BY <1>2, <1>4 DEF BaseInv, TypeOK
<1>6. Orphanless(committed)' /\ Orphanless(db)'
  BY <1>1, <1>2, <1>4 DEF Orphanless, Added
<1>7. Phases' /\ CallsKnown'
  BY <1>4 DEF Phases, CallsKnown, Visiting, Pruning
<1>8. Needed(committed) \subseteq states \cup lost
  BY <1>4 DEF BaseInv, StatesInv
<1>9. Needed(g) = Needed(committed)
  BY <1>2 DEF Needed
<1>10. Needed(db') \subseteq states' \cup lost' /\ Needed(committed') \subseteq states' \cup lost'
  BY <1>4, <1>8, <1>9
<1>11. Queued("state")' = {}
  <2>1. QueuedIn("state", cmd'.todo) = {}
    BY <1>4
  <2> QED
    BY <2>1 DEF Queued
<1>12. StatesInv'
  BY <1>10, <1>11 DEF StatesInv, Needed, StatesOf
<1> QED
  BY <1>5, <1>6, <1>7, <1>12 DEF BaseInv

\* BaseInv when rep-remove or the masking starts.
LEMMA RemovalBase ==
  ASSUME BaseInv, RepRemove \/ RepMask
  PROVE  BaseInv'
<1>1. committed.repos \subseteq Repo /\ Added(committed) \subseteq committed.repos
  BY DEF BaseInv, TypeOK, Graph, Orphanless
<1>2. Root \in Node
  BY DEF Node
<1>3. CASE RepRemove
  <2>1. PICK R \in Arguments(Added(committed)) \cup {Added(committed)} :
          StartRemove("remove", R, Unreference(committed, R, {Root}))
    BY <1>3 DEF RepRemove
  <2>2. R \in SUBSET Repo
    BY <1>1 DEF Arguments
  <2> QED
    BY <1>2, <2>1, <2>2, StartRemoveBase
<1>4. CASE RepMask
  <2>1. PICK R \in Arguments(committed.repos) :
          StartRemove("mask", R, Unreference(committed, R, Node))
    BY <1>4 DEF RepMask
  <2>2. R \in SUBSET Repo
    BY <1>1 DEF Arguments
  <2> QED
    BY <2>1, <2>2, StartRemoveBase
<1> QED
  BY <1>3, <1>4

\* Fragments that are parsed require what is published, others what they did.
LEMMA ParsedRequired ==
  ASSUME NEW g \in Graph, NEW r \in Repo, NEW o \in Offers[r], NEW P \in SUBSET Fragment,
         NEW n \in Node
  PROVE  Required(Parsed(g, r, o, P), n)
           = IF n \in DOMAIN o \ P THEN o[n].complements \cup o[n].prerequisites
             ELSE Required(g, n)
<1> DEFINE h == Parsed(g, r, o, P)
<1>1. /\ h.complements[n] = IF n \in DOMAIN o \ P THEN ComplementsOf(r, o[n])
                            ELSE g.complements[n]
      /\ h.prerequisites[n] = IF n \in DOMAIN o \ P THEN o[n].prerequisites
                              ELSE g.prerequisites[n]
  BY ParsedFields
<1>2. Required(h, n) = (h.complements[n] \cup h.prerequisites[n]) \ {RootRepo}
  BY DEF Required
<1> HIDE DEF h
<1>3. CASE n \in DOMAIN o \ P
  <2>1. Required(h, n) = (ComplementsOf(r, o[n]) \cup o[n].prerequisites) \ {RootRepo}
    BY <1>1, <1>2, <1>3
  <2> QED
    BY <1>3, <2>1, OffersTyped DEF h
<1>4. CASE n \notin DOMAIN o \ P
  BY <1>1, <1>2, <1>4 DEF h, Required
<1> QED
  BY <1>3, <1>4

\* A repository is fetched while repositories are visited only.
LEMMA FetchingVisits ==
  ASSUME BaseInv, Fetching
  PROVE  /\ cmd \in Command /\ cmd.op = "fetch" /\ Visiting /\ ~cmd.pruning
         /\ cmd.calls \in Seq(Call) /\ cmd.calls # <<>>
         /\ call \in Call /\ call.repo \in Repo
         /\ Tail(cmd.calls) \in Seq(Call)
         /\ Called = {call.repo} \cup CalledIn(Tail(cmd.calls))
         /\ Called \subseteq db.repos
<1>1. cmd \in Command /\ cmd.op = "fetch" /\ cmd.calls # <<>>
  BY RunningTyped DEF BaseInv, Fetching
<1>2. cmd # Idle
  BY <1>1, NotIdle
<1>3. ~cmd.pruning
  BY <1>1, <1>2 DEF BaseInv, Phases, Pruning
<1>4. Visiting
  BY <1>2, <1>3 DEF Visiting
<1>5. cmd.calls \in Seq(Call)
  BY <1>1 DEF Command
<1>6. call \in Call /\ Tail(cmd.calls) \in Seq(Call)
      /\ Called = {call.repo} \cup CalledIn(Tail(cmd.calls))
  BY <1>1, <1>5, CallsFirst DEF call, Called
<1>7. call.repo \in Repo
  BY <1>6 DEF Call
<1>8. Called \subseteq db.repos
  BY <1>4 DEF BaseInv, CallsKnown
<1> QED
  BY <1>1, <1>3, <1>4, <1>5, <1>6, <1>7, <1>8

\* BaseInv when a repository is not visited again.
LEMMA FetchAgainBase ==
  ASSUME BaseInv, FetchAgain
  PROVE  BaseInv'
<1>1. /\ cmd \in Command /\ Visiting /\ Tail(cmd.calls) \in Seq(Call)
      /\ CalledIn(Tail(cmd.calls)) \subseteq Called
      /\ cmd # Idle /\ ~cmd.pruning
  BY FetchingVisits, NotIdle DEF FetchAgain
<1> DEFINE rest == Tail(cmd.calls)
<1>2. cmd' = [cmd EXCEPT !.calls = rest]
  BY DEF FetchAgain
<1>3. rest \in Seq(Call)
  BY <1>1
<1> HIDE DEF rest
<1>4. /\ cmd' \in Command /\ cmd'.calls = rest /\ cmd'.op = cmd.op
      /\ (cmd'.pruning <=> cmd.pruning) /\ cmd'.todo = cmd.todo /\ cmd'.parsed = cmd.parsed
  BY <1>1, <1>2, <1>3 DEF Command
<1>5. TypeOK'
  BY <1>4 DEF BaseInv, TypeOK, FetchAgain
<1>6. Orphanless(committed)' /\ Orphanless(db)'
  BY DEF BaseInv, Orphanless, Added, FetchAgain
<1>7. Phases'
  BY <1>1, <1>4 DEF BaseInv, Phases, Visiting, Pruning
<1>8. Called' \subseteq Called
  BY <1>1, <1>4 DEF Called, rest
<1>9. CallsKnown'
  <2>1. \A f : Required(db, f)' = Required(db, f)
    BY DEF Required, FetchAgain
  <2> QED
    BY <1>1, <1>4, <1>8, <2>1 DEF BaseInv, CallsKnown, FetchAgain
<1>10. StatesInv'
  <2>1. Needed(db)' = Needed(db) /\ Needed(committed)' = Needed(committed)
    BY DEF Needed, StatesOf, FetchAgain
  <2>2. Queued("state")' = Queued("state")
    BY <1>4 DEF Queued
  <2> QED
    BY <1>1, <1>4, <2>1, <2>2 DEF BaseInv, StatesInv, FetchAgain
<1> QED
  BY <1>5, <1>6, <1>7, <1>9, <1>10 DEF BaseInv

\* What visiting a repository changes in the graph.
LEMMA ParsedNow ==
  ASSUME TypeOK, NEW r \in Repo, NEW o \in Offers[r], FetchRepo(r, o)
  PROVE  LET new == DOMAIN o \ cmd.parsed IN
         /\ db'.repos = db.repos \cup UNION {o[f].complements \cup o[f].prerequisites : f \in new}
         /\ db'.contains[r] = DOMAIN o
         /\ \A s \in Repo \ {r} : db'.contains[s] = db.contains[s]
         /\ db'.fragments = db.fragments \cup new
         /\ db'.complements[Root] = db.complements[Root]
         /\ db'.prerequisites[Root] = db.prerequisites[Root]
         /\ \A f \in Fragment :
              /\ db'.complements[f] = IF f \in new THEN ComplementsOf(r, o[f])
                                      ELSE db.complements[f]
              /\ db'.prerequisites[f] = IF f \in new THEN o[f].prerequisites
                                        ELSE db.prerequisites[f]
              /\ db'.packages[f] = IF f \in new THEN o[f].packages ELSE db.packages[f]
         /\ \A n \in Node : Required(db', n) = IF n \in new
                                                THEN o[n].complements \cup o[n].prerequisites
                                                ELSE Required(db, n)
<1>1. cmd.parsed \in SUBSET Fragment /\ db \in Graph
  BY RunningTyped DEF FetchRepo, Fetching, TypeOK, Command
<1>2. Root \in Node /\ Fragment \subseteq Node /\ Root \notin DOMAIN o
  BY RootApart, OffersTyped DEF Node
<1> DEFINE P == cmd.parsed
           g == db
           new == DOMAIN o \ P
           h == Parsed(g, r, o, P)
<1>3. db' = h
  BY DEF FetchRepo
<1>4. P \in SUBSET Fragment /\ g \in Graph
  BY <1>1
<1> HIDE DEF P, g
<1>5. /\ h.repos = g.repos \cup UNION {o[f].complements \cup o[f].prerequisites : f \in new}
      /\ h.contains[r] = DOMAIN o
      /\ \A s \in Repo \ {r} : h.contains[s] = g.contains[s]
      /\ h.fragments = g.fragments \cup new
      /\ \A n \in Node : h.complements[n] = IF n \in new THEN ComplementsOf(r, o[n])
                                            ELSE g.complements[n]
      /\ \A n \in Node : h.prerequisites[n] = IF n \in new THEN o[n].prerequisites
                                              ELSE g.prerequisites[n]
      /\ \A f \in Fragment : h.packages[f] = IF f \in new THEN o[f].packages ELSE g.packages[f]
  BY <1>4, ParsedFields
<1>6. \A n \in Node : Required(h, n) = IF n \in new THEN o[n].complements \cup o[n].prerequisites
                                       ELSE Required(g, n)
  BY <1>4, ParsedRequired
<1> HIDE DEF h
<1> QED
  BY <1>2, <1>3, <1>5, <1>6 DEF P, g

\* BaseInv when a repository is visited: its state is there from now on.
LEMMA FetchRepoBase ==
  ASSUME BaseInv, NEW r \in Repo, NEW o \in Offers[r], FetchRepo(r, o)
  PROVE  BaseInv'
<1> DEFINE new == DOMAIN o \ cmd.parsed
<1>1. /\ cmd \in Command /\ db' \in Graph
      /\ VisitedNow(r, o)
      /\ NotFollowed(r) \/ FollowedNow(r)
  BY FetchRepoForm DEF BaseInv
<1>2. /\ Visiting /\ ~cmd.pruning /\ Called \subseteq db.repos
      /\ Called = {r} \cup CalledIn(Tail(cmd.calls))
  BY FetchingVisits DEF FetchRepo
<1>3. db \in Graph /\ Root \in Node /\ Root \notin new /\ cmd.parsed \subseteq Fragment
      /\ DOMAIN o \subseteq Fragment
  BY <1>1, RootApart, OffersTyped DEF BaseInv, TypeOK, Node, Command
<1>4. /\ db'.repos = db.repos \cup UNION {o[f].complements \cup o[f].prerequisites : f \in new}
      /\ db'.contains[r] = DOMAIN o
      /\ \A s \in Repo \ {r} : db'.contains[s] = db.contains[s]
      /\ db'.complements[Root] = db.complements[Root]
  BY <1>3, ParsedNow DEF BaseInv
<1>5. \A n \in Node : Required(db', n) = IF n \in new THEN o[n].complements \cup o[n].prerequisites
                                        ELSE Required(db, n)
  BY ParsedNow DEF BaseInv
<1>6. \A f \in cmd.parsed : Required(db, f) \subseteq db.repos
  BY <1>2 DEF BaseInv, CallsKnown
<1>7. \A f \in cmd.parsed \cup DOMAIN o : Required(db', f) \subseteq db'.repos
  <2>1. ASSUME NEW f \in cmd.parsed \cup DOMAIN o
        PROVE  Required(db', f) \subseteq db'.repos
    <3>1. f \in Node
      BY <1>3 DEF Node
    <3>2. CASE f \in new
      BY <1>4, <1>5, <3>1, <3>2
    <3>3. CASE f \notin new
      <4>1. f \in cmd.parsed
        BY <3>3
      <4>2. Required(db', f) = Required(db, f)
        BY <1>5, <3>1, <3>3
      <4> QED
        BY <1>4, <1>6, <4>1, <4>2
    <3> QED
      BY <3>2, <3>3
  <2> QED
    BY <2>1
<1>8. RequiredBy(db', r) \subseteq db'.repos
  BY <1>4, <1>7 DEF RequiredBy
<1>9. Called' \subseteq db'.repos
  BY <1>1, <1>2, <1>4, <1>8 DEF NotFollowed, FollowedNow
<1>10. cmd' # Idle /\ cmd' \in Command /\ ~cmd'.pruning /\ cmd'.op = "fetch" /\ cmd'.todo = cmd.todo
       /\ cmd'.parsed = cmd.parsed \cup DOMAIN o
  BY <1>1, <1>2, NotIdle DEF VisitedNow
<1>11. committed' = committed /\ states' = states \cup StatesOf({r}) /\ lost' = lost \ {StateOf[r]}
  BY DEF FetchRepo
<1>12. TypeOK'
  <2>1. StatesOf({r}) \subseteq State
    BY DEF StatesOf, State
  <2> QED
    BY <1>1, <1>10, <1>11, <2>1 DEF BaseInv, TypeOK
<1>13. Orphanless(committed)'
  BY <1>11 DEF BaseInv, Orphanless, Added
<1>14. Orphanless(db)'
  BY <1>2, <1>4 DEF BaseInv, Orphanless, Added
<1>15. Phases'
  BY <1>2, <1>10 DEF BaseInv, Phases, Visiting, Pruning
<1>16. CallsKnown'
  <2>1. \A f : Required(db, f)' = Required(db', f)
    BY DEF Required
  <2> QED
    BY <1>7, <1>9, <1>10, <2>1 DEF CallsKnown
<1>17. states \cup lost \subseteq states' \cup lost'
  BY <1>11 DEF BaseInv, TypeOK, State, StatesOf
<1>18. Needed(db') \subseteq states' \cup lost'
  <2>1. ASSUME NEW x \in db'.repos, db'.contains[x] # {}
        PROVE  StateOf[x] \in states' \cup lost' \/ StateOf[x] = NoState
    <3>1. x \in Repo
      BY <1>1, <2>1 DEF Graph
    <3>2. CASE x = r
      BY <1>11, <3>2 DEF StatesOf
    <3>3. CASE x # r
      <4>1. db.contains[x] # {}
        BY <1>4, <2>1, <3>1, <3>3
      <4>2. x \in db.repos
        BY <3>1, <4>1 DEF BaseInv, Orphanless
      <4>3. Needed(db) \subseteq states \cup lost
        BY <1>2 DEF BaseInv, StatesInv, Visiting
      <4> QED
        BY <1>17, <4>1, <4>2, <4>3, NeededAll
    <3> QED
      BY <3>2, <3>3
  <2> QED
    BY <2>1, NeededWithin
<1>19. Needed(committed') \subseteq states' \cup lost'
  BY <1>2, <1>11, <1>17 DEF BaseInv, StatesInv
<1>20. StatesInv'
  BY <1>10, <1>18, <1>19 DEF StatesInv, Needed, StatesOf
<1> QED
  BY <1>12, <1>13, <1>14, <1>15, <1>16, <1>20 DEF BaseInv

\* BaseInv when the removals start.
LEMMA StartPruningBase ==
  ASSUME BaseInv, StartPruning
  PROVE  BaseInv'
<1>1. /\ cmd \in Command /\ cmd.op = "fetch" /\ ~cmd.pruning
      /\ UNCHANGED <<committed, db, states, lost>>
      /\ cmd' \in Command /\ cmd'.op = "fetch" /\ cmd'.pruning /\ cmd'.calls = <<>>
  BY StartPruningForm DEF BaseInv
<1>2. cmd # Idle /\ Visiting
  BY <1>1, NotIdle DEF Visiting
<1>3. TypeOK'
  BY <1>1 DEF BaseInv, TypeOK
<1>4. Orphanless(committed)' /\ Orphanless(db)'
  BY <1>1 DEF BaseInv, Orphanless, Added
<1>5. Phases' /\ CallsKnown'
  BY <1>1 DEF Phases, CallsKnown, Visiting, Pruning
<1>6. StatesInv'
  <2>1. Needed(db)' = Needed(db)
    BY <1>1 DEF Needed, StatesOf
  <2> QED
    BY <1>1, <1>2, <2>1, NotIdle DEF BaseInv, StatesInv, Visiting
<1> QED
  BY <1>3, <1>4, <1>5, <1>6 DEF BaseInv

\* A task is done by a command that removes.
LEMMA RemovingPrunes ==
  ASSUME BaseInv, NEW kind, Removing(kind)
  PROVE  /\ cmd # Idle /\ cmd \in Command /\ Pruning /\ cmd.pruning
         /\ cmd.todo # <<>>
         /\ Needed(db) \subseteq states \cup lost
         /\ kind = "state" => cmd.op # "mask"
<1>1. cmd \in Command /\ cmd.todo # <<>> /\ cmd # Idle
  BY TaskTyped DEF BaseInv, Removing
<1>2. cmd.pruning
  BY <1>1 DEF BaseInv, Phases, Visiting
<1>3. ASSUME kind = "state" PROVE Queued("state") # {}
  BY <1>3, TaskTyped DEF BaseInv
<1> QED
  BY <1>1, <1>2, <1>3 DEF BaseInv, StatesInv, Pruning

\* BaseInv after a task that keeps the states that are needed.
LEMMA OnwardBase ==
  ASSUME BaseInv, NEW kind, Removing(kind), NEW tasks \in Seq(Task), Then(tasks),
         db' \in Graph, Orphanless(db'), committed' = committed, lost' = lost,
         states' \subseteq states, Needed(db') \subseteq states' \cup lost',
         cmd.op = "mask" => states' = states /\ QueuedIn("state", tasks) = {}
  PROVE  BaseInv'
<1>1. cmd # Idle /\ cmd \in Command /\ cmd.pruning /\ cmd.todo # <<>>
  BY RemovingPrunes
<1>2. /\ cmd' \in Command /\ cmd' # Idle
      /\ cmd'.op = cmd.op /\ (cmd'.pruning <=> cmd.pruning) /\ cmd'.calls = cmd.calls
      /\ \A k : QueuedIn(k, cmd'.todo) = QueuedIn(k, tasks) \cup QueuedIn(k, Tail(cmd.todo))
  BY <1>1, ThenForm, NotIdle
<1>3. TypeOK'
  BY <1>2 DEF BaseInv, TypeOK
<1>4. Orphanless(committed)' /\ Orphanless(db)'
  BY DEF BaseInv, Orphanless, Added
<1>5. Phases' /\ CallsKnown'
  BY <1>1, <1>2 DEF BaseInv, Phases, CallsKnown, Visiting, Pruning
<1>6. Queued("state")' = QueuedIn("state", tasks) \cup QueuedIn("state", Tail(cmd.todo))
  <2>1. Queued("state")' = QueuedIn("state", cmd'.todo)
    BY DEF Queued
  <2> QED
    BY <1>2, <2>1
<1>7. QueuedIn("state", Tail(cmd.todo)) \subseteq Queued("state")
  BY TaskTyped DEF BaseInv
<1>8. StatesInv'
  <2>1. Needed(db)' = Needed(db') /\ Needed(committed)' = Needed(committed)
    BY DEF Needed, StatesOf
  <2>2. ASSUME cmd.op = "mask"
        PROVE  Needed(committed) \subseteq states' \cup lost' /\ Queued("state")' = {}
    BY <1>1, <1>6, <1>7, <2>2 DEF BaseInv, StatesInv
  <2> QED
    BY <1>1, <1>2, <2>1, <2>2 DEF StatesInv, Visiting
<1> QED
  BY <1>3, <1>4, <1>5, <1>8 DEF BaseInv

\* BaseInv after a task with nothing to do.
LEMMA SkipBase ==
  ASSUME BaseInv, NEW kind, Removing(kind), Skip
  PROVE  BaseInv'
<1>1. db' = db /\ states' = states /\ committed' = committed /\ lost' = lost /\ Then(<<>>)
  BY DEF Skip
<1>2. <<>> \in Seq(Task) /\ QueuedIn("state", <<>>) = {}
  BY NothingCalled
<1>3. Needed(db) \subseteq states \cup lost
  BY RemovingPrunes
<1> QED
  BY <1>1, <1>2, <1>3, OnwardBase DEF BaseInv, TypeOK

\* BaseInv after the removal of a repository.
LEMMA RemoveRepoBase ==
  ASSUME BaseInv, RemoveRepo
  PROVE  BaseInv'
<1>1. /\ Removing("repo")
      /\ db' = EraseRepo(db, task.id)
      /\ committed' = committed /\ states' = states /\ lost' = lost
      /\ task.id \in db.repos \ Reachable(db)
  BY DEF RemoveRepo
<1>2. task.id \in Repo /\ db \in Graph /\ db.contains[task.id] \subseteq Fragment
  BY <1>1, TaskTyped DEF BaseInv, TypeOK, Graph
<1> DEFINE r == task.id
<1>3. /\ db' \in Graph
      /\ db'.repos = db.repos \ {r}
      /\ db'.contains[r] = {}
      /\ \A s \in Repo \ {r} : db'.contains[s] = db.contains[s]
      /\ db'.complements = db.complements
  BY <1>1, <1>2, EraseRepoFields
<1>4. Orphanless(db) /\ Added(db) \subseteq Repo
  BY <1>2 DEF BaseInv, Orphanless, Graph
<1>5. r \notin Added(db)
  BY <1>1, <1>2, <1>4, AddedReachable
<1>6. PICK fs \in SetToSeqs(db.contains[r]) :
        Then(Tasks("fragment", fs, FALSE)
             \o (IF cmd.op = "mask" THEN <<>> ELSE Tasks("state", <<r>>, FALSE)))
  BY DEF RemoveRepo
<1> DEFINE fragments == Tasks("fragment", fs, FALSE)
           state == IF cmd.op = "mask" THEN <<>> ELSE Tasks("state", <<r>>, FALSE)
           tasks == fragments \o state
<1>7. fragments \in Seq(Task) /\ QueuedIn("state", fragments) = {}
  BY <1>2, TasksOf
<1>8. state \in Seq(Task) /\ (cmd.op = "mask" => QueuedIn("state", state) = {})
  <2>1. CASE cmd.op = "mask"
    BY <2>1, NothingCalled
  <2>2. CASE cmd.op # "mask"
    BY <1>2, <2>2, TaskOfState
  <2> QED
    BY <2>1, <2>2
<1>9. Then(tasks)
  BY <1>6
<1> HIDE DEF fragments, state, r
<1>10. tasks \in Seq(Task) /\ (cmd.op = "mask" => QueuedIn("state", tasks) = {})
  BY <1>7, <1>8, TasksJoined
<1> HIDE DEF tasks
<1>11. Orphanless(db')
  BY <1>3, <1>4, <1>5 DEF Orphanless, Added
<1>12. Needed(db') \subseteq Needed(db)
  <2>1. ASSUME NEW x \in db'.repos, db'.contains[x] # {}
        PROVE  StateOf[x] \in Needed(db) \/ StateOf[x] = NoState
    <3>1. x \in db.repos /\ x \in Repo /\ x # r
      BY <1>2, <1>3, <2>1 DEF Graph
    <3> QED
      BY <1>3, <2>1, <3>1, NeededAll
  <2> QED
    BY <2>1, NeededWithin
<1>13. Needed(db) \subseteq states \cup lost
  BY <1>1, RemovingPrunes
<1> QED
  BY <1>1, <1>3, <1>9, <1>10, <1>11, <1>12, <1>13, OnwardBase

\* BaseInv after the removal of a state: no repository left needs it.
LEMMA RemoveStateBase ==
  ASSUME BaseInv, RemoveState
  PROVE  BaseInv'
<1>1. /\ Removing("state") /\ Then(<<>>)
      /\ committed' = committed /\ db' = db /\ lost' = lost
      /\ states' = IF \E r \in db.repos : StateOf[r] = StateOf[task.id] THEN states
                   ELSE states \ {StateOf[task.id]}
  BY DEF RemoveState
<1>2. <<>> \in Seq(Task) /\ QueuedIn("state", <<>>) = {}
  BY NothingCalled
<1>3. Needed(db) \subseteq states \cup lost /\ cmd.op # "mask"
  BY <1>1, RemovingPrunes
<1>4. Needed(db') \subseteq states' \cup lost'
  <2>1. ASSUME NEW x \in db.repos, db.contains[x] # {}
        PROVE  StateOf[x] \in states' \cup lost' \/ StateOf[x] = NoState
    BY <1>1, <1>3, <2>1, NeededAll
  <2> QED
    BY <1>1, <2>1, NeededWithin
<1> QED
  BY <1>1, <1>2, <1>3, <1>4, OnwardBase DEF BaseInv, TypeOK

\* BaseInv after the removal of a fragment.
LEMMA RemoveFragmentBase ==
  ASSUME BaseInv, RemoveFragment
  PROVE  BaseInv'
<1>1. /\ Removing("fragment")
      /\ db' = EraseFragment(IF cmd.op = "mask" THEN db ELSE ErasePackages(db, {task.id}),
                             task.id)
      /\ committed' = committed /\ states' = states /\ lost' = lost
  BY DEF RemoveFragment
<1>2. task.id \in Fragment /\ db \in Graph /\ Root \in Node /\ task.id # Root
  BY <1>1, TaskTyped, RootApart DEF BaseInv, TypeOK, Node
<1> DEFINE f == task.id
           g == IF cmd.op = "mask" THEN db ELSE ErasePackages(db, {f})
<1>3. g \in Graph /\ g.repos = db.repos /\ g.contains = db.contains
      /\ g.complements = db.complements
  BY <1>2, ErasePackagesFields
<1>4. db' = EraseFragment(g, f)
  BY <1>1
<1>5. f \in Fragment
  BY <1>2
<1> HIDE DEF g, f
<1>6. /\ db' \in Graph /\ db'.repos = g.repos /\ db'.contains = g.contains
      /\ \A n \in Node : db'.complements[n] = IF n = f THEN {} ELSE g.complements[n]
  BY <1>3, <1>4, <1>5, EraseFragmentFields
<1>7. db'.complements[Root] = db.complements[Root]
  BY <1>2, <1>3, <1>6 DEF f
<1>8. Orphanless(db')
  BY <1>3, <1>6, <1>7 DEF BaseInv, Orphanless, Added
<1>9. Needed(db') = Needed(db)
  BY <1>3, <1>6 DEF Needed
<1>10. PICK cs \in SetToSeqs(db.complements[task.id] \ {RootRepo}),
            ps \in SetToSeqs(db.prerequisites[task.id]) :
              Then(Tasks("repo", cs, TRUE) \o Tasks("repo", ps, TRUE))
  BY DEF RemoveFragment
<1>11. db.complements[task.id] \ {RootRepo} \in SUBSET Repo
       /\ db.prerequisites[task.id] \in SUBSET Repo
  BY <1>2 DEF Graph, Node
<1> DEFINE C == Tasks("repo", cs, TRUE)
           P == Tasks("repo", ps, TRUE)
           tasks == C \o P
<1>12. C \in Seq(Task) /\ QueuedIn("state", C) = {}
  BY <1>11, TasksOf
<1>13. P \in Seq(Task) /\ QueuedIn("state", P) = {}
  BY <1>11, TasksOf
<1>14. Then(tasks)
  BY <1>10
<1> HIDE DEF C, P
<1>15. tasks \in Seq(Task) /\ QueuedIn("state", tasks) = {}
  BY <1>12, <1>13, TasksJoined
<1> HIDE DEF tasks
<1>16. Needed(db) \subseteq states \cup lost
  BY <1>1, RemovingPrunes
<1> QED
  BY <1>1, <1>6, <1>8, <1>9, <1>14, <1>15, <1>16, OnwardBase

\* However a command fails, the states of what is left are there or known to be
\* missing.
LEMMA FailBase ==
  ASSUME BaseInv, RemoveFail \/ CheckFail \/ MaskDone \/ FetchFail \/ Kill
  PROVE  BaseInv'
<1>1. Needed(committed) \subseteq State /\ states \subseteq State /\ lost \subseteq State
  BY NeededTyped DEF BaseInv, TypeOK
<1>2. CASE RemoveFail
  <2>1. RollBack(FALSE, states, Needed(committed) \ states)
    BY <1>2 DEF RemoveFail
  <2> QED
    BY <1>1, <2>1, RollBackBase
<1>3. CASE CheckFail
  <2>1. RollBack(cmd.changed, states, Needed(committed) \ states)
    BY <1>3 DEF CheckFail
  <2> QED
    BY <1>1, <2>1, RollBackBase
<1>4. CASE MaskDone
  <2>1. RollBack(FALSE, states, lost) /\ Needed(committed) \subseteq states \cup lost
    BY <1>4 DEF MaskDone, Finished, BaseInv, StatesInv
  <2> QED
    BY <1>1, <2>1, RollBackBase
<1>5. CASE FetchFail
  <2>1. Needed(committed) \subseteq states \cup lost
    BY <1>5, FetchingVisits DEF FetchFail, BaseInv, StatesInv
  <2>2. CASE RollBack(cmd.changed, states, lost)
    BY <1>1, <2>1, <2>2, RollBackBase
  <2>3. CASE RollBack(Changed(call.repo), states \ {StateOf[call.repo]}, lost)
    <3>1. ~Changed(call.repo) => Needed(committed) \subseteq (states \ {StateOf[call.repo]}) \cup lost
      BY <2>1 DEF Changed
    <3>2. states \ {StateOf[call.repo]} \in SUBSET State /\ lost \in SUBSET State
      BY <1>1
    <3> QED
      BY <2>3, <3>1, <3>2, RollBackBase
  <2> QED
    BY <1>5, <2>2, <2>3 DEF FetchFail
<1>6. CASE Kill
  <2>1. PICK gone \in SUBSET (IF Fetching THEN {StateOf[call.repo]} ELSE {}) :
          RollBack(FALSE, states \ gone, Needed(committed) \ (states \ gone))
    BY <1>6 DEF Kill
  <2>2. states \ gone \in SUBSET State /\ Needed(committed) \ (states \ gone) \in SUBSET State
    BY <1>1
  <2> QED
    BY <2>1, <2>2, RollBackBase
<1> QED
  BY <1>2, <1>3, <1>4, <1>5, <1>6

\* BaseInv after a command that succeeds.
LEMMA CommitBase ==
  ASSUME BaseInv, Commit
  PROVE  BaseInv'
<1>1. cmd # Idle /\ committed' = db /\ db' = db /\ cmd' = Idle /\ states' = states /\ lost' = lost
  BY DEF Commit, Finished
<1>2. Needed(db) \subseteq states \cup lost
  BY <1>1 DEF BaseInv, StatesInv
<1>3. db \in Graph /\ Orphanless(db) /\ states \subseteq State /\ lost \subseteq State
  BY DEF BaseInv, TypeOK
<1>4. committed' \in Graph /\ Orphanless(committed') /\ Needed(committed') \subseteq states' \cup lost'
  BY <1>1, <1>2, <1>3
<1> QED
  BY <1>1, <1>3, <1>4, IdleThen

\* BaseInv when nothing happens.
LEMMA StutterBase ==
  ASSUME BaseInv, UNCHANGED vars
  PROVE  BaseInv'
BY DEF BaseInv, vars, TypeOK, Orphanless, Added, Phases, CallsKnown, StatesInv, Visiting,
       Pruning, Called, Queued, Needed, StatesOf, Required

\* BaseInv after any step.
LEMMA BaseStep ==
  ASSUME BaseInv, [Next]_vars
  PROVE  BaseInv'
<1>1. CASE RepAdd \/ RepFetchAll \/ RepFetch \/ RepRemove \/ RepMask \/ RepRemoveClean
  BY <1>1, RepAddBase, RepFetchBase, RemovalBase, CleanBase DEF RepRemoveClean
<1>2. CASE Proceed
  <2>1. CASE FetchAgain \/ StartPruning \/ RemoveRepo \/ RemoveState \/ RemoveFragment
             \/ RemoveFail \/ CheckFail \/ Commit \/ MaskDone
    BY <2>1, FetchAgainBase, StartPruningBase, RemoveRepoBase, RemoveStateBase,
       RemoveFragmentBase, FailBase, CommitBase
  <2>2. CASE \E r \in Repo : \E o \in Offers[r] : FetchRepo(r, o)
    BY <2>2, FetchRepoBase
  <2>3. CASE KeepRepo \/ KeepFragment
    BY <2>3, SkipBase DEF KeepRepo, KeepFragment
  <2> QED
    BY <1>2, <2>1, <2>2, <2>3 DEF Proceed
<1>3. CASE FetchFail \/ Kill
  BY <1>3, FailBase
<1>4. CASE UNCHANGED vars
  BY <1>4, StutterBase
<1> QED
  BY <1>1, <1>2, <1>3, <1>4 DEF Next

\* BaseInv holds throughout.
LEMMA SpecBase == Spec => []BaseInv
BY InitBase, BaseStep, PTL DEF Spec

\* The graphs and the command have the types declared for them.
THEOREM Typed == Spec => []TypeOK
<1>1. BaseInv => TypeOK
  BY DEF BaseInv
<1> QED
  BY <1>1, SpecBase, PTL

\* After every command, however it ended, the state of each fetched git
\* repository is there, or a failed or killed command is known to have left it
\* missing (rep_fetch(), rep_remove() and rep_remove_clean()).
THEOREM StatesKept == Spec => []StateKept
<1>1. BaseInv => StateKept
  BY DEF BaseInv, StatesInv, StateKept
<1> QED
  BY <1>1, SpecBase, PTL
-----------------------------------------------------------------------------
\* Pruning.

\* Graphs with the same fields are the same.
LEMMA GraphSame ==
  ASSUME NEW g \in Graph, NEW h \in Graph,
         g.repos = h.repos, g.fragments = h.fragments,
         \A r \in Repo : g.contains[r] = h.contains[r],
         \A n \in Node : g.complements[n] = h.complements[n],
         \A n \in Node : g.prerequisites[n] = h.prerequisites[n],
         \A f \in Fragment : g.packages[f] = h.packages[f]
  PROVE  g = h
<1>1. g.contains = h.contains
  BY DEF Graph
<1>2. g.complements = h.complements
  BY DEF Graph
<1>3. g.prerequisites = h.prerequisites
  BY DEF Graph
<1>4. g.packages = h.packages
  BY DEF Graph
<1> QED
  BY <1>1, <1>2, <1>3, <1>4 DEF Graph

\* What is left of a graph that is pruned.
LEMMA PrunedFields ==
  ASSUME NEW g \in Graph
  PROVE  LET kept == g.repos \cap Reachable(g)
             used == UNION {g.contains[r] : r \in kept} IN
         /\ Pruned(g) \in Graph
         /\ Pruned(g).repos = kept
         /\ \A r \in Repo : Pruned(g).contains[r] = IF r \in kept THEN g.contains[r] ELSE {}
         /\ Pruned(g).fragments = g.fragments \cap used
         /\ \A n \in Node : Pruned(g).complements[n]
                              = IF n \in used \cup {Root} THEN g.complements[n] ELSE {}
         /\ \A n \in Node : Pruned(g).prerequisites[n]
                              = IF n \in used THEN g.prerequisites[n] ELSE {}
         /\ \A f \in Fragment : Pruned(g).packages[f]
                                  = IF f \in used THEN g.packages[f] ELSE {}
<1> DEFINE kept == g.repos \cap Reachable(g)
           used == UNION {g.contains[r] : r \in kept}
           contains == [r \in Repo |-> IF r \in kept THEN g.contains[r] ELSE {}]
           complements == [n \in Node |-> IF n \in used \cup {Root} THEN g.complements[n] ELSE {}]
           prerequisites == [n \in Node |-> IF n \in used THEN g.prerequisites[n] ELSE {}]
           packages == [f \in Fragment |-> IF f \in used THEN g.packages[f] ELSE {}]
<1>1. kept \subseteq Repo
  BY DEF Graph
<1>2. contains \in [Repo -> SUBSET Fragment]
  BY DEF Graph
<1>3. complements \in [Node -> SUBSET (Repo \cup {RootRepo})]
  BY DEF Graph
<1>4. prerequisites \in [Node -> SUBSET Repo]
  BY DEF Graph
<1>5. packages \in [Fragment -> SUBSET Package]
  BY DEF Graph
<1>6. g.fragments \cap used \subseteq Fragment
  BY DEF Graph
<1>7. Pruned(g) = [repos |-> kept, contains |-> contains, fragments |-> g.fragments \cap used,
                   complements |-> complements, prerequisites |-> prerequisites,
                   packages |-> packages]
  BY DEF Pruned
<1> HIDE DEF kept, used, contains, complements, prerequisites, packages
<1>8. /\ Pruned(g) \in Graph
      /\ Pruned(g).repos = kept
      /\ Pruned(g).contains = contains
      /\ Pruned(g).fragments = g.fragments \cap used
      /\ Pruned(g).complements = complements
      /\ Pruned(g).prerequisites = prerequisites
      /\ Pruned(g).packages = packages
  BY <1>1, <1>2, <1>3, <1>4, <1>5, <1>6, <1>7 DEF Graph
<1> QED
  BY <1>8 DEF kept, used, contains, complements, prerequisites, packages

\* Only what can be reached matters.
LEMMA PrunedSame ==
  ASSUME NEW g \in Graph, NEW h \in Graph,
         Reachable(g) = Reachable(h),
         \A r \in Repo : r \in Reachable(g) =>
            (r \in g.repos <=> r \in h.repos) /\ g.contains[r] = h.contains[r],
         Added(g) = Added(h),
         \A r \in Repo : r \in Reachable(g) => \A f \in g.contains[r] :
            /\ f \in g.fragments <=> f \in h.fragments
            /\ g.complements[f] = h.complements[f]
            /\ g.prerequisites[f] = h.prerequisites[f]
            /\ g.packages[f] = h.packages[f]
  PROVE  Pruned(g) = Pruned(h)
<1> DEFINE kept == g.repos \cap Reachable(g)
           used == UNION {g.contains[r] : r \in kept}
<1>1. kept \subseteq Repo /\ h.repos \cap Reachable(h) \subseteq Repo
  BY DEF Graph
<1>2. kept = h.repos \cap Reachable(h)
  BY <1>1
<1>3. used = UNION {h.contains[r] : r \in h.repos \cap Reachable(h)}
  BY <1>1, <1>2
<1>4. \A f \in used : /\ f \in g.fragments <=> f \in h.fragments
                      /\ g.complements[f] = h.complements[f]
                      /\ g.prerequisites[f] = h.prerequisites[f]
                      /\ g.packages[f] = h.packages[f]
  BY <1>1
<1>5. \A r \in kept : g.contains[r] = h.contains[r]
  BY <1>1
<1>6. /\ Pruned(g) \in Graph
      /\ Pruned(g).repos = kept
      /\ \A r \in Repo : Pruned(g).contains[r] = IF r \in kept THEN g.contains[r] ELSE {}
      /\ Pruned(g).fragments = g.fragments \cap used
      /\ \A n \in Node : Pruned(g).complements[n]
                           = IF n \in used \cup {Root} THEN g.complements[n] ELSE {}
      /\ \A n \in Node : Pruned(g).prerequisites[n]
                           = IF n \in used THEN g.prerequisites[n] ELSE {}
      /\ \A f \in Fragment : Pruned(g).packages[f]
                               = IF f \in used THEN g.packages[f] ELSE {}
  BY PrunedFields
<1>7. /\ Pruned(h) \in Graph
      /\ Pruned(h).repos = kept
      /\ \A r \in Repo : Pruned(h).contains[r] = IF r \in kept THEN h.contains[r] ELSE {}
      /\ Pruned(h).fragments = h.fragments \cap used
      /\ \A n \in Node : Pruned(h).complements[n]
                           = IF n \in used \cup {Root} THEN h.complements[n] ELSE {}
      /\ \A n \in Node : Pruned(h).prerequisites[n]
                           = IF n \in used THEN h.prerequisites[n] ELSE {}
      /\ \A f \in Fragment : Pruned(h).packages[f]
                               = IF f \in used THEN h.packages[f] ELSE {}
  <2> DEFINE kept2 == h.repos \cap Reachable(h)
             used2 == UNION {h.contains[r] : r \in kept2}
  <2>1. /\ Pruned(h) \in Graph
        /\ Pruned(h).repos = kept2
        /\ \A r \in Repo : Pruned(h).contains[r] = IF r \in kept2 THEN h.contains[r] ELSE {}
        /\ Pruned(h).fragments = h.fragments \cap used2
        /\ \A n \in Node : Pruned(h).complements[n]
                             = IF n \in used2 \cup {Root} THEN h.complements[n] ELSE {}
        /\ \A n \in Node : Pruned(h).prerequisites[n]
                             = IF n \in used2 THEN h.prerequisites[n] ELSE {}
        /\ \A f \in Fragment : Pruned(h).packages[f]
                                 = IF f \in used2 THEN h.packages[f] ELSE {}
    BY PrunedFields
  <2>2. kept2 = kept /\ used2 = used
    BY <1>2, <1>3
  <2> HIDE DEF kept, used, kept2, used2
  <2> QED
    BY <2>1, <2>2
<1>8. g.complements[Root] = h.complements[Root]
  BY DEF Added
<1> HIDE DEF kept, used
<1>9. Pruned(g).fragments = Pruned(h).fragments
  BY <1>4, <1>6, <1>7
<1>10. \A r \in Repo : Pruned(g).contains[r] = Pruned(h).contains[r]
  BY <1>5, <1>6, <1>7
<1>11. \A n \in Node : Pruned(g).complements[n] = Pruned(h).complements[n]
  BY <1>4, <1>6, <1>7, <1>8
<1>12. \A n \in Node : Pruned(g).prerequisites[n] = Pruned(h).prerequisites[n]
  BY <1>4, <1>6, <1>7
<1>13. \A f \in Fragment : Pruned(g).packages[f] = Pruned(h).packages[f]
  BY <1>4, <1>6, <1>7
<1>14. Pruned(g) \in Graph /\ Pruned(h) \in Graph /\ Pruned(g).repos = Pruned(h).repos
  BY <1>6, <1>7
<1> QED
  BY <1>9, <1>10, <1>11, <1>12, <1>13, <1>14, GraphSame

\* A tidy graph has nothing to prune.
LEMMA TidyPruned ==
  ASSUME NEW g \in Graph, Tidy(g)
  PROVE  Pruned(g) = g /\ Reachable(g) = g.repos
<1> DEFINE kept == g.repos \cap Reachable(g)
           used == UNION {g.contains[r] : r \in kept}
<1>1. kept = g.repos /\ Reachable(g) = g.repos /\ g.repos \subseteq Repo
  BY DEF Tidy, Shape, Graph
<1>2. \A r \in Repo \ kept : g.contains[r] = {}
  BY <1>1 DEF Tidy, Shape
<1>3. used = g.fragments
  <2>1. used \subseteq g.fragments
    BY <1>1 DEF Tidy, Shape
  <2>2. ASSUME NEW f \in g.fragments
        PROVE  f \in used
    <3>1. PICK r \in Repo : f \in g.contains[r]
      BY DEF Tidy, InUse
    <3>2. r \in kept
      BY <1>2, <3>1
    <3> QED
      BY <3>1, <3>2
  <2> QED
    BY <2>1, <2>2
<1>4. /\ Pruned(g) \in Graph
      /\ Pruned(g).repos = kept
      /\ \A r \in Repo : Pruned(g).contains[r] = IF r \in kept THEN g.contains[r] ELSE {}
      /\ Pruned(g).fragments = g.fragments \cap used
      /\ \A n \in Node : Pruned(g).complements[n]
                           = IF n \in used \cup {Root} THEN g.complements[n] ELSE {}
      /\ \A n \in Node : Pruned(g).prerequisites[n]
                           = IF n \in used THEN g.prerequisites[n] ELSE {}
      /\ \A f \in Fragment : Pruned(g).packages[f]
                               = IF f \in used THEN g.packages[f] ELSE {}
  BY PrunedFields
<1> HIDE DEF kept, used
<1>5. \A f \in Fragment \ used :
        g.complements[f] = {} /\ g.prerequisites[f] = {} /\ g.packages[f] = {}
  BY <1>3 DEF Tidy, Shape
<1>6. g.prerequisites[Root] = {}
  BY DEF Tidy, Shape
<1>7. Pruned(g).fragments = g.fragments
  BY <1>3, <1>4
<1>8. \A r \in Repo : Pruned(g).contains[r] = g.contains[r]
  BY <1>2, <1>4
<1>9. \A n \in Node : Pruned(g).complements[n] = g.complements[n]
  BY <1>4, <1>5 DEF Node
<1>10. \A n \in Node : Pruned(g).prerequisites[n] = g.prerequisites[n]
  BY <1>4, <1>5, <1>6 DEF Node
<1>11. \A f \in Fragment : Pruned(g).packages[f] = g.packages[f]
  BY <1>4, <1>5
<1>12. Pruned(g) = g
  BY <1>1, <1>4, <1>7, <1>8, <1>9, <1>10, <1>11, GraphSame
<1> QED
  BY <1>1, <1>12

\* What a repository requires depends on its fragments only.
LEMMA RequiredBySame ==
  ASSUME NEW g, NEW h, NEW r \in Repo, g.contains[r] = h.contains[r],
         \A f \in g.contains[r] : /\ g.complements[f] = h.complements[f]
                                  /\ g.prerequisites[f] = h.prerequisites[f]
  PROVE  RequiredBy(g, r) = RequiredBy(h, r)
BY DEF RequiredBy, Required

\* What can be reached depends on what was added and on what is required.
LEMMA ReachableSame ==
  ASSUME NEW g, NEW h, Added(g) = Added(h),
         \A r \in Repo : RequiredBy(g, r) = RequiredBy(h, r)
  PROVE  Reachable(g) = Reachable(h)
BY FromSame, ReachableIsFrom

\* What a pruned graph keeps of a repository is as it was.
LEMMA PrunedKeeps ==
  ASSUME NEW g \in Graph, NEW r \in g.repos \cap Reachable(g)
  PROVE  /\ Pruned(g).contains[r] = g.contains[r]
         /\ \A f \in g.contains[r] : /\ Pruned(g).complements[f] = g.complements[f]
                                     /\ Pruned(g).prerequisites[f] = g.prerequisites[f]
                                     /\ Pruned(g).packages[f] = g.packages[f]
         /\ RequiredBy(Pruned(g), r) = RequiredBy(g, r)
<1> DEFINE kept == g.repos \cap Reachable(g)
           used == UNION {g.contains[s] : s \in kept}
           h == Pruned(g)
<1>1. /\ \A s \in Repo : h.contains[s] = IF s \in kept THEN g.contains[s] ELSE {}
      /\ \A n \in Node : h.complements[n]
                           = IF n \in used \cup {Root} THEN g.complements[n] ELSE {}
      /\ \A n \in Node : h.prerequisites[n]
                           = IF n \in used THEN g.prerequisites[n] ELSE {}
      /\ \A f \in Fragment : h.packages[f]
                               = IF f \in used THEN g.packages[f] ELSE {}
  BY PrunedFields
<1>2. r \in Repo /\ r \in kept /\ g.contains[r] \subseteq Fragment /\ g.contains[r] \subseteq used
      /\ Fragment \subseteq Node
  BY DEF Graph, Node
<1> HIDE DEF kept, used, h
<1>3. /\ h.contains[r] = g.contains[r]
      /\ \A f \in g.contains[r] : /\ h.complements[f] = g.complements[f]
                                  /\ h.prerequisites[f] = g.prerequisites[f]
                                  /\ h.packages[f] = g.packages[f]
  BY <1>1, <1>2
<1>4. RequiredBy(h, r) = RequiredBy(g, r)
  BY <1>2, <1>3, RequiredBySame
<1> QED
  BY <1>3, <1>4 DEF h

\* What can be reached stays as published.
LEMMA PublishedPruned ==
  ASSUME NEW g \in Graph, NEW P,
         \A r \in g.repos \cap Reachable(g) : g.contains[r] # {} => Published(g, r, P)
  PROVE  PublishedIn(Pruned(g), P)
<1> SUFFICES ASSUME NEW r \in Repo, Pruned(g).contains[r] # {}
             PROVE  Published(Pruned(g), r, P)
  BY DEF PublishedIn
<1>1. r \in g.repos \cap Reachable(g)
  BY PrunedFields
<1> DEFINE h == Pruned(g)
<1>2. /\ h.contains[r] = g.contains[r]
      /\ \A f \in g.contains[r] : /\ h.complements[f] = g.complements[f]
                                  /\ h.prerequisites[f] = g.prerequisites[f]
                                  /\ h.packages[f] = g.packages[f]
  BY <1>1, PrunedKeeps
<1>3. Published(g, r, P)
  BY <1>1, <1>2
<1> HIDE DEF h
<1>4. Published(h, r, P)
  BY <1>2, <1>3 DEF Published
<1> QED
  BY <1>4 DEF h
-----------------------------------------------------------------------------
\* Between commands.

\* A repository that is added is all that can be reached besides.
LEMMA AddReachable ==
  ASSUME NEW g \in Graph, NEW R \in SUBSET Repo, Tidy(g), Orphanless(g)
  PROVE  /\ Reachable(AddRepos(g, R)) = Reachable(g) \cup R
         /\ \A r \in Repo : RequiredBy(AddRepos(g, R), r) = RequiredBy(g, r)
<1> DEFINE h == AddRepos(g, R)
<1>1. /\ h \in Graph /\ h.contains = g.contains
      /\ h.complements[Root] = g.complements[Root] \cup R
      /\ \A f \in Fragment : h.complements[f] = g.complements[f]
      /\ h.prerequisites = g.prerequisites
  BY AddFields
<1> HIDE DEF h
<1>2. \A r \in Repo : RequiredBy(h, r) = RequiredBy(g, r)
  <2>1. ASSUME NEW r \in Repo
        PROVE  RequiredBy(h, r) = RequiredBy(g, r)
    <3>1. h.contains[r] \subseteq Fragment
      BY <1>1 DEF Graph
    <3> QED
      BY <1>1, <3>1, RequiredBySame
  <2> QED
    BY <2>1
<1>3. Added(h) = Added(g) \cup R
  BY <1>1 DEF Added
<1>4. Reachable(g) \subseteq g.repos /\ g.repos \subseteq Reachable(g) /\ g.repos \subseteq Repo
  BY DEF Tidy, Shape, Graph
<1>5. Added(g) \subseteq Repo
  BY <1>4 DEF Orphanless
<1>6. Closed(g, Reachable(g)) /\ Added(g) \subseteq Reachable(g)
  BY <1>5, ReachableClosed
<1>7. \A r \in R \ Reachable(g) : RequiredBy(g, r) = {}
  <2>1. ASSUME NEW r \in R \ Reachable(g)
        PROVE  RequiredBy(g, r) = {}
    <3>1. g.contains[r] = {}
      BY <1>4 DEF Orphanless
    <3> QED
      BY <3>1 DEF RequiredBy
  <2> QED
    BY <2>1
<1>8. Closed(h, Reachable(g) \cup R)
  BY <1>2, <1>4, <1>6, <1>7 DEF Closed
<1>9. Reachable(h) \subseteq Reachable(g) \cup R
  BY <1>3, <1>4, <1>6, <1>8, ReachableLeast
<1>10. Added(h) \subseteq Repo
  BY <1>3, <1>5
<1>11. Reachable(h) \subseteq Repo /\ Added(h) \subseteq Reachable(h) /\ Closed(h, Reachable(h))
  BY <1>1, <1>10, ReachableClosed
<1>12. Closed(g, Reachable(h))
  BY <1>2, <1>11 DEF Closed
<1>13. Reachable(g) \subseteq Reachable(h)
  BY <1>3, <1>11, <1>12, ReachableLeast
<1> QED
  BY <1>2, <1>3, <1>9, <1>11, <1>13 DEF h

\* Being as published depends on the fragments of a repository only.
LEMMA PublishedSame ==
  ASSUME NEW g, NEW h, NEW r, NEW P, Published(g, r, P),
         h.contains[r] = g.contains[r],
         \A f \in g.contains[r] : /\ h.complements[f] = g.complements[f]
                                  /\ h.prerequisites[f] = g.prerequisites[f]
                                  /\ f \in P => h.packages[f] = g.packages[f]
  PROVE  Published(h, r, P)
BY DEF Published

\* rep-add keeps a graph tidy and as published.
LEMMA AddTidy ==
  ASSUME NEW g \in Graph, NEW R \in SUBSET Repo, Tidy(g), Orphanless(g),
         NEW P, PublishedIn(g, P)
  PROVE  Tidy(AddRepos(g, R)) /\ PublishedIn(AddRepos(g, R), P)
<1> DEFINE h == AddRepos(g, R)
<1>1. /\ h \in Graph /\ h.contains = g.contains
      /\ h.repos = g.repos \cup R
      /\ h.fragments = g.fragments
      /\ \A f \in Fragment : h.complements[f] = g.complements[f]
      /\ h.prerequisites = g.prerequisites
      /\ h.packages = g.packages
  BY AddFields
<1>2. Reachable(h) = Reachable(g) \cup R
  BY AddReachable
<1> HIDE DEF h
<1>3. Shape(h)
  BY <1>1, <1>2 DEF Tidy, Shape
<1>4. Tidy(h)
  BY <1>1, <1>2, <1>3 DEF Tidy, InUse
<1>5. PublishedIn(h, P)
  <2>1. ASSUME NEW r \in Repo, h.contains[r] # {}
        PROVE  Published(h, r, P)
    <3>1. Published(g, r, P) /\ g.contains[r] \subseteq Fragment
      BY <1>1, <2>1 DEF PublishedIn, Graph
    <3> QED
      BY <1>1, <3>1, PublishedSame
  <2> QED
    BY <2>1 DEF PublishedIn
<1> QED
  BY <1>4, <1>5 DEF h

\* Cleaning makes it so.
LEMMA CleanedTidy ==
  ASSUME NEW g \in Graph, Orphanless(g), NEW P
  PROVE  Tidy(Cleaned(g)) /\ PublishedIn(Cleaned(g), P)
<1> DEFINE h == Cleaned(g)
<1>1. /\ h \in Graph
      /\ h.repos = g.repos \cap Added(g)
      /\ \A r \in Repo : h.contains[r] = {}
      /\ h.fragments = {}
      /\ h.complements[Root] = Added(g)
      /\ \A f \in Fragment : h.complements[f] = {}
      /\ \A n \in Node : h.prerequisites[n] = {}
      /\ \A f \in Fragment : h.packages[f] = {}
  BY CleanedFields
<1>2. Added(g) \subseteq g.repos /\ g.repos \subseteq Repo /\ Root \in Node
      /\ Fragment \subseteq Node
  BY DEF Orphanless, Graph, Node
<1> HIDE DEF h
<1>3. h.repos = Added(h) /\ Added(h) \in SUBSET Repo
  BY <1>1, <1>2 DEF Added
<1>4. \A r \in Repo : RequiredBy(h, r) = {}
  BY <1>1 DEF RequiredBy
<1>5. Closed(h, Added(h))
  BY <1>3, <1>4 DEF Closed
<1>6. Reachable(h) \subseteq Added(h) /\ Added(h) \subseteq Reachable(h)
  BY <1>1, <1>3, <1>5, ReachableLeast, ReachableClosed
<1>7. Shape(h)
  BY <1>1, <1>2, <1>3, <1>6 DEF Shape
<1>8. Tidy(h)
  BY <1>1, <1>3, <1>6, <1>7 DEF Tidy
<1>9. PublishedIn(h, P)
  BY <1>1 DEF PublishedIn
<1> QED
  BY <1>8, <1>9 DEF h

\* With no command running the committed graph is all there is to see to.
LEMMA IdleGraph ==
  ASSUME Tidy(committed'), PublishedIn(committed', Whole), cmd' = Idle
  PROVE  GraphInv'
<1>1. Tidy(committed)'
  BY DEF Tidy, Shape, InUse, Reachable, Added, RequiredBy, Required
<1>2. PublishedIn(committed, Whole)'
  BY DEF PublishedIn, Published, Whole
<1> QED
  BY <1>1, <1>2 DEF GraphInv, Visiting, Pruning

\* GraphInv after a clean-up.
LEMMA CleanGraph ==
  ASSUME BaseInv, GraphInv, Clean, cmd' = Idle
  PROVE  GraphInv'
<1>1. committed \in Graph /\ Orphanless(committed) /\ committed' = Cleaned(committed)
  BY DEF BaseInv, TypeOK, Clean
<1>2. Tidy(committed') /\ PublishedIn(committed', Whole)
  BY <1>1, CleanedTidy
<1> QED
  BY <1>2, IdleGraph

\* GraphInv after a failure.
LEMMA RollBackGraph ==
  ASSUME BaseInv, GraphInv, NEW changed, NEW left, NEW missing, RollBack(changed, left, missing)
  PROVE  GraphInv'
<1>1. CASE changed
  BY <1>1, CleanGraph DEF RollBack
<1>2. CASE ~changed
  <2>1. Tidy(committed') /\ PublishedIn(committed', Whole) /\ cmd' = Idle
    BY <1>2 DEF RollBack, GraphInv
  <2> QED
    BY <2>1, IdleGraph
<1> QED
  BY <1>1, <1>2

\* GraphInv whenever a command fails or is killed.
LEMMA FailGraph ==
  ASSUME BaseInv, GraphInv, RemoveFail \/ CheckFail \/ MaskDone \/ FetchFail \/ Kill
  PROVE  GraphInv'
<1>1. \E changed, left, missing : RollBack(changed, left, missing)
  BY DEF RemoveFail, CheckFail, MaskDone, FetchFail, Kill
<1> QED
  BY <1>1, RollBackGraph

\* GraphInv after rep-add.
LEMMA RepAddGraph ==
  ASSUME BaseInv, GraphInv, RepAdd
  PROVE  GraphInv'
<1>1. PICK r \in Repo : committed' = AddRepos(committed, {r})
  BY DEF RepAdd
<1>2. committed \in Graph /\ Orphanless(committed)
      /\ Tidy(committed) /\ PublishedIn(committed, Whole)
  BY DEF BaseInv, TypeOK, GraphInv
<1>3. Tidy(committed') /\ PublishedIn(committed', Whole)
  BY <1>1, <1>2, AddTidy
<1>4. cmd' = Idle
  BY DEF RepAdd
<1> QED
  BY <1>3, <1>4, IdleGraph

\* The empty graph is tidy.
LEMMA EmptyTidy == Tidy(EmptyGraph) /\ PublishedIn(EmptyGraph, Whole)
<1> DEFINE h == EmptyGraph
<1>1. /\ h \in Graph
      /\ h.repos = {}
      /\ \A r \in Repo : h.contains[r] = {}
      /\ h.fragments = {}
      /\ \A n \in Node : h.complements[n] = {}
      /\ \A n \in Node : h.prerequisites[n] = {}
      /\ \A f \in Fragment : h.packages[f] = {}
  BY EmptyFields DEF EmptyGraph
<1>2. Root \in Node /\ Fragment \subseteq Node
  BY DEF Node
<1> HIDE DEF h
<1>3. Added(h) = {}
  BY <1>1, <1>2 DEF Added
<1>4. Closed(h, {})
  BY DEF Closed
<1>5. Reachable(h) = {}
  BY <1>3, <1>4, ReachableLeast
<1>6. Shape(h)
  BY <1>1, <1>2, <1>5 DEF Shape
<1>7. Tidy(h)
  BY <1>1, <1>6 DEF Tidy
<1>8. PublishedIn(h, Whole)
  BY <1>1 DEF PublishedIn
<1> QED
  BY <1>7, <1>8 DEF h

\* GraphInv at first.
LEMMA InitGraph == Init => GraphInv
BY EmptyTidy DEF Init, GraphInv, Visiting, Pruning
-----------------------------------------------------------------------------
\* A command starts.

\* In a tidy graph whatever is required is there.
LEMMA TidyRequires ==
  ASSUME NEW g \in Graph, Tidy(g), Orphanless(g), NEW r \in Repo
  PROVE  RequiredBy(g, r) \subseteq g.repos
<1>1. Closed(g, Reachable(g)) /\ Reachable(g) = g.repos
  BY ReachableClosed, TidyPruned DEF Orphanless, Graph
<1>2. CASE r \in g.repos
  BY <1>1, <1>2 DEF Closed
<1>3. CASE r \notin g.repos
  BY <1>3 DEF Orphanless, RequiredBy
<1> QED
  BY <1>2, <1>3

\* Until it visits something it is enough to look at the graph it starts with.
LEMMA StartVisiting ==
  ASSUME BaseInv, GraphInv, NEW R \in SUBSET Repo, NEW g \in Graph, NEW shallow \in BOOLEAN,
         StartFetch(R, g, shallow),
         Shape(g), g.contains = committed.contains, g.fragments = committed.fragments,
         committed.repos \subseteq g.repos, g.repos \subseteq committed.repos \cup R,
         Added(g) = Added(committed) \cup R,
         \A f \in Fragment : /\ g.complements[f] = committed.complements[f]
                             /\ g.prerequisites[f] = committed.prerequisites[f],
         \/ g.packages = committed.packages
         \/ /\ \A f \in Fragment : g.packages[f] = {}
            /\ ShallowAll \/ (~shallow /\ Added(g) \subseteq R)
  PROVE  GraphInv'
<1>1. /\ R # {}
      /\ db' = g /\ committed' = committed
      /\ cmd' \in Command
      /\ cmd'.op = "fetch" /\ cmd'.args = R /\ ~cmd'.pruning
      /\ cmd'.fetched = {} /\ cmd'.removed = {} /\ cmd'.parsed = {} /\ cmd'.dangling = {}
      /\ Called' = R
      /\ ShallowIn(cmd'.calls) = IF shallow THEN R ELSE {}
  <2>1. R \in SUBSET Repo /\ shallow \in BOOLEAN /\ StartFetch(R, g, shallow)
    OBVIOUS
  <2> QED
    BY ONLY <2>1, StartFetchForm
<1>2. committed \in Graph /\ Orphanless(committed) /\ Tidy(committed)
      /\ PublishedIn(committed, Whole)
  BY DEF BaseInv, TypeOK, GraphInv
<1>3. (Tidy(committed) /\ PublishedIn(committed, Whole))'
  BY <1>1, <1>2 DEF Tidy, Shape, InUse, Reachable, Added, RequiredBy, Required, PublishedIn,
                    Published, Whole
<1>4. Shape(db)'
  BY <1>1 DEF Shape, Reachable, Added, RequiredBy, Required
<1>5. Supported'
  BY <1>1 DEF Supported, Supporting, Added
<1>6. Unvisited'
  BY <1>1 DEF Unvisited, Added
<1>7. Visited'
  <2>1. \A r \in Repo : RequiredBy(g, r) \subseteq g.repos
    <3>1. ASSUME NEW r \in Repo
          PROVE  RequiredBy(g, r) \subseteq g.repos
      <4>1. g.contains[r] \subseteq Fragment
        BY DEF Graph
      <4>2. RequiredBy(g, r) = RequiredBy(committed, r)
        BY <4>1, RequiredBySame
      <4> QED
        BY <1>2, <4>2, TidyRequires
    <3> QED
      BY <3>1
  <2>2. \A r \in Repo : RequiredBy(db', r) \subseteq db'.repos
    BY <1>1, <2>1
  <2> QED
    BY <1>1, <2>2 DEF Visited, RequiredBy, Required
<1>8. Remembered'
  BY <1>1, <1>2 DEF Remembered, InUse, Tidy
<1>9. AllFollowed'
  BY <1>1 DEF AllFollowed, Followed
<1>10. (PackagesKept \/ PackagesErased)'
  BY <1>1 DEF PackagesKept, PackagesErased, AllVisited, Added
<1> QED
  BY <1>1, <1>3, <1>4, <1>5, <1>6, <1>7, <1>8, <1>9, <1>10 DEF GraphInv, VisitInv, Visiting, Pruning

\* GraphInv when rep-fetch starts, with or without arguments.
LEMMA RepFetchGraph ==
  ASSUME BaseInv, GraphInv, RepFetchAll \/ RepFetch
  PROVE  GraphInv'
<1>1. committed \in Graph /\ Orphanless(committed) /\ Tidy(committed)
      /\ PublishedIn(committed, Whole)
  BY DEF BaseInv, TypeOK, GraphInv
<1>2. Added(committed) \subseteq committed.repos /\ committed.repos \subseteq Repo
  BY <1>1 DEF Orphanless, Graph
<1>3. CASE RepFetchAll
  <2>1. PICK shallow \in {FALSE, ShallowAll} :
          StartFetch(Added(committed), ErasePackages(committed, Fragment), shallow)
    BY <1>3 DEF RepFetchAll
  <2> DEFINE g == ErasePackages(committed, Fragment)
  <2>2. /\ g \in Graph /\ g.repos = committed.repos /\ g.contains = committed.contains
        /\ g.fragments = committed.fragments
        /\ g.complements = committed.complements
        /\ g.prerequisites = committed.prerequisites
        /\ \A f \in Fragment : g.packages[f] = {}
    BY <1>1, ErasePackagesFields
  <2>3. shallow \in BOOLEAN /\ (shallow => ShallowAll)
    <3>1. shallow \in BOOLEAN
      BY CommandsAssumption
    <3>2. CASE shallow = FALSE
      BY <3>2
    <3>3. CASE shallow = ShallowAll
      BY <3>1, <3>3
    <3> QED
      BY <3>1, <3>2, <3>3
  <2>4. StartFetch(Added(committed), g, shallow)
    BY <2>1
  <2> HIDE DEF g
  <2>5. Added(g) = Added(committed) /\ \A r \in Repo : RequiredBy(g, r) = RequiredBy(committed, r)
    BY <2>2 DEF Added, RequiredBy, Required
  <2>6. Reachable(g) = Reachable(committed)
    BY <2>5, ReachableSame
  <2>7. Shape(g)
    BY <1>1, <2>2, <2>6 DEF Tidy, Shape
  <2> QED
    BY <1>2, <2>2, <2>3, <2>4, <2>5, <2>7, StartVisiting
<1>4. CASE RepFetch
  <2>1. PICK R \in Arguments(Repo), shallow \in BOOLEAN :
          StartFetch(R, AddRepos(committed, R), shallow)
    BY <1>4 DEF RepFetch
  <2>2. R \in SUBSET Repo
    BY DEF Arguments
  <2> DEFINE g == AddRepos(committed, R)
  <2>3. /\ g \in Graph /\ g.repos = committed.repos \cup R /\ g.contains = committed.contains
        /\ g.fragments = committed.fragments
        /\ g.complements[Root] = committed.complements[Root] \cup R
        /\ \A f \in Fragment : g.complements[f] = committed.complements[f]
        /\ g.prerequisites = committed.prerequisites
        /\ g.packages = committed.packages
    BY <1>1, <2>2, AddFields
  <2>4. StartFetch(R, g, shallow)
    BY <2>1
  <2>5. Shape(g)
    BY <1>1, <2>2, AddTidy DEF Tidy
  <2> HIDE DEF g
  <2>6. Added(g) = Added(committed) \cup R
    BY <2>3 DEF Added
  <2> QED
    BY <2>2, <2>3, <2>4, <2>5, <2>6, StartVisiting
<1> QED
  BY <1>3, <1>4

\* GraphInv when rep-remove starts.
LEMMA RepRemoveGraph ==
  ASSUME BaseInv, GraphInv, RepRemove
  PROVE  GraphInv'
<1>1. committed \in Graph /\ Orphanless(committed) /\ Tidy(committed)
      /\ PublishedIn(committed, Whole)
  BY DEF BaseInv, TypeOK, GraphInv
<1>2. PICK R \in Arguments(Added(committed)) \cup {Added(committed)} :
        StartRemove("remove", R, Unreference(committed, R, {Root}))
  BY DEF RepRemove
<1>3. R \subseteq Added(committed) /\ Added(committed) \subseteq committed.repos
      /\ committed.repos \subseteq Repo
  BY <1>1 DEF Arguments, Orphanless, Graph
<1> DEFINE g == Unreference(committed, R, {Root})
<1>4. /\ g \in Graph
      /\ g.repos = committed.repos
      /\ g.contains = committed.contains
      /\ g.fragments = committed.fragments
      /\ \A n \in Node : g.complements[n] = IF n \in {Root} THEN committed.complements[n] \ R
                                            ELSE committed.complements[n]
      /\ \A n \in Node : g.prerequisites[n] = IF n \in {Root} THEN committed.prerequisites[n] \ R
                                              ELSE committed.prerequisites[n]
      /\ g.packages = committed.packages
  <2>1. R \in SUBSET Repo /\ {Root} \in SUBSET Node
    BY <1>3 DEF Node
  <2> QED
    BY <1>1, <2>1, UnreferenceFields
<1>5. StartRemove("remove", R, g)
  BY <1>2
<1> HIDE DEF g
<1>6. R \in SUBSET Repo
  BY <1>3
<1>7. /\ db' = g /\ committed' = committed
      /\ cmd' \in Command /\ cmd'.op = "remove" /\ cmd'.args = R /\ cmd'.pruning
      /\ \A k : QueuedIn(k, cmd'.todo) = IF k = "repo" THEN R ELSE {}
  BY <1>5, <1>6, StartRemoveForm
<1>8. Root \in Node /\ Fragment \subseteq Node /\ \A f \in Fragment : f # Root
  BY RootApart DEF Node
<1>9. /\ g.complements[Root] = committed.complements[Root] \ R
      /\ g.prerequisites[Root] = committed.prerequisites[Root] \ R
      /\ \A f \in Fragment : /\ g.complements[f] = committed.complements[f]
                             /\ g.prerequisites[f] = committed.prerequisites[f]
  BY <1>4, <1>8
<1>10. Added(g) = Added(committed) \ R
  BY <1>9 DEF Added
<1>11. \A r \in Repo : RequiredBy(g, r) = RequiredBy(committed, r)
  <2>1. ASSUME NEW r \in Repo
        PROVE  RequiredBy(g, r) = RequiredBy(committed, r)
    <3>1. g.contains[r] \subseteq Fragment
      BY <1>4 DEF Graph
    <3> QED
      BY <1>4, <1>9, <3>1, RequiredBySame
  <2> QED
    BY <2>1
<1>12. Reachable(committed) = Reachable(g) \cup From(g, R)
  <2>1. Reachable(committed) = From(g, Added(committed))
    BY <1>11, FromSame, ReachableIsFrom
  <2>2. Added(committed) = Added(g) \cup R
    BY <1>3, <1>10
  <2>3. Added(g) \in SUBSET Repo
    BY <1>3, <1>10
  <2> QED
    BY <1>4, <1>6, <2>1, <2>2, <2>3, FromUnion, ReachableIsFrom
<1>13. Shape(g)
  BY <1>1, <1>4, <1>9, <1>12 DEF Tidy, Shape
<1>14. \A P : PublishedIn(committed, P) => PublishedIn(g, P)
  <2>1. ASSUME NEW P, PublishedIn(committed, P), NEW r \in Repo, g.contains[r] # {}
        PROVE  Published(g, r, P)
    <3>1. Published(committed, r, P) /\ committed.contains[r] \subseteq Fragment
      BY <1>1, <1>4, <2>1 DEF PublishedIn, Graph
    <3> QED
      BY <1>4, <1>9, <3>1, PublishedSame
  <2> QED
    BY <2>1 DEF PublishedIn
<1>15. PublishedIn(g, Whole) /\ PublishedIn(g, {})
  <2>1. PublishedIn(committed, {})
    BY <1>1 DEF PublishedIn, Published
  <2> QED
    BY <1>1, <1>14, <2>1
<1>16. PublishedIn(Pruned(g), Whole)
  <2>1. \A r \in g.repos \cap Reachable(g) : g.contains[r] # {} => Published(g, r, Whole)
    BY <1>4, <1>15 DEF PublishedIn, Graph
  <2> QED
    BY <1>4, <2>1, PublishedPruned
<1>17. /\ Queued("repo")' = R /\ Queued("fragment")' = {}
  <2>1. QueuedIn("repo", cmd'.todo) = R /\ QueuedIn("fragment", cmd'.todo) = {}
    BY <1>7
  <2> QED
    BY <2>1 DEF Queued
<1>18. R \subseteq Seeds'
  BY <1>17 DEF Seeds
<1>19. PruneInv'
  <2>1. Shape(db)'
    BY <1>7, <1>13 DEF Shape, Reachable, Added, RequiredBy, Required
  <2>2. PublishedIn(db, {})'
    BY <1>7, <1>15 DEF PublishedIn, Published
  <2>3. (db.repos \subseteq Reachable(db) \cup From(db, Seeds))'
    <3>1. g.repos \subseteq Reachable(g) \cup From(g, Seeds')
      BY <1>1, <1>4, <1>12, <1>18, FromGrows DEF Tidy
    <3> QED
      BY <1>7, <3>1 DEF Reachable, Added, From, Closed, RequiredBy, Required
  <2>4. (\A f \in db.fragments : f \in Queued("fragment") \/ InUse(db, f))'
    BY <1>1, <1>4, <1>7 DEF Tidy, InUse
  <2>5. (\A f \in Queued("fragment") : Dropped(db, f))'
    BY <1>17
  <2>6. PublishedIn(Pruned(db), Whole)'
    <3>1. PublishedIn(Pruned(db'), Whole)
      BY <1>7, <1>16
    <3> QED
      BY <3>1 DEF PublishedIn, Published, Whole, Pruned, Reachable, Added, RequiredBy, Required
  <2>7. (cmd.op = "remove" =>
            /\ cmd.args \subseteq Added(committed)
            /\ Pruned(db) = Pruned(Unreference(committed, cmd.args, {Root})))'
    <3>1. cmd'.args \subseteq Added(committed')
          /\ Pruned(db') = Pruned(Unreference(committed', cmd'.args, {Root}))
      BY <1>3, <1>7 DEF g
    <3> QED
      BY <3>1 DEF Pruned, Reachable, Added, RequiredBy, Required, Unreference
  <2>8. (cmd.op = "fetch" /\ ~ShallowAll => FetchedTo(committed, Pruned(db)))'
    BY <1>7
  <2> QED
    BY <2>1, <2>2, <2>3, <2>4, <2>5, <2>6, <2>7, <2>8 DEF PruneInv
<1>20. (Tidy(committed) /\ PublishedIn(committed, Whole))'
  BY <1>1, <1>7 DEF Tidy, Shape, InUse, Reachable, Added, RequiredBy, Required, PublishedIn,
                    Published, Whole
<1> QED
  BY <1>7, <1>19, <1>20 DEF GraphInv, Visiting, Pruning
-----------------------------------------------------------------------------
\* A repository is visited.

\* A fragment is the same in each repository that shares it.
LEMMA SharedAlike ==
  ASSUME NEW r1 \in Repo, NEW r2 \in Repo, r1 # r2,
         NEW o1 \in Offers[r1], NEW o2 \in Offers[r2], NEW f \in DOMAIN o1, f \in DOMAIN o2
  PROVE  o1[f] = o2[f] /\ ComplementsOf(r1, o1[f]) = ComplementsOf(r2, o2[f])
<1>1. o1[f] = o2[f] /\ r1 \in Lax /\ r2 \in Lax
  BY CommitAssumption
<1> QED
  BY <1>1 DEF ComplementsOf

\* What holds while repositories are visited.
LEMMA VisitingTyped ==
  ASSUME BaseInv, GraphInv, Visiting
  PROVE  /\ cmd \in Command
         /\ cmd.fetched \subseteq Repo /\ cmd.removed \subseteq Repo /\ cmd.args \subseteq Repo
         /\ cmd.parsed \subseteq Fragment /\ cmd.dangling \subseteq Fragment
         /\ cmd.calls \in Seq(Call)
         /\ Called \subseteq Repo
         /\ db \in Graph /\ committed \in Graph /\ Orphanless(db) /\ Orphanless(committed)
         /\ VisitInv
         /\ Tidy(committed) /\ PublishedIn(committed, Whole)
<1>1. cmd \in Command /\ db \in Graph /\ committed \in Graph
  BY DEF BaseInv, TypeOK, Visiting
<1>2. Called \subseteq Repo
  BY <1>1 DEF BaseInv, CallsKnown, Graph
<1>3. /\ cmd.fetched \subseteq Repo /\ cmd.removed \subseteq Repo /\ cmd.args \subseteq Repo
      /\ cmd.parsed \subseteq Fragment /\ cmd.dangling \subseteq Fragment
      /\ cmd.calls \in Seq(Call)
  BY <1>1 DEF Command
<1> QED
  BY <1>1, <1>2, <1>3 DEF BaseInv, GraphInv

\* What is not visited yet is as it was published before, though others may
\* have the same fragments and be visited already.
LEMMA UnvisitedAsPublished ==
  ASSUME BaseInv, GraphInv, Visiting, NEW r \in Repo \ cmd.fetched, db.contains[r] # {}
  PROVE  \E o \in Offers[r] :
           /\ DOMAIN o = db.contains[r]
           /\ \A f \in DOMAIN o :
                /\ db.complements[f] = ComplementsOf(r, o[f])
                /\ db.prerequisites[f] = o[f].prerequisites
                /\ committed.complements[f] = ComplementsOf(r, o[f])
                /\ committed.prerequisites[f] = o[f].prerequisites
                /\ f \in cmd.parsed => db.packages[f] = o[f].packages
                /\ f \in Whole => committed.packages[f] = o[f].packages
<1>1. VisitInv /\ PublishedIn(committed, Whole)
  BY VisitingTyped
<1>2. db.contains[r] = committed.contains[r]
  BY <1>1 DEF VisitInv, Unvisited
<1>3. Published(committed, r, Whole)
  BY <1>1, <1>2 DEF PublishedIn
<1>4. PICK o \in Offers[r] :
        /\ DOMAIN o = committed.contains[r]
        /\ \A f \in DOMAIN o :
            /\ committed.complements[f] = ComplementsOf(r, o[f])
            /\ committed.prerequisites[f] = o[f].prerequisites
            /\ f \in Whole => committed.packages[f] = o[f].packages
  BY <1>3 DEF Published
<1>5. ASSUME NEW f \in DOMAIN o
      PROVE  /\ db.complements[f] = ComplementsOf(r, o[f])
             /\ db.prerequisites[f] = o[f].prerequisites
             /\ f \in cmd.parsed => db.packages[f] = o[f].packages
  <2>1. f \in Fragment
    BY OffersTyped
  <2>2. CASE f \notin cmd.parsed
    BY <1>1, <1>4, <2>1, <2>2 DEF VisitInv, Unvisited
  <2>3. CASE f \in cmd.parsed
    <3>1. PICK s \in cmd.fetched : f \in db.contains[s]
      BY <1>1, <2>3 DEF VisitInv, Visited
    <3>2. s \in Repo /\ s # r
      BY <3>1, VisitingTyped
    <3>3. Published(db, s, Fragment)
      BY <1>1, <3>1 DEF VisitInv, Visited
    <3>4. PICK o2 \in Offers[s] :
            /\ DOMAIN o2 = db.contains[s]
            /\ \A x \in DOMAIN o2 :
                /\ db.complements[x] = ComplementsOf(s, o2[x])
                /\ db.prerequisites[x] = o2[x].prerequisites
                /\ x \in Fragment => db.packages[x] = o2[x].packages
      BY <3>3 DEF Published
    <3>5. o[f] = o2[f] /\ ComplementsOf(r, o[f]) = ComplementsOf(s, o2[f])
      BY <3>1, <3>2, <3>4, SharedAlike
    <3> QED
      BY <2>1, <3>1, <3>4, <3>5
  <2> QED
    BY <2>2, <2>3
<1> QED
  BY <1>2, <1>4, <1>5

\* A repository that is yet to be visited requires what it did.
LEMMA UnvisitedRequires ==
  ASSUME BaseInv, GraphInv, Visiting, NEW r \in Repo \ cmd.fetched
  PROVE  RequiredBy(db, r) = RequiredBy(committed, r)
<1>1. db.contains[r] = committed.contains[r]
  BY VisitingTyped DEF VisitInv, Unvisited
<1>2. CASE db.contains[r] = {}
  BY <1>1, <1>2 DEF RequiredBy
<1>3. CASE db.contains[r] # {}
  BY <1>1, <1>3, UnvisitedAsPublished, RequiredBySame
<1> QED
  BY <1>2, <1>3

\* Visiting a repository leaves the others alone.
LEMMA OthersStable ==
  ASSUME BaseInv, GraphInv, NEW r \in Repo, NEW o \in Offers[r], FetchRepo(r, o),
         NEW s \in Repo \ {r}
  PROVE  /\ db'.contains[s] = db.contains[s]
         /\ \A f \in db.contains[s] : /\ db'.complements[f] = db.complements[f]
                                      /\ db'.prerequisites[f] = db.prerequisites[f]
         /\ RequiredBy(db', s) = RequiredBy(db, s)
<1>1. Visiting
  BY FetchingVisits DEF FetchRepo
<1>2. db \in Graph /\ VisitInv
  BY <1>1, VisitingTyped
<1> DEFINE new == DOMAIN o \ cmd.parsed
<1>3. /\ db'.contains[s] = db.contains[s]
      /\ \A f \in Fragment :
          /\ db'.complements[f] = IF f \in new THEN ComplementsOf(r, o[f]) ELSE db.complements[f]
          /\ db'.prerequisites[f] = IF f \in new THEN o[f].prerequisites ELSE db.prerequisites[f]
  BY ParsedNow DEF BaseInv
<1>4. ASSUME NEW f \in db.contains[s]
      PROVE  /\ db'.complements[f] = db.complements[f]
             /\ db'.prerequisites[f] = db.prerequisites[f]
  <2>1. f \in Fragment
    BY <1>2 DEF Graph
  <2>2. CASE f \in new
    <3>1. s \notin cmd.fetched
      BY <1>2, <2>2 DEF VisitInv, Visited
    <3>2. PICK o2 \in Offers[s] :
            /\ DOMAIN o2 = db.contains[s]
            /\ \A x \in DOMAIN o2 :
                /\ db.complements[x] = ComplementsOf(s, o2[x])
                /\ db.prerequisites[x] = o2[x].prerequisites
      BY <1>1, <3>1, UnvisitedAsPublished
    <3>3. o[f] = o2[f] /\ ComplementsOf(r, o[f]) = ComplementsOf(s, o2[f])
      BY <2>2, <3>2, SharedAlike
    <3> QED
      BY <1>3, <2>1, <2>2, <3>2, <3>3
  <2>3. CASE f \notin new
    BY <1>3, <2>1, <2>3
  <2> QED
    BY <2>2, <2>3
<1>5. RequiredBy(db', s) = RequiredBy(db, s)
  BY <1>3, <1>4, RequiredBySame
<1> QED
  BY <1>3, <1>4, <1>5

\* The repository is as published now.
LEMMA VisitedAsPublished ==
  ASSUME BaseInv, GraphInv, NEW r \in Repo, NEW o \in Offers[r], FetchRepo(r, o)
  PROVE  \A s \in cmd.fetched \cup {r} : Published(db', s, Fragment)
<1>1. Visiting
  BY FetchingVisits DEF FetchRepo
<1>2. db \in Graph /\ VisitInv /\ cmd.fetched \subseteq Repo
  BY <1>1, VisitingTyped
<1>3. r \notin cmd.fetched
  BY DEF FetchRepo, Fetched
<1> DEFINE new == DOMAIN o \ cmd.parsed
<1>4. /\ db'.contains[r] = DOMAIN o
      /\ \A s \in Repo \ {r} : db'.contains[s] = db.contains[s]
      /\ \A f \in Fragment :
          /\ db'.complements[f] = IF f \in new THEN ComplementsOf(r, o[f]) ELSE db.complements[f]
          /\ db'.prerequisites[f] = IF f \in new THEN o[f].prerequisites ELSE db.prerequisites[f]
          /\ db'.packages[f] = IF f \in new THEN o[f].packages ELSE db.packages[f]
  BY ParsedNow DEF BaseInv
<1>5. ASSUME NEW s \in cmd.fetched
      PROVE  Published(db', s, Fragment)
  <2>1. Published(db, s, Fragment) /\ s \in Repo \ {r}
    BY <1>2, <1>3 DEF VisitInv, Visited
  <2>2. \A f \in db.contains[s] : f \in Fragment /\ f \notin new
    BY <1>2, <2>1 DEF VisitInv, Visited, Graph
  <2>3. db'.contains[s] = db.contains[s]
    BY <1>4, <2>1
  <2>4. \A f \in db.contains[s] : /\ db'.complements[f] = db.complements[f]
                                  /\ db'.prerequisites[f] = db.prerequisites[f]
                                  /\ db'.packages[f] = db.packages[f]
    BY <1>4, <2>2
  <2> QED
    BY <2>1, <2>3, <2>4, PublishedSame
<1>6. Published(db', r, Fragment)
  <2>1. ASSUME NEW f \in DOMAIN o
        PROVE  /\ db'.complements[f] = ComplementsOf(r, o[f])
               /\ db'.prerequisites[f] = o[f].prerequisites
               /\ db'.packages[f] = o[f].packages
    <3>1. f \in Fragment
      BY OffersTyped
    <3>2. CASE f \in new
      BY <1>4, <3>1, <3>2
    <3>3. CASE f \notin new
      <4>1. PICK s \in cmd.fetched : f \in db.contains[s]
        BY <1>2, <3>3 DEF VisitInv, Visited
      <4>2. s \in Repo /\ s # r
        BY <1>2, <1>3, <4>1
      <4>3. Published(db, s, Fragment)
        BY <1>2, <4>1 DEF VisitInv, Visited
      <4>4. PICK o2 \in Offers[s] :
              /\ DOMAIN o2 = db.contains[s]
              /\ \A x \in DOMAIN o2 :
                  /\ db.complements[x] = ComplementsOf(s, o2[x])
                  /\ db.prerequisites[x] = o2[x].prerequisites
                  /\ x \in Fragment => db.packages[x] = o2[x].packages
        BY <4>3 DEF Published
      <4>5. o[f] = o2[f] /\ ComplementsOf(r, o[f]) = ComplementsOf(s, o2[f])
        BY <4>1, <4>2, <4>4, SharedAlike
      <4> QED
        BY <1>4, <3>1, <3>3, <4>1, <4>4, <4>5
    <3> QED
      BY <3>2, <3>3
  <2> QED
    BY <1>4, <2>1 DEF Published
<1> QED
  BY <1>5, <1>6

\* The step, in short.
LEMMA FetchRepoStep ==
  ASSUME BaseInv, GraphInv, NEW r \in Repo, NEW o \in Offers[r], FetchRepo(r, o)
  PROVE  /\ Visiting /\ r \notin cmd.fetched /\ r \in db.repos
         /\ Called = {r} \cup CalledIn(Tail(cmd.calls))
         /\ ShallowIn(cmd.calls) = (IF call.shallow THEN {r} ELSE {}) \cup ShallowIn(Tail(cmd.calls))
         /\ DOMAIN o \subseteq Fragment
         /\ db' \in Graph /\ committed' = committed
         /\ VisitedNow(r, o) /\ (NotFollowed(r) \/ FollowedNow(r))
         /\ CalledIn(Tail(cmd.calls)) \subseteq Called'
         /\ Called' \subseteq Called \cup RequiredBy(db', r)
         /\ cmd.removed \cup cmd.fetched \subseteq cmd'.removed \cup cmd'.fetched
<1>1. /\ cmd \in Command /\ cmd.op = "fetch" /\ cmd.calls # <<>>
      /\ Head(cmd.calls) \in Call /\ Head(cmd.calls).repo = r
      /\ r \notin cmd.fetched
      /\ db' \in Graph
      /\ VisitedNow(r, o)
      /\ NotFollowed(r) \/ FollowedNow(r)
  BY FetchRepoForm DEF BaseInv
<1>2. Visiting /\ cmd.calls \in Seq(Call) /\ Called \subseteq db.repos
      /\ Called = {call.repo} \cup CalledIn(Tail(cmd.calls))
  BY FetchingVisits DEF FetchRepo
<1>3. call.repo = r /\ committed' = committed
  BY DEF FetchRepo
<1>4. ShallowIn(cmd.calls) = (IF call.shallow THEN {r} ELSE {}) \cup ShallowIn(Tail(cmd.calls))
  BY <1>1, <1>2, CallsFirst DEF call
<1>5. DOMAIN o \subseteq Fragment
  BY OffersTyped
<1>6. /\ CalledIn(Tail(cmd.calls)) \subseteq Called'
      /\ Called' \subseteq Called \cup RequiredBy(db', r)
  BY <1>1, <1>2 DEF NotFollowed, FollowedNow
<1>7. cmd.removed \cup cmd.fetched \subseteq cmd'.removed \cup cmd'.fetched
  BY <1>1 DEF NotFollowed, FollowedNow, VisitedNow
<1> QED
  BY <1>1, <1>2, <1>3, <1>4, <1>5, <1>6, <1>7

\* What was visited, and r now, is as published.
LEMMA VisitedStep ==
  ASSUME BaseInv, BaseInv', GraphInv, NEW r \in Repo, NEW o \in Offers[r], FetchRepo(r, o)
  PROVE  Visited'
<1>1. /\ Visiting /\ r \notin cmd.fetched /\ VisitedNow(r, o)
  BY FetchRepoStep
<1>2. VisitInv /\ cmd.fetched \subseteq Repo
  BY <1>1, VisitingTyped
<1>3. cmd'.fetched = cmd.fetched \cup {r} /\ cmd'.parsed = cmd.parsed \cup DOMAIN o
      /\ cmd' \in Command /\ ~cmd'.pruning
  BY <1>1 DEF VisitedNow, Visiting
<1>4. /\ db'.repos = db.repos \cup UNION {o[f].complements \cup o[f].prerequisites :
                                           f \in DOMAIN o \ cmd.parsed}
      /\ db'.contains[r] = DOMAIN o
      /\ \A s \in Repo \ {r} : db'.contains[s] = db.contains[s]
  BY ParsedNow DEF BaseInv
<1>5. \A s \in cmd'.fetched : Published(db', s, Fragment)
  BY <1>3, VisitedAsPublished
<1>6. cmd'.parsed = UNION {db'.contains[s] : s \in cmd'.fetched}
  <2>1. cmd.parsed = UNION {db.contains[s] : s \in cmd.fetched}
    BY <1>2 DEF VisitInv, Visited
  <2>2. \A s \in cmd.fetched : db'.contains[s] = db.contains[s]
    BY <1>1, <1>2, <1>4
  <2> QED
    BY <1>3, <1>4, <2>1, <2>2
<1>7. \A s \in Repo : RequiredBy(db', s) \subseteq db'.repos
  <2>1. ASSUME NEW s \in Repo
        PROVE  RequiredBy(db', s) \subseteq db'.repos
    <3>1. CASE s = r
      <4>1. cmd' # Idle
        BY <1>3, NotIdle
      <4>2. \A f \in cmd'.parsed : Required(db', f) \subseteq db'.repos
        BY <1>3, <4>1 DEF BaseInv, CallsKnown, Visiting, Required
      <4> QED
        BY <1>3, <1>4, <3>1, <4>2 DEF RequiredBy
    <3>2. CASE s # r
      <4>1. RequiredBy(db', s) = RequiredBy(db, s)
        BY <3>2, OthersStable
      <4>2. RequiredBy(db, s) \subseteq db.repos
        BY <1>2 DEF VisitInv, Visited
      <4> QED
        BY <1>4, <4>1, <4>2
    <3> QED
      BY <3>1, <3>2
  <2> QED
    BY <2>1
<1> QED
  BY <1>5, <1>6, <1>7 DEF Visited, Published, RequiredBy, Required

\* What was not visited is as it was.
LEMMA UnvisitedStep ==
  ASSUME BaseInv, GraphInv, NEW r \in Repo, NEW o \in Offers[r], FetchRepo(r, o)
  PROVE  Unvisited'
<1>1. /\ Visiting /\ VisitedNow(r, o) /\ committed' = committed
  BY FetchRepoStep
<1>2. Unvisited
  BY <1>1, VisitingTyped DEF VisitInv
<1>3. cmd'.fetched = cmd.fetched \cup {r} /\ cmd'.parsed = cmd.parsed \cup DOMAIN o
      /\ cmd'.args = cmd.args
  BY <1>1 DEF VisitedNow
<1> DEFINE new == DOMAIN o \ cmd.parsed
<1>4. /\ db.repos \subseteq db'.repos
      /\ \A s \in Repo \ {r} : db'.contains[s] = db.contains[s]
      /\ db'.fragments = db.fragments \cup new
      /\ db'.complements[Root] = db.complements[Root]
      /\ \A f \in Fragment :
          /\ db'.complements[f] = IF f \in new THEN ComplementsOf(r, o[f]) ELSE db.complements[f]
          /\ db'.prerequisites[f] = IF f \in new THEN o[f].prerequisites ELSE db.prerequisites[f]
  BY ParsedNow DEF BaseInv
<1>5. \A s \in Repo \ cmd'.fetched : db'.contains[s] = committed'.contains[s]
  BY <1>1, <1>2, <1>3, <1>4 DEF Unvisited
<1>6. \A f \in Fragment \ cmd'.parsed :
        /\ db'.complements[f] = committed'.complements[f]
        /\ db'.prerequisites[f] = committed'.prerequisites[f]
  BY <1>1, <1>2, <1>3, <1>4 DEF Unvisited
<1>7. db'.fragments = committed'.fragments \cup cmd'.parsed
  BY <1>1, <1>2, <1>3, <1>4 DEF Unvisited
<1>8. committed'.repos \subseteq db'.repos
  BY <1>1, <1>2, <1>4 DEF Unvisited
<1>9. db'.complements[Root] = committed'.complements[Root] \cup cmd'.args
  BY <1>1, <1>2, <1>3, <1>4 DEF Unvisited, Added
<1> QED
  BY <1>5, <1>6, <1>7, <1>8, <1>9 DEF Unvisited, Added

\* r was required or named, and so is what it requires.
LEMMA SupportedStep ==
  ASSUME BaseInv, BaseInv', GraphInv, NEW r \in Repo, NEW o \in Offers[r], FetchRepo(r, o)
  PROVE  Supported'
<1>1. /\ Visiting /\ r \notin cmd.fetched /\ VisitedNow(r, o) /\ committed' = committed
      /\ Called = {r} \cup CalledIn(Tail(cmd.calls))
      /\ Called' \subseteq Called \cup RequiredBy(db', r)
  BY FetchRepoStep
<1>2. VisitInv /\ cmd.fetched \subseteq Repo
  BY <1>1, VisitingTyped
<1>3. cmd'.fetched = cmd.fetched \cup {r}
  BY <1>1 DEF VisitedNow
<1> DEFINE new == DOMAIN o \ cmd.parsed
<1>4. /\ db'.repos = db.repos \cup UNION {o[f].complements \cup o[f].prerequisites : f \in new}
      /\ db'.contains[r] = DOMAIN o
      /\ db'.complements[Root] = db.complements[Root]
      /\ \A n \in Node : Required(db', n) = IF n \in new
                                            THEN o[n].complements \cup o[n].prerequisites
                                            ELSE Required(db, n)
  BY ParsedNow DEF BaseInv
<1>5. \A f \in new : /\ f \in db'.contains[r]
                     /\ o[f].complements \cup o[f].prerequisites = Required(db', f)
  BY <1>4, OffersTyped DEF Node
<1>6. db'.repos \subseteq db.repos \cup RequiredBy(db', r)
  BY <1>4, <1>5 DEF RequiredBy
<1>7. \A s \in cmd.fetched : RequiredBy(db', s) = RequiredBy(db, s)
  BY <1>1, <1>2, OthersStable
<1>8. ASSUME NEW S \in SUBSET Repo,
             Added(db') \subseteq S,
             \A s \in S \cap cmd'.fetched : RequiredBy(db', s) \subseteq S
      PROVE  cmd'.fetched \cup Called' \cup (db'.repos \ committed'.repos) \subseteq S
  <2>1. Supporting(S)
    BY <1>3, <1>4, <1>7, <1>8 DEF Supporting, Added
  <2>2. cmd.fetched \cup Called \cup (db.repos \ committed.repos) \subseteq S
    BY <1>2, <2>1 DEF VisitInv, Supported
  <2>3. r \in S
    BY <1>1, <2>2
  <2>4. RequiredBy(db', r) \subseteq S
    BY <1>3, <1>8, <2>3
  <2> QED
    BY <1>1, <1>3, <1>6, <2>2, <2>3, <2>4
<1>9. \A S : Supporting(S)' <=> /\ Added(db') \subseteq S
                                /\ \A s \in S \cap cmd'.fetched : RequiredBy(db', s) \subseteq S
  BY DEF Supporting, Added, RequiredBy, Required
<1> QED
  BY <1>8, <1>9 DEF Supported

\* Neither fragments nor repositories that may go are forgotten.
LEMMA RememberedStep ==
  ASSUME BaseInv, GraphInv, NEW r \in Repo, NEW o \in Offers[r], FetchRepo(r, o)
  PROVE  Remembered'
<1>1. /\ Visiting /\ r \notin cmd.fetched /\ VisitedNow(r, o) /\ committed' = committed
      /\ NotFollowed(r) \/ FollowedNow(r)
      /\ cmd.removed \cup cmd.fetched \subseteq cmd'.removed \cup cmd'.fetched
  BY FetchRepoStep
<1>2. VisitInv /\ cmd.fetched \subseteq Repo /\ Remembered /\ db' \in Graph /\ db \in Graph
  BY <1>1, VisitingTyped, FetchRepoStep DEF VisitInv
<1>3. /\ cmd'.fetched = cmd.fetched \cup {r}
      /\ cmd'.dangling = (cmd.dangling \cup db.contains[r]) \ DOMAIN o
  BY <1>1 DEF VisitedNow
<1>4. /\ db'.contains[r] = DOMAIN o
      /\ \A s \in Repo \ {r} : db'.contains[s] = db.contains[s]
      /\ db'.fragments = db.fragments \cup (DOMAIN o \ cmd.parsed)
  BY ParsedNow DEF BaseInv
<1>5. ASSUME NEW f \in cmd'.dangling
      PROVE  Dropped(db', f)
  <2>1. CASE f \in cmd.dangling
    <3>1. PICK s \in Repo : Offered(f, s) /\ f \notin db.contains[s]
      BY <1>2, <2>1 DEF Remembered, Dropped
    <3>2. f \notin db'.contains[s]
      BY <1>3, <1>4, <3>1
    <3> QED
      BY <3>1, <3>2 DEF Dropped
  <2>2. CASE f \in db.contains[r]
    <3>1. Offered(f, r)
      BY <1>1, <2>2, UnvisitedAsPublished DEF Offered
    <3>2. f \notin db'.contains[r]
      BY <1>3, <1>4
    <3> QED
      BY <3>1, <3>2 DEF Dropped
  <2> QED
    BY <1>3, <2>1, <2>2
<1>6. ASSUME NEW f \in db'.fragments
      PROVE  f \in cmd'.dangling \/ InUse(db', f)
  <2>1. CASE f \in DOMAIN o
    BY <1>4, <2>1 DEF InUse
  <2>2. CASE f \notin DOMAIN o
    <3>1. f \in db.fragments
      BY <1>4, <2>2
    <3>2. f \in cmd.dangling \/ InUse(db, f)
      BY <1>2, <3>1 DEF Remembered
    <3> QED
      BY <1>3, <1>4, <2>2, <3>2 DEF InUse
  <2> QED
    BY <2>1, <2>2
<1>7. ASSUME NEW s \in cmd'.fetched
      PROVE  \/ RequiredBy(committed, s) \subseteq cmd'.removed \cup cmd'.fetched
             \/ RequiredBy(db', s) = RequiredBy(committed, s)
  <2>1. CASE s = r
    <3>1. RequiredBy(db, r) = RequiredBy(committed, r)
      BY <1>1, UnvisitedRequires
    <3>2. CASE NotFollowed(r)
      <4>1. ComplementsIn(db, r) = ComplementsIn(db', r)
            /\ PrerequisitesIn(db, r) = PrerequisitesIn(db', r)
        BY <3>2 DEF NotFollowed, Unchanged
      <4>2. RequiredBy(db, r) = RequiredBy(db', r)
        BY <1>2, <4>1, RequiredInTwo
      <4> QED
        BY <2>1, <3>1, <4>2
    <3>3. CASE FollowedNow(r)
      BY <2>1, <3>1, <3>3 DEF FollowedNow
    <3> QED
      BY <1>1, <3>2, <3>3
  <2>2. CASE s # r
    <3>1. s \in cmd.fetched /\ s \in Repo \ {r}
      BY <1>2, <1>3, <2>2
    <3>2. RequiredBy(db', s) = RequiredBy(db, s)
      BY <3>1, OthersStable
    <3>3. RequiredBy(committed, s) \subseteq cmd.removed \cup cmd.fetched
          \/ RequiredBy(db, s) = RequiredBy(committed, s)
      BY <1>2, <3>1 DEF Remembered, SameRequired
    <3> QED
      BY <1>1, <3>2, <3>3
  <2> QED
    BY <2>1, <2>2
<1>8. \A s : SameRequired(s)' <=> RequiredBy(db', s) = RequiredBy(committed, s)
  BY <1>1 DEF SameRequired, RequiredBy, Required
<1>9. \A s : RequiredBy(committed, s)' = RequiredBy(committed, s)
  BY <1>1 DEF RequiredBy, Required
<1> QED
  BY <1>5, <1>6, <1>7, <1>8, <1>9 DEF Remembered, Dropped, InUse

\* Nor are repositories that have to be visited.
LEMMA FollowedStep ==
  ASSUME BaseInv, GraphInv, NEW r \in Repo, NEW o \in Offers[r], FetchRepo(r, o)
  PROVE  /\ AllFollowed'
         /\ (PackagesKept \/ PackagesErased)'
<1>1. /\ Visiting /\ r \notin cmd.fetched /\ VisitedNow(r, o) /\ committed' = committed
      /\ NotFollowed(r) \/ FollowedNow(r)
      /\ Called = {r} \cup CalledIn(Tail(cmd.calls))
      /\ CalledIn(Tail(cmd.calls)) \subseteq Called'
      /\ ShallowIn(cmd.calls) = (IF call.shallow THEN {r} ELSE {}) \cup ShallowIn(Tail(cmd.calls))
  BY FetchRepoStep
<1>2. VisitInv /\ cmd.fetched \subseteq Repo /\ db' \in Graph /\ db \in Graph
  BY <1>1, VisitingTyped, FetchRepoStep
<1>3. /\ cmd'.fetched = cmd.fetched \cup {r} /\ cmd'.args = cmd.args
      /\ cmd'.parsed = cmd.parsed \cup DOMAIN o
      /\ ShallowIn(cmd'.calls) = ShallowIn(Tail(cmd.calls))
  BY <1>1 DEF VisitedNow
<1>4. /\ cmd.fetched \cup Called \subseteq cmd'.fetched \cup Called'
      /\ ShallowIn(cmd'.calls) \subseteq ShallowIn(cmd.calls)
      /\ call.shallow => r \in ShallowIn(cmd.calls)
  BY <1>1, <1>3
<1>5. \A s \in cmd.fetched : RequiredBy(db', s) = RequiredBy(db, s)
  BY <1>1, <1>2, OthersStable
<1>6. FollowedNow(r) => RequiredBy(db', r) \subseteq cmd'.fetched \cup Called'
  BY DEF FollowedNow
<1>7. ASSUME NotFollowed(r)
      PROVE  r \in ShallowIn(cmd.calls) /\ RequiredBy(db', r) = RequiredBy(committed, r)
  <2>1. call.shallow
        /\ ComplementsIn(db, r) = ComplementsIn(db', r)
        /\ PrerequisitesIn(db, r) = PrerequisitesIn(db', r)
    BY <1>7 DEF NotFollowed, Unchanged
  <2>2. RequiredBy(db, r) = RequiredBy(db', r)
    BY <1>2, <2>1, RequiredInTwo
  <2>3. RequiredBy(db, r) = RequiredBy(committed, r)
    BY <1>1, UnvisitedRequires
  <2> QED
    BY <1>4, <2>1, <2>2, <2>3
<1>8. \A s : /\ Followed(s)' <=> RequiredBy(db', s) \subseteq cmd'.fetched \cup Called'
             /\ SameRequired(s)' <=> RequiredBy(db', s) = RequiredBy(committed, s)
  BY <1>1 DEF Followed, SameRequired, RequiredBy, Required
<1>9. \A s \in cmd.fetched : /\ Followed(s) => Followed(s)'
                             /\ SameRequired(s) => SameRequired(s)'
  BY <1>4, <1>5, <1>8 DEF Followed, SameRequired
<1>10. AllFollowed'
  <2>1. AllFollowed
    BY <1>2 DEF VisitInv
  <2>2. cmd'.args # {} /\ cmd'.args \subseteq cmd'.fetched \cup Called'
        /\ ShallowIn(cmd'.calls) \subseteq cmd'.args
    BY <1>3, <1>4, <2>1 DEF AllFollowed
  <2>3. ASSUME NEW s \in cmd'.fetched
        PROVE  Followed(s)' \/ (s \in cmd'.args /\ SameRequired(s)')
    <3>1. CASE s \in cmd.fetched
      BY <1>3, <1>9, <2>1, <3>1 DEF AllFollowed
    <3>2. CASE s = r /\ FollowedNow(r)
      BY <1>6, <1>8, <3>2
    <3>3. CASE s = r /\ NotFollowed(r)
      BY <1>3, <1>7, <1>8, <2>1, <3>3 DEF AllFollowed
    <3> QED
      BY <1>1, <1>3, <3>1, <3>2, <3>3
  <2> QED
    BY <2>2, <2>3 DEF AllFollowed
<1>11. \A f \in Fragment \ cmd'.parsed : db'.packages[f] = db.packages[f]
                                         /\ f \in Fragment \ cmd.parsed
  <2>1. \A f \in Fragment : db'.packages[f] = IF f \in DOMAIN o \ cmd.parsed THEN o[f].packages
                                              ELSE db.packages[f]
    BY ParsedNow DEF BaseInv
  <2> QED
    BY <1>3, <2>1
<1>12. (PackagesKept \/ PackagesErased)'
  <2>1. CASE PackagesKept
    BY <1>1, <1>11, <2>1 DEF PackagesKept
  <2>2. CASE PackagesErased
    <3>1. \A f \in Fragment \ cmd'.parsed : db'.packages[f] = {}
      BY <1>11, <2>2 DEF PackagesErased
    <3>2. CASE ShallowAll
      BY <3>1, <3>2 DEF PackagesErased
    <3>3. CASE AllVisited
      <4>1. db'.complements[Root] = db.complements[Root]
        BY ParsedNow DEF BaseInv
      <4>2. FollowedNow(r)
        BY <1>1, <1>7, <3>3 DEF AllVisited
      <4>3. \A s \in cmd'.fetched : Followed(s)'
        BY <1>3, <1>6, <1>8, <1>9, <3>3, <4>2 DEF AllVisited
      <4>4. AllVisited'
        BY <1>3, <1>4, <3>3, <4>1, <4>3 DEF AllVisited, Added
      <4> QED
        BY <3>1, <4>4 DEF PackagesErased
    <3> QED
      BY <2>2, <3>2, <3>3 DEF PackagesErased
  <2> QED
    BY <1>2, <2>1, <2>2 DEF VisitInv
<1> QED
  BY <1>10, <1>12

\* What can be reached is there.
LEMMA ShapeStep ==
  ASSUME BaseInv, BaseInv', GraphInv, NEW r \in Repo, NEW o \in Offers[r], FetchRepo(r, o)
  PROVE  Shape(db')
<1>1. Visiting /\ r \in db.repos /\ db' \in Graph /\ DOMAIN o \subseteq Fragment
  BY FetchRepoStep
<1>2. VisitInv /\ Shape(db) /\ Unvisited
  BY <1>1, VisitingTyped DEF VisitInv
<1> DEFINE new == DOMAIN o \ cmd.parsed
<1>3. /\ db.repos \subseteq db'.repos
      /\ db'.contains[r] = DOMAIN o
      /\ \A s \in Repo \ {r} : db'.contains[s] = db.contains[s]
      /\ db'.fragments = db.fragments \cup new
      /\ db'.prerequisites[Root] = db.prerequisites[Root]
      /\ \A f \in Fragment :
          /\ db'.complements[f] = IF f \in new THEN ComplementsOf(r, o[f]) ELSE db.complements[f]
          /\ db'.prerequisites[f] = IF f \in new THEN o[f].prerequisites ELSE db.prerequisites[f]
          /\ db'.packages[f] = IF f \in new THEN o[f].packages ELSE db.packages[f]
  BY ParsedNow DEF BaseInv
<1>4. DOMAIN o \subseteq db'.fragments
  BY <1>2, <1>3 DEF Unvisited
<1>5. \A s \in Repo : db'.contains[s] \subseteq db'.fragments
  BY <1>2, <1>3, <1>4 DEF Shape
<1>6. \A s \in Repo \ db'.repos : db'.contains[s] = {}
  BY <1>1, <1>2, <1>3 DEF Shape
<1>7. \A f \in Fragment \ db'.fragments :
        db'.complements[f] = {} /\ db'.prerequisites[f] = {} /\ db'.packages[f] = {}
  BY <1>2, <1>3 DEF Shape
<1>8. Reachable(db') \subseteq db'.repos
  <2>1. \A s \in Repo : RequiredBy(db', s) \subseteq db'.repos
    BY VisitedStep DEF Visited, RequiredBy, Required
  <2>2. Added(db') \subseteq db'.repos /\ db'.repos \in SUBSET Repo
    BY <1>1 DEF BaseInv, Orphanless, Added, Graph
  <2>3. Closed(db', db'.repos)
    BY <2>1, <2>2 DEF Closed
  <2> QED
    BY <2>2, <2>3, ReachableLeast
<1> QED
  BY <1>2, <1>3, <1>5, <1>6, <1>7, <1>8 DEF Shape

\* The committed graph while a command runs.
LEMMA SameCommitted ==
  ASSUME GraphInv, committed' = committed
  PROVE  (Tidy(committed) /\ PublishedIn(committed, Whole))'
BY DEF GraphInv, Tidy, Shape, InUse, Reachable, Added, RequiredBy, Required, PublishedIn,
       Published, Whole

\* GraphInv when a repository is visited.
LEMMA FetchRepoGraph ==
  ASSUME BaseInv, BaseInv', GraphInv, NEW r \in Repo, NEW o \in Offers[r], FetchRepo(r, o)
  PROVE  GraphInv'
<1>1. committed' = committed /\ ~cmd'.pruning
  BY FetchRepoStep DEF VisitedNow, Visiting
<1>2. Shape(db)'
  BY ShapeStep DEF Shape, Reachable, Added, RequiredBy, Required
<1>3. VisitInv'
  BY <1>2, SupportedStep, UnvisitedStep, VisitedStep, RememberedStep, FollowedStep DEF VisitInv
<1>4. (Tidy(committed) /\ PublishedIn(committed, Whole))'
  BY <1>1, SameCommitted
<1> QED
  BY <1>1, <1>3, <1>4 DEF GraphInv, Pruning

\* GraphInv when it is not visited again.
LEMMA FetchAgainGraph ==
  ASSUME BaseInv, GraphInv, FetchAgain
  PROVE  GraphInv'
<1>1. /\ cmd \in Command /\ Visiting /\ cmd.calls \in Seq(Call) /\ cmd.calls # <<>>
      /\ Tail(cmd.calls) \in Seq(Call)
      /\ Called = {call.repo} \cup CalledIn(Tail(cmd.calls))
      /\ cmd # Idle /\ ~cmd.pruning
  BY FetchingVisits, NotIdle DEF FetchAgain
<1>2. VisitInv
  BY <1>1, VisitingTyped
<1>3. call.repo \in cmd.fetched /\ db' = db /\ committed' = committed
  BY DEF FetchAgain, Fetched
<1> DEFINE rest == Tail(cmd.calls)
<1>4. cmd' = [cmd EXCEPT !.calls = rest]
  BY DEF FetchAgain
<1>5. rest \in Seq(Call) /\ ShallowIn(rest) \subseteq ShallowIn(cmd.calls)
  BY <1>1, CallsFirst
<1> HIDE DEF rest
<1>6. /\ cmd' \in Command /\ cmd'.calls = rest /\ cmd'.op = cmd.op /\ cmd'.args = cmd.args
      /\ (cmd'.pruning <=> cmd.pruning)
      /\ cmd'.fetched = cmd.fetched /\ cmd'.removed = cmd.removed
      /\ cmd'.parsed = cmd.parsed /\ cmd'.dangling = cmd.dangling
  BY <1>1, <1>4, <1>5 DEF Command
<1>7. /\ Called' \subseteq Called
      /\ Called' \cup cmd'.fetched = Called \cup cmd.fetched
      /\ ShallowIn(cmd'.calls) \subseteq ShallowIn(cmd.calls)
  BY <1>1, <1>3, <1>5, <1>6 DEF Called, rest
<1>8. Shape(db)'
  BY <1>2, <1>3 DEF VisitInv, Shape, Reachable, Added, RequiredBy, Required
<1>9. Supported'
  <2>1. \A S : Supporting(S)' <=> Supporting(S)
    BY <1>3, <1>6 DEF Supporting, Added, RequiredBy, Required
  <2> QED
    BY <1>2, <1>3, <1>6, <1>7, <2>1 DEF VisitInv, Supported
<1>10. Unvisited'
  BY <1>2, <1>3, <1>6 DEF VisitInv, Unvisited, Added
<1>11. Visited'
  BY <1>2, <1>3, <1>6 DEF VisitInv, Visited, Published, RequiredBy, Required
<1>12. Remembered'
  BY <1>2, <1>3, <1>6 DEF VisitInv, Remembered, Dropped, InUse, SameRequired, RequiredBy, Required
<1>13. \A s : (Followed(s)' <=> Followed(s)) /\ (SameRequired(s)' <=> SameRequired(s))
  BY <1>3, <1>7 DEF Followed, SameRequired, RequiredBy, Required
<1>14. AllFollowed'
  BY <1>2, <1>6, <1>7, <1>13 DEF VisitInv, AllFollowed
<1>15. (PackagesKept \/ PackagesErased)'
  <2>1. PackagesKept => PackagesKept'
    BY <1>3, <1>6 DEF PackagesKept
  <2>2. AllVisited => AllVisited'
    BY <1>3, <1>6, <1>7, <1>13 DEF AllVisited, Added
  <2>3. PackagesErased => PackagesErased'
    BY <1>3, <1>6, <2>2 DEF PackagesErased
  <2> QED
    BY <1>2, <2>1, <2>3 DEF VisitInv
<1>16. VisitInv'
  BY <1>8, <1>9, <1>10, <1>11, <1>12, <1>14, <1>15 DEF VisitInv
<1>17. (Tidy(committed) /\ PublishedIn(committed, Whole))'
  BY <1>3, SameCommitted
<1> QED
  BY <1>1, <1>6, <1>16, <1>17 DEF GraphInv, Pruning
-----------------------------------------------------------------------------
\* All is visited.

\* With nothing left to call, what was there before and can be reached no
\* longer can be reached from what is required no longer.
LEMMA AllRemembered ==
  ASSUME BaseInv, GraphInv, Visiting
  PROVE  db.repos \subseteq Reachable(db) \cup From(db, cmd.removed)
<1>1. /\ VisitInv /\ Tidy(committed) /\ db \in Graph /\ committed \in Graph
      /\ Orphanless(db) /\ cmd.removed \in SUBSET Repo /\ cmd.fetched \subseteq Repo
  BY VisitingTyped
<1> DEFINE T == Reachable(db) \cup From(db, cmd.removed)
<1>2. Added(db) \subseteq Repo
  BY <1>1 DEF Orphanless, Graph
<1>3. /\ Added(db) \subseteq Reachable(db) /\ Reachable(db) \subseteq Repo
      /\ Closed(db, Reachable(db))
  BY <1>1, <1>2, ReachableClosed
<1>4. /\ cmd.removed \subseteq From(db, cmd.removed) /\ From(db, cmd.removed) \subseteq Repo
      /\ Closed(db, From(db, cmd.removed))
  BY <1>1, FromIncludes, FromTyped, FromClosed
<1>5. cmd.fetched \cup (db.repos \ committed.repos) \subseteq Reachable(db)
  <2>1. Supporting(Reachable(db))
    BY <1>3 DEF Supporting, Closed
  <2> QED
    BY <1>1, <1>3, <2>1 DEF VisitInv, Supported
<1>6. T \in SUBSET Repo /\ Closed(db, T)
  BY <1>3, <1>4 DEF Closed
<1>7. Added(committed) \subseteq T
  BY <1>1, <1>3 DEF VisitInv, Unvisited
<1>8. Closed(committed, T)
  <2>1. ASSUME NEW s \in T
        PROVE  RequiredBy(committed, s) \subseteq T
    <3>1. s \in Repo /\ RequiredBy(db, s) \subseteq T
      BY <1>6 DEF Closed
    <3>2. CASE s \notin cmd.fetched
      BY <3>1, <3>2, UnvisitedRequires
    <3>3. CASE s \in cmd.fetched
      <4>1. \/ RequiredBy(committed, s) \subseteq cmd.removed \cup cmd.fetched
            \/ RequiredBy(db, s) = RequiredBy(committed, s)
        BY <1>1, <3>3 DEF VisitInv, Remembered, SameRequired
      <4>2. cmd.removed \cup cmd.fetched \subseteq T
        BY <1>4, <1>5
      <4> QED
        BY <3>1, <4>1, <4>2
    <3> QED
      BY <3>2, <3>3
  <2> QED
    BY <2>1 DEF Closed
<1>9. Reachable(committed) \subseteq T
  BY <1>6, <1>7, <1>8, ReachableLeast
<1>10. committed.repos \subseteq T
  BY <1>1, <1>9 DEF Tidy
<1> QED
  BY <1>5, <1>10

\* What is left is published, and all its packages are there unless they were
\* to be read anew but for --shallow.
LEMMA AllPublished ==
  ASSUME BaseInv, GraphInv, Visiting, Called = {}
  PROVE  /\ PublishedIn(db, {})
         /\ PublishedIn(Pruned(db), Whole)
         /\ ~PackagesKept /\ ~ShallowAll => Reachable(db) \subseteq cmd.fetched
<1>1. /\ VisitInv /\ db \in Graph /\ Orphanless(db) /\ cmd.fetched \subseteq Repo
  BY VisitingTyped
<1>2. ASSUME NEW r \in Repo, db.contains[r] # {}
      PROVE  Published(db, r, {})
  <2>1. CASE r \in cmd.fetched
    BY <1>1, <2>1 DEF VisitInv, Visited, Published
  <2>2. CASE r \notin cmd.fetched
    BY <1>2, <2>2, UnvisitedAsPublished DEF Published
  <2> QED
    BY <2>1, <2>2
<1>3. ASSUME ~PackagesKept, ~ShallowAll
      PROVE  Reachable(db) \subseteq cmd.fetched
  <2>1. AllVisited /\ AllFollowed
    BY <1>1, <1>3 DEF VisitInv, PackagesErased
  <2>2. Added(db) \subseteq cmd.fetched
    BY <2>1 DEF AllVisited, AllFollowed
  <2>3. Closed(db, cmd.fetched)
    BY <2>1 DEF AllVisited, Followed, Closed
  <2> QED
    BY <1>1, <2>2, <2>3, ReachableLeast
<1>4. ASSUME NEW r \in db.repos \cap Reachable(db), db.contains[r] # {}
      PROVE  Published(db, r, Whole)
  <2>1. r \in Repo
    BY <1>1 DEF Graph
  <2>2. CASE r \in cmd.fetched
    <3>1. Published(db, r, Fragment)
      BY <1>1, <2>2 DEF VisitInv, Visited
    <3> QED
      BY <3>1 DEF Published, Whole
  <2>3. CASE ShallowAll
    BY <1>2, <1>4, <2>1, <2>3 DEF Whole
  <2>4. CASE r \notin cmd.fetched /\ ~ShallowAll
    <3>1. PackagesKept
      BY <1>3, <1>4, <2>4
    <3>2. PICK o \in Offers[r] :
            /\ DOMAIN o = db.contains[r]
            /\ \A f \in DOMAIN o :
                /\ db.complements[f] = ComplementsOf(r, o[f])
                /\ db.prerequisites[f] = o[f].prerequisites
                /\ f \in cmd.parsed => db.packages[f] = o[f].packages
                /\ f \in Whole => committed.packages[f] = o[f].packages
      BY <1>4, <2>1, <2>4, UnvisitedAsPublished
    <3>3. \A f \in DOMAIN o : f \in Whole => db.packages[f] = o[f].packages
      <4>1. ASSUME NEW f \in DOMAIN o, f \in Whole
            PROVE  db.packages[f] = o[f].packages
        <5>1. f \in Fragment
          BY <2>1, <3>2, OffersTyped
        <5>2. CASE f \in cmd.parsed
          BY <3>2, <5>2
        <5>3. CASE f \notin cmd.parsed
          BY <3>1, <3>2, <4>1, <5>1, <5>3 DEF PackagesKept
        <5> QED
          BY <5>2, <5>3
      <4> QED
        BY <4>1
    <3> QED
      BY <3>2, <3>3 DEF Published
  <2> QED
    BY <2>2, <2>3, <2>4
<1>5. PublishedIn(Pruned(db), Whole)
  BY <1>1, <1>4, PublishedPruned
<1> QED
  BY <1>2, <1>3, <1>5 DEF PublishedIn

\* A repository that can be reached is as published in the pruned graph, too.
LEMMA PublishedKept ==
  ASSUME NEW g \in Graph, NEW r \in g.repos \cap Reachable(g), Published(g, r, Fragment)
  PROVE  AsPublishedIn(Pruned(g), r)
<1> DEFINE h == Pruned(g)
<1>1. /\ h.contains[r] = g.contains[r]
      /\ \A f \in g.contains[r] : /\ h.complements[f] = g.complements[f]
                                  /\ h.prerequisites[f] = g.prerequisites[f]
                                  /\ h.packages[f] = g.packages[f]
  BY PrunedKeeps
<1>2. PICK o \in Offers[r] :
        /\ DOMAIN o = g.contains[r]
        /\ \A f \in DOMAIN o :
            /\ g.complements[f] = ComplementsOf(r, o[f])
            /\ g.prerequisites[f] = o[f].prerequisites
            /\ f \in Fragment => g.packages[f] = o[f].packages
  BY DEF Published
<1>3. r \in Repo /\ \A f \in DOMAIN o : f \in Fragment
  BY <1>2 DEF Graph
<1> HIDE DEF h
<1>4. AsPublishedIn(h, r)
  BY <1>1, <1>2, <1>3 DEF AsPublishedIn
<1> QED
  BY <1>4 DEF h

\* What is left is what the committed graph becomes if those visited are as they
\* are now, and nothing else has changed.
LEMMA VisitedIsUpdated ==
  ASSUME BaseInv, GraphInv, Visiting, Called = {}, ~ShallowAll
  PROVE  Pruned(db) = Pruned(UpdatedBy(committed, Pruned(db), cmd.fetched))
<1> DEFINE g == committed
           h == Pruned(db)
           R == cmd.fetched
           F == UNION {h.contains[r] : r \in R}
           u == UpdatedBy(g, h, R)
<1>1. /\ VisitInv /\ db \in Graph /\ g \in Graph /\ Tidy(g) /\ Orphanless(db)
      /\ R \subseteq Repo
  BY VisitingTyped
<1>2. Shape(db) /\ Unvisited /\ Visited
  BY <1>1 DEF VisitInv
<1>3. R \subseteq db.repos \cap Reachable(db)
  <2>1. Added(db) \subseteq Repo
    BY <1>1 DEF Orphanless, Graph
  <2>2. Supporting(Reachable(db)) /\ Reachable(db) \in SUBSET Repo
    BY <1>1, <2>1, ReachableClosed DEF Supporting, Closed
  <2> QED
    BY <1>1, <1>2, <2>2 DEF VisitInv, Supported, Shape
<1>4. \A r \in R : h.contains[r] = db.contains[r]
  BY <1>1, <1>3, PrunedKeeps
<1>5. F = cmd.parsed
  BY <1>2, <1>4 DEF Visited
<1>6. h \in Graph /\ h.repos = db.repos \cap Reachable(db) /\ Added(h) = Added(db)
  <2>1. Root \in Node
    BY DEF Node
  <2> QED
    BY <1>1, <2>1, PrunedFields DEF Added
<1>7. \A f \in F : /\ h.complements[f] = db.complements[f]
                   /\ h.prerequisites[f] = db.prerequisites[f]
                   /\ h.packages[f] = db.packages[f]
  <2>1. ASSUME NEW r \in R, NEW f \in h.contains[r]
        PROVE  /\ h.complements[f] = db.complements[f]
               /\ h.prerequisites[f] = db.prerequisites[f]
               /\ h.packages[f] = db.packages[f]
    BY <1>1, <1>3, <1>4, <2>1, PrunedKeeps
  <2> QED
    BY <2>1
<1>8. F \subseteq Fragment
  BY <1>5, VisitingTyped
<1>9. u = [repos |-> g.repos \cup h.repos,
           contains |-> [r \in Repo |-> IF r \in R THEN h.contains[r] ELSE g.contains[r]],
           fragments |-> g.fragments \cup F,
           complements |-> [n \in Node |-> IF n \in F \cup {Root} THEN h.complements[n]
                                           ELSE g.complements[n]],
           prerequisites |-> [n \in Node |-> IF n \in F THEN h.prerequisites[n]
                                             ELSE g.prerequisites[n]],
           packages |-> [f \in Fragment |-> IF f \in F THEN h.packages[f]
                                            ELSE g.packages[f]]]
  BY DEF UpdatedBy
<1> HIDE DEF g, h, R, F, u
<1>10. u \in Graph
  <2>1. g.repos \cup h.repos \subseteq Repo /\ g.fragments \cup F \subseteq Fragment
    BY <1>1, <1>6, <1>8 DEF Graph
  <2>2. [r \in Repo |-> IF r \in R THEN h.contains[r] ELSE g.contains[r]]
          \in [Repo -> SUBSET Fragment]
    BY <1>1, <1>6 DEF Graph
  <2>3. [n \in Node |-> IF n \in F \cup {Root} THEN h.complements[n] ELSE g.complements[n]]
          \in [Node -> SUBSET (Repo \cup {RootRepo})]
    BY <1>1, <1>6 DEF Graph
  <2>4. [n \in Node |-> IF n \in F THEN h.prerequisites[n] ELSE g.prerequisites[n]]
          \in [Node -> SUBSET Repo]
    BY <1>1, <1>6 DEF Graph
  <2>5. [f \in Fragment |-> IF f \in F THEN h.packages[f] ELSE g.packages[f]]
          \in [Fragment -> SUBSET Package]
    BY <1>1, <1>6 DEF Graph
  <2> QED
    BY <1>9, <2>1, <2>2, <2>3, <2>4, <2>5 DEF Graph
<1>11. \A r \in Repo : u.contains[r] = db.contains[r]
  <2>1. \A r \in Repo : u.contains[r] = IF r \in R THEN h.contains[r] ELSE g.contains[r]
    BY <1>9
  <2> QED
    BY <1>2, <1>4, <2>1 DEF Unvisited, R, g
<1>12. u.fragments = db.fragments
  BY <1>2, <1>5, <1>9 DEF Unvisited, g
<1>13. Root \in Node /\ Fragment \subseteq Node /\ Root \notin F
  BY <1>8, RootApart DEF Node
<1>14. \A f \in Fragment : u.complements[f] = db.complements[f]
                           /\ u.prerequisites[f] = db.prerequisites[f]
  <2>1. \A f \in Fragment :
          /\ u.complements[f] = IF f \in F THEN h.complements[f] ELSE g.complements[f]
          /\ u.prerequisites[f] = IF f \in F THEN h.prerequisites[f] ELSE g.prerequisites[f]
    BY <1>9, <1>13, RootApart
  <2> QED
    BY <1>2, <1>5, <1>7, <2>1 DEF Unvisited, g
<1>15. Added(u) = Added(db)
  <2>1. u.complements[Root] = h.complements[Root]
    BY <1>9, <1>13
  <2> QED
    BY <1>6, <2>1 DEF Added
<1>16. \A r \in Repo : RequiredBy(u, r) = RequiredBy(db, r)
  <2>1. ASSUME NEW r \in Repo
        PROVE  RequiredBy(u, r) = RequiredBy(db, r)
    <3>1. u.contains[r] \subseteq Fragment
      BY <1>10 DEF Graph
    <3> QED
      BY <1>11, <1>14, <3>1, RequiredBySame
  <2> QED
    BY <2>1
<1>17. Reachable(u) = Reachable(db)
  BY <1>15, <1>16, ReachableSame
<1>18. \A r \in Reachable(db) : r \in db.repos /\ r \in u.repos
  BY <1>2, <1>6, <1>9 DEF Shape
<1>19. ASSUME NEW r \in Repo, r \in Reachable(db), NEW f \in db.contains[r]
       PROVE  u.packages[f] = db.packages[f]
  <2>1. f \in Fragment
    BY <1>1 DEF Graph
  <2>2. u.packages[f] = IF f \in F THEN h.packages[f] ELSE g.packages[f]
    BY <1>9, <2>1
  <2>3. CASE f \in F
    BY <1>7, <2>2, <2>3
  <2>4. CASE f \notin F /\ PackagesKept
    BY <1>5, <2>1, <2>2, <2>4 DEF PackagesKept, g
  <2>5. CASE f \notin F /\ ~PackagesKept
    <3>1. r \in cmd.fetched
      BY <1>19, <2>5, AllPublished
    <3> QED
      BY <1>2, <1>5, <1>19, <2>5, <3>1 DEF Visited
  <2> QED
    BY <2>3, <2>4, <2>5
<1>20. Pruned(db) = Pruned(u)
  BY <1>1, <1>10, <1>11, <1>12, <1>14, <1>15, <1>17, <1>18, <1>19, PrunedSame DEF Graph
<1> QED
  BY <1>20 DEF g, h, R, u

\* With nothing left to call, all that is left to do is to prune the result of
\* the abstract fetch.
LEMMA VisitedIsFetched ==
  ASSUME BaseInv, GraphInv, Visiting, Called = {}, ~ShallowAll
  PROVE  FetchedTo(committed, Pruned(db))
<1> DEFINE h == Pruned(db)
           R == cmd.fetched
           A == cmd.args
<1>1. /\ VisitInv /\ db \in Graph /\ Orphanless(db)
      /\ R \subseteq Repo /\ A \in SUBSET Repo
  BY VisitingTyped
<1>2. Shape(db) /\ Unvisited /\ Visited /\ AllFollowed
  BY <1>1 DEF VisitInv
<1>3. R \subseteq db.repos \cap Reachable(db)
  <2>1. Added(db) \subseteq Repo
    BY <1>1 DEF Orphanless, Graph
  <2>2. Supporting(Reachable(db)) /\ Reachable(db) \in SUBSET Repo
    BY <1>1, <2>1, ReachableClosed DEF Supporting, Closed
  <2> QED
    BY <1>1, <1>2, <2>2 DEF VisitInv, Supported, Shape
<1>4. h.repos = db.repos \cap Reachable(db) /\ Added(h) = Added(db)
  <2>1. Root \in Node
    BY DEF Node
  <2> QED
    BY <1>1, <2>1, PrunedFields DEF Added
<1>5. A # {} /\ A \subseteq R /\ Added(h) = Added(committed) \cup A
  BY <1>2, <1>4 DEF AllFollowed, Unvisited
<1>6. ASSUME NEW r \in R
      PROVE  /\ AsPublishedIn(h, r)
             /\ \/ RequiredBy(h, r) \subseteq R
                \/ r \in A /\ RequiredBy(h, r) = RequiredBy(committed, r)
  <2>1. Published(db, r, Fragment)
    BY <1>2, <1>6 DEF Visited
  <2>2. AsPublishedIn(h, r)
    BY <1>1, <1>3, <2>1, PublishedKept
  <2>3. RequiredBy(h, r) = RequiredBy(db, r)
    BY <1>1, <1>3, PrunedKeeps
  <2>4. Followed(r) \/ (r \in A /\ SameRequired(r))
    BY <1>2, <1>6 DEF AllFollowed
  <2> QED
    BY <2>2, <2>3, <2>4 DEF Followed, SameRequired
<1>7. h = Pruned(UpdatedBy(committed, h, R))
  BY VisitedIsUpdated
<1>8. R \in SUBSET h.repos
  BY <1>3, <1>4
<1> HIDE DEF h, R, A
<1>9. FetchedTo(committed, h)
  BY <1>1, <1>5, <1>6, <1>7, <1>8 DEF FetchedTo
<1> QED
  BY <1>9 DEF h

\* GraphInv when the removals start.
LEMMA StartPruningGraph ==
  ASSUME BaseInv, GraphInv, StartPruning
  PROVE  GraphInv'
<1>1. /\ cmd \in Command /\ cmd.op = "fetch" /\ cmd.calls = <<>> /\ ~cmd.pruning
      /\ committed' = committed /\ db' = db
      /\ cmd' \in Command /\ cmd'.op = "fetch" /\ cmd'.args = cmd.args /\ cmd'.pruning
      /\ \A k : QueuedIn(k, cmd'.todo) = IF k = "repo" THEN cmd.removed
                                         ELSE IF k = "fragment" THEN cmd.dangling ELSE {}
  BY StartPruningForm DEF BaseInv
<1>2. Visiting /\ Called = {}
  BY <1>1, NotIdle, NothingCalled DEF Visiting, Called
<1>3. VisitInv
  BY <1>2, VisitingTyped
<1>4. Queued("repo")' = cmd.removed /\ Queued("fragment")' = cmd.dangling
  <2>1. QueuedIn("repo", cmd'.todo) = cmd.removed /\ QueuedIn("fragment", cmd'.todo) = cmd.dangling
    BY <1>1
  <2> QED
    BY <2>1 DEF Queued
<1>5. Shape(db)'
  BY <1>1, <1>3 DEF VisitInv, Shape, Reachable, Added, RequiredBy, Required
<1>6. PublishedIn(db, {})'
  <2>1. PublishedIn(db, {})
    BY <1>2, AllPublished
  <2> QED
    BY <1>1, <2>1 DEF PublishedIn, Published
<1>7. (db.repos \subseteq Reachable(db) \cup From(db, Seeds))'
  <2>1. cmd.removed \subseteq Seeds'
    BY <1>4 DEF Seeds
  <2>2. db.repos \subseteq Reachable(db) \cup From(db, Seeds')
    BY <1>2, <2>1, AllRemembered, FromGrows
  <2> QED
    BY <1>1, <2>2 DEF Reachable, Added, From, Closed, RequiredBy, Required
<1>8. (\A f \in db.fragments : f \in Queued("fragment") \/ InUse(db, f))'
  BY <1>1, <1>3, <1>4 DEF VisitInv, Remembered, InUse
<1>9. (\A f \in Queued("fragment") : Dropped(db, f))'
  BY <1>1, <1>3, <1>4 DEF VisitInv, Remembered, Dropped
<1>10. PublishedIn(Pruned(db), Whole)'
  <2>1. PublishedIn(Pruned(db), Whole)
    BY <1>2, AllPublished
  <2> QED
    BY <1>1, <2>1 DEF Whole
<1>11. (cmd.op = "remove" =>
          /\ cmd.args \subseteq Added(committed)
          /\ Pruned(db) = Pruned(Unreference(committed, cmd.args, {Root})))'
  BY <1>1
<1>12. (cmd.op = "fetch" /\ ~ShallowAll => FetchedTo(committed, Pruned(db)))'
  <2>1. ~ShallowAll => FetchedTo(committed, Pruned(db))
    BY <1>2, VisitedIsFetched
  <2>2. FetchedTo(committed', Pruned(db')) <=> FetchedTo(committed, Pruned(db))
    BY <1>1
  <2> QED
    BY <2>1, <2>2
<1>13. PruneInv'
  BY <1>5, <1>6, <1>7, <1>8, <1>9, <1>10, <1>11, <1>12 DEF PruneInv
<1>14. (Tidy(committed) /\ PublishedIn(committed, Whole))'
  BY <1>1, SameCommitted
<1> QED
  BY <1>1, <1>13, <1>14 DEF GraphInv, Visiting
-----------------------------------------------------------------------------
\* What is required no longer is removed.

\* What holds while objects are removed.
LEMMA PruningTyped ==
  ASSUME BaseInv, GraphInv, NEW kind, Removing(kind), cmd.op # "mask"
  PROVE  /\ db \in Graph /\ Orphanless(db) /\ Added(db) \in SUBSET Repo
         /\ PruneInv
         /\ Queued("repo") \in SUBSET Repo /\ Queued("fragment") \in SUBSET Fragment
         /\ Seeds \in SUBSET Repo
<1>1. Pruning
  BY RemovingPrunes
<1>2. db \in Graph /\ Orphanless(db) /\ PruneInv
  BY <1>1 DEF BaseInv, TypeOK, GraphInv
<1>3. Added(db) \in SUBSET Repo
  BY <1>2 DEF Orphanless, Graph
<1>4. cmd.todo \in Seq(Task)
  BY TaskTyped DEF BaseInv
<1>5. \A t \in ToSet(cmd.todo) : t \in Task
  BY <1>4 DEF ToSet
<1>6. Queued("repo") \subseteq Repo /\ Queued("fragment") \subseteq Fragment
  BY <1>5 DEF Queued, QueuedIn, Task
<1>7. \A f \in Queued("fragment") : Required(db, f) \subseteq Repo
  BY <1>2, <1>6, RequiredTyped DEF Node
<1> QED
  BY <1>2, <1>3, <1>6, <1>7 DEF Seeds

\* What is queued after a task.
LEMMA QueuedOnward ==
  ASSUME BaseInv, NEW kind, Removing(kind), NEW tasks \in Seq(Task), Then(tasks), NEW k
  PROVE  /\ Queued(k)' = QueuedIn(k, tasks) \cup QueuedIn(k, Tail(cmd.todo))
         /\ Queued(k) = (IF k = kind THEN {task.id} ELSE {}) \cup QueuedIn(k, Tail(cmd.todo))
<1>1. cmd \in Command /\ cmd.todo # <<>>
      /\ Queued(k) = (IF k = kind THEN {task.id} ELSE {}) \cup QueuedIn(k, Tail(cmd.todo))
  BY TaskTyped DEF BaseInv
<1>2. QueuedIn(k, cmd'.todo) = QueuedIn(k, tasks) \cup QueuedIn(k, Tail(cmd.todo))
  BY <1>1, ThenForm
<1> QED
  BY <1>1, <1>2 DEF Queued

\* GraphInv after a task that changes nothing of what can be reached.
LEMMA OnwardGraph ==
  ASSUME BaseInv, GraphInv, NEW kind, Removing(kind), NEW tasks \in Seq(Task), Then(tasks),
         committed' = committed,
         cmd.op # "mask" =>
            /\ Shape(db') /\ PublishedIn(db', {}) /\ Pruned(db') = Pruned(db)
            /\ db'.repos \subseteq Reachable(db') \cup From(db', Seeds')
            /\ \A f \in db'.fragments : f \in Queued("fragment")' \/ InUse(db', f)
            /\ \A f \in Queued("fragment")' : Dropped(db', f)
  PROVE  GraphInv'
<1>1. cmd # Idle /\ cmd \in Command /\ cmd.pruning /\ cmd.todo # <<>>
  BY RemovingPrunes
<1>2. /\ cmd' \in Command /\ cmd'.op = cmd.op /\ cmd'.args = cmd.args
      /\ (cmd'.pruning <=> cmd.pruning)
  BY <1>1, ThenForm
<1>3. (Tidy(committed) /\ PublishedIn(committed, Whole))'
  BY SameCommitted
<1>4. CASE cmd.op = "mask"
  BY <1>1, <1>2, <1>3, <1>4 DEF GraphInv, Visiting, Pruning
<1>5. CASE cmd.op # "mask"
  <2>1. PruneInv
    BY <1>5, PruningTyped
  <2>2. PublishedIn(Pruned(db'), Whole)
    BY <1>5, <2>1 DEF PruneInv
  <2>3. cmd'.op = "remove" =>
          /\ cmd'.args \subseteq Added(committed')
          /\ Pruned(db') = Pruned(Unreference(committed', cmd'.args, {Root}))
    BY <1>2, <1>5, <2>1 DEF PruneInv
  <2>4. cmd'.op = "fetch" /\ ~ShallowAll => FetchedTo(committed', Pruned(db'))
    BY <1>2, <1>5, <2>1 DEF PruneInv
  <2>5. PruneInv'
    BY <1>5, <2>2, <2>3, <2>4 DEF PruneInv, Whole
  <2> QED
    BY <1>1, <1>2, <1>3, <2>5 DEF GraphInv, Visiting
<1> QED
  BY <1>4, <1>5

\* What a repository has is published for it.
LEMMA RequiresWithin ==
  ASSUME NEW g \in Graph, PublishedIn(g, {}), NEW S \in SUBSET Repo,
         \A s \in S : \A o \in Offers[s] : \A x \in DOMAIN o :
            o[x].complements \cup o[x].prerequisites \subseteq S
  PROVE  Closed(g, S)
<1>1. ASSUME NEW s \in S, NEW x \in g.contains[s]
      PROVE  Required(g, x) \subseteq S
  <2>1. PICK o \in Offers[s] :
          /\ DOMAIN o = g.contains[s]
          /\ \A f \in DOMAIN o : /\ g.complements[f] = ComplementsOf(s, o[f])
                                 /\ g.prerequisites[f] = o[f].prerequisites
    BY <1>1 DEF PublishedIn, Published
  <2>2. Required(g, x) = (ComplementsOf(s, o[x]) \cup o[x].prerequisites) \ {RootRepo}
    BY <1>1, <2>1 DEF Required
  <2>3. Required(g, x) = o[x].complements \cup o[x].prerequisites
    BY <1>1, <2>1, <2>2, OffersTyped
  <2> QED
    BY <1>1, <2>1, <2>3
<1> QED
  BY <1>1 DEF Closed, RequiredBy

\* A repository is not there only because its own fragments require it, if they
\* are shared: with c as it was published, and g requiring no more.
LEMMA NotOwnRequirement ==
  ASSUME SharedAcyclic, NEW c \in Graph, PublishedIn(c, {}), NEW g \in Graph,
         \A x \in Repo : RequiredBy(g, x) \subseteq RequiredBy(c, x),
         NEW r \in Repo, NEW s \in Repo, r # s, NEW f \in c.contains[s], Offered(f, r),
         Required(g, f) \subseteq Required(c, f)
  PROVE  s \notin From(g, Required(g, f))
<1>1. PICK o1 \in Offers[r] : f \in DOMAIN o1
  BY DEF Offered
<1>2. PICK o2 \in Offers[s] :
        /\ DOMAIN o2 = c.contains[s]
        /\ \A x \in DOMAIN o2 : /\ c.complements[x] = ComplementsOf(s, o2[x])
                                /\ c.prerequisites[x] = o2[x].prerequisites
  BY DEF PublishedIn, Published
<1>3. PICK S \in SUBSET Repo :
        /\ o2[f].complements \cup o2[f].prerequisites \subseteq S
        /\ \A x \in S : \A o \in Offers[x] : \A y \in DOMAIN o :
            o[y].complements \cup o[y].prerequisites \subseteq S
        /\ s \notin S
  BY <1>1, <1>2 DEF SharedAcyclic
<1>4. Required(c, f) = o2[f].complements \cup o2[f].prerequisites
  <2>1. Required(c, f) = (ComplementsOf(s, o2[f]) \cup o2[f].prerequisites) \ {RootRepo}
    BY <1>2 DEF Required
  <2> QED
    BY <1>2, <2>1, OffersTyped
<1>5. Closed(c, S)
  BY <1>3, RequiresWithin
<1>6. Closed(g, S)
  BY <1>5 DEF Closed
<1>7. From(g, Required(g, f)) \subseteq S
  BY <1>3, <1>4, <1>6, FromLeast
<1> QED
  BY <1>3, <1>7

\* A repository that is gone or can be reached leads nowhere else.
LEMMA LeadsNowhere ==
  ASSUME NEW g \in Graph, Orphanless(g), NEW r \in Repo, r \in Reachable(g) \/ r \notin g.repos,
         NEW X \in SUBSET Repo, g.repos \subseteq Reachable(g) \cup From(g, {r} \cup X)
  PROVE  g.repos \subseteq Reachable(g) \cup From(g, X)
<1>1. From(g, {r} \cup X) = From(g, {r}) \cup From(g, X)
  BY FromUnion
<1>2. CASE r \in Reachable(g)
  <2>1. From(g, {r}) \subseteq Reachable(g)
    BY <1>2, ReachableClosed, FromLeast DEF Orphanless, Graph
  <2> QED
    BY <1>1, <2>1
<1>3. CASE r \notin g.repos
  <2>1. RequiredBy(g, r) = {}
    BY <1>3 DEF Orphanless, RequiredBy
  <2>2. Closed(g, {r})
    BY <2>1 DEF Closed
  <2>3. From(g, {r}) \subseteq {r}
    BY <2>2, FromLeast
  <2> QED
    BY <1>1, <1>3, <2>3
<1> QED
  BY <1>2, <1>3

\* Nor does a fragment of a repository that can be reached otherwise.
LEMMA RequiredAnyway ==
  ASSUME NEW g \in Graph, Orphanless(g), NEW s \in g.repos, NEW f \in g.contains[s],
         s \notin From(g, Required(g, f)),
         NEW X \in SUBSET Repo, g.repos \subseteq Reachable(g) \cup From(g, Required(g, f) \cup X)
  PROVE  g.repos \subseteq Reachable(g) \cup From(g, X)
<1>1. s \in Repo /\ Required(g, f) \subseteq RequiredBy(g, s) /\ Required(g, f) \in SUBSET Repo
  BY RequiredTyped DEF Graph, RequiredBy
<1>2. From(g, Required(g, f) \cup X) = From(g, Required(g, f)) \cup From(g, X)
  BY <1>1, FromUnion
<1>3. CASE s \in Reachable(g)
  <2>1. Required(g, f) \subseteq Reachable(g) /\ Closed(g, Reachable(g))
        /\ Reachable(g) \in SUBSET Repo
    BY <1>1, <1>3, ReachableClosed DEF Closed, Orphanless, Graph
  <2>2. From(g, Required(g, f)) \subseteq Reachable(g)
    BY <2>1, FromLeast
  <2> QED
    BY <1>2, <2>2
<1>4. CASE s \in From(g, X)
  <2>1. Required(g, f) \subseteq From(g, X) /\ Closed(g, From(g, X))
        /\ From(g, X) \in SUBSET Repo
    BY <1>1, <1>4, FromClosed, FromTyped DEF Closed
  <2>2. From(g, Required(g, f)) \subseteq From(g, X)
    BY <2>1, FromLeast
  <2> QED
    BY <1>2, <2>2
<1> QED
  BY <1>2, <1>3, <1>4

\* In graph h repository r of g, which cannot be reached, requires nothing any more.
Erased(g, h, r) ==
    /\ r \in Repo \ Reachable(g)
    /\ Added(h) = Added(g)
    /\ RequiredBy(h, r) = {}
    /\ \A s \in Repo \ {r} : RequiredBy(h, s) = RequiredBy(g, s)

\* The same can be reached then.
LEMMA ErasedReachable ==
  ASSUME NEW g \in Graph, NEW h \in Graph, Orphanless(g), NEW r, Erased(g, h, r)
  PROVE  Reachable(h) = Reachable(g)
<1>1. Added(g) \subseteq Repo
  BY DEF Orphanless, Graph
<1>2. /\ Added(g) \subseteq Reachable(g) /\ Reachable(g) \in SUBSET Repo
      /\ Closed(g, Reachable(g))
  BY <1>1, ReachableClosed
<1>3. Reachable(h) \subseteq Reachable(g)
  <2>1. Closed(h, Reachable(g))
    BY <1>2 DEF Closed, Erased
  <2> QED
    BY <1>2, <2>1, ReachableLeast DEF Erased
<1>4. /\ Added(g) \subseteq Reachable(h) /\ Reachable(h) \in SUBSET Repo
      /\ Closed(h, Reachable(h))
  BY <1>1, ReachableClosed DEF Erased
<1>5. Reachable(g) \subseteq Reachable(h)
  <2>1. Closed(g, Reachable(h))
    BY <1>3, <1>4 DEF Closed, Erased
  <2> QED
    BY <1>4, <2>1, ReachableLeast
<1> QED
  BY <1>3, <1>5

\* And what it required takes its place among what leads to the others.
LEMMA ErasedLeads ==
  ASSUME NEW g \in Graph, NEW h \in Graph, Orphanless(g), NEW r, Erased(g, h, r),
         NEW X, NEW Y \in SUBSET Repo, X \subseteq Y \cup {r}, RequiredBy(g, r) \subseteq Y,
         g.repos \subseteq Reachable(g) \cup From(g, X)
  PROVE  g.repos \ {r} \subseteq Reachable(h) \cup From(h, Y)
<1> DEFINE T == Reachable(h) \cup From(h, Y)
           W == T \cup {r}
<1>1. Y \subseteq From(h, Y) /\ From(h, Y) \in SUBSET Repo /\ Closed(h, From(h, Y))
  BY FromIncludes, FromTyped, FromClosed
<1>2. Added(h) \subseteq Repo
  BY DEF Orphanless, Graph, Erased
<1>3. Added(h) \subseteq Reachable(h) /\ Reachable(h) \in SUBSET Repo /\ Closed(h, Reachable(h))
  BY <1>2, ReachableClosed
<1>4. Closed(h, T)
  BY <1>1, <1>3 DEF Closed
<1>5. W \in SUBSET Repo /\ T \subseteq W
  BY <1>1, <1>3 DEF Erased
<1>6. Closed(g, W)
  <2>1. ASSUME NEW s \in W
        PROVE  RequiredBy(g, s) \subseteq W
    <3>1. CASE s = r
      BY <1>1, <3>1
    <3>2. CASE s # r
      <4>1. s \in T /\ s \in Repo \ {r}
        BY <1>5, <3>2
      <4>2. RequiredBy(h, s) \subseteq T
        BY <1>4, <4>1 DEF Closed
      <4> QED
        BY <1>5, <4>1, <4>2 DEF Erased
    <3> QED
      BY <3>1, <3>2
  <2> QED
    BY <2>1 DEF Closed
<1>7. Reachable(g) \subseteq W
  BY <1>3, <1>5, <1>6, ReachableLeast DEF Erased
<1>8. From(g, X) \subseteq W
  BY <1>1, <1>5, <1>6, FromLeast
<1> QED
  BY <1>7, <1>8
\* What is queued when a repository is kept.
LEMMA KeepRepoForm ==
  ASSUME BaseInv, KeepRepo
  PROVE  /\ Removing("repo") /\ Then(<<>>) /\ <<>> \in Seq(Task)
         /\ db' = db /\ committed' = committed
         /\ task.id \in Repo /\ (task.id \in Reachable(db) \/ task.id \notin db.repos)
         /\ Queued("repo") = {task.id} \cup Queued("repo")'
         /\ Queued("fragment") = Queued("fragment")'
<1>1. /\ Removing("repo") /\ Then(<<>>) /\ db' = db /\ committed' = committed
      /\ task.id \in Reachable(db) \/ task.id \notin db.repos
  BY DEF KeepRepo, Skip
<1>2. <<>> \in Seq(Task) /\ \A k : QueuedIn(k, <<>>) = {}
  BY NothingCalled
<1>3. \A k : /\ Queued(k)' = QueuedIn(k, <<>>) \cup QueuedIn(k, Tail(cmd.todo))
             /\ Queued(k) = (IF k = "repo" THEN {task.id} ELSE {}) \cup QueuedIn(k, Tail(cmd.todo))
  BY <1>1, <1>2, QueuedOnward
<1>4. Queued("repo")' = QueuedIn("repo", Tail(cmd.todo))
      /\ Queued("fragment")' = QueuedIn("fragment", Tail(cmd.todo))
  BY <1>2, <1>3
<1>5. task.id \in Repo
  BY <1>1, TaskTyped DEF BaseInv
<1> QED
  BY <1>1, <1>2, <1>3, <1>4, <1>5

\* What is queued when a fragment is kept.
LEMMA KeepFragmentForm ==
  ASSUME BaseInv, KeepFragment
  PROVE  /\ Removing("fragment") /\ Then(<<>>) /\ <<>> \in Seq(Task)
         /\ db' = db /\ committed' = committed
         /\ task.id \in Fragment
         /\ task.id \in db.fragments => \E r \in db.repos : task.id \in db.contains[r]
         /\ Queued("repo") = Queued("repo")'
         /\ Queued("fragment") = {task.id} \cup Queued("fragment")'
<1>1. /\ Removing("fragment") /\ Then(<<>>) /\ db' = db /\ committed' = committed
      /\ task.id \in db.fragments => \E r \in db.repos : task.id \in db.contains[r]
  BY DEF KeepFragment, Skip, Contained
<1>2. <<>> \in Seq(Task) /\ \A k : QueuedIn(k, <<>>) = {}
  BY NothingCalled
<1>3. \A k : /\ Queued(k)' = QueuedIn(k, <<>>) \cup QueuedIn(k, Tail(cmd.todo))
             /\ Queued(k) = (IF k = "fragment" THEN {task.id} ELSE {})
                            \cup QueuedIn(k, Tail(cmd.todo))
  BY <1>1, <1>2, QueuedOnward
<1>4. Queued("repo")' = QueuedIn("repo", Tail(cmd.todo))
      /\ Queued("fragment")' = QueuedIn("fragment", Tail(cmd.todo))
  BY <1>2, <1>3
<1>5. task.id \in Fragment
  BY <1>1, TaskTyped DEF BaseInv
<1> QED
  BY <1>1, <1>2, <1>3, <1>4, <1>5

\* What is queued when a repository is removed, and what is left of it.
LEMMA RemoveRepoForm ==
  ASSUME BaseInv, RemoveRepo
  PROVE  /\ Removing("repo") /\ (\E tasks \in Seq(Task) : Then(tasks))
         /\ committed' = committed
         /\ task.id \in db.repos \ Reachable(db) /\ db.contains[task.id] \in SUBSET Fragment
         /\ Queued("repo") = {task.id} \cup Queued("repo")'
         /\ Queued("fragment")' = db.contains[task.id] \cup Queued("fragment")
         /\ db' \in Graph
         /\ db'.repos = db.repos \ {task.id}
         /\ db'.contains[task.id] = {}
         /\ \A s \in Repo \ {task.id} : db'.contains[s] = db.contains[s]
         /\ db'.fragments = db.fragments
         /\ db'.complements = db.complements
         /\ db'.prerequisites = db.prerequisites
         /\ db'.packages = db.packages
         /\ \A f : Required(db', f) = Required(db, f)
         /\ Erased(db, db', task.id)
<1> DEFINE r == task.id
<1>1. /\ Removing("repo")
      /\ db' = EraseRepo(db, r)
      /\ committed' = committed
      /\ r \in db.repos \ Reachable(db)
  BY DEF RemoveRepo
<1>2. r \in Repo /\ db \in Graph /\ db.contains[r] \in SUBSET Fragment
  BY <1>1, TaskTyped DEF BaseInv, TypeOK, Graph
<1>3. /\ db' \in Graph
      /\ db'.repos = db.repos \ {r}
      /\ db'.contains[r] = {}
      /\ \A s \in Repo \ {r} : db'.contains[s] = db.contains[s]
      /\ db'.fragments = db.fragments
      /\ db'.complements = db.complements
      /\ db'.prerequisites = db.prerequisites
      /\ db'.packages = db.packages
  BY <1>1, <1>2, EraseRepoFields
<1>4. PICK fs \in SetToSeqs(db.contains[r]) :
        Then(Tasks("fragment", fs, FALSE)
             \o (IF cmd.op = "mask" THEN <<>> ELSE Tasks("state", <<r>>, FALSE)))
  BY DEF RemoveRepo
<1> DEFINE fragments == Tasks("fragment", fs, FALSE)
           state == IF cmd.op = "mask" THEN <<>> ELSE Tasks("state", <<r>>, FALSE)
           tasks == fragments \o state
<1>5. /\ fragments \in Seq(Task)
      /\ \A k : QueuedIn(k, fragments) = IF k = "fragment" THEN db.contains[r] ELSE {}
  BY <1>2, TasksOf
<1>6. state \in Seq(Task) /\ \A k : k # "state" => QueuedIn(k, state) = {}
  <2>1. CASE cmd.op = "mask"
    BY <2>1, NothingCalled
  <2>2. CASE cmd.op # "mask"
    BY <1>2, <2>2, TaskOfState
  <2> QED
    BY <2>1, <2>2
<1>7. Then(tasks)
  BY <1>4
<1> HIDE DEF r, fragments, state
<1>8. /\ tasks \in Seq(Task)
      /\ \A k : QueuedIn(k, tasks) = QueuedIn(k, fragments) \cup QueuedIn(k, state)
  BY <1>5, <1>6, TasksJoined
<1> HIDE DEF tasks
<1>9. /\ QueuedIn("fragment", tasks) = db.contains[r]
      /\ QueuedIn("repo", tasks) = {}
  BY <1>5, <1>6, <1>8
<1>10. \A k : /\ Queued(k)' = QueuedIn(k, tasks) \cup QueuedIn(k, Tail(cmd.todo))
              /\ Queued(k) = (IF k = "repo" THEN {r} ELSE {}) \cup QueuedIn(k, Tail(cmd.todo))
  BY <1>1, <1>7, <1>8, QueuedOnward DEF r
<1>11. /\ Queued("repo") = {r} \cup Queued("repo")'
       /\ Queued("fragment")' = db.contains[r] \cup Queued("fragment")
  <2>1. /\ Queued("repo")' = QueuedIn("repo", Tail(cmd.todo))
        /\ Queued("fragment")' = db.contains[r] \cup QueuedIn("fragment", Tail(cmd.todo))
    BY <1>9, <1>10
  <2>2. /\ Queued("repo") = {r} \cup QueuedIn("repo", Tail(cmd.todo))
        /\ Queued("fragment") = QueuedIn("fragment", Tail(cmd.todo))
    BY <1>10
  <2> QED
    BY <2>1, <2>2
<1>12. \A f : Required(db', f) = Required(db, f)
  BY <1>3 DEF Required
<1>13. Erased(db, db', r)
  <2>1. \A s \in Repo \ {r} : RequiredBy(db', s) = RequiredBy(db, s)
    BY <1>3, <1>12 DEF RequiredBy
  <2>2. RequiredBy(db', r) = {} /\ Added(db') = Added(db)
    BY <1>3 DEF RequiredBy, Added
  <2> QED
    BY <1>1, <1>2, <2>1, <2>2 DEF Erased
<1> QED
  BY <1>1, <1>2, <1>3, <1>7, <1>8, <1>11, <1>12, <1>13 DEF r

\* What is queued when a fragment is removed, and what is left of it.
LEMMA RemoveFragmentForm ==
  ASSUME BaseInv, RemoveFragment
  PROVE  /\ Removing("fragment") /\ (\E tasks \in Seq(Task) : Then(tasks))
         /\ committed' = committed
         /\ task.id \in Fragment
         /\ \A s \in Repo : task.id \notin db.contains[s]
         /\ Queued("repo")' = Required(db, task.id) \cup Queued("repo")
         /\ Queued("fragment") = {task.id} \cup Queued("fragment")'
         /\ db' \in Graph /\ db'.repos = db.repos /\ db'.contains = db.contains
         /\ db'.fragments = db.fragments \ {task.id}
         /\ \A n \in Node : db'.complements[n] = IF n = task.id THEN {} ELSE db.complements[n]
         /\ \A n \in Node : db'.prerequisites[n] = IF n = task.id THEN {} ELSE db.prerequisites[n]
         /\ cmd.op # "mask" =>
              \A x \in Fragment : db'.packages[x] = IF x = task.id THEN {} ELSE db.packages[x]
         /\ \A x \in Fragment \ {task.id} : Required(db', x) = Required(db, x)
         /\ Added(db') = Added(db)
         /\ \A s \in Repo : RequiredBy(db', s) = RequiredBy(db, s)
<1> DEFINE f == task.id
           g == IF cmd.op = "mask" THEN db ELSE ErasePackages(db, {f})
<1>1. /\ Removing("fragment")
      /\ db' = EraseFragment(g, f)
      /\ committed' = committed
      /\ \A s \in db.repos : f \notin db.contains[s]
  BY DEF RemoveFragment, Contained
<1>2. f \in Fragment /\ db \in Graph /\ f # Root /\ Fragment \subseteq Node /\ Root \in Node
  BY <1>1, TaskTyped, RootApart DEF BaseInv, TypeOK, Node
<1>3. /\ g \in Graph /\ g.repos = db.repos /\ g.contains = db.contains
      /\ g.fragments = db.fragments
      /\ g.complements = db.complements
      /\ g.prerequisites = db.prerequisites
      /\ cmd.op # "mask" => \A x \in Fragment : g.packages[x] = IF x = f THEN {} ELSE db.packages[x]
  BY <1>2, ErasePackagesFields
<1>4. PICK cs \in SetToSeqs(db.complements[f] \ {RootRepo}),
           ps \in SetToSeqs(db.prerequisites[f]) :
             Then(Tasks("repo", cs, TRUE) \o Tasks("repo", ps, TRUE))
  BY DEF RemoveFragment
<1>5. /\ db.complements[f] \ {RootRepo} \in SUBSET Repo
      /\ db.prerequisites[f] \in SUBSET Repo
      /\ Required(db, f) = (db.complements[f] \ {RootRepo}) \cup db.prerequisites[f]
  <2>1. db.complements[f] \subseteq Repo \cup {RootRepo} /\ db.prerequisites[f] \subseteq Repo
    BY <1>2 DEF Graph
  <2> QED
    BY <2>1, RootApart DEF Required
<1> DEFINE C == Tasks("repo", cs, TRUE)
           P == Tasks("repo", ps, TRUE)
           tasks == C \o P
<1>6. /\ C \in Seq(Task)
      /\ \A k : QueuedIn(k, C) = IF k = "repo" THEN db.complements[f] \ {RootRepo} ELSE {}
  BY <1>5, TasksOf
<1>7. /\ P \in Seq(Task)
      /\ \A k : QueuedIn(k, P) = IF k = "repo" THEN db.prerequisites[f] ELSE {}
  BY <1>5, TasksOf
<1>8. Then(tasks)
  BY <1>4
<1> HIDE DEF f, g, C, P
<1>9. /\ tasks \in Seq(Task)
      /\ \A k : QueuedIn(k, tasks) = QueuedIn(k, C) \cup QueuedIn(k, P)
  BY <1>6, <1>7, TasksJoined
<1> HIDE DEF tasks
<1>10. /\ QueuedIn("repo", tasks) = Required(db, f)
       /\ QueuedIn("fragment", tasks) = {}
  BY <1>5, <1>6, <1>7, <1>9
<1>11. \A k : /\ Queued(k)' = QueuedIn(k, tasks) \cup QueuedIn(k, Tail(cmd.todo))
              /\ Queued(k) = (IF k = "fragment" THEN {f} ELSE {}) \cup QueuedIn(k, Tail(cmd.todo))
  BY <1>1, <1>8, <1>9, QueuedOnward DEF f
<1>12. /\ Queued("repo")' = Required(db, f) \cup Queued("repo")
       /\ Queued("fragment") = {f} \cup Queued("fragment")'
  <2>1. /\ Queued("repo")' = Required(db, f) \cup QueuedIn("repo", Tail(cmd.todo))
        /\ Queued("fragment")' = QueuedIn("fragment", Tail(cmd.todo))
    BY <1>10, <1>11
  <2>2. /\ Queued("repo") = QueuedIn("repo", Tail(cmd.todo))
        /\ Queued("fragment") = {f} \cup QueuedIn("fragment", Tail(cmd.todo))
    BY <1>11
  <2> QED
    BY <2>1, <2>2
<1>13. /\ db' \in Graph /\ db'.repos = db.repos /\ db'.contains = db.contains
       /\ db'.fragments = db.fragments \ {f}
       /\ \A n \in Node : db'.complements[n] = IF n = f THEN {} ELSE db.complements[n]
       /\ \A n \in Node : db'.prerequisites[n] = IF n = f THEN {} ELSE db.prerequisites[n]
       /\ db'.packages = g.packages
  BY <1>1, <1>2, <1>3, EraseFragmentFields
<1>14. \A x \in Fragment \ {f} : Required(db', x) = Required(db, x)
  BY <1>2, <1>13 DEF Required
<1>15. Added(db') = Added(db)
  BY <1>2, <1>13 DEF Added
<1>16. \A s \in Repo : f \notin db.contains[s] /\ db.contains[s] \subseteq Fragment
  BY <1>1, <1>2 DEF BaseInv, Orphanless, Graph
<1>17. \A s \in Repo : RequiredBy(db', s) = RequiredBy(db, s)
  BY <1>13, <1>14, <1>16 DEF RequiredBy
<1> QED
  BY <1>1, <1>2, <1>3, <1>8, <1>9, <1>12, <1>13, <1>14, <1>15, <1>16, <1>17 DEF f
\* A repository that is gone or can be reached anyway need not be looked at.
LEMMA KeepRepoGraph ==
  ASSUME BaseInv, GraphInv, KeepRepo
  PROVE  GraphInv'
<1>1. /\ Removing("repo") /\ Then(<<>>) /\ <<>> \in Seq(Task)
      /\ db' = db /\ committed' = committed
      /\ task.id \in Repo /\ (task.id \in Reachable(db) \/ task.id \notin db.repos)
      /\ Queued("repo") = {task.id} \cup Queued("repo")'
      /\ Queued("fragment") = Queued("fragment")'
  BY KeepRepoForm
<1>2. ASSUME cmd.op # "mask"
      PROVE  /\ Shape(db') /\ PublishedIn(db', {}) /\ Pruned(db') = Pruned(db)
             /\ db'.repos \subseteq Reachable(db') \cup From(db', Seeds')
             /\ \A f \in db'.fragments : f \in Queued("fragment")' \/ InUse(db', f)
             /\ \A f \in Queued("fragment")' : Dropped(db', f)
  <2>1. db \in Graph /\ Orphanless(db) /\ PruneInv /\ Seeds \in SUBSET Repo
    BY <1>1, <1>2, PruningTyped
  <2>2. Seeds = {task.id} \cup Seeds' /\ Seeds' \in SUBSET Repo
    <3>1. Seeds' = Queued("repo")' \cup UNION {Required(db, f) : f \in Queued("fragment")}
      BY <1>1 DEF Seeds
    <3>2. Seeds = {task.id} \cup Seeds'
      BY <1>1, <3>1 DEF Seeds
    <3> QED
      BY <2>1, <3>2
  <2>3. db.repos \subseteq Reachable(db) \cup From(db, {task.id} \cup Seeds')
    BY <2>1, <2>2 DEF PruneInv
  <2>4. db.repos \subseteq Reachable(db) \cup From(db, Seeds')
    BY <1>1, <2>1, <2>2, <2>3, LeadsNowhere
  <2> QED
    BY <1>1, <2>1, <2>4 DEF PruneInv
<1> QED
  BY <1>1, <1>2, OnwardGraph

\* GraphInv when a fragment is in use after all: what it requires is reachable
\* from another repository that has it.
LEMMA KeepFragmentGraph ==
  ASSUME SharedAcyclic, BaseInv, GraphInv, KeepFragment
  PROVE  GraphInv'
<1> DEFINE f == task.id
<1>1. /\ Removing("fragment") /\ Then(<<>>) /\ <<>> \in Seq(Task)
      /\ db' = db /\ committed' = committed
      /\ f \in Fragment
      /\ f \in db.fragments => \E r \in db.repos : f \in db.contains[r]
      /\ Queued("repo") = Queued("repo")'
      /\ Queued("fragment") = {f} \cup Queued("fragment")'
  BY KeepFragmentForm
<1> HIDE DEF f
<1>2. ASSUME cmd.op # "mask"
      PROVE  /\ Shape(db') /\ PublishedIn(db', {}) /\ Pruned(db') = Pruned(db)
             /\ db'.repos \subseteq Reachable(db') \cup From(db', Seeds')
             /\ \A x \in db'.fragments : x \in Queued("fragment")' \/ InUse(db', x)
             /\ \A x \in Queued("fragment")' : Dropped(db', x)
  <2>1. db \in Graph /\ Orphanless(db) /\ PruneInv /\ Seeds \in SUBSET Repo
    BY <1>1, <1>2, PruningTyped
  <2>2. Seeds = Required(db, f) \cup Seeds' /\ Seeds' \in SUBSET Repo
    <3>1. Seeds' = Queued("repo")' \cup UNION {Required(db, x) : x \in Queued("fragment")'}
      BY <1>1 DEF Seeds
    <3>2. Seeds = Required(db, f) \cup Seeds'
      BY <1>1, <3>1 DEF Seeds
    <3> QED
      BY <2>1, <3>2
  <2>3. db.repos \subseteq Reachable(db) \cup From(db, Required(db, f) \cup Seeds')
    BY <2>1, <2>2 DEF PruneInv
  <2>4. db.repos \subseteq Reachable(db) \cup From(db, Seeds')
    <3>1. CASE f \in db.fragments
      <4>1. PICK s \in db.repos : f \in db.contains[s]
        BY <1>1, <3>1
      <4>2. PICK r \in Repo : Offered(f, r) /\ f \notin db.contains[r]
        BY <1>1, <2>1 DEF PruneInv, Dropped
      <4>3. s \in Repo /\ r # s
        BY <2>1, <4>1, <4>2 DEF Graph
      <4>4. s \notin From(db, Required(db, f))
        BY <2>1, <4>1, <4>2, <4>3, NotOwnRequirement DEF PruneInv
      <4> QED
        BY <2>1, <2>2, <2>3, <4>1, <4>4, RequiredAnyway
    <3>2. CASE f \notin db.fragments
      <4>1. Required(db, f) = {}
        BY <1>1, <2>1, <3>2 DEF PruneInv, Shape, Required
      <4> QED
        BY <2>3, <4>1
    <3> QED
      BY <3>1, <3>2
  <2>5. ASSUME NEW x \in db.fragments
        PROVE  x \in Queued("fragment")' \/ InUse(db, x)
    <3>1. x \in {f} \cup Queued("fragment")' \/ InUse(db, x)
      BY <1>1, <2>1 DEF PruneInv
    <3>2. x = f => InUse(db, x)
      BY <1>1, <2>1, <2>5 DEF InUse, Graph
    <3> QED
      BY <3>1, <3>2
  <2> QED
    BY <1>1, <2>1, <2>4, <2>5 DEF PruneInv
<1> QED
  BY <1>1, <1>2, OnwardGraph

\* GraphInv when a state is removed.
LEMMA RemoveStateGraph ==
  ASSUME BaseInv, GraphInv, RemoveState
  PROVE  GraphInv'
<1>1. /\ Removing("state") /\ Then(<<>>) /\ db' = db /\ committed' = committed
  BY DEF RemoveState
<1>2. <<>> \in Seq(Task) /\ \A k : QueuedIn(k, <<>>) = {}
  BY NothingCalled
<1>3. Queued("repo") = Queued("repo")' /\ Queued("fragment") = Queued("fragment")'
  <2>1. \A k : /\ Queued(k)' = QueuedIn(k, <<>>) \cup QueuedIn(k, Tail(cmd.todo))
               /\ Queued(k) = (IF k = "state" THEN {task.id} ELSE {})
                              \cup QueuedIn(k, Tail(cmd.todo))
    BY <1>1, <1>2, QueuedOnward
  <2> QED
    BY <1>2, <2>1
<1>4. Seeds' = Seeds
  BY <1>1, <1>3 DEF Seeds
<1>5. ASSUME cmd.op # "mask"
      PROVE  /\ Shape(db') /\ PublishedIn(db', {}) /\ Pruned(db') = Pruned(db)
             /\ db'.repos \subseteq Reachable(db') \cup From(db', Seeds')
             /\ \A f \in db'.fragments : f \in Queued("fragment")' \/ InUse(db', f)
             /\ \A f \in Queued("fragment")' : Dropped(db', f)
  <2>1. PruneInv
    BY <1>1, <1>5, PruningTyped
  <2> QED
    BY <1>1, <1>3, <1>4, <2>1 DEF PruneInv
<1> QED
  BY <1>1, <1>2, <1>5, OnwardGraph

\* What a removed repository was the last to need is looked at next.
LEMMA RemoveRepoGraph ==
  ASSUME BaseInv, GraphInv, RemoveRepo
  PROVE  GraphInv'
<1> DEFINE r == task.id
<1>1. /\ Removing("repo") /\ (\E tasks \in Seq(Task) : Then(tasks))
      /\ committed' = committed
      /\ r \in db.repos \ Reachable(db) /\ db.contains[r] \in SUBSET Fragment
      /\ Queued("repo") = {r} \cup Queued("repo")'
      /\ Queued("fragment")' = db.contains[r] \cup Queued("fragment")
      /\ db' \in Graph
      /\ db'.repos = db.repos \ {r}
      /\ db'.contains[r] = {}
      /\ \A s \in Repo \ {r} : db'.contains[s] = db.contains[s]
      /\ db'.fragments = db.fragments
      /\ db'.complements = db.complements
      /\ db'.prerequisites = db.prerequisites
      /\ db'.packages = db.packages
      /\ \A f : Required(db', f) = Required(db, f)
      /\ Erased(db, db', r)
  BY RemoveRepoForm
<1> HIDE DEF r
<1>2. ASSUME cmd.op # "mask"
      PROVE  /\ Shape(db') /\ PublishedIn(db', {}) /\ Pruned(db') = Pruned(db)
             /\ db'.repos \subseteq Reachable(db') \cup From(db', Seeds')
             /\ \A f \in db'.fragments : f \in Queued("fragment")' \/ InUse(db', f)
             /\ \A f \in Queued("fragment")' : Dropped(db', f)
  <2>1. /\ db \in Graph /\ Orphanless(db) /\ PruneInv /\ Seeds \in SUBSET Repo
        /\ Queued("repo") \subseteq Repo /\ Queued("fragment") \subseteq Fragment
        /\ r \in Repo
    BY <1>1, <1>2, PruningTyped DEF Graph
  <2>2. Reachable(db') = Reachable(db) /\ Reachable(db) \subseteq Repo
    BY <1>1, <2>1, ErasedReachable DEF Reachable
  <2>3. Shape(db')
    BY <1>1, <2>1, <2>2 DEF PruneInv, Shape
  <2>4. PublishedIn(db', {})
    <3>1. ASSUME NEW s \in Repo, db'.contains[s] # {}
          PROVE  Published(db', s, {})
      <4>1. s # r /\ db'.contains[s] = db.contains[s]
        BY <1>1, <3>1
      <4>2. Published(db, s, {})
        BY <2>1, <3>1, <4>1 DEF PruneInv, PublishedIn
      <4> QED
        BY <1>1, <4>1, <4>2, PublishedSame
    <3> QED
      BY <3>1 DEF PublishedIn
  <2>5. Pruned(db') = Pruned(db)
    <3>1. \A s \in Reachable(db) : s # r /\ s \in Repo
      BY <1>1, <2>2
    <3>2. Added(db') = Added(db)
      BY <1>1 DEF Erased
    <3> QED
      BY <1>1, <2>1, <2>2, <3>1, <3>2, PrunedSame
  <2>6. db'.repos \subseteq Reachable(db') \cup From(db', Seeds')
    <3>1. Seeds' = Queued("repo")' \cup UNION {Required(db, f) : f \in Queued("fragment")'}
      BY <1>1 DEF Seeds
    <3>2. Seeds \subseteq Seeds' \cup {r} /\ RequiredBy(db, r) \subseteq Seeds'
      BY <1>1, <3>1 DEF Seeds, RequiredBy
    <3>3. Seeds' = Queued("repo")' \cup RequiredBy(db, r)
                   \cup UNION {Required(db, f) : f \in Queued("fragment")}
      BY <1>1, <3>1 DEF RequiredBy
    <3>4. Seeds' \in SUBSET Repo
      BY <1>1, <2>1, <3>3, RequiredTyped DEF Seeds
    <3>5. db.repos \subseteq Reachable(db) \cup From(db, Seeds)
      BY <2>1 DEF PruneInv
    <3> QED
      BY <1>1, <2>1, <3>2, <3>4, <3>5, ErasedLeads
  <2>7. ASSUME NEW f \in db.fragments, f \notin Queued("fragment")'
        PROVE  InUse(db', f)
    <3>1. PICK s \in Repo : f \in db.contains[s]
      BY <1>1, <2>1, <2>7 DEF PruneInv, InUse
    <3>2. s # r
      BY <1>1, <2>7, <3>1
    <3> QED
      BY <1>1, <3>1, <3>2 DEF InUse
  <2>8. \A f \in Queued("fragment")' : Dropped(db', f)
    <3>1. ASSUME NEW f \in db.contains[r]
          PROVE  Dropped(db', f)
      <4>1. Published(db, r, {})
        BY <2>1, <3>1 DEF PruneInv, PublishedIn
      <4>2. Offered(f, r)
        BY <3>1, <4>1 DEF Published, Offered
      <4> QED
        BY <1>1, <2>1, <4>2 DEF Dropped
    <3>2. ASSUME NEW f \in Queued("fragment")
          PROVE  Dropped(db', f)
      <4>1. PICK s \in Repo : Offered(f, s) /\ f \notin db.contains[s]
        BY <2>1, <3>2 DEF PruneInv, Dropped
      <4>2. f \notin db'.contains[s]
        BY <1>1, <4>1
      <4> QED
        BY <4>1, <4>2 DEF Dropped
    <3> QED
      BY <1>1, <3>1, <3>2
  <2> QED
    BY <1>1, <2>3, <2>4, <2>5, <2>6, <2>7, <2>8
<1> QED
  BY <1>1, <1>2, OnwardGraph

\* GraphInv when a fragment is removed: what it requires is queued instead.
LEMMA RemoveFragmentGraph ==
  ASSUME BaseInv, GraphInv, RemoveFragment
  PROVE  GraphInv'
<1> DEFINE f == task.id
<1>1. /\ Removing("fragment") /\ (\E tasks \in Seq(Task) : Then(tasks))
      /\ committed' = committed
      /\ f \in Fragment
      /\ \A s \in Repo : f \notin db.contains[s]
      /\ Queued("repo")' = Required(db, f) \cup Queued("repo")
      /\ Queued("fragment") = {f} \cup Queued("fragment")'
      /\ db' \in Graph /\ db'.repos = db.repos /\ db'.contains = db.contains
      /\ db'.fragments = db.fragments \ {f}
      /\ \A n \in Node : db'.complements[n] = IF n = f THEN {} ELSE db.complements[n]
      /\ \A n \in Node : db'.prerequisites[n] = IF n = f THEN {} ELSE db.prerequisites[n]
      /\ cmd.op # "mask" =>
           \A x \in Fragment : db'.packages[x] = IF x = f THEN {} ELSE db.packages[x]
      /\ \A x \in Fragment \ {f} : Required(db', x) = Required(db, x)
      /\ Added(db') = Added(db)
      /\ \A s \in Repo : RequiredBy(db', s) = RequiredBy(db, s)
  BY RemoveFragmentForm
<1> HIDE DEF f
<1>2. ASSUME cmd.op # "mask"
      PROVE  /\ Shape(db') /\ PublishedIn(db', {}) /\ Pruned(db') = Pruned(db)
             /\ db'.repos \subseteq Reachable(db') \cup From(db', Seeds')
             /\ \A x \in db'.fragments : x \in Queued("fragment")' \/ InUse(db', x)
             /\ \A x \in Queued("fragment")' : Dropped(db', x)
  <2>1. db \in Graph /\ PruneInv /\ Queued("fragment") \subseteq Fragment
    BY <1>1, <1>2, PruningTyped
  <2>2. f # Root /\ Fragment \subseteq Node /\ Root \in Node
    BY <1>1, RootApart DEF Node
  <2>3. \A s \in Repo : db.contains[s] \subseteq Fragment
    BY <2>1 DEF Graph
  <2>4. \A s \in Repo : \A x \in db.contains[s] :
          /\ x \in Fragment /\ x # f
          /\ db'.complements[x] = db.complements[x]
          /\ db'.prerequisites[x] = db.prerequisites[x]
          /\ db'.packages[x] = db.packages[x]
    BY <1>1, <1>2, <2>2, <2>3
  <2>5. Reachable(db') = Reachable(db) /\ \A X : From(db', X) = From(db, X)
    BY <1>1, ReachableSame, FromSame
  <2>6. Shape(db')
    <3>1. \A s \in Repo : db'.contains[s] \subseteq db'.fragments
      BY <1>1, <2>1 DEF PruneInv, Shape
    <3>2. \A x \in Fragment \ db'.fragments :
            db'.complements[x] = {} /\ db'.prerequisites[x] = {} /\ db'.packages[x] = {}
      BY <1>1, <1>2, <2>1, <2>2 DEF PruneInv, Shape
    <3>3. db'.prerequisites[Root] = db.prerequisites[Root]
      BY <1>1, <2>2
    <3> QED
      BY <1>1, <2>1, <2>5, <3>1, <3>2, <3>3 DEF PruneInv, Shape
  <2>7. PublishedIn(db', {})
    <3>1. ASSUME NEW s \in Repo, db'.contains[s] # {}
          PROVE  Published(db', s, {})
      <4>1. Published(db, s, {})
        BY <1>1, <2>1, <3>1 DEF PruneInv, PublishedIn
      <4> QED
        BY <1>1, <2>4, <4>1, PublishedSame
    <3> QED
      BY <3>1 DEF PublishedIn
  <2>8. Pruned(db') = Pruned(db)
    <3>1. \A s \in Repo : \A x \in db.contains[s] : x \in db'.fragments <=> x \in db.fragments
      BY <1>1
    <3> QED
      BY <1>1, <2>1, <2>4, <2>5, <3>1, PrunedSame
  <2>9. db'.repos \subseteq Reachable(db') \cup From(db', Seeds')
    <3>1. ASSUME NEW x \in Queued("fragment")
          PROVE  Required(db, x) \subseteq Seeds'
      <4>1. CASE x = f
        BY <1>1, <4>1 DEF Seeds
      <4>2. CASE x # f
        BY <1>1, <2>1, <4>2 DEF Seeds
      <4> QED
        BY <4>1, <4>2
    <3>2. Seeds \subseteq Seeds'
      BY <1>1, <3>1 DEF Seeds
    <3>3. From(db, Seeds) \subseteq From(db, Seeds')
      BY <3>2, FromGrows
    <3>4. db.repos \subseteq Reachable(db) \cup From(db, Seeds)
      BY <2>1 DEF PruneInv
    <3> QED
      BY <1>1, <2>5, <3>3, <3>4
  <2>10. \A x \in db'.fragments : x \in Queued("fragment")' \/ InUse(db', x)
    BY <1>1, <2>1 DEF PruneInv, InUse
  <2>11. \A x \in Queued("fragment")' : Dropped(db', x)
    BY <1>1, <2>1 DEF PruneInv, Dropped
  <2> QED
    BY <2>6, <2>7, <2>8, <2>9, <2>10, <2>11
<1> QED
  BY <1>1, <1>2, OnwardGraph

\* GraphInv when the masking starts.
LEMMA RepMaskGraph ==
  ASSUME BaseInv, GraphInv, RepMask
  PROVE  GraphInv'
<1>1. PICK R \in Arguments(committed.repos) :
        StartRemove("mask", R, Unreference(committed, R, Node))
  BY DEF RepMask
<1>2. R \in SUBSET Repo
  BY DEF Arguments, BaseInv, TypeOK, Graph
<1>3. committed' = committed /\ cmd'.op = "mask" /\ cmd'.pruning
  BY <1>1, <1>2, StartRemoveForm
<1>4. (Tidy(committed) /\ PublishedIn(committed, Whole))'
  BY <1>3, SameCommitted
<1> QED
  BY <1>3, <1>4 DEF GraphInv, Visiting

\* When nothing is left to remove, what is left is what can be reached.
LEMMA FinishedTidy ==
  ASSUME BaseInv, GraphInv, Finished, cmd.op # "mask"
  PROVE  PruneInv /\ Tidy(db) /\ Pruned(db) = db
<1>1. PruneInv /\ db \in Graph
  BY DEF Finished, BaseInv, TypeOK, GraphInv, Pruning
<1>2. \A k : Queued(k) = {}
  BY NothingCalled DEF Finished, Queued
<1>3. Seeds = {}
  BY <1>2 DEF Seeds
<1>4. From(db, Seeds) \subseteq {}
  <2>1. Closed(db, {})
    BY DEF Closed
  <2> QED
    BY <1>3, <2>1, FromLeast
<1>5. Tidy(db)
  BY <1>1, <1>2, <1>4 DEF PruneInv, Tidy
<1> QED
  BY <1>1, <1>5, TidyPruned

\* GraphInv after a command that succeeds.
LEMMA CommitGraph ==
  ASSUME BaseInv, GraphInv, Commit
  PROVE  GraphInv'
<1>1. Finished /\ cmd.op # "mask" /\ committed' = db /\ cmd' = Idle
  BY DEF Commit
<1>2. Tidy(committed') /\ PublishedIn(committed', Whole)
  BY <1>1, FinishedTidy DEF PruneInv
<1> QED
  BY <1>1, <1>2, IdleGraph

\* GraphInv when nothing happens.
LEMMA StutterGraph ==
  ASSUME GraphInv, UNCHANGED vars
  PROVE  GraphInv'
<1>1. committed' = committed /\ db' = db /\ cmd' = cmd
  BY DEF vars
<1>2. VisitInv => VisitInv'
  BY <1>1 DEF VisitInv, Supported, Supporting, Unvisited, Visited, Remembered, SameRequired,
              AllFollowed, Followed, PackagesKept, PackagesErased, AllVisited, Called
<1>3. PruneInv => PruneInv'
  BY <1>1 DEF PruneInv, Whole, Seeds, Queued
<1> QED
  BY <1>1, <1>2, <1>3 DEF GraphInv, Visiting, Pruning, Whole

\* GraphInv after any step.
LEMMA GraphStep ==
  ASSUME SharedAcyclic, BaseInv, BaseInv', GraphInv, [Next]_vars
  PROVE  GraphInv'
<1>1. CASE RepAdd \/ RepFetchAll \/ RepFetch \/ RepRemove \/ RepMask \/ RepRemoveClean
  BY <1>1, RepAddGraph, RepFetchGraph, RepRemoveGraph, RepMaskGraph, CleanGraph
     DEF RepRemoveClean
<1>2. CASE Proceed
  <2>1. CASE FetchAgain \/ StartPruning \/ KeepRepo \/ RemoveRepo \/ RemoveState
             \/ KeepFragment \/ RemoveFragment \/ Commit
    BY <2>1, FetchAgainGraph, StartPruningGraph, KeepRepoGraph, RemoveRepoGraph,
       RemoveStateGraph, KeepFragmentGraph, RemoveFragmentGraph, CommitGraph
  <2>2. CASE \E r \in Repo : \E o \in Offers[r] : FetchRepo(r, o)
    BY <2>2, FetchRepoGraph
  <2>3. CASE RemoveFail \/ CheckFail \/ MaskDone
    BY <2>3, FailGraph
  <2> QED
    BY <1>2, <2>1, <2>2, <2>3 DEF Proceed
<1>3. CASE FetchFail \/ Kill
  BY <1>3, FailGraph
<1>4. CASE UNCHANGED vars
  BY <1>4, StutterGraph
<1> QED
  BY <1>1, <1>2, <1>3, <1>4 DEF Next

\* Both invariants hold throughout.
LEMMA SpecGraph ==
  ASSUME SharedAcyclic
  PROVE  Spec => [](BaseInv /\ GraphInv)
<1>1. Init => BaseInv /\ GraphInv
  BY InitBase, InitGraph
<1>2. BaseInv /\ GraphInv /\ [Next]_vars => (BaseInv /\ GraphInv)'
  BY BaseStep, GraphStep
<1> QED
  BY <1>1, <1>2, PTL DEF Spec

\* After every command the graph has exactly what the user added and what that
\* requires (rep_fetch(), rep_remove(), rep_remove_fragment()), provided that no
\* repository is required, however indirectly, by what it shares with another.
THEOREM GraphsConsistent ==
  ASSUME SharedAcyclic
  PROVE  Spec => []GraphConsistent
<1>1. BaseInv /\ GraphInv => GraphConsistent
  <2> SUFFICES ASSUME BaseInv, GraphInv
               PROVE  committed = Pruned(committed) /\ Reachable(committed) \subseteq committed.repos
    BY DEF GraphConsistent
  <2>1. committed \in Graph /\ Tidy(committed)
    BY DEF BaseInv, TypeOK, GraphInv
  <2> QED
    BY <2>1, TidyPruned
<1> QED
  BY <1>1, SpecGraph, PTL

\* Every repository that was fetched is as it was published some time, with all
\* its packages, if rep-fetch --shallow is not run without arguments.
THEOREM RepositoriesAsOncePublished ==
  ASSUME SharedAcyclic, ShallowAll = FALSE
  PROVE  Spec => []AsOncePublished
<1>1. BaseInv /\ GraphInv => AsOncePublished
  <2> SUFFICES ASSUME BaseInv, GraphInv, NEW r \in committed.repos, committed.contains[r] # {}
               PROVE  \E o \in Offers[r] :
                        /\ DOMAIN o = committed.contains[r]
                        /\ \A f \in DOMAIN o :
                            /\ committed.complements[f] = ComplementsOf(r, o[f])
                            /\ committed.prerequisites[f] = o[f].prerequisites
                            /\ committed.packages[f] = o[f].packages
    BY DEF AsOncePublished
  <2>1. r \in Repo /\ committed.contains[r] \subseteq Fragment /\ PublishedIn(committed, Fragment)
    BY DEF BaseInv, TypeOK, Graph, GraphInv, Whole
  <2> QED
    BY <2>1 DEF PublishedIn, Published
<1> QED
  BY <1>1, SpecGraph, PTL
-----------------------------------------------------------------------------
\* The abstract commands are stated with the operators the detailed ones use.
LEMMA OperatorsAlike ==
  /\ Abstract!EmptyGraph = EmptyGraph
  /\ \A g : Abstract!Added(g) = Added(g)
  /\ \A g, r : Abstract!RequiredBy(g, r) = RequiredBy(g, r)
  /\ \A g, R : Abstract!AddRepos(g, R) = AddRepos(g, R)
  /\ \A g, R, N : Abstract!Unreference(g, R, N) = Unreference(g, R, N)
  /\ \A g : Abstract!Cleaned(g) = Cleaned(g)
  /\ \A r, m : Abstract!ComplementsOf(r, m) = ComplementsOf(r, m)
  /\ \A g : Abstract!Pruned(g) = Pruned(g)
<1>1. Abstract!Node = Node
  BY DEF Abstract!Node, Node
<1>2. Abstract!EmptyGraph = EmptyGraph
  BY <1>1 DEF Abstract!EmptyGraph, EmptyGraph
<1>3. \A g : Abstract!Added(g) = Added(g)
  BY DEF Abstract!Added, Added
<1>4. \A g, r : Abstract!RequiredBy(g, r) = RequiredBy(g, r)
  BY DEF Abstract!RequiredBy, RequiredBy, Abstract!Required, Required
<1>5. \A g, R : Abstract!AddRepos(g, R) = AddRepos(g, R)
  BY DEF Abstract!AddRepos, AddRepos
<1>6. \A g, R, N : Abstract!Unreference(g, R, N) = Unreference(g, R, N)
  BY <1>1 DEF Abstract!Unreference, Unreference
<1>7. \A g : Abstract!Cleaned(g) = Cleaned(g)
  BY <1>2, <1>3 DEF Abstract!Cleaned, Cleaned
<1>8. \A r, m : Abstract!ComplementsOf(r, m) = ComplementsOf(r, m)
  BY DEF Abstract!ComplementsOf, ComplementsOf
<1>9. \A g : Abstract!Reachable(g) = Reachable(g)
  BY <1>3, <1>4 DEF Abstract!Reachable, Reachable
<1>10. \A g : Abstract!Pruned(g) = Pruned(g)
  BY <1>1, <1>9 DEF Abstract!Pruned, Pruned
<1> QED
  BY <1>2, <1>3, <1>4, <1>5, <1>6, <1>7, <1>8, <1>10

\* The clean-up is the abstract one.
LEMMA CleanIsClean ==
  ASSUME Clean
  PROVE  Abstract!Clean
BY OperatorsAlike DEF Clean, Abstract!Clean

\* A command that fails changes nothing, or cleans the graph.
LEMMA RollBackIsAtomic ==
  ASSUME NEW changed, NEW left, NEW missing, RollBack(changed, left, missing)
  PROVE  Abstract!Clean \/ committed' = committed
<1>1. CASE changed
  BY <1>1, CleanIsClean DEF RollBack
<1>2. CASE ~changed
  BY <1>2 DEF RollBack
<1> QED
  BY <1>1, <1>2

\* Whichever way it fails.
LEMMA FailIsAtomic ==
  ASSUME RemoveFail \/ CheckFail \/ MaskDone \/ FetchFail \/ Kill
  PROVE  Abstract!Clean \/ committed' = committed
BY RollBackIsAtomic DEF RemoveFail, CheckFail, MaskDone, FetchFail, Kill

\* A command that starts has not changed anything yet.
LEMMA StartIsStutter ==
  ASSUME RepFetchAll \/ RepFetch \/ RepRemove \/ RepMask
  PROVE  committed' = committed
BY DEF RepFetchAll, RepFetch, StartFetch, RepRemove, RepMask, StartRemove

\* rep-remove commits what the abstract command leaves.
LEMMA CommitOfRemove ==
  ASSUME BaseInv, GraphInv, Commit, cmd.op = "remove"
  PROVE  Abstract!Remove
<1>1. Finished /\ committed' = db
  BY DEF Commit
<1>2. PruneInv /\ Pruned(db) = db
  BY <1>1, FinishedTidy
<1>3. /\ cmd.args \in SUBSET Added(committed)
      /\ committed' = Pruned(Unreference(committed, cmd.args, {Root}))
  BY <1>1, <1>2 DEF PruneInv
<1> QED
  BY <1>3, OperatorsAlike DEF Abstract!Remove

\* So does rep-fetch.
LEMMA CommitOfFetch ==
  ASSUME BaseInv, GraphInv, Commit, cmd.op = "fetch", ~ShallowAll
  PROVE  Abstract!Fetch
<1>1. Finished /\ committed' = db
  BY DEF Commit
<1>2. PruneInv /\ Pruned(db) = db
  BY <1>1, FinishedTidy
<1>3. FetchedTo(committed, committed')
  BY <1>1, <1>2 DEF PruneInv
<1>4. \A r : Abstract!AsPublished(r) <=> AsPublishedIn(committed', r)
  BY OperatorsAlike DEF Abstract!AsPublished, AsPublishedIn
<1>5. \A R : Abstract!Updated(R) = UpdatedBy(committed, committed', R)
  BY DEF Abstract!Updated, UpdatedBy, Abstract!Node, Node
<1> QED
  BY <1>3, <1>4, <1>5, OperatorsAlike DEF FetchedTo, Abstract!Fetch

\* A commit is the abstract command.
LEMMA CommitIsAtomic ==
  ASSUME BaseInv, GraphInv, Commit, ~ShallowAll
  PROVE  Abstract!Remove \/ Abstract!Fetch
<1>1. cmd \in Command /\ cmd.op # "mask"
  BY DEF Commit, Finished, BaseInv, TypeOK
<1>2. cmd.op \in {"fetch", "remove"}
  BY <1>1 DEF Command
<1> QED
  BY <1>2, CommitOfRemove, CommitOfFetch

\* No other step of a command changes the committed graph.
LEMMA ProceedIsAtomic ==
  ASSUME BaseInv, GraphInv, Proceed, ~ShallowAll
  PROVE  [Abstract!Next]_committed
<1>1. CASE FetchAgain \/ StartPruning \/ KeepRepo \/ RemoveRepo \/ RemoveState
           \/ KeepFragment \/ RemoveFragment
  BY <1>1 DEF FetchAgain, StartPruning, KeepRepo, RemoveRepo, RemoveState, KeepFragment,
              RemoveFragment, Skip
<1>2. CASE \E r \in Repo : \E o \in Offers[r] : FetchRepo(r, o)
  BY <1>2 DEF FetchRepo
<1>3. CASE RemoveFail \/ CheckFail \/ MaskDone
  BY <1>3, FailIsAtomic DEF Abstract!Next
<1>4. CASE Commit
  BY <1>4, CommitIsAtomic DEF Abstract!Next
<1> QED
  BY <1>1, <1>2, <1>3, <1>4 DEF Proceed

\* Every step is an abstract command, or none.
LEMMA AtomicStep ==
  ASSUME BaseInv, GraphInv, [Next]_vars, ~ShallowAll
  PROVE  [Abstract!Next]_committed
<1>1. CASE RepAdd
  BY <1>1, OperatorsAlike DEF RepAdd, Abstract!Add, Abstract!Next
<1>2. CASE RepFetchAll \/ RepFetch \/ RepRemove \/ RepMask
  BY <1>2, StartIsStutter
<1>3. CASE RepRemoveClean
  BY <1>3, CleanIsClean DEF RepRemoveClean, Abstract!Next
<1>4. CASE Proceed
  BY <1>4, ProceedIsAtomic
<1>5. CASE FetchFail \/ Kill
  BY <1>5, FailIsAtomic DEF Abstract!Next
<1>6. CASE UNCHANGED vars
  BY <1>6 DEF vars
<1> QED
  BY <1>1, <1>2, <1>3, <1>4, <1>5, <1>6 DEF Next

\* Every command is one step from one consistent graph to another, or none,
\* however it goes about it and wherever it fails or is killed: rep-add and
\* rep-remove do what they say, and rep-fetch replaces what it visited by what is
\* published and drops what is not required any longer.
THEOREM CommandsAtomic ==
  ASSUME SharedAcyclic, ShallowAll = FALSE
  PROVE  Spec => Atomic
<1>1. Init => Abstract!Init
  BY OperatorsAlike DEF Init, Abstract!Init
<1>2. BaseInv /\ GraphInv /\ [Next]_vars => [Abstract!Next]_committed
  BY AtomicStep
<1> QED
  BY <1>1, <1>2, SpecGraph, PTL DEF Spec, Atomic, Abstract!Spec
-----------------------------------------------------------------------------
\* A constraint that satisfies another may stand for it, whatever is asked with it.
LEMMA WantedAgree ==
  ASSUME NEW v \in PackageVersion, NEW l \in Wanted, NEW r \in Wanted, Stricter(l, r),
         Queried(v, l, FALSE)
  PROVE  Satisfies(v, r) \/ Stub(v)
<1>1. v \in Version
  BY DEF PackageVersion
<1>2. CASE r \notin Constraint
  BY <1>2, WantedKinds, AnyVersionSuits
<1>3. CASE r \in Constraint /\ l \notin Constraint
  <2>1. l.from = "any" /\ l.to = "any"
    BY <1>3, WantedKinds
  <2>2. r.from = "any" /\ r.to = "any"
    BY <2>1 DEF Stricter, BeginsIn, EndsIn
  <2> QED
    BY <2>2, AnyVersionSuits
<1>4. CASE r \in Constraint /\ l \in Constraint
  <2>1. Satisfies(v, l) \/ Stub(v)
    BY <1>1, <1>4, QueriesAgree DEF QueryAgrees
  <2> QED
    BY <1>4, <2>1, StricterIsWithin DEF StricterImplies
<1> QED
  BY <1>2, <1>3, <1>4

\* A package that is found for a constraint suits every dependent with one that
\* the former satisfies (query_available(), satisfies()), whatever graph the
\* commands have left, so that one may stand for the other.
THEOREM StricterAlwaysSuits == Spec => []StricterSuits
<1>1. TypeOK => StricterSuits
  <2> SUFFICES ASSUME TypeOK, NEW s \in Standing, NEW n,
                      NEW p \in QueryAvailable(committed, n, s[1], FALSE)
               PROVE  p \in Suiting(n, s[2], Available(committed))
    BY DEF StricterSuits
  <2>1. s[1] \in Wanted /\ s[2] \in Wanted /\ Stricter(s[1], s[2])
    BY DEF Standing
  <2>2. /\ p \in Available(committed) /\ NameOf[p] = n
        /\ Queried(VersionOf[p], s[1], FALSE)
    BY DEF QueryAvailable
  <2>3. VersionOf[p] \in PackageVersion
    BY <2>2, PackagesAssumption DEF Available
  <2>4. Satisfies(VersionOf[p], s[2]) \/ Stub(VersionOf[p])
    BY <2>1, <2>2, <2>3, WantedAgree
  <2> QED
    BY <2>2, <2>4 DEF Suiting
<1> QED
  BY <1>1, Typed, PTL
-----------------------------------------------------------------------------
\* Masking: what is removed in order to see what remains.

\* Graph g is what remains of u when objects are erased.
Remains(u, g) ==
    /\ g.repos \subseteq u.repos /\ g.fragments \subseteq u.fragments
    /\ \A r \in Repo : g.contains[r] = IF r \in g.repos THEN u.contains[r] ELSE {}
    /\ \A r \in Repo : g.contains[r] \subseteq g.fragments
    /\ \A n \in Node :
        /\ g.complements[n] = IF n \in g.fragments \cup {Root} THEN u.complements[n] ELSE {}
        /\ g.prerequisites[n] = IF n \in g.fragments \cup {Root} THEN u.prerequisites[n] ELSE {}

\* The graph in which nothing requires the repositories to be masked.
Unnamed == Unreference(committed, cmd.args, Node)

\* What can be reached in that graph remains, and what else there still is can be
\* reached from what is queued.
MaskInv ==
    /\ cmd.args \subseteq committed.repos
    /\ Remains(Unnamed, db)
    /\ Reachable(db) = Reachable(Unnamed)
    /\ Reachable(db) \subseteq db.repos
    /\ db.repos \subseteq Reachable(db) \cup From(db, Seeds)
    /\ \A f \in db.fragments : f \in Queued("fragment") \/ InUse(db, f)
    /\ \A f \in Queued("fragment") : \E r \in Repo \ db.repos : f \in committed.contains[r]

\* Whether a command masks.
Masking == Pruning /\ cmd.op = "mask"

\* What requires nothing of R requires the rest of what it did.
LEMMA UnreferenceRequires ==
  ASSUME NEW g \in Graph, NEW R \in SUBSET Repo
  PROVE  LET u == Unreference(g, R, Node) IN
         /\ u \in Graph
         /\ u.repos = g.repos /\ u.contains = g.contains /\ u.fragments = g.fragments
         /\ u.packages = g.packages
         /\ \A n \in Node : /\ u.complements[n] = g.complements[n] \ R
                            /\ u.prerequisites[n] = g.prerequisites[n] \ R
                            /\ Required(u, n) = Required(g, n) \ R
         /\ Added(u) = Added(g) \ R
         /\ \A r \in Repo : RequiredBy(u, r) = RequiredBy(g, r) \ R
<1> DEFINE u == Unreference(g, R, Node)
<1>1. /\ u \in Graph
      /\ u.repos = g.repos /\ u.contains = g.contains /\ u.fragments = g.fragments
      /\ u.packages = g.packages
      /\ \A n \in Node : /\ u.complements[n] = g.complements[n] \ R
                         /\ u.prerequisites[n] = g.prerequisites[n] \ R
  BY DEF Unreference, Graph
<1> HIDE DEF u
<1>2. \A n \in Node : Required(u, n) = Required(g, n) \ R
  BY <1>1 DEF Required
<1>3. Root \in Node /\ \A r \in Repo : g.contains[r] \subseteq Node
  BY DEF Node, Graph
<1>4. Added(u) = Added(g) \ R
  BY <1>1, <1>3 DEF Added
<1>5. \A r \in Repo : RequiredBy(u, r) = RequiredBy(g, r) \ R
  BY <1>1, <1>2, <1>3 DEF RequiredBy
<1> QED
  BY <1>1, <1>2, <1>4, <1>5 DEF u

\* What remains requires what it did.
LEMMA RemainsRequires ==
  ASSUME NEW u \in Graph, NEW g \in Graph, Remains(u, g)
  PROVE  /\ Added(g) = Added(u)
         /\ \A n \in Node : Required(g, n) = IF n \in g.fragments \cup {Root} THEN Required(u, n)
                                             ELSE {}
         /\ \A r \in Repo : RequiredBy(g, r) = IF r \in g.repos THEN RequiredBy(u, r) ELSE {}
<1>1. Root \in Node /\ Fragment \subseteq Node /\ g.fragments \subseteq Fragment
  BY DEF Node, Graph
<1>2. Added(g) = Added(u)
  BY <1>1 DEF Remains, Added
<1>3. \A n \in Node : Required(g, n) = IF n \in g.fragments \cup {Root} THEN Required(u, n)
                                       ELSE {}
  BY DEF Remains, Required
<1>4. ASSUME NEW r \in Repo
      PROVE  RequiredBy(g, r) = IF r \in g.repos THEN RequiredBy(u, r) ELSE {}
  <2>1. /\ g.contains[r] = IF r \in g.repos THEN u.contains[r] ELSE {}
        /\ g.contains[r] \subseteq g.fragments
    BY DEF Remains
  <2>2. \A f \in g.contains[r] : Required(g, f) = Required(u, f)
    BY <1>1, <1>3, <2>1
  <2> QED
    BY <2>1, <2>2 DEF RequiredBy
<1> QED
  BY <1>2, <1>3, <1>4

\* What holds while objects are removed to mask the rest.
LEMMA MaskingTyped ==
  ASSUME BaseInv, GraphInv, Masking, MaskInv
  PROVE  /\ db \in Graph /\ Orphanless(db)
         /\ committed \in Graph /\ Orphanless(committed) /\ Tidy(committed)
         /\ PublishedIn(committed, {})
         /\ cmd \in Command /\ cmd.args \in SUBSET Repo
         /\ Unnamed \in Graph
         /\ Queued("repo") \in SUBSET Repo /\ Queued("fragment") \in SUBSET Fragment
         /\ Seeds \in SUBSET Repo
<1>1. /\ db \in Graph /\ Orphanless(db)
      /\ committed \in Graph /\ Orphanless(committed) /\ Tidy(committed)
      /\ PublishedIn(committed, Whole)
      /\ cmd \in Command
  BY RunningTyped DEF BaseInv, TypeOK, GraphInv, Masking, Pruning
<1>2. PublishedIn(committed, {})
  BY <1>1 DEF PublishedIn, Published
<1>3. cmd.args \in SUBSET Repo /\ cmd.todo \in Seq(Task)
  BY <1>1 DEF Command
<1>4. Unnamed \in Graph
  BY <1>1, <1>3, UnreferenceRequires DEF Unnamed
<1>5. \A t \in ToSet(cmd.todo) : t \in Task
  BY <1>3 DEF ToSet
<1>6. Queued("repo") \subseteq Repo /\ Queued("fragment") \subseteq Fragment
  BY <1>5 DEF Queued, QueuedIn, Task
<1>7. \A f \in Queued("fragment") : Required(db, f) \subseteq Repo
  BY <1>1, <1>6, RequiredTyped DEF Node
<1> QED
  BY <1>1, <1>2, <1>3, <1>4, <1>6, <1>7 DEF Seeds

\* MaskInv after a task that does not change what can be reached.
LEMMA OnwardMask ==
  ASSUME BaseInv, GraphInv, Masking => MaskInv, NEW kind, Removing(kind),
         NEW tasks \in Seq(Task), Then(tasks), committed' = committed,
         Masking =>
            /\ Remains(Unnamed, db') /\ Reachable(db') = Reachable(db)
            /\ Reachable(db') \subseteq db'.repos
            /\ db'.repos \subseteq Reachable(db') \cup From(db', Seeds')
            /\ \A f \in db'.fragments : f \in Queued("fragment")' \/ InUse(db', f)
            /\ \A f \in Queued("fragment")' : \E r \in Repo \ db'.repos : f \in committed.contains[r]
  PROVE  (Masking => MaskInv)'
<1>1. cmd # Idle /\ cmd \in Command /\ cmd.pruning /\ cmd.todo # <<>>
  BY RemovingPrunes
<1>2. cmd' \in Command /\ cmd'.op = cmd.op /\ cmd'.args = cmd.args /\ (cmd'.pruning <=> cmd.pruning)
  BY <1>1, ThenForm
<1>3. Masking' => Masking
  BY <1>1, <1>2 DEF Masking, Pruning
<1>4. Unnamed' = Unnamed
  BY <1>2 DEF Unnamed
<1>5. ASSUME Masking
      PROVE  MaskInv'
  <2>1. MaskInv
    BY <1>5
  <2> QED
    BY <1>2, <1>4, <1>5, <2>1 DEF MaskInv
<1> QED
  BY <1>3, <1>5

\* MaskInv when the masking starts.
LEMMA RepMaskMask ==
  ASSUME BaseInv, GraphInv, RepMask
  PROVE  MaskInv'
<1>1. committed \in Graph /\ Orphanless(committed) /\ Tidy(committed)
  BY DEF BaseInv, TypeOK, GraphInv
<1>2. PICK R \in Arguments(committed.repos) :
        StartRemove("mask", R, Unreference(committed, R, Node))
  BY DEF RepMask
<1>3. R \subseteq committed.repos /\ committed.repos \subseteq Repo /\ R \in SUBSET Repo
  BY <1>1 DEF Arguments, Graph
<1> DEFINE u == Unreference(committed, R, Node)
<1>4. /\ u \in Graph
      /\ u.repos = committed.repos /\ u.contains = committed.contains
      /\ u.fragments = committed.fragments
      /\ \A n \in Node : /\ u.complements[n] = committed.complements[n] \ R
                         /\ u.prerequisites[n] = committed.prerequisites[n] \ R
      /\ Added(u) = Added(committed) \ R
      /\ \A r \in Repo : RequiredBy(u, r) = RequiredBy(committed, r) \ R
  BY <1>1, <1>3, UnreferenceRequires
<1>5. StartRemove("mask", R, u)
  BY <1>2
<1>6. u = Unreference(committed, R, Node)
  OBVIOUS
<1> HIDE DEF u
<1>7. /\ db' = u /\ committed' = committed
      /\ cmd'.args = R
      /\ \A k : QueuedIn(k, cmd'.todo) = IF k = "repo" THEN R ELSE {}
  BY <1>3, <1>5, StartRemoveForm
<1>8. Unnamed' = u
  BY <1>6, <1>7 DEF Unnamed
<1>9. Queued("repo")' = R /\ Queued("fragment")' = {}
  <2>1. QueuedIn("repo", cmd'.todo) = R /\ QueuedIn("fragment", cmd'.todo) = {}
    BY <1>7
  <2> QED
    BY <2>1 DEF Queued
<1>10. Remains(u, u)
  <2>1. ASSUME NEW r \in Repo
        PROVE  /\ u.contains[r] = IF r \in u.repos THEN u.contains[r] ELSE {}
               /\ u.contains[r] \subseteq u.fragments
    BY <1>1, <1>4 DEF Tidy, Shape
  <2>2. ASSUME NEW n \in Node
        PROVE  /\ u.complements[n] = IF n \in u.fragments \cup {Root} THEN u.complements[n] ELSE {}
               /\ u.prerequisites[n] = IF n \in u.fragments \cup {Root} THEN u.prerequisites[n]
                                       ELSE {}
    BY <1>1, <1>4 DEF Tidy, Shape, Node
  <2> QED
    BY <2>1, <2>2 DEF Remains
<1>11. Added(committed) \subseteq committed.repos /\ Added(u) \subseteq Repo
  BY <1>1, <1>3, <1>4 DEF Orphanless
<1>12. Reachable(u) \subseteq u.repos
  <2>1. Closed(u, committed.repos)
    BY <1>1, <1>3, <1>4, TidyRequires DEF Closed
  <2> QED
    BY <1>3, <1>4, <1>11, <2>1, ReachableLeast
<1>13. u.repos \subseteq Reachable(u) \cup From(u, R)
  <2> DEFINE X == Reachable(u) \cup From(u, R)
  <2>1. /\ Added(u) \subseteq Reachable(u) /\ Reachable(u) \subseteq Repo
        /\ Closed(u, Reachable(u))
    BY <1>4, <1>11, ReachableClosed
  <2>2. R \subseteq From(u, R) /\ From(u, R) \subseteq Repo /\ Closed(u, From(u, R))
    BY <1>3, <1>4, FromIncludes, FromTyped, FromClosed
  <2>3. X \in SUBSET Repo /\ R \subseteq X /\ Added(committed) \subseteq X
    BY <1>4, <2>1, <2>2
  <2>4. Closed(u, X)
    BY <2>1, <2>2 DEF Closed
  <2> HIDE DEF X
  <2>5. Closed(committed, X)
    BY <1>4, <2>3, <2>4 DEF Closed
  <2>6. Reachable(committed) \subseteq X
    BY <2>3, <2>5, ReachableLeast
  <2> QED
    BY <1>1, <1>4, <2>6, TidyPruned DEF X
<1>14. u.repos \subseteq Reachable(u) \cup From(u, Seeds')
  <2>1. R \subseteq Seeds'
    BY <1>9 DEF Seeds
  <2> QED
    BY <1>13, <2>1, FromGrows
<1>15. \A f \in u.fragments : InUse(u, f)
  BY <1>1, <1>4 DEF Tidy, InUse
<1>16. /\ cmd'.args \subseteq committed'.repos
       /\ Remains(Unnamed', db') /\ Reachable(db') = Reachable(Unnamed')
       /\ Reachable(db') \subseteq db'.repos
       /\ db'.repos \subseteq Reachable(db') \cup From(db', Seeds')
       /\ \A f \in db'.fragments : f \in Queued("fragment")' \/ InUse(db', f)
       /\ \A f \in Queued("fragment")' : \E r \in Repo \ db'.repos : f \in committed'.contains[r]
  BY <1>3, <1>7, <1>8, <1>9, <1>10, <1>12, <1>14, <1>15
<1> QED
  BY <1>16 DEF MaskInv

\* MaskInv when a repository is kept.
LEMMA KeepRepoMask ==
  ASSUME BaseInv, GraphInv, Masking => MaskInv, KeepRepo
  PROVE  (Masking => MaskInv)'
<1>1. /\ Removing("repo") /\ Then(<<>>) /\ <<>> \in Seq(Task)
      /\ db' = db /\ committed' = committed
      /\ task.id \in Repo /\ (task.id \in Reachable(db) \/ task.id \notin db.repos)
      /\ Queued("repo") = {task.id} \cup Queued("repo")'
      /\ Queued("fragment") = Queued("fragment")'
  BY KeepRepoForm
<1>2. ASSUME Masking
      PROVE  /\ Remains(Unnamed, db') /\ Reachable(db') = Reachable(db)
             /\ Reachable(db') \subseteq db'.repos
             /\ db'.repos \subseteq Reachable(db') \cup From(db', Seeds')
             /\ \A f \in db'.fragments : f \in Queued("fragment")' \/ InUse(db', f)
             /\ \A f \in Queued("fragment")' : \E r \in Repo \ db'.repos : f \in committed.contains[r]
  <2>1. db \in Graph /\ Orphanless(db) /\ MaskInv /\ Seeds \in SUBSET Repo
    BY <1>1, <1>2, MaskingTyped
  <2>2. Seeds = {task.id} \cup Seeds' /\ Seeds' \in SUBSET Repo
    <3>1. Seeds' = Queued("repo")' \cup UNION {Required(db, f) : f \in Queued("fragment")}
      BY <1>1 DEF Seeds
    <3>2. Seeds = {task.id} \cup Seeds'
      BY <1>1, <3>1 DEF Seeds
    <3> QED
      BY <2>1, <3>2
  <2>3. db.repos \subseteq Reachable(db) \cup From(db, {task.id} \cup Seeds')
    BY <2>1, <2>2 DEF MaskInv
  <2>4. db.repos \subseteq Reachable(db) \cup From(db, Seeds')
    BY <1>1, <2>1, <2>2, <2>3, LeadsNowhere
  <2> QED
    BY <1>1, <2>1, <2>4 DEF MaskInv
<1> QED
  BY <1>1, <1>2, OnwardMask

\* MaskInv when a fragment is kept.
LEMMA KeepFragmentMask ==
  ASSUME SharedAcyclic, BaseInv, GraphInv, Masking => MaskInv, KeepFragment
  PROVE  (Masking => MaskInv)'
<1> DEFINE f == task.id
<1>1. /\ Removing("fragment") /\ Then(<<>>) /\ <<>> \in Seq(Task)
      /\ db' = db /\ committed' = committed
      /\ f \in Fragment
      /\ f \in db.fragments => \E r \in db.repos : f \in db.contains[r]
      /\ Queued("repo") = Queued("repo")'
      /\ Queued("fragment") = {f} \cup Queued("fragment")'
  BY KeepFragmentForm
<1> HIDE DEF f
<1>2. ASSUME Masking
      PROVE  /\ Remains(Unnamed, db') /\ Reachable(db') = Reachable(db)
             /\ Reachable(db') \subseteq db'.repos
             /\ db'.repos \subseteq Reachable(db') \cup From(db', Seeds')
             /\ \A x \in db'.fragments : x \in Queued("fragment")' \/ InUse(db', x)
             /\ \A x \in Queued("fragment")' : \E r \in Repo \ db'.repos : x \in committed.contains[r]
  <2>1. /\ db \in Graph /\ Orphanless(db) /\ MaskInv /\ Seeds \in SUBSET Repo
        /\ committed \in Graph /\ PublishedIn(committed, {})
        /\ cmd.args \in SUBSET Repo /\ Unnamed \in Graph
    BY <1>2, MaskingTyped
  <2>2. Seeds = Required(db, f) \cup Seeds' /\ Seeds' \in SUBSET Repo
    <3>1. Seeds' = Queued("repo")' \cup UNION {Required(db, x) : x \in Queued("fragment")'}
      BY <1>1 DEF Seeds
    <3>2. Seeds = Required(db, f) \cup Seeds'
      BY <1>1, <3>1 DEF Seeds
    <3> QED
      BY <2>1, <3>2
  <2>3. Remains(Unnamed, db)
    BY <2>1 DEF MaskInv
  <2>4. /\ Unnamed.contains = committed.contains
        /\ \A n \in Node : Required(Unnamed, n) \subseteq Required(committed, n)
        /\ \A r \in Repo : RequiredBy(Unnamed, r) \subseteq RequiredBy(committed, r)
    BY <2>1, UnreferenceRequires DEF Unnamed
  <2>5. f \in Node /\ \A r \in Repo : RequiredBy(db, r) \subseteq RequiredBy(committed, r)
    BY <1>1, <2>1, <2>3, <2>4, RemainsRequires DEF Node
  <2>6. Required(db, f) \subseteq Required(committed, f)
    BY <2>1, <2>3, <2>4, <2>5, RemainsRequires
  <2>7. db.repos \subseteq Reachable(db) \cup From(db, Required(db, f) \cup Seeds')
    BY <2>1, <2>2 DEF MaskInv
  <2>8. db.repos \subseteq Reachable(db) \cup From(db, Seeds')
    <3>1. CASE f \in db.fragments
      <4>1. PICK s \in db.repos : f \in db.contains[s]
        BY <1>1, <3>1
      <4>2. PICK r \in Repo \ db.repos : f \in committed.contains[r]
        BY <1>1, <2>1 DEF MaskInv
      <4>3. s \in Repo /\ f \in committed.contains[s] /\ r # s
        BY <2>1, <2>3, <2>4, <4>1, <4>2 DEF Remains, Graph
      <4>4. Offered(f, r)
        BY <2>1, <4>2 DEF PublishedIn, Published, Offered
      <4>5. s \notin From(db, Required(db, f))
        BY <2>1, <2>5, <2>6, <4>2, <4>3, <4>4, NotOwnRequirement
      <4> QED
        BY <2>1, <2>2, <2>7, <4>1, <4>5, RequiredAnyway
    <3>2. CASE f \notin db.fragments
      <4>1. f # Root
        BY <1>1, RootApart
      <4>2. Required(db, f) = {}
        BY <2>1, <2>3, <2>5, <3>2, <4>1, RemainsRequires
      <4> QED
        BY <2>7, <4>2
    <3> QED
      BY <3>1, <3>2
  <2>9. ASSUME NEW x \in db.fragments
        PROVE  x \in Queued("fragment")' \/ InUse(db, x)
    <3>1. x \in {f} \cup Queued("fragment")' \/ InUse(db, x)
      BY <1>1, <2>1 DEF MaskInv
    <3>2. x = f => InUse(db, x)
      BY <1>1, <2>1, <2>9 DEF InUse, Graph
    <3> QED
      BY <3>1, <3>2
  <2> QED
    BY <1>1, <2>1, <2>8, <2>9 DEF MaskInv
<1> QED
  BY <1>1, <1>2, OnwardMask

\* MaskInv when a repository is removed.
LEMMA RemoveRepoMask ==
  ASSUME BaseInv, GraphInv, Masking => MaskInv, RemoveRepo
  PROVE  (Masking => MaskInv)'
<1> DEFINE r == task.id
<1>1. /\ Removing("repo") /\ (\E tasks \in Seq(Task) : Then(tasks))
      /\ committed' = committed
      /\ r \in db.repos \ Reachable(db) /\ db.contains[r] \in SUBSET Fragment
      /\ Queued("repo") = {r} \cup Queued("repo")'
      /\ Queued("fragment")' = db.contains[r] \cup Queued("fragment")
      /\ db' \in Graph
      /\ db'.repos = db.repos \ {r}
      /\ db'.contains[r] = {}
      /\ \A s \in Repo \ {r} : db'.contains[s] = db.contains[s]
      /\ db'.fragments = db.fragments
      /\ db'.complements = db.complements
      /\ db'.prerequisites = db.prerequisites
      /\ \A f : Required(db', f) = Required(db, f)
      /\ Erased(db, db', r)
  BY RemoveRepoForm
<1> HIDE DEF r
<1>2. ASSUME Masking
      PROVE  /\ Remains(Unnamed, db') /\ Reachable(db') = Reachable(db)
             /\ Reachable(db') \subseteq db'.repos
             /\ db'.repos \subseteq Reachable(db') \cup From(db', Seeds')
             /\ \A f \in db'.fragments : f \in Queued("fragment")' \/ InUse(db', f)
             /\ \A f \in Queued("fragment")' : \E s \in Repo \ db'.repos : f \in committed.contains[s]
  <2>1. /\ db \in Graph /\ Orphanless(db) /\ MaskInv /\ Seeds \in SUBSET Repo
        /\ committed \in Graph /\ cmd.args \in SUBSET Repo
        /\ Queued("repo") \in SUBSET Repo /\ Queued("fragment") \in SUBSET Fragment
        /\ r \in Repo
    BY <1>1, <1>2, MaskingTyped DEF Graph
  <2>2. Remains(Unnamed, db) /\ Unnamed.contains = committed.contains
    BY <2>1, UnreferenceRequires DEF MaskInv, Unnamed
  <2>3. Remains(Unnamed, db')
    BY <1>1, <2>1, <2>2 DEF Remains
  <2>4. Reachable(db') = Reachable(db)
    BY <1>1, <2>1, ErasedReachable
  <2>5. Reachable(db') \subseteq db'.repos
    BY <1>1, <2>1, <2>4 DEF MaskInv
  <2>6. db'.repos \subseteq Reachable(db') \cup From(db', Seeds')
    <3>1. Seeds' = Queued("repo")' \cup UNION {Required(db, f) : f \in Queued("fragment")'}
      BY <1>1 DEF Seeds
    <3>2. Seeds \subseteq Seeds' \cup {r} /\ RequiredBy(db, r) \subseteq Seeds'
      BY <1>1, <3>1 DEF Seeds, RequiredBy
    <3>3. Seeds' = Queued("repo")' \cup RequiredBy(db, r)
                   \cup UNION {Required(db, f) : f \in Queued("fragment")}
      BY <1>1, <3>1 DEF RequiredBy
    <3>4. Seeds' \in SUBSET Repo
      BY <1>1, <2>1, <3>3, RequiredTyped DEF Seeds
    <3>5. db.repos \subseteq Reachable(db) \cup From(db, Seeds)
      BY <2>1 DEF MaskInv
    <3> QED
      BY <1>1, <2>1, <3>2, <3>4, <3>5, ErasedLeads
  <2>7. ASSUME NEW f \in db.fragments, f \notin Queued("fragment")'
        PROVE  InUse(db', f)
    <3>1. PICK s \in Repo : f \in db.contains[s]
      BY <1>1, <2>1, <2>7 DEF MaskInv, InUse
    <3>2. s # r
      BY <1>1, <2>7, <3>1
    <3> QED
      BY <1>1, <3>1, <3>2 DEF InUse
  <2>8. ASSUME NEW f \in Queued("fragment")'
        PROVE  \E s \in Repo \ db'.repos : f \in committed.contains[s]
    <3>1. CASE f \in db.contains[r]
      <4>1. f \in committed.contains[r]
        BY <1>1, <2>1, <2>2, <3>1 DEF Remains
      <4> QED
        BY <1>1, <2>1, <4>1
    <3>2. CASE f \in Queued("fragment")
      BY <1>1, <2>1, <3>2 DEF MaskInv
    <3> QED
      BY <1>1, <2>8, <3>1, <3>2
  <2> QED
    BY <1>1, <2>3, <2>4, <2>5, <2>6, <2>7, <2>8
<1> QED
  BY <1>1, <1>2, OnwardMask

\* MaskInv when a fragment is removed.
LEMMA RemoveFragmentMask ==
  ASSUME BaseInv, GraphInv, Masking => MaskInv, RemoveFragment
  PROVE  (Masking => MaskInv)'
<1> DEFINE f == task.id
<1>1. /\ Removing("fragment") /\ (\E tasks \in Seq(Task) : Then(tasks))
      /\ committed' = committed
      /\ f \in Fragment
      /\ \A s \in Repo : f \notin db.contains[s]
      /\ Queued("repo")' = Required(db, f) \cup Queued("repo")
      /\ Queued("fragment") = {f} \cup Queued("fragment")'
      /\ db' \in Graph /\ db'.repos = db.repos /\ db'.contains = db.contains
      /\ db'.fragments = db.fragments \ {f}
      /\ \A n \in Node : db'.complements[n] = IF n = f THEN {} ELSE db.complements[n]
      /\ \A n \in Node : db'.prerequisites[n] = IF n = f THEN {} ELSE db.prerequisites[n]
      /\ \A x \in Fragment \ {f} : Required(db', x) = Required(db, x)
      /\ Added(db') = Added(db)
      /\ \A s \in Repo : RequiredBy(db', s) = RequiredBy(db, s)
  BY RemoveFragmentForm
<1> HIDE DEF f
<1>2. ASSUME Masking
      PROVE  /\ Remains(Unnamed, db') /\ Reachable(db') = Reachable(db)
             /\ Reachable(db') \subseteq db'.repos
             /\ db'.repos \subseteq Reachable(db') \cup From(db', Seeds')
             /\ \A x \in db'.fragments : x \in Queued("fragment")' \/ InUse(db', x)
             /\ \A x \in Queued("fragment")' : \E s \in Repo \ db'.repos : x \in committed.contains[s]
  <2>1. /\ db \in Graph /\ MaskInv /\ Queued("fragment") \in SUBSET Fragment
    BY <1>2, MaskingTyped
  <2>2. Reachable(db') = Reachable(db) /\ \A X : From(db', X) = From(db, X)
    BY <1>1, ReachableSame, FromSame
  <2>3. Remains(Unnamed, db')
    <3>1. Remains(Unnamed, db) /\ f # Root
      BY <1>1, <2>1, RootApart DEF MaskInv
    <3> QED
      BY <1>1, <3>1 DEF Remains
  <2>4. Seeds \subseteq Seeds'
    <3>1. ASSUME NEW x \in Queued("fragment")
          PROVE  Required(db, x) \subseteq Seeds'
      <4>1. CASE x = f
        BY <1>1, <4>1 DEF Seeds
      <4>2. CASE x # f
        BY <1>1, <2>1, <4>2 DEF Seeds
      <4> QED
        BY <4>1, <4>2
    <3> QED
      BY <1>1, <3>1 DEF Seeds
  <2>5. db'.repos \subseteq Reachable(db') \cup From(db', Seeds')
    <3>1. From(db, Seeds) \subseteq From(db, Seeds')
      BY <2>4, FromGrows
    <3>2. db.repos \subseteq Reachable(db) \cup From(db, Seeds)
      BY <2>1 DEF MaskInv
    <3> QED
      BY <1>1, <2>2, <3>1, <3>2
  <2>6. \A x \in db'.fragments : x \in Queued("fragment")' \/ InUse(db', x)
    BY <1>1, <2>1 DEF MaskInv, InUse
  <2>7. \A x \in Queued("fragment")' : \E s \in Repo \ db'.repos : x \in committed.contains[s]
    BY <1>1, <2>1 DEF MaskInv
  <2> QED
    BY <1>1, <2>1, <2>2, <2>3, <2>5, <2>6, <2>7 DEF MaskInv
<1> QED
  BY <1>1, <1>2, OnwardMask

\* MaskInv after any step.
LEMMA MaskStep ==
  ASSUME SharedAcyclic, BaseInv, GraphInv, Masking => MaskInv, [Next]_vars
  PROVE  (Masking => MaskInv)'
<1>1. ASSUME cmd' = Idle \/ cmd'.op # "mask"
      PROVE  ~Masking'
  BY <1>1 DEF Masking, Pruning
<1>2. CASE RepAdd \/ RepRemoveClean
  BY <1>1, <1>2 DEF RepAdd, RepRemoveClean
<1>3. CASE RepFetchAll \/ RepFetch
  <2>1. ASSUME NEW R \in SUBSET Repo, NEW g, NEW shallow \in BOOLEAN, StartFetch(R, g, shallow)
        PROVE  cmd'.op = "fetch"
    BY <2>1, StartFetchForm
  <2>2. CASE RepFetchAll
    <3>1. PICK shallow \in {FALSE, ShallowAll} :
            StartFetch(Added(committed), ErasePackages(committed, Fragment), shallow)
      BY <2>2 DEF RepFetchAll
    <3>2. shallow \in BOOLEAN /\ Added(committed) \in SUBSET Repo
      BY CommandsAssumption DEF BaseInv, TypeOK, Orphanless, Graph
    <3> QED
      BY <1>1, <2>1, <3>1, <3>2
  <2>3. CASE RepFetch
    <3>1. PICK R \in Arguments(Repo), shallow \in BOOLEAN :
            StartFetch(R, AddRepos(committed, R), shallow)
      BY <2>3 DEF RepFetch
    <3>2. R \in SUBSET Repo
      BY DEF Arguments
    <3> QED
      BY <1>1, <2>1, <3>1, <3>2
  <2> QED
    BY <1>3, <2>2, <2>3
<1>4. CASE RepRemove
  <2>1. PICK R \in Arguments(Added(committed)) \cup {Added(committed)} :
          StartRemove("remove", R, Unreference(committed, R, {Root}))
    BY <1>4 DEF RepRemove
  <2>2. R \in SUBSET Repo
    BY DEF BaseInv, TypeOK, Orphanless, Graph, Arguments
  <2>3. cmd'.op = "remove"
    BY <2>1, <2>2, StartRemoveForm
  <2> QED
    BY <1>1, <2>3
<1>5. CASE RepMask
  BY <1>5, RepMaskMask
<1>6. CASE FetchAgain
  <2>1. cmd \in Command /\ cmd.op = "fetch"
    BY <1>6, FetchingVisits DEF FetchAgain
  <2>2. cmd'.op = cmd.op
    BY <1>6, <2>1 DEF FetchAgain, Command
  <2> QED
    BY <1>1, <2>1, <2>2
<1>7. CASE \E r \in Repo : \E o \in Offers[r] : FetchRepo(r, o)
  BY <1>1, <1>7, FetchRepoForm DEF BaseInv, VisitedNow
<1>8. CASE StartPruning
  BY <1>1, <1>8, StartPruningForm DEF BaseInv
<1>9. CASE KeepRepo \/ RemoveRepo \/ KeepFragment \/ RemoveFragment
  BY <1>9, KeepRepoMask, RemoveRepoMask, KeepFragmentMask, RemoveFragmentMask
<1>10. CASE RemoveState
  <2>1. Removing("state") /\ Then(<<>>)
    BY <1>10 DEF RemoveState
  <2>2. cmd \in Command /\ cmd.todo # <<>> /\ cmd.op # "mask"
    BY <2>1, RemovingPrunes
  <2>3. <<>> \in Seq(Task)
    BY NothingCalled
  <2>4. cmd'.op = cmd.op
    BY <2>1, <2>2, <2>3, ThenForm
  <2> QED
    BY <1>1, <2>2, <2>4
<1>11. CASE RemoveFail \/ CheckFail \/ MaskDone \/ FetchFail \/ Kill \/ Commit
  BY <1>1, <1>11 DEF RemoveFail, CheckFail, MaskDone, FetchFail, Kill, Commit, RollBack
<1>12. CASE UNCHANGED vars
  <2>1. committed' = committed /\ db' = db /\ cmd' = cmd
    BY <1>12 DEF vars
  <2> QED
    BY <2>1 DEF Masking, Pruning, MaskInv, Unnamed, Seeds, Queued
<1> QED
  BY <1>2, <1>3, <1>4, <1>5, <1>6, <1>7, <1>8, <1>9, <1>10, <1>11, <1>12 DEF Next, Proceed

LEMMA SpecMask ==
  ASSUME SharedAcyclic
  PROVE  Spec => [](BaseInv /\ GraphInv /\ (Masking => MaskInv))
<1>1. Init => BaseInv /\ GraphInv /\ (Masking => MaskInv)
  BY InitBase, InitGraph DEF Init, Masking, Pruning
<1>2. BaseInv /\ GraphInv /\ (Masking => MaskInv) /\ [Next]_vars
        => (BaseInv /\ GraphInv /\ (Masking => MaskInv))'
  BY BaseStep, GraphStep, MaskStep
<1> QED
  BY <1>1, <1>2, PTL DEF Spec

\* When nothing is left to remove, what is left is what would be if the masked
\* repositories were not required.
LEMMA MaskedRemains ==
  ASSUME BaseInv, GraphInv, Masking, MaskInv, Finished
  PROVE  LET rest == Pruned(Unnamed) IN
         /\ rest \in Graph
         /\ db.repos = rest.repos /\ db.fragments = rest.fragments
         /\ SameWithin(committed, Unmasked(db), rest, rest.fragments \cup {Root})
<1> DEFINE u == Unnamed
           rest == Pruned(u)
           R == cmd.args
           K == Reachable(u)
           used == UNION {u.contains[r] : r \in K}
<1>1. /\ db \in Graph /\ Orphanless(db)
      /\ committed \in Graph /\ Orphanless(committed) /\ Tidy(committed)
      /\ R \in SUBSET Repo /\ u \in Graph
  BY MaskingTyped
<1>2. Remains(u, db) /\ Reachable(db) = K /\ K \subseteq db.repos /\ K \subseteq Repo
  BY <1>1 DEF MaskInv, Graph
<1>3. db.repos = K
  <2>1. \A k : Queued(k) = {}
    BY NothingCalled DEF Finished, Queued
  <2>2. Seeds = {}
    BY <2>1 DEF Seeds
  <2>3. From(db, Seeds) \subseteq {}
    <3>1. Closed(db, {})
      BY DEF Closed
    <3> QED
      BY <2>2, <3>1, FromLeast
  <2> QED
    BY <1>2, <2>3 DEF MaskInv
<1>4. /\ u.repos = committed.repos /\ u.contains = committed.contains
      /\ u.fragments = committed.fragments
      /\ u.packages = committed.packages
      /\ \A n \in Node : /\ u.complements[n] = committed.complements[n] \ R
                         /\ u.prerequisites[n] = committed.prerequisites[n] \ R
      /\ Added(u) = Added(committed) \ R
      /\ \A r \in Repo : RequiredBy(u, r) = RequiredBy(committed, r) \ R
  BY <1>1, UnreferenceRequires DEF Unnamed
<1>5. u.repos \cap K = K
  BY <1>2, <1>3 DEF Remains
<1>6. /\ rest \in Graph /\ rest.repos = K
      /\ \A r \in Repo : rest.contains[r] = IF r \in K THEN u.contains[r] ELSE {}
      /\ rest.fragments = u.fragments \cap used
      /\ \A n \in Node : rest.complements[n]
                           = IF n \in used \cup {Root} THEN u.complements[n] ELSE {}
      /\ \A n \in Node : rest.prerequisites[n] = IF n \in used THEN u.prerequisites[n] ELSE {}
      /\ \A f \in Fragment : rest.packages[f] = IF f \in used THEN u.packages[f] ELSE {}
  BY <1>1, <1>5, PrunedFields
<1> HIDE DEF u, rest, R, K
<1>7. db.fragments = used
  <2>1. \A k : Queued(k) = {}
    BY NothingCalled DEF Finished, Queued
  <2>2. \A f \in db.fragments : InUse(db, f)
    BY <2>1 DEF MaskInv
  <2>3. \A r \in Repo : db.contains[r] = (IF r \in K THEN u.contains[r] ELSE {})
                        /\ db.contains[r] \subseteq db.fragments
    BY <1>2, <1>3 DEF Remains
  <2> QED
    BY <1>2, <2>2, <2>3 DEF InUse
<1>8. rest.fragments = used
  BY <1>2, <1>6, <1>7 DEF Remains
<1> DEFINE N == used \cup {Root}
           mask == Unmasked(db)
<1>9. N \in SUBSET Node /\ used \subseteq Fragment /\ Root \notin Fragment
  BY <1>1, <1>7, RootApart DEF Node, Graph
<1>10. ASSUME NEW n \in N
       PROVE  /\ Required(u, n) \subseteq K
              /\ rest.complements[n] = committed.complements[n] \ R
              /\ rest.prerequisites[n] = committed.prerequisites[n] \ R
  <2>1. Added(u) \subseteq Repo
    BY <1>1, <1>4 DEF Orphanless, Graph
  <2>2. Added(u) \subseteq K /\ Closed(u, K)
    BY <1>1, <2>1, ReachableClosed DEF K
  <2>3. committed.prerequisites[Root] = {}
    BY <1>1 DEF Tidy, Shape
  <2>4. CASE n = Root
    BY <1>4, <1>6, <1>9, <2>2, <2>3, <2>4 DEF Required, Added
  <2>5. CASE n \in used
    <3>1. PICK r \in K : n \in u.contains[r]
      BY <2>5
    <3>2. Required(u, n) \subseteq RequiredBy(u, r)
      BY <3>1 DEF RequiredBy
    <3> QED
      BY <1>4, <1>6, <1>9, <2>2, <2>5, <3>1, <3>2 DEF Closed
  <2> QED
    BY <2>4, <2>5
<1>11. K \cap R = {}
  <2>1. Added(u) \subseteq Repo \ R
    BY <1>1, <1>4 DEF Orphanless, Graph
  <2>2. Closed(u, Repo \ R)
    BY <1>1, <1>4, RequiredTyped DEF Closed
  <2>3. Reachable(u) \subseteq Repo \ R
    BY <2>1, <2>2, ReachableLeast
  <2> QED
    BY <2>3 DEF K
<1>12. mask.repos = K \cup {RootRepo} /\ mask.fragments = N
       /\ Everything.repos = Repo \cup {RootRepo} /\ Everything.fragments = Node
  BY <1>3, <1>7 DEF Unmasked, Everything
<1> HIDE DEF mask
<1>13. ASSUME NEW n \in N, NEW X, X \in {committed.complements[n], committed.prerequisites[n]}
       PROVE  /\ FragmentsOf(committed, mask, X) = FragmentsOf(rest, Everything, X \ R)
              /\ FragmentsOf(rest, Everything, X \ R) \subseteq N
  <2>1. X \subseteq Repo \cup {RootRepo}
    BY <1>1, <1>9, <1>13 DEF Graph
  <2>2. X \ R \subseteq K \cup {RootRepo}
    <3>1. Required(u, n) = ((committed.complements[n] \ R) \cup (committed.prerequisites[n] \ R))
                           \ {RootRepo}
      BY <1>4, <1>9 DEF Required
    <3> QED
      BY <1>10, <1>13, <3>1
  <2>3. X \cap mask.repos = X \ R /\ (X \ R) \cap Everything.repos = X \ R
    BY <1>1, <1>11, <1>12, <2>1, <2>2, RootApart
  <2>4. ASSUME NEW r \in K \cup {RootRepo}
        PROVE  /\ FragmentsIn(committed, r) = FragmentsIn(rest, r)
               /\ FragmentsIn(rest, r) \subseteq N
    BY <1>2, <1>4, <1>6 DEF FragmentsIn
  <2> HIDE DEF N
  <2> QED
    BY <2>2, <2>3, <2>4 DEF FragmentsOf
<1>14. ASSUME NEW n \in N
       PROVE  /\ FragmentsOf(committed, mask, committed.complements[n])
                   = FragmentsOf(rest, Everything, rest.complements[n])
              /\ FragmentsOf(committed, mask, committed.prerequisites[n])
                   = FragmentsOf(rest, Everything, rest.prerequisites[n])
              /\ FragmentsOf(rest, Everything, rest.complements[n]) \subseteq N
              /\ FragmentsOf(rest, Everything, rest.prerequisites[n]) \subseteq N
  BY <1>10, <1>13
<1>15. ASSUME NEW p \in Package
       PROVE  Locations(committed, mask, p) = Locations(rest, Everything, p)
  <2>1. Fragment \cap mask.fragments = used /\ Fragment \cap Everything.fragments = Fragment
    BY <1>9, <1>12 DEF Node
  <2>2. \A f \in Fragment : rest.packages[f] = IF f \in used THEN committed.packages[f] ELSE {}
    BY <1>4, <1>6
  <2> HIDE DEF used
  <2> QED
    BY <1>9, <2>1, <2>2 DEF Locations
<1>16. SameWithin(committed, mask, rest, N)
  <2> HIDE DEF N
  <2> QED
    BY <1>9, <1>14, <1>15 DEF SameWithin
<1> QED
  BY <1>3, <1>6, <1>7, <1>8, <1>16 DEF mask, rest, u

\* The package found for a dependent or a user is the latest one that suits in
\* what the repositories declare to be visible (query_available(), filter(),
\* find()), through whatever cycles there are; and if some are masked, it is what
\* would be found if they had been removed (rep_mask()), provided that no
\* repository is required, however indirectly, by what it shares with another.
THEOREM SearchesExact ==
  ASSUME SharedAcyclic
  PROVE  Spec => []SearchExact
<1>1. BaseInv /\ GraphInv /\ (Masking => MaskInv) => SearchExact
  <2> SUFFICES ASSUME BaseInv, GraphInv, Masking => MaskInv
               PROVE  SearchExact
    OBVIOUS
  <2>1. committed \in Graph
    BY DEF BaseInv, TypeOK
  <2>2. FoundAsDeclared(committed, Everything, committed)
    <3>1. committed.fragments \cup {Root} \subseteq Node
      BY <2>1 DEF Graph, Node
    <3> QED
      BY <2>1, <3>1, UnmaskedSame, SearchesAgree
  <2>3. ASSUME Finished, cmd.op = "mask"
        PROVE  LET rest == Pruned(Unreference(committed, cmd.args, Node))
               IN  /\ db.repos = rest.repos /\ db.fragments = rest.fragments
                   /\ FoundAsDeclared(committed, Unmasked(db), rest)
    <3>1. Masking /\ MaskInv
      BY <2>3 DEF Masking, Pruning, Finished
    <3> DEFINE rest == Pruned(Unnamed)
    <3>2. /\ rest \in Graph
          /\ db.repos = rest.repos /\ db.fragments = rest.fragments
          /\ SameWithin(committed, Unmasked(db), rest, rest.fragments \cup {Root})
      BY <2>3, <3>1, MaskedRemains
    <3>3. rest = Pruned(Unreference(committed, cmd.args, Node))
      BY DEF Unnamed
    <3> HIDE DEF rest
    <3>4. FoundAsDeclared(committed, Unmasked(db), rest)
      BY <2>1, <3>2, SearchesAgree
    <3> QED
      BY <3>2, <3>3, <3>4
  <2> QED
    BY <2>2, <2>3 DEF SearchExact
<1> QED
  BY <1>1, SpecMask, PTL
=============================================================================
