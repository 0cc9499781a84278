------------------------- MODULE CollectionProofs -------------------------
(* What the collection of pkg-build and its adjustments of the command line *)
(* come to, for any packages, versions, repositories and requests: the      *)
(* lemmas about the operators of BuildPackages and CommandLineAdjustments,  *)
(* and those that the actions up to the order of the plan keep the          *)
(* invariant of PackageCommandsInvariant. There is one for each action,     *)
(* named after it.                                                          *)
EXTENDS PackageCommandsInvariant, SequenceTheorems, FiniteSetTheorems, NaturalsInduction,
        WellFoundedInduction, TLAPS

---------------------------------------------------------------------------
(* Induction over the natural numbers, for a set of them instead of a       *)
(* property.                                                                *)
\* A set that has 0, and n + 1 with every n, has all numbers.
LEMMA SetInduction ==
  ASSUME NEW T, 0 \in T, \A n \in Nat : n \in T => n + 1 \in T
  PROVE  Nat \subseteq T
<1> DEFINE below == {s \in Nat \X Nat : s[1] < s[2]}
<1>1. IsWellFoundedOn(below, Nat)
  <2>1. OpToRel(<, Nat) = below
    BY Zenon DEF OpToRel
  <2> QED
    BY <2>1, NatLessThanWellFounded, Zenon
<1> SUFFICES ASSUME Nat \ T # {} PROVE FALSE
  OBVIOUS
<1>2. PICK x \in Nat \ T : \A y \in Nat \ T : ~(<<y, x>> \in below)
  <2> HIDE DEF below
  <2> QED
    BY <1>1, WFMin, Nat \ T \subseteq Nat
<1>3. \A y \in Nat \ T : ~(y < x)
  BY <1>2
<1>4. x # 0 /\ x - 1 \in Nat
  BY <1>2
<1>5. x - 1 \in T
  BY <1>3, <1>4
<1> QED
  BY <1>2, <1>4, <1>5

---------------------------------------------------------------------------
(* Sequences.                                                               *)
\* The elements of a sequence.
LEMMA SetOf ==
    ASSUME NEW T, NEW s \in Seq(T)
    PROVE  /\ ToSet(s) \subseteq T
           /\ \A x : x \in ToSet(s) <=> \E i \in 1..Len(s) : s[i] = x
           /\ Len(s) \in Nat /\ DOMAIN s = 1..Len(s)
           /\ s = <<>> <=> ToSet(s) = {}
<1>1. Len(s) \in Nat /\ DOMAIN s = 1..Len(s) /\ s \in [1..Len(s) -> T]
  BY LenProperties
<1>2. \A x : x \in ToSet(s) <=> \E i \in 1..Len(s) : s[i] = x
  BY <1>1 DEF ToSet
<1>3. ToSet(s) \subseteq T
  BY <1>1, <1>2
<1>4. ASSUME s # <<>>
      PROVE  ToSet(s) # {}
  <2>1. Len(s) # 0
    BY <1>4, EmptySeq
  <2> QED
    BY <1>1, <1>2, <2>1
<1>5. ASSUME s = <<>>
      PROVE  ToSet(s) = {}
  BY <1>5 DEF ToSet
<1> QED
  BY <1>1, <1>2, <1>3, <1>4, <1>5

\* A sequence of elements of a smaller set.
LEMMA SeqOfSet ==
    ASSUME NEW T, NEW s \in Seq(T), NEW U, ToSet(s) \subseteq U
    PROVE  s \in Seq(U)
<1>1. s \in [1..Len(s) -> T] /\ Len(s) \in Nat
  BY LenProperties
<1>2. \A i \in 1..Len(s) : s[i] \in U
  BY SetOf
<1>3. s \in [1..Len(s) -> U]
  BY <1>1, <1>2
<1> QED
  BY <1>1, <1>3, SeqDef

\* Two sequences, one after the other.
LEMMA ConcatSet ==
    ASSUME NEW T, NEW s \in Seq(T), NEW t \in Seq(T)
    PROVE  s \o t \in Seq(T) /\ ToSet(s \o t) = ToSet(s) \cup ToSet(t)
<1>1. /\ s \o t \in Seq(T) /\ Len(s \o t) = Len(s) + Len(t)
      /\ \A i \in 1 .. Len(s) + Len(t) :
            (s \o t)[i] = IF i <= Len(s) THEN s[i] ELSE t[i - Len(s)]
  BY ConcatProperties
<1>2. Len(s) \in Nat /\ Len(t) \in Nat
  BY LenProperties
<1>3. ASSUME NEW x \in ToSet(s \o t)
      PROVE  x \in ToSet(s) \cup ToSet(t)
  <2>1. PICK i \in 1 .. Len(s) + Len(t) : (s \o t)[i] = x
    BY <1>1, SetOf
  <2> QED
    BY <1>1, <1>2, <2>1, SetOf
<1>4. ASSUME NEW x \in ToSet(s)
      PROVE  x \in ToSet(s \o t)
  <2>1. PICK i \in 1 .. Len(s) : s[i] = x
    BY SetOf
  <2>2. i \in 1 .. Len(s) + Len(t) /\ (s \o t)[i] = x
    BY <1>1, <1>2, <2>1
  <2> QED
    BY <1>1, <2>2, SetOf
<1>5. ASSUME NEW x \in ToSet(t)
      PROVE  x \in ToSet(s \o t)
  <2>1. PICK i \in 1 .. Len(t) : t[i] = x
    BY SetOf
  <2>2. i + Len(s) \in 1 .. Len(s) + Len(t) /\ ~(i + Len(s) <= Len(s))
    BY <1>2, <2>1
  <2>3. (s \o t)[i + Len(s)] = x
    BY <1>1, <1>2, <2>1, <2>2
  <2>4. \E j \in 1 .. Len(s \o t) : (s \o t)[j] = x
    BY <1>1, <2>2, <2>3
  <2>5. s \o t \in Seq(T)
    BY <1>1
  <2> QED
    BY <2>4, <2>5, SetOf, Zenon
<1> QED
  BY <1>1, <1>3, <1>4, <1>5

\* One element more.
LEMMA AppendSet ==
    ASSUME NEW T, NEW s \in Seq(T), NEW e \in T
    PROVE  /\ Append(s, e) \in Seq(T) /\ ToSet(Append(s, e)) = ToSet(s) \cup {e}
           /\ Len(Append(s, e)) = Len(s) + 1 /\ Append(s, e)[Len(s) + 1] = e
           /\ \A i \in 1..Len(s) : Append(s, e)[i] = s[i]
           /\ IsInjective(s) /\ e \notin ToSet(s) => IsInjective(Append(s, e))
<1> DEFINE a == Append(s, e)
<1>1. /\ a \in Seq(T) /\ Len(a) = Len(s) + 1
      /\ \A i \in 1..Len(s) : a[i] = s[i]
      /\ a[Len(s) + 1] = e
  BY AppendProperties
<1>2. Len(s) \in Nat /\ DOMAIN s = 1..Len(s) /\ DOMAIN a = 1..Len(a)
  BY <1>1, LenProperties
<1> HIDE DEF a
<1>3. ASSUME NEW x PROVE x \in ToSet(a) <=> x \in ToSet(s) \cup {e}
  <2>1. x \in ToSet(a) <=> \E i \in 1..Len(s) + 1 : a[i] = x
    BY <1>1, SetOf
  <2>2. x \in ToSet(s) <=> \E i \in 1..Len(s) : s[i] = x
    BY SetOf
  <2> QED
    BY <1>1, <1>2, <2>1, <2>2
<1>4. ASSUME IsInjective(s), e \notin ToSet(s)
      PROVE  IsInjective(a)
  <2>1. \A i \in 1..Len(s) : a[i] # e
    BY <1>1, <1>4, SetOf
  <2>2. \A i, j \in 1..Len(s) : a[i] = a[j] => i = j
    BY <1>1, <1>2, <1>4 DEF IsInjective
  <2>3. \A i \in 1..Len(s) + 1 : i \in 1..Len(s) \/ i = Len(s) + 1
    BY <1>2
  <2> QED
    BY <1>1, <1>2, <2>1, <2>2, <2>3 DEF IsInjective
<1> QED
  BY <1>1, <1>3, <1>4 DEF a

\* The first element and the others.
LEMMA TailSet ==
    ASSUME NEW T, NEW s \in Seq(T), s # <<>>
    PROVE  /\ Head(s) \in T /\ Tail(s) \in Seq(T)
           /\ ToSet(s) = {Head(s)} \cup ToSet(Tail(s))
           /\ IsInjective(s) => IsInjective(Tail(s)) /\ Head(s) \notin ToSet(Tail(s))
           /\ Head(s) = s[1] /\ Len(s) > 0 /\ Len(Tail(s)) = Len(s) - 1
           /\ \A i \in 1..Len(s) - 1 : Tail(s)[i] = s[i + 1]
<1>1. /\ Head(s) \in T /\ Tail(s) \in Seq(T) /\ Len(Tail(s)) = Len(s) - 1
      /\ \A i \in 1 .. Len(Tail(s)) : Tail(s)[i] = s[i + 1]
  BY HeadTailProperties
<1>2. Len(s) \in Nat \ {0} /\ DOMAIN s = 1..Len(s)
  BY EmptySeq, LenProperties
<1>3. Head(s) = s[1]
  OBVIOUS
<1> DEFINE t == Tail(s)
<1> HIDE DEF t
<1>4. t \in Seq(T) /\ Len(t) = Len(s) - 1 /\ \A i \in 1..Len(s) - 1 : t[i] = s[i + 1]
  BY <1>1 DEF t
<1>5. DOMAIN t = 1..Len(s) - 1
  BY <1>4, LenProperties
<1>6. ASSUME NEW x PROVE x \in ToSet(s) <=> x = s[1] \/ x \in ToSet(t)
  <2>1. x \in ToSet(s) <=> \E i \in 1..Len(s) : s[i] = x
    BY SetOf
  <2>2. x \in ToSet(t) <=> \E i \in 1..Len(s) - 1 : s[i + 1] = x
    BY <1>4, SetOf
  <2>3. ASSUME NEW i \in 1..Len(s), s[i] = x, x # s[1]
        PROVE  i - 1 \in 1..Len(s) - 1 /\ s[(i - 1) + 1] = x
    BY <1>2, <2>3
  <2>4. \A i \in 1..Len(s) - 1 : i + 1 \in 1..Len(s)
    BY <1>2
  <2> QED
    BY <1>2, <2>1, <2>2, <2>3, <2>4
<1>7. ASSUME IsInjective(s)
      PROVE  IsInjective(t) /\ s[1] \notin ToSet(t)
  <2>1. \A i, j \in 1..Len(s) : s[i] = s[j] => i = j
    BY <1>2, <1>7 DEF IsInjective
  <2>2. \A i \in 1..Len(s) - 1 : i + 1 \in 1..Len(s) /\ i + 1 # 1
    BY <1>2
  <2>3. \A i, j \in 1..Len(s) - 1 : t[i] = t[j] => i = j
    BY <1>2, <1>4, <2>1, <2>2
  <2>4. \A i \in 1..Len(s) - 1 : t[i] # s[1]
    BY <1>2, <1>4, <2>1, <2>2
  <2>5. s[1] \notin ToSet(t)
    BY <1>4, <2>4, SetOf
  <2> QED
    BY <1>5, <2>3, <2>5 DEF IsInjective
<1> QED
  BY <1>1, <1>2, <1>3, <1>6, <1>7 DEF t

\* A sequence reversed.
LEMMA ReverseSet ==
    ASSUME NEW T, NEW s \in Seq(T)
    PROVE  /\ Reverse(s) \in Seq(T) /\ ToSet(Reverse(s)) = ToSet(s)
           /\ IsInjective(s) => IsInjective(Reverse(s))
<1>1. Len(s) \in Nat /\ DOMAIN s = 1..Len(s) /\ s \in [1..Len(s) -> T]
  BY LenProperties
<1> DEFINE r == Reverse(s)
<1>2. r \in [1..Len(s) -> T] /\ \A i \in 1..Len(s) : r[i] = s[(Len(s) - i) + 1]
  BY <1>1 DEF Reverse
<1>3. r \in Seq(T)
  BY <1>1, <1>2, SeqDef
<1> HIDE DEF r
<1>4. Len(r) = Len(s) /\ DOMAIN r = 1..Len(s)
  BY <1>1, <1>2, <1>3, LenProperties
<1>5. \A i \in 1..Len(s) : (Len(s) - i) + 1 \in 1..Len(s)
                          /\ (Len(s) - ((Len(s) - i) + 1)) + 1 = i
  BY <1>1
<1>6. ASSUME NEW x PROVE x \in ToSet(r) <=> x \in ToSet(s)
  <2>1. x \in ToSet(s) <=> \E i \in 1..Len(s) : s[i] = x
    BY SetOf
  <2>2. x \in ToSet(r) <=> \E i \in 1..Len(s) : r[i] = x
    BY <1>3, <1>4, SetOf
  <2> QED
    BY <1>2, <1>5, <2>1, <2>2
<1>7. ASSUME IsInjective(s)
      PROVE  IsInjective(r)
  BY <1>1, <1>2, <1>4, <1>5, <1>7 DEF IsInjective
<1> QED
  BY <1>3, <1>6, <1>7 DEF r

---------------------------------------------------------------------------
(* Those of a sequence that are in a set.                                   *)
\* Its recursive function.
Filters(f, s, S, n) ==
    f = [m \in 0..n |-> IF m = 0 THEN <<>>
                        ELSE IF s[m] \in S THEN Append(f[m - 1], s[m]) ELSE f[m - 1]]

\* It exists.
LEMMA FilterExists ==
    ASSUME NEW s, NEW S, NEW n \in Nat
    PROVE  \E f : Filters(f, s, S, n)
<1> DEFINE N == {m \in Nat : \E f : Filters(f, s, S, m)}
<1>1. 0 \in N
  <2> DEFINE f == [m \in 0..0 |-> <<>>]
  <2>1. f = [m \in 0..0 |-> IF m = 0 THEN <<>>
                            ELSE IF s[m] \in S THEN Append(f[m - 1], s[m]) ELSE f[m - 1]]
    OBVIOUS
  <2>2. Filters(f, s, S, 0)
    BY <2>1 DEF Filters
  <2> QED
    BY <2>2
<1>2. ASSUME NEW m \in Nat, m \in N
      PROVE  m + 1 \in N
  <2>1. PICK f : Filters(f, s, S, m)
    BY <1>2
  <2> DEFINE Step(g, k) == IF k = 0 THEN <<>>
                           ELSE IF s[k] \in S THEN Append(g[k - 1], s[k]) ELSE g[k - 1]
             h == [k \in 0..m + 1 |-> IF k = m + 1 THEN Step(f, k) ELSE f[k]]
  <2>2. \A k \in 0..m : f[k] = Step(f, k)
    BY <2>1 DEF Filters
  <2>3. \A k \in 0..m + 1 : k # 0 => k - 1 \in 0..m /\ k - 1 # m + 1 /\ k - 1 \in 0..m + 1
    OBVIOUS
  <2>4. \A k \in 0..m + 1 : k # 0 => h[k - 1] = f[k - 1]
    BY <2>3
  <2>5. \A k \in 0..m + 1 : h[k] = Step(f, k)
    <3>1. \A k \in 0..m + 1 : k # m + 1 => k \in 0..m
      OBVIOUS
    <3> HIDE DEF Step
    <3> QED
      BY <2>2, <3>1
  <2>6. \A k \in 0..m + 1 : h[k] = Step(h, k)
    <3> HIDE DEF h
    <3> QED
      BY <2>4, <2>5
  <2>7. h = [k \in 0..m + 1 |-> h[k]]
    OBVIOUS
  <2> HIDE DEF h
  <2>8. h = [k \in 0..m + 1 |-> Step(h, k)]
    BY <2>6, <2>7
  <2>9. Filters(h, s, S, m + 1)
    BY <2>8 DEF Filters
  <2> QED
    BY <2>9
<1>3. Nat \subseteq N
  <2> HIDE DEF N
  <2> QED
    BY <1>1, <1>2, SetInduction
<1> QED
  BY <1>3

\* They are a sequence of the elements of both, each as often as it was.
LEMMA ThoseOf ==
    ASSUME NEW T, NEW s \in Seq(T), NEW S
    PROVE  /\ Those(s, S) \in Seq(T)
           /\ ToSet(Those(s, S)) = ToSet(s) \cap S
           /\ IsInjective(s) => IsInjective(Those(s, S))
<1>1. Len(s) \in Nat /\ DOMAIN s = 1..Len(s) /\ s \in [1..Len(s) -> T]
  BY LenProperties
<1> DEFINE f == CHOOSE g : Filters(g, s, S, Len(s))
<1>2. Those(s, S) = f[Len(s)]
  BY DEF Those, Filters
<1>3. Filters(f, s, S, Len(s))
  BY <1>1, FilterExists
<1> HIDE DEF f
<1>4. f[0] = <<>>
  BY <1>1, <1>3 DEF Filters
<1>5. ASSUME NEW n \in 0..Len(s), n # 0
      PROVE  f[n] = IF s[n] \in S THEN Append(f[n - 1], s[n]) ELSE f[n - 1]
  BY <1>1, <1>3, <1>5 DEF Filters
<1> DEFINE Upto(n) == {s[i] : i \in 1..n}
           Good(n) == /\ f[n] \in Seq(T)
                      /\ ToSet(f[n]) = Upto(n) \cap S
                      /\ IsInjective(s) => IsInjective(f[n])
           N == {n \in Nat : n <= Len(s) => Good(n)}
<1>6. 0 \in N
  <2>1. <<>> \in Seq(T) /\ ToSet(<<>>) = {}
    BY EmptySeq, SetOf
  <2>2. Upto(0) = {}
    OBVIOUS
  <2>3. IsInjective(<<>>)
    BY DEF IsInjective
  <2> QED
    BY <1>4, <2>1, <2>2, <2>3
<1>7. ASSUME NEW n \in Nat, n \in N
      PROVE  n + 1 \in N
  <2> SUFFICES ASSUME n + 1 <= Len(s)
               PROVE  Good(n + 1)
    OBVIOUS
  <2>1. Good(n)
    BY <1>1, <1>7
  <2>2. n + 1 \in 0..Len(s) /\ n + 1 # 0 /\ (n + 1) - 1 = n /\ n + 1 \in 1..Len(s)
    BY <1>1
  <2>3. f[n + 1] = IF s[n + 1] \in S THEN Append(f[n], s[n + 1]) ELSE f[n]
    BY <1>5, <2>2
  <2>4. Upto(n + 1) = Upto(n) \cup {s[n + 1]}
    <3>1. 1..n + 1 = (1..n) \cup {n + 1}
      OBVIOUS
    <3> QED
      BY <3>1
  <2>5. s[n + 1] \in T
    BY <1>1, <2>2
  <2>6. ASSUME IsInjective(s)
        PROVE  s[n + 1] \notin Upto(n)
    <3>1. \A i \in 1..n : i \in 1..Len(s) /\ i # n + 1
      BY <1>1
    <3> QED
      BY <1>1, <2>2, <2>6, <3>1 DEF IsInjective
  <2> HIDE DEF Upto
  <2>7. CASE s[n + 1] \in S
    <3>1. /\ Append(f[n], s[n + 1]) \in Seq(T)
          /\ ToSet(Append(f[n], s[n + 1])) = ToSet(f[n]) \cup {s[n + 1]}
          /\ IsInjective(f[n]) /\ s[n + 1] \notin ToSet(f[n])
             => IsInjective(Append(f[n], s[n + 1]))
      BY <2>1, <2>5, AppendSet
    <3> QED
      BY <2>1, <2>3, <2>4, <2>6, <2>7, <3>1
  <2>8. CASE s[n + 1] \notin S
    BY <2>1, <2>3, <2>4, <2>8
  <2> QED
    BY <2>7, <2>8
<1>8. Nat \subseteq N
  <2> HIDE DEF N
  <2> QED
    BY <1>6, <1>7, SetInduction
<1>9. Good(Len(s))
  <2> HIDE DEF Good
  <2>1. Len(s) <= Len(s)
    BY <1>1
  <2> QED
    BY <1>1, <1>8, <2>1
<1>10. Upto(Len(s)) = ToSet(s)
  BY <1>1 DEF ToSet
<1>11. /\ f[Len(s)] \in Seq(T) /\ ToSet(f[Len(s)]) = ToSet(s) \cap S
       /\ IsInjective(s) => IsInjective(f[Len(s)])
  BY <1>9, <1>10, Zenon
<1> QED
  BY <1>2, <1>11, Zenon

\* The packages of a set, listed.
LEMMA ListedOf ==
    ASSUME NEW ps
    PROVE  /\ Listed(ps) \in Seq(Pkgs)
           /\ ToSet(Listed(ps)) = Pkgs \cap ps
           /\ IsInjective(Listed(ps))
BY NamesAssumption, ThoseOf DEF Listed, Pkgs

---------------------------------------------------------------------------
(* What the operators on the map of packages return.                        *)
\* A function on 1..n is a sequence.
LEMMA SeqIs ==
    ASSUME NEW U, NEW n \in Nat, NEW f \in [1..n -> U]
    PROVE  f \in Seq(U)
BY SeqDef

\* The names of packages are a finite set of them.
LEMMA ExtendedOf ==
    ASSUME NEW T, NEW s \in Seq(T), NEW t \in Seq(T)
    PROVE  Extended(s, t) \in Seq(T)
BY ThoseOf, ConcatSet DEF Extended

\* Two entries merged.
LEMMA MergeOf ==
    ASSUME NEW p \in Entries, NEW q \in Entries
    PROVE  /\ Merge(p, q) \in Entries
           /\ Merge(p, q).action = p.action /\ Merge(p, q).version = p.version
           /\ Merge(p, q).hold = (p.hold \/ q.hold)
           /\ Merge(p, q).holdVersion =
                 IF q.holdVersion > p.holdVersion THEN q.holdVersion ELSE p.holdVersion
<1>1. Extended(p.constraints, q.constraints) \in Seq(Constraints)
  BY ExtendedOf DEF Entries
<1> HIDE DEF Extended
<1>2. Merge(p, q) =
        [p EXCEPT
            !.user = p.user \/ q.user,
            !.byDependents = p.byDependents \/ q.byDependents,
            !.constraints = Extended(p.constraints, q.constraints),
            !.hold = p.hold \/ q.hold,
            !.holdVersion = IF q.holdVersion > p.holdVersion THEN q.holdVersion
                            ELSE p.holdVersion,
            !.reconfigure = p.reconfigure \/ q.reconfigure]
  BY DEF Merge
<1> QED
  BY <1>1, <1>2 DEF Entries

\* A map with an element put in keeps its type.
LEMMA PutIn ==
    ASSUME NEW S, NEW f, f \in [DOMAIN f -> S], NEW p, NEW x \in S
    PROVE  Put(f, p, x) \in [DOMAIN f \cup {p} -> S]
BY DEF Put

\* A map without an element.
LEMMA WithoutOf ==
    ASSUME NEW f, NEW p
    PROVE  /\ DOMAIN Without(f, p) = DOMAIN f \ {p}
           /\ \A q \in DOMAIN f : q # p => Without(f, p)[q] = f[q]
BY DEF Without

\* It keeps its type as well.
LEMMA WithoutIn ==
    ASSUME NEW S, NEW f, f \in [DOMAIN f -> S], NEW p
    PROVE  Without(f, p) \in [DOMAIN f \ {p} -> S]
BY DEF Without

\* The constraints that a version does not satisfy.
LEMMA AgainstOf ==
    ASSUME NEW b \in Entries, NEW v
    PROVE  /\ Against(v, b) \in Seq(Constraints)
           /\ ToSet(Against(v, b)) = {k \in ToSet(b.constraints) : v \notin k.allowed}
<1>1. b.constraints \in Seq(Constraints)
  BY DEF Entries
<1> DEFINE S == {k \in ToSet(b.constraints) : v \notin k.allowed}
<1>2. Those(b.constraints, S) \in Seq(Constraints) /\ ToSet(Those(b.constraints, S)) = ToSet(b.constraints) \cap S
  BY <1>1, ThoseOf
<1>3. ToSet(b.constraints) \cap S = S
  OBVIOUS
<1> QED
  BY <1>2, <1>3 DEF Against

\* Those who impose constraints, the user apart.
LEMMA DependentsOf ==
    ASSUME NEW ks \in Seq(Constraints)
    PROVE  Dependents(ks) \in Seq(Pkgs)
<1> DEFINE bys == [i \in DOMAIN ks |-> ks[i].by]
           T == Pkgs \cup {CmdLine}
<1>1. Len(ks) \in Nat /\ DOMAIN ks = 1..Len(ks) /\ ks \in [1..Len(ks) -> Constraints]
  BY LenProperties
<1>2. bys \in [1..Len(ks) -> T]
  BY <1>1 DEF Constraints
<1>3. bys \in Seq(T)
  BY <1>1, <1>2, SeqIs
<1> HIDE DEF bys
<1>4. Those(bys, Pkgs) \in Seq(T) /\ ToSet(Those(bys, Pkgs)) \subseteq Pkgs
  BY <1>3, ThoseOf
<1>5. Those(bys, Pkgs) \in Seq(Pkgs)
  BY <1>4, SeqOfSet
<1> QED
  BY <1>5 DEF Dependents, bys

\* The record of an unsatisfied dependent.
LEMMA UnsatisfiedOf ==
    ASSUME NEW p \in Pkgs \cup {CmdLine}, NEW d \in Pkgs, NEW ks \in Seq(Constraints)
    PROVE  Unsatisfied(p, d, ks) \in Unsatisfieds
BY DependentsOf DEF Unsatisfied, Unsatisfieds

\* The unsatisfied dependents are not forgotten.
LEMMA NotedOf ==
    ASSUME NEW unsat \in Seq(Unsatisfieds), NEW us \in Seq(Unsatisfieds)
    PROVE  /\ Noted(unsat, us) \in Seq(Unsatisfieds)
           /\ unsat # <<>> => Noted(unsat, us) # <<>>
<1> DEFINE S == {u \in ToSet(us) : \A w \in ToSet(unsat) : w.by # u.by \/ w.dep # u.dep}
           noted == Noted(unsat, us)
<1>1. Those(us, S) \in Seq(Unsatisfieds)
  BY ThoseOf
<1>2. noted = unsat \o Those(us, S)
  BY DEF Noted
<1> HIDE DEF S, noted
<1>3. noted \in Seq(Unsatisfieds) /\ ToSet(noted) = ToSet(unsat) \cup ToSet(Those(us, S))
  BY <1>1, <1>2, ConcatSet
<1>4. unsat # <<>> => ToSet(unsat) # {}
  BY SetOf
<1>5. ToSet(noted) # {} => noted # <<>>
  BY <1>3, SetOf
<1> QED
  BY <1>3, <1>4, <1>5 DEF noted

\* The empty sequence is one of anything.
LEMMA EmptySeqOf == \A T : <<>> \in Seq(T)
  BY EmptySeq

\* A sequence of one element or two.
LEMMA PairOf ==
    ASSUME NEW T, NEW x \in T
    PROVE  <<x>> \in Seq(T) /\ \A y \in T : <<x, y>> \in Seq(T)
OBVIOUS

---------------------------------------------------------------------------
(* Collecting a build or a drop.                                            *)
\* The map, and the replacements, of a collection.
Maps(w, sel, l, bm) ==
    /\ DOMAIN bm \subseteq Pkgs /\ bm \in [DOMAIN bm -> Entries]
    /\ \A p \in DOMAIN bm : Enterable(w, sel, l, p, bm[p])

Replacing(w, sel, l, rs) ==
    /\ DOMAIN rs \subseteq Pkgs /\ rs \in [DOMAIN rs -> Replacements]
    /\ \A p \in DOMAIN rs : Replaces(w, sel, l, p, rs[p])

\* A build stays one, of its version, and as it is to be held.
Stays(old, new) ==
    /\ new.action = "build" /\ new.version = old.version
    /\ old.hold => new.hold
    /\ old.holdVersion # 0 => new.holdVersion # 0

BuildsStay(bm, new) ==
    \A q \in DOMAIN bm : bm[q].action = "build" =>
        q \in DOMAIN new /\ Stays(bm[q], new[q])

\* A collection part by part.
LEMMA CollectsIff ==
    ASSUME NEW w, NEW sel, NEW l, NEW c
    PROVE  Collects(w, sel, l, c) <=>
             /\ IsCollection(c)
             /\ Maps(w, sel, l, c.bm) /\ Replacing(w, sel, l, c.replaced)
             /\ c.unsat \in Seq(Unsatisfieds) /\ c.scratch \in BOOLEAN
BY DEF Collects, Collection, Maps, Replacing, IsCollection

\* The map with an entry put in.
LEMMA MapsPut ==
    ASSUME NEW w, NEW sel, NEW l, NEW bm, Maps(w, sel, l, bm), NEW p \in Pkgs,
           NEW b \in Entries, Enterable(w, sel, l, p, b)
    PROVE  /\ Maps(w, sel, l, Put(bm, p, b))
           /\ p \in DOMAIN bm => [bm EXCEPT ![p] = b] = Put(bm, p, b)
           /\ p \notin DOMAIN bm \/ bm[p].action # "build" \/ Stays(bm[p], b)
              => BuildsStay(bm, Put(bm, p, b))
<1> DEFINE new == Put(bm, p, b)
<1>0. /\ DOMAIN new = DOMAIN bm \cup {p} /\ new[p] = b
      /\ \A q \in DOMAIN bm : q # p => new[q] = bm[q]
      /\ new \in [DOMAIN bm \cup {p} -> Entries]
  <2>1. bm \in [DOMAIN bm -> Entries]
    BY DEF Maps
  <2>2. new \in [DOMAIN bm \cup {p} -> Entries]
    BY <2>1, PutIn
  <2> QED
    BY <2>2 DEF Put
<1> HIDE DEF new
<1>1. Maps(w, sel, l, new)
  BY <1>0 DEF Maps
<1>2. p \in DOMAIN bm => [bm EXCEPT ![p] = b] = Put(bm, p, b)
  BY DEF Put, Maps
<1>3. ASSUME p \notin DOMAIN bm \/ bm[p].action # "build" \/ Stays(bm[p], b)
      PROVE  BuildsStay(bm, new)
  <2> SUFFICES ASSUME NEW q \in DOMAIN bm, bm[q].action = "build"
               PROVE  q \in DOMAIN new /\ Stays(bm[q], new[q])
    BY DEF BuildsStay
  <2>1. CASE q = p
    BY <1>0, <1>3, <2>1
  <2>2. CASE q # p
    BY <1>0, <2>2 DEF Stays
  <2> QED
    BY <2>1, <2>2
<1> QED
  BY <1>1, <1>2, <1>3 DEF new

\* The replacements with one put in, taken back or applied.
LEMMA ReplacingPut ==
    ASSUME NEW w, NEW sel, NEW l, NEW rs, Replacing(w, sel, l, rs), NEW p \in Pkgs
    PROVE  /\ \A r \in Replacements : Replaces(w, sel, l, p, r) =>
                 Replacing(w, sel, l, Put(rs, p, r))
           /\ Replacing(w, sel, l, Without(rs, p))
           /\ p \in DOMAIN rs => Replacing(w, sel, l, [rs EXCEPT ![p].replaced = TRUE])
<1>1. ASSUME NEW r \in Replacements, Replaces(w, sel, l, p, r)
      PROVE  Replacing(w, sel, l, Put(rs, p, r))
  <2> DEFINE new == Put(rs, p, r)
  <2>1. /\ DOMAIN new = DOMAIN rs \cup {p} /\ new[p] = r
        /\ \A q \in DOMAIN rs : q # p => new[q] = rs[q]
        /\ new \in [DOMAIN rs \cup {p} -> Replacements]
    <3>1. rs \in [DOMAIN rs -> Replacements]
      BY DEF Replacing
    <3>2. new \in [DOMAIN rs \cup {p} -> Replacements]
      BY <1>1, <3>1, PutIn
    <3> QED
      BY <3>2 DEF Put
  <2> HIDE DEF new
  <2>2. Replacing(w, sel, l, new)
    BY <1>1, <2>1 DEF Replacing
  <2> QED
    BY <2>2 DEF new
<1>2. Replacing(w, sel, l, Without(rs, p))
  <2> DEFINE new == Without(rs, p)
  <2>1. /\ DOMAIN new = DOMAIN rs \ {p}
        /\ \A q \in DOMAIN rs : q # p => new[q] = rs[q]
        /\ new \in [DOMAIN rs \ {p} -> Replacements]
    <3>1. rs \in [DOMAIN rs -> Replacements]
      BY DEF Replacing
    <3>2. new \in [DOMAIN rs \ {p} -> Replacements]
      BY <3>1, WithoutIn
    <3> QED
      BY <3>2, WithoutOf
  <2> HIDE DEF new
  <2>2. Replacing(w, sel, l, new)
    BY <2>1 DEF Replacing
  <2> QED
    BY <2>2 DEF new
<1>3. ASSUME p \in DOMAIN rs
      PROVE  Replacing(w, sel, l, [rs EXCEPT ![p].replaced = TRUE])
  <2>1. rs[p] \in Replacements
    BY <1>3 DEF Replacing
  <2>2. [rs[p] EXCEPT !.replaced = TRUE] \in Replacements
        /\ [rs[p] EXCEPT !.replaced = TRUE].version = rs[p].version
    BY <2>1 DEF Replacements
  <2>3. [rs EXCEPT ![p].replaced = TRUE] = [rs EXCEPT ![p] = [rs[p] EXCEPT !.replaced = TRUE]]
    BY <1>3
  <2> QED
    BY <1>3, <2>2, <2>3 DEF Replacing, Replaces
<1> QED
  BY <1>1, <1>2, <1>3

\* The entry of a drop.
LEMMA DropPackageOf ==
    /\ DropPackage \in Entries
    /\ DropPackage.action = "drop" /\ DropPackage.hold = FALSE /\ DropPackage.holdVersion = 0
BY EmptySeqOf DEF DropPackage, BuildPackage, Entries

\* collect_drop(): of a package that may be dropped.
LEMMA CollectDropOf ==
    ASSUME NEW w, NEW sel, NEW l, NEW c, Collects(w, sel, l, c),
           NEW p \in Pkgs, Droppable(sel, l, p)
    PROVE  /\ Collects(w, sel, l, CollectDrop(c, p))
           /\ CollectDrop(c, p).scratch \/ BuildsStay(c.bm, CollectDrop(c, p).bm)
<1> DEFINE rep == IF ~Waits(c, p) THEN c.replaced
                  ELSE IF c.replaced[p].version # 0 THEN Without(c.replaced, p)
                  ELSE [c.replaced EXCEPT ![p].replaced = TRUE]
           d == [c EXCEPT !.replaced = rep]
           x == CollectDrop(c, p)
<1> SUFFICES Collects(w, sel, l, x) /\ (x.scratch \/ BuildsStay(c.bm, x.bm))
  OBVIOUS
<1>1. /\ IsCollection(c)
      /\ Maps(w, sel, l, c.bm) /\ Replacing(w, sel, l, c.replaced)
      /\ c.unsat \in Seq(Unsatisfieds) /\ c.scratch \in BOOLEAN
  BY CollectsIff
<1>2. Replacing(w, sel, l, rep)
  BY <1>1, ReplacingPut DEF Waits
<1> DEFINE rep2 == Put(rep, p, Replacement(0, 0))
<1>3. Replacing(w, sel, l, rep2)
  <2>1. Replacement(0, 0) \in Replacements /\ Replaces(w, sel, l, p, Replacement(0, 0))
    BY DEF Replacement, Replacements, Replaces
  <2> HIDE DEF rep
  <2> QED
    BY <1>2, <2>1, ReplacingPut
<1>4. Enterable(w, sel, l, p, DropPackage)
  BY DropPackageOf DEF Enterable
<1> DEFINE put == Put(c.bm, p, DropPackage)
<1>5. /\ Maps(w, sel, l, put)
      /\ p \in DOMAIN c.bm => [c.bm EXCEPT ![p] = DropPackage] = put
      /\ p \notin DOMAIN c.bm \/ c.bm[p].action # "build" => BuildsStay(c.bm, put)
  <2> HIDE DEF put
  <2>1. /\ Maps(w, sel, l, Put(c.bm, p, DropPackage))
        /\ p \in DOMAIN c.bm => [c.bm EXCEPT ![p] = DropPackage] = Put(c.bm, p, DropPackage)
        /\ p \notin DOMAIN c.bm \/ c.bm[p].action # "build" \/ Stays(c.bm[p], DropPackage)
           => BuildsStay(c.bm, Put(c.bm, p, DropPackage))
    BY <1>1, <1>4, DropPackageOf, MapsPut
  <2> QED
    BY <2>1 DEF put
<1>6. x = IF ~Has(c, p) THEN [d EXCEPT !.bm = put]
          ELSE IF c.bm[p].byDependents THEN d
          ELSE IF c.bm[p].action = "build"
               THEN [d EXCEPT !.replaced = rep2, !.scratch = TRUE]
          ELSE [d EXCEPT !.bm[p] = DropPackage]
  BY DEF CollectDrop
<1> HIDE DEF rep, rep2, put, x
<1>7. /\ IsCollection(d) /\ d.bm = c.bm /\ d.replaced = rep /\ d.unsat = c.unsat
      /\ d.scratch = c.scratch
  BY <1>1 DEF IsCollection
<1>8. BuildsStay(c.bm, c.bm)
  BY DEF BuildsStay, Stays
<1> HIDE DEF d
<1>9. CASE ~Has(c, p)
  <2>1. /\ IsCollection(x) /\ x.bm = put /\ x.replaced = rep /\ x.unsat = c.unsat
        /\ x.scratch = c.scratch
    BY <1>6, <1>7, <1>9 DEF IsCollection
  <2>2. Collects(w, sel, l, x)
    BY <1>1, <1>2, <1>5, <2>1, CollectsIff
  <2>3. BuildsStay(c.bm, x.bm)
    BY <1>5, <1>9, <2>1 DEF Has
  <2> QED
    BY <2>2, <2>3
<1>10. CASE Has(c, p) /\ c.bm[p].byDependents
  BY <1>1, <1>2, <1>6, <1>7, <1>8, <1>10, CollectsIff
<1>11. CASE Has(c, p) /\ ~c.bm[p].byDependents /\ c.bm[p].action = "build"
  <2>1. /\ IsCollection(x) /\ x.bm = c.bm /\ x.replaced = rep2 /\ x.unsat = c.unsat
        /\ x.scratch = TRUE
    BY <1>6, <1>7, <1>11 DEF IsCollection
  <2> QED
    BY <1>1, <1>3, <2>1, CollectsIff
<1>12. CASE Has(c, p) /\ ~c.bm[p].byDependents /\ c.bm[p].action # "build"
  <2>1. /\ IsCollection(x) /\ x.bm = put /\ x.replaced = rep /\ x.unsat = c.unsat
        /\ x.scratch = c.scratch
    <3>1. x = [d EXCEPT !.bm = [d.bm EXCEPT ![p] = DropPackage]]
      BY <1>6, <1>7, <1>12 DEF IsCollection
    <3>2. x = [d EXCEPT !.bm = put]
      BY <1>5, <1>7, <1>12, <3>1 DEF Has
    <3> QED
      BY <1>7, <3>2 DEF IsCollection
  <2> QED
    BY <1>1, <1>2, <1>5, <1>12, <2>1, CollectsIff
<1> QED
  BY <1>9, <1>10, <1>11, <1>12

\* What two builds of a package that refuse each other's versions leave unsatisfied.
LEMMA IgnoredOf ==
    ASSUME NEW p \in Pkgs, NEW prefers \in BOOLEAN,
           NEW ks \in Seq(Constraints), NEW j \in Constraints
    PROVE  [i \in DOMAIN ks |->
               Unsatisfied(ks[i].by, p, IF prefers THEN <<j, ks[i]>> ELSE <<ks[i], j>>)]
           \in Seq(Unsatisfieds)
<1>1. Len(ks) \in Nat /\ DOMAIN ks = 1..Len(ks) /\ ks \in [1..Len(ks) -> Constraints]
  BY LenProperties
<1> DEFINE u(i) == Unsatisfied(ks[i].by, p, IF prefers THEN <<j, ks[i]>> ELSE <<ks[i], j>>)
<1>2. ASSUME NEW i \in 1..Len(ks)
      PROVE  u(i) \in Unsatisfieds
  <2>1. ks[i] \in Constraints /\ ks[i].by \in Pkgs \cup {CmdLine}
    BY <1>1 DEF Constraints
  <2>2. (IF prefers THEN <<j, ks[i]>> ELSE <<ks[i], j>>) \in Seq(Constraints)
    BY <2>1, PairOf
  <2> QED
    BY <2>1, <2>2, UnsatisfiedOf
<1> HIDE DEF u
<1>3. [i \in DOMAIN ks |-> u(i)] \in [1..Len(ks) -> Unsatisfieds]
  BY <1>1, <1>2
<1>4. [i \in DOMAIN ks |-> u(i)] \in Seq(Unsatisfieds)
  BY <1>1, <1>3, SeqIs
<1> QED
  BY <1>4 DEF u

\* The constraint of the command line.
LEMMA ImposedOf ==
    ASSUME NEW h, h.allowed \subseteq Versions, NEW v \in Versions
    PROVE  /\ Imposed(h) \in Seq(Constraints)
           /\ (\A k \in ToSet(Imposed(h)) : v \in k.allowed) => v \in h.allowed
           /\ \A k \in ToSet(Imposed(h)) : k.by = CmdLine
<1> DEFINE k == [by |-> CmdLine, allowed |-> h.allowed]
<1>1. k \in Constraints
  BY DEF Constraints
<1> HIDE DEF k
<1>2. <<k>> \in Seq(Constraints) /\ ToSet(<<k>>) = {k}
  BY <1>1, PairOf DEF ToSet
<1>3. ToSet(<<>>) = {}
  BY DEF ToSet
<1>4. Imposed(h) = IF h.allowed = AnyVersion THEN <<>> ELSE <<k>>
  BY DEF Imposed, k
<1>5. k.by = CmdLine /\ k.allowed = h.allowed
  BY DEF k
<1> QED
  BY <1>2, <1>3, <1>4, <1>5, EmptySeqOf DEF AnyVersion

\* A build that is to be entered, and held as the user has asked for it.
Entering(w, sel, l, p, b) ==
    b \in Entries /\ b.action = "build" /\ Enterable(w, sel, l, p, b)

EnteredAsAsked(l, p, b) ==
    /\ p \in DOMAIN l.hold /\ l.hold[p].allowed \subseteq Versions
    /\ b.hold /\ b.holdVersion = Wanted(l, p) /\ Wanted(l, p) # 0
    /\ b.constraints = Imposed(l.hold[p]) /\ b.version \in l.hold[p].allowed

\* Two entries that the map may have make one.
LEMMA MergedEnterable ==
    ASSUME NEW w, NEW sel, NEW l, NEW p \in Pkgs,
           NEW b \in Entries, Enterable(w, sel, l, p, b),
           NEW q \in Entries, Enterable(w, sel, l, p, q)
    PROVE  /\ Merge(b, q) \in Entries /\ Enterable(w, sel, l, p, Merge(b, q))
           /\ b.action = "build" => Stays(b, Merge(b, q))
           /\ b.action = "build" /\ q.version = b.version => Stays(q, Merge(b, q))
           /\ b.hold \/ q.hold => Merge(b, q).hold
           /\ b.holdVersion = Wanted(l, p) \/ q.holdVersion = Wanted(l, p)
              => Merge(b, q).holdVersion = Wanted(l, p)
<1>1. /\ Merge(b, q) \in Entries
      /\ Merge(b, q).action = b.action /\ Merge(b, q).version = b.version
      /\ Merge(b, q).hold = (b.hold \/ q.hold)
      /\ Merge(b, q).holdVersion =
            IF q.holdVersion > b.holdVersion THEN q.holdVersion ELSE b.holdVersion
  BY MergeOf
<1>2. b.holdVersion \in 0..2 /\ q.holdVersion \in 0..2 /\ b.hold \in BOOLEAN /\ q.hold \in BOOLEAN
  BY DEF Entries
<1>3. Wanted(l, p) \in 0..2
  BY DEF Wanted
<1>4. b.holdVersion \in {0, Wanted(l, p)} /\ q.holdVersion \in {0, Wanted(l, p)}
  BY DEF Enterable
<1>5. Merge(b, q).holdVersion \in {0, Wanted(l, p)}
      /\ (b.holdVersion # 0 \/ q.holdVersion # 0 => Merge(b, q).holdVersion # 0)
      /\ (b.holdVersion = Wanted(l, p) \/ q.holdVersion = Wanted(l, p)
          => Merge(b, q).holdVersion = Wanted(l, p))
  BY <1>1, <1>2, <1>3, <1>4
<1>6. Enterable(w, sel, l, p, Merge(b, q))
  BY <1>1, <1>2, <1>5 DEF Enterable
<1> QED
  BY <1>1, <1>2, <1>5, <1>6 DEF Stays

\* collect_build(): of an entry the map may have, which stays as it is asked for.
LEMMA CollectBuildOf ==
    ASSUME NEW w \in Worlds, NEW sel, NEW l, NEW c, Collects(w, sel, l, c), NEW p \in Pkgs,
           NEW b0, Entering(w, sel, l, p, b0)
    PROVE  /\ Collects(w, sel, l, CollectBuild(c, p, b0))
           /\ CollectBuild(c, p, b0).scratch
              \/ /\ BuildsStay(c.bm, CollectBuild(c, p, b0).bm)
                 /\ EnteredAsAsked(l, p, b0) => AsAsked(l, CollectBuild(c, p, b0), p)
<1> DEFINE applied == ApplyReplacement(c, p, b0)
           rep == IF applied THEN [c.replaced EXCEPT ![p].replaced = TRUE] ELSE c.replaced
           b == IF applied THEN [b0 EXCEPT !.version = c.replaced[p].version] ELSE b0
           old == c.bm[p]
           newRefuses == Against(old.version, b)
           oldRefuses == Against(b.version, old)
           differ == b.version # old.version
           both == differ /\ newRefuses # <<>> /\ oldRefuses # <<>>
           users == \E k \in ToSet(newRefuses) : k.by = CmdLine
           dependents == Those(newRefuses, {k \in ToSet(newRefuses) : k.by # CmdLine})
           newWins == IF both THEN users
                      ELSE IF ~differ \/ newRefuses = oldRefuses
                      THEN PreferNew(c, p, old, b)
                      ELSE newRefuses # <<>>
           pair(k, j) == IF PreferNew(c, p, old, b) THEN <<k, j>> ELSE <<j, k>>
           ignored == IF ~both THEN <<>>
                      ELSE IF users
                      THEN [i \in DOMAIN oldRefuses |->
                               Unsatisfied(oldRefuses[i].by, p,
                                           pair(newRefuses[1], oldRefuses[i]))]
                      ELSE [i \in DOMAIN dependents |->
                               Unsatisfied(dependents[i].by, p,
                                           pair(dependents[i], oldRefuses[1]))]
           d == [c EXCEPT !.replaced = rep, !.taken = TRUE]
           e == [d EXCEPT !.unsat = Noted(@, ignored)]
           x == CollectBuild(c, p, b0)
           Asked == EnteredAsAsked(l, p, b0)
<1> SUFFICES /\ Collects(w, sel, l, x)
             /\ x.scratch \/ (BuildsStay(c.bm, x.bm) /\ (Asked => AsAsked(l, x, p)))
  OBVIOUS
<1>1. /\ IsCollection(c)
      /\ Maps(w, sel, l, c.bm) /\ Replacing(w, sel, l, c.replaced)
      /\ c.unsat \in Seq(Unsatisfieds) /\ c.scratch \in BOOLEAN
  BY CollectsIff
<1>2. w.available[p] \subseteq Versions /\ Versions \subseteq Nat \ {0} /\ CmdLine \notin Pkgs
  BY WorldsAssumption, VersionsAssumption, NamesAssumption
<1> DEFINE dropping == Waits(c, p) /\ c.replaced[p].version = 0 /\ ~b0.byDependents
           c1 == [c EXCEPT !.replaced[p].replaced = TRUE]
<1>3. x = IF dropping THEN CollectDrop(c1, p)
          ELSE IF ~Has(c, p) \/ old.action = "drop" THEN [d EXCEPT !.bm = Put(c.bm, p, b)]
          ELSE IF old.action # "build" THEN [d EXCEPT !.bm[p] = Merge(b, old)]
          ELSE IF ~newWins THEN [e EXCEPT !.bm[p] = Merge(old, b), !.taken = FALSE]
          ELSE IF ~differ THEN [e EXCEPT !.bm[p] = Merge(b, old)]
          ELSE [e EXCEPT !.scratch = TRUE,
                         !.replaced = Put(rep, p, Replacement(b.version, old.version))]
  BY Zenon DEF CollectBuild
<1>4. ASSUME p \in DOMAIN c.replaced
      PROVE  /\ c.replaced[p] \in Replacements
             /\ Replacing(w, sel, l, [c.replaced EXCEPT ![p].replaced = TRUE])
             /\ Replaces(w, sel, l, p, c.replaced[p])
  BY <1>1, <1>4, ReplacingPut DEF Replacing
<1>5. Replacing(w, sel, l, rep)
  BY <1>1, <1>4 DEF ApplyReplacement, Waits
<1>6. /\ b \in Entries /\ b.action = "build" /\ Enterable(w, sel, l, p, b)
      /\ b.version \in w.available[p] /\ b.constraints = b0.constraints
      /\ b.hold = b0.hold /\ b.holdVersion = b0.holdVersion
  <2>1. CASE ~applied
    BY <2>1 DEF Entering, Enterable, Buildable
  <2>2. CASE applied
    <3>1. c.replaced[p].version \in w.available[p] /\ c.replaced[p].version \in Versions
      BY <1>2, <1>4, <2>2 DEF ApplyReplacement, Waits, Replaces
    <3>2. b = [b0 EXCEPT !.version = c.replaced[p].version]
      BY <2>2
    <3> HIDE DEF b, applied
    <3>3. /\ b \in Entries /\ b.action = "build" /\ b.version = c.replaced[p].version
          /\ b.hold = b0.hold /\ b.holdVersion = b0.holdVersion /\ b.constraints = b0.constraints
      BY <3>1, <3>2 DEF Entering, Entries
    <3> QED
      BY <3>1, <3>3 DEF Entering, Enterable, Buildable
  <2> QED
    BY <2>1, <2>2
<1>7. ASSUME Asked
      PROVE  b.version \in l.hold[p].allowed
  <2>1. CASE ~applied
    BY <1>7, <2>1 DEF EnteredAsAsked
  <2>2. CASE applied
    <3>1. \A k \in ToSet(Imposed(l.hold[p])) : b.version \in k.allowed
      <4>1. Satisfies(c.replaced[p].version, b0.constraints)
        BY <2>2 DEF ApplyReplacement
      <4>2. b.version = c.replaced[p].version
        BY <2>2 DEF Entering, Entries
      <4> HIDE DEF b
      <4> QED
        BY <1>7, <4>1, <4>2 DEF Satisfies, EnteredAsAsked
    <3> HIDE DEF b
    <3> QED
      BY <1>2, <1>6, <1>7, <3>1, ImposedOf DEF EnteredAsAsked
  <2> QED
    BY <2>1, <2>2
<1> HIDE DEF applied, rep, b
<1>8. CASE dropping
  <2>1. Droppable(sel, l, p)
    BY <1>4, <1>8 DEF Waits, Replaces
  <2>2. Collects(w, sel, l, c1) /\ c1.bm = c.bm
    <3> DEFINE rs == [c.replaced EXCEPT ![p].replaced = TRUE]
    <3>1. c1 = [c EXCEPT !.replaced = rs]
      BY <1>1 DEF IsCollection
    <3>2. Replacing(w, sel, l, rs)
      BY <1>4, <1>8 DEF Waits
    <3> HIDE DEF rs, c1
    <3>3. /\ IsCollection(c1) /\ c1.bm = c.bm /\ c1.replaced = rs /\ c1.unsat = c.unsat
          /\ c1.scratch = c.scratch
      BY <1>1, <3>1 DEF IsCollection
    <3> QED
      BY <1>1, <3>2, <3>3, CollectsIff
  <2>3. ~Asked
    BY <2>1 DEF EnteredAsAsked, Droppable
  <2> HIDE DEF c1, x
  <2>4. x = CollectDrop(c1, p)
    BY <1>3, <1>8
  <2> QED
    BY <2>1, <2>2, <2>3, <2>4, CollectDropOf
<1>9. /\ IsCollection(d) /\ d.bm = c.bm /\ d.replaced = rep /\ d.unsat = c.unsat
      /\ d.scratch = c.scratch
  <2>1. d = [c EXCEPT !.replaced = rep, !.taken = TRUE]
    OBVIOUS
  <2> HIDE DEF d
  <2> QED
    BY <1>1, <2>1 DEF IsCollection
<1> HIDE DEF dropping, c1, x, d, old
<1>10. \A q : Entering(w, sel, l, p, q) /\ Asked /\ q.hold /\ q.holdVersion = Wanted(l, p)
             /\ q.version \in l.hold[p].allowed /\ x.bm = Put(c.bm, p, q)
             => AsAsked(l, x, p)
  BY DEF Put, Entering, EnteredAsAsked, AsAsked
<1>11. ASSUME ~dropping, ~Has(c, p) \/ old.action = "drop"
       PROVE  /\ Collects(w, sel, l, x)
              /\ BuildsStay(c.bm, x.bm) /\ (Asked => AsAsked(l, x, p))
  <2>1. x = [d EXCEPT !.bm = Put(c.bm, p, b)]
    BY <1>3, <1>11
  <2>2. /\ IsCollection(x) /\ x.bm = Put(c.bm, p, b) /\ x.replaced = rep
        /\ x.unsat = c.unsat /\ x.scratch = c.scratch
    BY <1>9, <2>1 DEF IsCollection
  <2>3. Maps(w, sel, l, Put(c.bm, p, b)) /\ BuildsStay(c.bm, Put(c.bm, p, b))
    BY <1>1, <1>6, <1>11, MapsPut DEF old, Has
  <2>4. Collects(w, sel, l, x)
    BY <1>1, <1>5, <2>2, <2>3, CollectsIff
  <2>5. Asked => AsAsked(l, x, p)
    BY <1>6, <1>7, <1>10, <2>2 DEF Entering, EnteredAsAsked
  <2> QED
    BY <2>2, <2>3, <2>4, <2>5
<1>12. ASSUME Has(c, p)
       PROVE  old \in Entries /\ Enterable(w, sel, l, p, old)
  BY <1>1, <1>12 DEF Has, Maps, old
<1>13. ASSUME Has(c, p), NEW q \in Entries, Enterable(w, sel, l, p, q)
       PROVE  /\ Maps(w, sel, l, [c.bm EXCEPT ![p] = q])
              /\ [c.bm EXCEPT ![p] = q] = Put(c.bm, p, q)
              /\ old.action # "build" \/ Stays(old, q) => BuildsStay(c.bm, Put(c.bm, p, q))
  BY <1>1, <1>13, MapsPut DEF Has, old
<1>14. ASSUME ~dropping, Has(c, p), old.action # "drop", old.action # "build"
       PROVE  /\ Collects(w, sel, l, x)
              /\ BuildsStay(c.bm, x.bm) /\ (Asked => AsAsked(l, x, p))
  <2> DEFINE m == Merge(b, old)
  <2>1. x = [d EXCEPT !.bm[p] = m]
    BY <1>3, <1>14
  <2>2. /\ m \in Entries /\ Enterable(w, sel, l, p, m) /\ Stays(b, m)
        /\ b.hold => m.hold
        /\ b.holdVersion = Wanted(l, p) => m.holdVersion = Wanted(l, p)
    BY <1>6, <1>12, <1>14, MergedEnterable
  <2> HIDE DEF m
  <2>3. /\ IsCollection(x) /\ x.bm = [c.bm EXCEPT ![p] = m] /\ x.replaced = rep
        /\ x.unsat = c.unsat /\ x.scratch = c.scratch
    BY <1>9, <2>1 DEF IsCollection
  <2>4. Collects(w, sel, l, x)
    BY <1>1, <1>5, <1>13, <1>14, <2>2, <2>3, CollectsIff
  <2>5. Asked => AsAsked(l, x, p)
    BY <1>6, <1>7, <1>10, <1>13, <1>14, <2>2, <2>3 DEF Entering, EnteredAsAsked, Stays
  <2> QED
    BY <1>13, <1>14, <2>2, <2>3, <2>4, <2>5
<1> HIDE DEF users, both, ignored, newWins, dependents
<1>15. ASSUME Has(c, p)
       PROVE  ignored \in Seq(Unsatisfieds)
  <2>1. newRefuses \in Seq(Constraints) /\ oldRefuses \in Seq(Constraints)
    BY <1>6, <1>12, <1>15, AgainstOf
  <2> DEFINE prefers == PreferNew(c, p, old, b)
  <2> HIDE DEF newRefuses, oldRefuses, prefers
  <2>2. dependents \in Seq(Constraints)
    BY <2>1, ThoseOf DEF dependents
  <2>3. newRefuses # <<>> => newRefuses[1] \in Constraints
    BY <2>1, TailSet
  <2>4. oldRefuses # <<>> => oldRefuses[1] \in Constraints
    BY <2>1, TailSet
  <2>5. CASE ~both
    BY <2>5, EmptySeqOf DEF ignored
  <2>6. CASE both /\ users
    <3>1. ignored = [i \in DOMAIN oldRefuses |->
                       Unsatisfied(oldRefuses[i].by, p,
                                   IF prefers THEN <<newRefuses[1], oldRefuses[i]>>
                                   ELSE <<oldRefuses[i], newRefuses[1]>>)]
      BY <2>6 DEF ignored, prefers
    <3>2. newRefuses[1] \in Constraints
      BY <2>3, <2>6 DEF both
    <3>3. CASE prefers
      BY <2>1, <3>1, <3>2, <3>3, IgnoredOf, TRUE \in BOOLEAN
    <3>4. CASE ~prefers
      BY <2>1, <3>1, <3>2, <3>4, IgnoredOf, FALSE \in BOOLEAN
    <3> QED
      BY <3>3, <3>4
  <2>7. CASE both /\ ~users
    <3>1. ignored = [i \in DOMAIN dependents |->
                       Unsatisfied(dependents[i].by, p,
                                   IF prefers THEN <<dependents[i], oldRefuses[1]>>
                                   ELSE <<oldRefuses[1], dependents[i]>>)]
      BY <2>7 DEF ignored, prefers
    <3>2. oldRefuses[1] \in Constraints
      BY <2>4, <2>7 DEF both
    <3>3. CASE prefers
      BY <2>2, <3>1, <3>2, <3>3, IgnoredOf, FALSE \in BOOLEAN
    <3>4. CASE ~prefers
      BY <2>2, <3>1, <3>2, <3>4, IgnoredOf, TRUE \in BOOLEAN
    <3> QED
      BY <3>3, <3>4
  <2> QED
    BY <2>5, <2>6, <2>7
<1>16. ASSUME Has(c, p)
       PROVE  Noted(c.unsat, ignored) \in Seq(Unsatisfieds)
  BY <1>1, <1>15, <1>16, NotedOf
<1>17. /\ IsCollection(e) /\ e.bm = c.bm /\ e.replaced = rep
       /\ e.unsat = Noted(c.unsat, ignored) /\ e.scratch = c.scratch
  BY <1>9 DEF IsCollection
<1> HIDE DEF e
<1>18. ASSUME ~dropping, Has(c, p), old.action = "build", ~newWins
       PROVE  /\ Collects(w, sel, l, x)
              /\ BuildsStay(c.bm, x.bm) /\ (Asked => AsAsked(l, x, p))
  <2> DEFINE m == Merge(old, b)
  <2>1. x = [e EXCEPT !.bm[p] = m, !.taken = FALSE]
    BY <1>3, <1>18
  <2>2. /\ m \in Entries /\ Enterable(w, sel, l, p, m) /\ Stays(old, m)
        /\ b.hold => m.hold
        /\ b.holdVersion = Wanted(l, p) => m.holdVersion = Wanted(l, p)
    <3>1. old \in Entries /\ Enterable(w, sel, l, p, old)
      BY <1>12, <1>18
    <3>2. b \in Entries /\ Enterable(w, sel, l, p, b)
      BY <1>6
    <3>3. /\ m \in Entries /\ Enterable(w, sel, l, p, m)
          /\ b.hold => m.hold
          /\ b.holdVersion = Wanted(l, p) => m.holdVersion = Wanted(l, p)
      BY <3>1, <3>2, MergedEnterable
    <3>4. Stays(old, m)
      BY <1>18, <3>1, <3>2, MergedEnterable
    <3> QED
      BY <3>3, <3>4
  <2> HIDE DEF m
  <2>3. /\ IsCollection(x) /\ x.bm = [c.bm EXCEPT ![p] = m] /\ x.replaced = rep
        /\ x.unsat = Noted(c.unsat, ignored) /\ x.scratch = c.scratch
    BY <1>17, <2>1 DEF IsCollection
  <2>4. Collects(w, sel, l, x)
    BY <1>1, <1>5, <1>13, <1>16, <1>18, <2>2, <2>3, CollectsIff
  <2>5. ASSUME Asked
        PROVE  old.version \in l.hold[p].allowed
    <3>1. /\ newRefuses \in Seq(Constraints)
          /\ ToSet(newRefuses) = {k \in ToSet(b.constraints) : old.version \notin k.allowed}
      BY <1>6, AgainstOf
    <3>2. old.version \in Versions
      BY <1>2, <1>12, <1>18 DEF Enterable, Buildable
    <3>3. /\ (\A k \in ToSet(b.constraints) : old.version \in k.allowed)
             => old.version \in l.hold[p].allowed
          /\ \A k \in ToSet(b.constraints) : k.by = CmdLine
      BY <1>6, <2>5, <3>2, ImposedOf DEF EnteredAsAsked
    <3> HIDE DEF newRefuses, oldRefuses
    <3>4. newRefuses = <<>> <=> ToSet(newRefuses) = {}
      BY <3>1, SetOf
    <3>5. CASE ~differ
      BY <1>7, <2>5, <3>5
    <3>6. CASE newRefuses = <<>>
      BY <3>1, <3>3, <3>4, <3>6
    <3>7. ASSUME differ, newRefuses # <<>>
          PROVE  FALSE
      <4>1. \E k \in ToSet(newRefuses) : k.by = CmdLine
        BY <3>1, <3>3, <3>4, <3>7
      <4> QED
        BY <1>18, <3>7, <4>1 DEF newWins, both, users
    <3> QED
      BY <3>5, <3>6, <3>7
  <2>6. Asked => AsAsked(l, x, p)
    <3>1. m.version = old.version /\ m.action = "build"
      BY <2>2 DEF Stays
    <3> QED
      BY <1>6, <1>10, <1>13, <1>18, <2>2, <2>3, <2>5, <3>1 DEF Entering, EnteredAsAsked
  <2> QED
    BY <1>13, <1>18, <2>2, <2>3, <2>4, <2>6
<1>19. ASSUME ~dropping, Has(c, p), old.action = "build", newWins, ~differ
       PROVE  /\ Collects(w, sel, l, x)
              /\ BuildsStay(c.bm, x.bm) /\ (Asked => AsAsked(l, x, p))
  <2> DEFINE m == Merge(b, old)
  <2>1. x = [e EXCEPT !.bm[p] = m]
    BY <1>3, <1>19
  <2>2. /\ m \in Entries /\ Enterable(w, sel, l, p, m) /\ Stays(b, m) /\ Stays(old, m)
        /\ b.hold => m.hold
        /\ b.holdVersion = Wanted(l, p) => m.holdVersion = Wanted(l, p)
    <3>1. b.version = old.version
      BY <1>19
    <3>2. old \in Entries /\ Enterable(w, sel, l, p, old)
      BY <1>12, <1>19
    <3> HIDE DEF differ
    <3>3. /\ m \in Entries /\ Enterable(w, sel, l, p, m) /\ Stays(b, m)
          /\ b.hold => m.hold
          /\ b.holdVersion = Wanted(l, p) => m.holdVersion = Wanted(l, p)
      BY <1>6, <3>2, MergedEnterable
    <3>4. Stays(old, m)
      BY <1>6, <3>1, <3>2, MergedEnterable
    <3> QED
      BY <3>3, <3>4
  <2> HIDE DEF m
  <2>3. /\ IsCollection(x) /\ x.bm = [c.bm EXCEPT ![p] = m] /\ x.replaced = rep
        /\ x.unsat = Noted(c.unsat, ignored) /\ x.scratch = c.scratch
    BY <1>17, <2>1 DEF IsCollection
  <2>4. Collects(w, sel, l, x)
    BY <1>1, <1>5, <1>13, <1>16, <1>19, <2>2, <2>3, CollectsIff
  <2>5. Asked => AsAsked(l, x, p)
    BY <1>6, <1>7, <1>10, <1>13, <1>19, <2>2, <2>3 DEF Entering, EnteredAsAsked, Stays
  <2> QED
    BY <1>13, <1>19, <2>2, <2>3, <2>4, <2>5
<1>20. ASSUME ~dropping, Has(c, p), old.action = "build", newWins, differ
       PROVE  Collects(w, sel, l, x) /\ x.scratch
  <2> DEFINE r == Replacement(b.version, old.version)
  <2>1. x = [e EXCEPT !.scratch = TRUE, !.replaced = Put(rep, p, r)]
    BY <1>3, <1>20
  <2>2. r \in Replacements /\ Replaces(w, sel, l, p, r)
    BY <1>2, <1>6, <1>12, <1>20 DEF Replacement, Replacements, Replaces, Entries
  <2> HIDE DEF r
  <2>3. Replacing(w, sel, l, Put(rep, p, r))
    BY <1>5, <2>2, ReplacingPut
  <2>4. /\ IsCollection(x) /\ x.bm = c.bm /\ x.replaced = Put(rep, p, r)
        /\ x.unsat = Noted(c.unsat, ignored) /\ x.scratch = TRUE
    BY <1>17, <2>1 DEF IsCollection
  <2> QED
    BY <1>1, <1>16, <1>20, <2>3, <2>4, CollectsIff
<1> QED
  BY <1>8, <1>11, <1>14, <1>18, <1>19, <1>20, Zenon

\* The entry of a build.
LEMMA BuildPackageOf ==
    ASSUME NEW act \in {"enter", "build", "adjust", "drop"}, NEW v \in Versions \cup {0}
    PROVE  /\ BuildPackage(act, v) \in Entries
           /\ BuildPackage(act, v).action = act /\ BuildPackage(act, v).version = v
           /\ ~BuildPackage(act, v).hold /\ BuildPackage(act, v).holdVersion = 0
           /\ BuildPackage(act, v).constraints = <<>>
BY EmptySeqOf DEF BuildPackage, Entries

\* A map that is left alone.
LEMMA StaysItself == \A bm : BuildsStay(bm, bm)
  BY DEF BuildsStay, Stays

\* And one that is changed twice.
LEMMA StaysOn ==
    ASSUME NEW a, NEW b, NEW c, BuildsStay(a, b), BuildsStay(b, c)
    PROVE  BuildsStay(a, c)
BY DEF BuildsStay, Stays

\* The dependents that are reconfigured.
LEMMA CollectDependentOf ==
    ASSUME NEW w, NEW sel, NEW l, NEW c, Collects(w, sel, l, c),
           NEW p \in Pkgs, NEW q \in Pkgs, sel[q].state = "configured",
           sel[q].prereqs[p] \subseteq Versions
    PROVE  /\ Collects(w, sel, l, CollectDependent(sel, c, p, q))
           /\ BuildsStay(c.bm, CollectDependent(sel, c, p, q).bm)
           /\ CollectDependent(sel, c, p, q).scratch = c.scratch
           /\ c.unsat # <<>> => CollectDependent(sel, c, p, q).unsat # <<>>
<1> DEFINE known == Has(c, q)
           collected == known /\ c.bm[q].collected
           constraint == [by |-> q, allowed |-> sel[q].prereqs[p]]
           refused == /\ c.bm[p].action = "build" /\ c.bm[p].version # sel[p].version
                      /\ ~collected /\ c.bm[p].version \notin constraint.allowed
           adjustment == [BuildPackage("adjust", 0) EXCEPT !.reconfigure = TRUE]
           adjusted == IF ~known THEN adjustment
                       ELSE IF c.bm[q].action = "build"
                       THEN [c.bm[q] EXCEPT !.reconfigure = TRUE]
                       ELSE Merge(adjustment, c.bm[q])
           unsat == IF refused THEN Noted(c.unsat, <<Unsatisfied(q, p, <<>>)>>) ELSE c.unsat
           put == Put(c.bm, q, adjusted)
           d == [c EXCEPT !.bm = put, !.unsat = unsat]
           x == CollectDependent(sel, c, p, q)
<1> SUFFICES /\ Collects(w, sel, l, x) /\ BuildsStay(c.bm, x.bm) /\ x.scratch = c.scratch
             /\ c.unsat # <<>> => x.unsat # <<>>
  OBVIOUS
<1>1. /\ IsCollection(c)
      /\ Maps(w, sel, l, c.bm) /\ Replacing(w, sel, l, c.replaced)
      /\ c.unsat \in Seq(Unsatisfieds) /\ c.scratch \in BOOLEAN
  BY CollectsIff
<1>2. constraint \in Constraints
  BY DEF Constraints
<1>3. adjustment \in Entries /\ adjustment.action = "adjust" /\ ~adjustment.hold
      /\ adjustment.holdVersion = 0
  <2>1. PICK b \in Entries : /\ b = BuildPackage("adjust", 0) /\ b.action = "adjust"
                             /\ ~b.hold /\ b.holdVersion = 0
    BY BuildPackageOf
  <2>2. adjustment = [b EXCEPT !.reconfigure = TRUE]
    BY <2>1
  <2> HIDE DEF adjustment
  <2> QED
    BY <2>1, <2>2 DEF Entries
<1>4. Enterable(w, sel, l, q, adjustment)
  BY <1>3 DEF Enterable
<1> HIDE DEF adjustment
<1>5. ASSUME known
      PROVE  c.bm[q] \in Entries /\ Enterable(w, sel, l, q, c.bm[q])
  BY <1>1, <1>5 DEF Has, Maps
<1>6. /\ adjusted \in Entries /\ Enterable(w, sel, l, q, adjusted)
      /\ ~known \/ c.bm[q].action # "build" \/ Stays(c.bm[q], adjusted)
  <2>1. CASE ~known
    BY <1>3, <1>4, <2>1
  <2>2. CASE known /\ c.bm[q].action = "build"
    <3>1. PICK b \in Entries : b = c.bm[q]
      BY <1>5, <2>2
    <3>2. adjusted = [b EXCEPT !.reconfigure = TRUE]
      BY <2>2, <3>1
    <3> HIDE DEF adjusted
    <3>3. /\ adjusted \in Entries /\ adjusted.action = b.action
          /\ adjusted.version = b.version /\ adjusted.hold = b.hold
          /\ adjusted.holdVersion = b.holdVersion
      BY <3>2 DEF Entries
    <3>4. Enterable(w, sel, l, q, b)
      BY <1>5, <2>2, <3>1
    <3>5. Enterable(w, sel, l, q, adjusted)
      BY <3>3, <3>4 DEF Enterable
    <3> QED
      BY <2>2, <3>1, <3>3, <3>5 DEF Stays
  <2>3. CASE known /\ c.bm[q].action # "build"
    BY <1>3, <1>4, <1>5, <2>3, MergedEnterable
  <2> QED
    BY <2>1, <2>2, <2>3
<1>7. Maps(w, sel, l, put) /\ BuildsStay(c.bm, put)
  BY <1>1, <1>6, MapsPut DEF Has
<1>8. unsat \in Seq(Unsatisfieds) /\ (c.unsat # <<>> => unsat # <<>>)
  <2>1. Unsatisfied(q, p, <<>>) \in Unsatisfieds
    BY UnsatisfiedOf, EmptySeqOf
  <2>2. <<Unsatisfied(q, p, <<>>)>> \in Seq(Unsatisfieds)
    BY <2>1, PairOf
  <2> QED
    BY <1>1, <2>2, NotedOf
<1>9. x = IF collected THEN d
          ELSE [d EXCEPT !.bm[p].constraints = Extended(@, <<constraint>>)]
  <2>1. d = [c EXCEPT !.bm = Put(@, q, adjusted),
                      !.unsat = IF refused THEN Noted(@, <<Unsatisfied(q, p, <<>>)>>) ELSE @]
    BY <1>1 DEF IsCollection
  <2> HIDE DEF d
  <2> QED
    BY <2>1, Zenon DEF CollectDependent, adjustment
<1> HIDE DEF put, unsat, adjusted, x, collected
<1>10. /\ IsCollection(d) /\ d.bm = put /\ d.replaced = c.replaced /\ d.unsat = unsat
       /\ d.scratch = c.scratch
  <2>1. d = [c EXCEPT !.bm = put, !.unsat = unsat]
    OBVIOUS
  <2> HIDE DEF d
  <2> QED
    BY <1>1, <2>1 DEF IsCollection
<1> HIDE DEF d
<1>11. Collects(w, sel, l, d)
  BY <1>1, <1>7, <1>8, <1>10, CollectsIff
<1>12. CASE collected \/ p \notin DOMAIN put
  <2>1. ASSUME NEW e, p \notin DOMAIN put
        PROVE  [d EXCEPT !.bm = [d.bm EXCEPT ![p] = e]] = d
    <3>1. [put EXCEPT ![p] = e] = put
      BY <1>7, <2>1 DEF Maps
    <3> QED
      BY <1>10, <3>1 DEF IsCollection
  <2>2. CASE collected
    BY <1>7, <1>8, <1>9, <1>10, <1>11, <2>2
  <2>3. CASE ~collected
    <3>1. x = [d EXCEPT !.bm = [d.bm EXCEPT ![p] =
                 [d.bm[p] EXCEPT !.constraints = Extended(d.bm[p].constraints, <<constraint>>)]]]
      BY <1>9, <1>10, <2>3 DEF IsCollection
    <3>2. x = d
      BY <1>12, <2>1, <2>3, <3>1
    <3> QED
      BY <1>7, <1>8, <1>10, <1>11, <3>2
  <2> QED
    BY <2>2, <2>3
<1>13. CASE ~collected /\ p \in DOMAIN put
  <2>1. PICK b \in Entries : b = put[p] /\ Enterable(w, sel, l, p, b)
    BY <1>7, <1>13 DEF Maps
  <2> DEFINE e == [b EXCEPT !.constraints = Extended(b.constraints, <<constraint>>)]
  <2>2. Extended(b.constraints, <<constraint>>) \in Seq(Constraints)
    BY <1>2, ExtendedOf, PairOf DEF Entries
  <2>3. /\ e \in Entries /\ e.action = b.action /\ e.version = b.version /\ e.hold = b.hold
        /\ e.holdVersion = b.holdVersion
    BY <2>2 DEF Entries
  <2>4. x = [d EXCEPT !.bm = [put EXCEPT ![p] = e]]
    <3>1. x = [d EXCEPT !.bm[p].constraints = Extended(d.bm[p].constraints, <<constraint>>)]
      BY <1>9, <1>13
    <3>2. d.bm[p] = b
      BY <1>10, <2>1
    <3> QED
      BY <1>10, <2>1, <3>1, <3>2 DEF IsCollection
  <2> HIDE DEF e
  <2>5. Enterable(w, sel, l, p, e)
    BY <2>1, <2>3 DEF Enterable
  <2>6. Stays(b, e) \/ b.action # "build"
    BY <2>3 DEF Stays
  <2>7. /\ Maps(w, sel, l, [put EXCEPT ![p] = e])
        /\ BuildsStay(put, [put EXCEPT ![p] = e])
    <3>1. [put EXCEPT ![p] = e] = Put(put, p, e)
      BY <1>7, <1>13, <2>3, <2>5, MapsPut
    <3>2. Maps(w, sel, l, Put(put, p, e)) /\ BuildsStay(put, Put(put, p, e))
      BY <1>7, <1>13, <2>1, <2>3, <2>5, <2>6, MapsPut
    <3> QED
      BY <3>1, <3>2
  <2>8. /\ IsCollection(x) /\ x.bm = [put EXCEPT ![p] = e] /\ x.replaced = d.replaced
        /\ x.unsat = d.unsat /\ x.scratch = d.scratch
    BY <1>10, <2>4 DEF IsCollection
  <2> QED
    BY <1>1, <1>7, <1>8, <1>10, <2>7, <2>8, CollectsIff, StaysOn
<1> QED
  BY <1>12, <1>13

---------------------------------------------------------------------------
(* What is collected, and the command line.                                 *)
\* What the command line has, on account of the request and the adjustments.
LEMMA LineHas ==
    ASSUME NEW w, NEW sel, NEW r \in Requests, r.kind = "build", NEW l, Requested(w, sel, r, l)
    PROVE  /\ DOMAIN l.hold \cap DOMAIN l.expect = {}
           /\ \A p \in DOMAIN l.hold : /\ p \in Pkgs /\ l.hold[p] \in HoldSpecs
                                       /\ Holdable(w, sel, p, l.hold[p])
           /\ \A p \in DOMAIN l.expect : p \in Pkgs /\ l.expect[p] \in DependencySpecs
           /\ \A p \in DOMAIN r.hold : /\ p \in DOMAIN l.hold
                                       /\ l.hold[p].allowed \subseteq r.hold[p].allowed
                                       /\ l.hold[p].pinned = r.hold[p].pinned
           /\ \A p \in DOMAIN r.expect : /\ p \in DOMAIN l.expect
                                         /\ l.expect[p].allowed \subseteq r.expect[p].allowed
<1>1. /\ DOMAIN r.hold \cup DOMAIN r.expect \subseteq Pkgs
      /\ DOMAIN r.hold \cap DOMAIN r.expect = {}
      /\ r.hold \in [DOMAIN r.hold -> HoldSpecs]
      /\ r.expect \in [DOMAIN r.expect -> DependencySpecs]
  BY RequestsAssumption
<1>2. /\ DOMAIN l.hold \cup DOMAIN l.expect \subseteq Pkgs
      /\ l.hold \in [DOMAIN l.hold -> HoldSpecs]
      /\ l.expect \in [DOMAIN l.expect -> DependencySpecs]
      /\ l.stack \in Seq(Adjustments)
  BY DEF Requested, Lines
<1>3. ASSUME NEW p \in Pkgs \ NamesOf(l.stack)
      PROVE  /\ p \notin DOMAIN l.hold \cap DOMAIN l.expect
             /\ p \in DOMAIN l.hold => Holdable(w, sel, p, l.hold[p])
             /\ p \in DOMAIN r.hold => p \in DOMAIN l.hold /\ l.hold[p] = r.hold[p]
             /\ p \in DOMAIN r.expect => p \in DOMAIN l.expect /\ l.expect[p] = r.expect[p]
  <2>1. AsRequested(r, l, p)
    BY <1>3 DEF Requested
  <2> QED
    BY <1>1, <2>1 DEF AsRequested, Requested
<1>4. ASSUME NEW a \in ToSet(l.stack)
      PROVE  LET p == a.name
             IN  /\ p \notin DOMAIN l.hold \cap DOMAIN l.expect
                 /\ p \in DOMAIN l.hold => Holdable(w, sel, p, l.hold[p])
                 /\ p \in DOMAIN r.hold => /\ p \in DOMAIN l.hold
                                           /\ l.hold[p].allowed \subseteq r.hold[p].allowed
                                           /\ l.hold[p].pinned = r.hold[p].pinned
                 /\ p \in DOMAIN r.expect => /\ p \in DOMAIN l.expect
                                             /\ l.expect[p].allowed \subseteq r.expect[p].allowed
  <2>1. a \in Adjustments /\ Adjustable(w, sel, r, a) /\ InForce(r, l, a)
    BY <1>2, <1>4, SetOf DEF Requested
  <2> DEFINE p == a.name
  <2>2. CASE a.type = "hold_existing"
    <3>1. /\ p \in DOMAIN r.hold /\ a.version \in r.hold[p].allowed
          /\ a.version \in w.available[p] /\ sel[p].state # "broken"
      BY <2>1, <2>2 DEF Adjustable
    <3>2. /\ p \in DOMAIN l.hold \ DOMAIN l.expect
          /\ l.hold[p] = [r.hold[p] EXCEPT !.version = a.version, !.allowed = {a.version}]
      BY <2>1, <2>2 DEF InForce
    <3>3. r.hold[p] \in HoldSpecs
      BY <1>1, <3>1
    <3>4. l.hold[p].version = a.version /\ l.hold[p].allowed = {a.version}
          /\ l.hold[p].pinned = r.hold[p].pinned
      <4>1. PICK h \in HoldSpecs : h = r.hold[p]
        BY <3>3
      <4> DEFINE v == a.version
                 x == l.hold[p]
      <4>2. x = [h EXCEPT !.version = v, !.allowed = {v}]
        BY <3>2, <4>1
      <4> HIDE DEF v, x
      <4>3. x.version = v /\ x.allowed = {v} /\ x.pinned = h.pinned
        BY <4>2 DEF HoldSpecs
      <4> QED
        BY <4>1, <4>3 DEF v, x
    <3> QED
      BY <1>1, <3>1, <3>2, <3>4 DEF Holdable
  <2>3. CASE a.type = "hold_new"
    <3>1. /\ p \notin DOMAIN r.hold \cup DOMAIN r.expect
          /\ a.version \in w.available[p] /\ sel[p].state # "broken"
      BY <2>1, <2>3 DEF Adjustable
    <3>2. /\ p \in DOMAIN l.hold \ DOMAIN l.expect
          /\ l.hold[p] = HoldSpec(a.version, {a.version})
      BY <2>1, <2>3 DEF InForce
    <3>3. l.hold[p].version = a.version /\ l.hold[p].allowed = {a.version}
      BY <3>2 DEF HoldSpec
    <3>4. Holdable(w, sel, p, l.hold[p])
      BY <3>1, <3>3 DEF Holdable
    <3> QED
      BY <3>1, <3>2, <3>4
  <2>4. CASE a.type = "dep_existing"
    <3>1. p \in DOMAIN r.expect /\ a.version \in r.expect[p].allowed
      BY <2>1, <2>4 DEF Adjustable
    <3>2. /\ p \in DOMAIN l.expect \ DOMAIN l.hold
          /\ l.expect[p] = [r.expect[p] EXCEPT !.allowed = {a.version}]
      BY <2>1, <2>4 DEF InForce
    <3>3. r.expect[p] \in DependencySpecs
      BY <1>1, <3>1
    <3>4. l.expect[p].allowed = {a.version}
      BY <3>2, <3>3 DEF DependencySpecs
    <3> QED
      BY <1>1, <3>1, <3>2, <3>4
  <2>5. CASE a.type = "dep_new"
    <3>1. p \notin DOMAIN r.hold \cup DOMAIN r.expect
      BY <2>1, <2>5 DEF Adjustable
    <3>2. p \in DOMAIN l.expect \ DOMAIN l.hold
      BY <2>1, <2>5 DEF InForce
    <3> QED
      BY <3>1, <3>2
  <2> QED
    BY <2>1, <2>2, <2>3, <2>4, <2>5 DEF Adjustments
<1>5. \A p \in NamesOf(l.stack) : \E a \in ToSet(l.stack) : a.name = p
  BY DEF NamesOf
<1>6. ASSUME NEW p \in Pkgs
      PROVE  /\ p \notin DOMAIN l.hold \cap DOMAIN l.expect
             /\ p \in DOMAIN l.hold => Holdable(w, sel, p, l.hold[p])
             /\ p \in DOMAIN r.hold => /\ p \in DOMAIN l.hold
                                       /\ l.hold[p].allowed \subseteq r.hold[p].allowed
                                       /\ l.hold[p].pinned = r.hold[p].pinned
             /\ p \in DOMAIN r.expect => /\ p \in DOMAIN l.expect
                                         /\ l.expect[p].allowed \subseteq r.expect[p].allowed
  <2>1. CASE p \in NamesOf(l.stack)
    BY <1>4, <1>5, <2>1
  <2>2. CASE p \notin NamesOf(l.stack)
    BY <1>3, <2>2
  <2> QED
    BY <2>1, <2>2
<1> QED
  BY <1>1, <1>2, <1>6

\* What is entered beforehand.
LEMMA EnteredOf ==
    ASSUME NEW w, NEW sel, NEW l, Lines(l), DOMAIN l.hold \cap DOMAIN l.expect = {}
    PROVE  Maps(w, sel, l, Entered(l))
<1> DEFINE e(p) == [BuildPackage("enter", 0) EXCEPT
                      !.user = TRUE, !.holdVersion = IF l.expect[p].pinned THEN 2 ELSE 1,
                      !.constraints = Imposed(l.expect[p])]
<1>1. /\ DOMAIN l.expect \subseteq Pkgs
      /\ l.expect \in [DOMAIN l.expect -> DependencySpecs]
  BY DEF Lines
<1>2. ASSUME NEW p \in DOMAIN l.expect
      PROVE  e(p) \in Entries /\ Enterable(w, sel, l, p, e(p))
  <2>1. PICK b \in Entries : /\ b = BuildPackage("enter", 0) /\ b.action = "enter"
                             /\ ~b.hold /\ b.holdVersion = 0
    BY BuildPackageOf
  <2>2. Imposed(l.expect[p]) \in Seq(Constraints)
    <3>1. l.expect[p].allowed \subseteq Versions
      BY <1>1 DEF DependencySpecs
    <3> DEFINE s == l.expect[p]
    <3>2. s.allowed \subseteq Versions
      BY <3>1
    <3> HIDE DEF s
    <3>3. Imposed(s) \in Seq(Constraints)
      <4>1. [by |-> CmdLine, allowed |-> s.allowed] \in Constraints
        BY <3>2 DEF Constraints
      <4> QED
        BY <4>1, EmptySeqOf, PairOf DEF Imposed
    <3> QED
      BY <3>3 DEF s
  <2>3. Wanted(l, p) = IF l.expect[p].pinned THEN 2 ELSE 1
    BY DEF Wanted
  <2> DEFINE wanted == IF l.expect[p].pinned THEN 2 ELSE 1
             ks == Imposed(l.expect[p])
             x == e(p)
  <2>4. x = [b EXCEPT !.user = TRUE, !.holdVersion = wanted, !.constraints = ks]
    BY <2>1
  <2>5. wanted \in 0..2
    OBVIOUS
  <2>6. wanted = Wanted(l, p)
    BY <2>3
  <2> HIDE DEF e, x, wanted, ks
  <2>7. x \in Entries /\ x.action = "enter" /\ ~x.hold /\ x.holdVersion = wanted
    BY <2>1, <2>2, <2>4, <2>5 DEF Entries, ks
  <2>8. Enterable(w, sel, l, p, x)
    BY <2>6, <2>7 DEF Enterable
  <2> QED
    BY <2>7, <2>8 DEF x
<1>3. Entered(l) = [p \in DOMAIN l.expect |-> e(p)]
  BY DEF Entered
<1> HIDE DEF e
<1> QED
  BY <1>1, <1>2, <1>3 DEF Maps

\* The entry of a package that the user has asked for.
LEMMA HoldBuildOf ==
    ASSUME Requested(world, before, req, line), req \in Requests, req.kind = "build",
           NEW p \in DOMAIN line.hold
    PROVE  /\ Entering(world, before, line, p, HoldBuild(p))
           /\ EnteredAsAsked(line, p, HoldBuild(p))
<1> DEFINE h == line.hold[p]
           x == HoldBuild(p)
<1>1. p \in Pkgs /\ h \in HoldSpecs /\ Holdable(world, before, p, h)
  BY LineHas
<1>2. PICK b \in Entries : /\ b = BuildPackage("build", h.version) /\ b.action = "build"
                           /\ b.version = h.version
  BY <1>1, BuildPackageOf DEF HoldSpecs
<1> DEFINE wanted == IF h.pinned THEN 2 ELSE 1
           ks == Imposed(h)
           taken == h.variables
           yes == TRUE
<1>3. x = [b EXCEPT !.hold = yes, !.holdVersion = wanted,
                    !.user = yes, !.reconfigure = taken, !.constraints = ks]
  BY <1>2 DEF HoldBuild
<1>4. wanted = Wanted(line, p) /\ wanted \in {1, 2}
  BY DEF Wanted
<1>9. wanted \in 0..2
  OBVIOUS
<1>5. ks \in Seq(Constraints) /\ h.allowed \subseteq Versions /\ taken \in BOOLEAN
      /\ h.version \in Versions /\ yes \in BOOLEAN /\ yes
  BY <1>1, ImposedOf DEF HoldSpecs
<1> HIDE DEF x, wanted, ks, taken, yes
<1>6. /\ x \in Entries /\ x.action = "build" /\ x.version = h.version /\ x.hold
      /\ x.holdVersion = wanted /\ x.constraints = ks
  <2>1. x \in Entries
    <3>1. PICK b1 \in Entries : b1 = [b EXCEPT !.hold = yes, !.holdVersion = wanted, !.user = yes]
      BY <1>2, <1>9, <1>5 DEF Entries
    <3>6. [b1 EXCEPT !.constraints = ks] \in Entries
      <4>1. ks \in Seq(Constraints)
        BY <1>5
      <4> QED
        BY <3>1, <4>1 DEF Entries
    <3>2. PICK b2 \in Entries : b2 = [b1 EXCEPT !.constraints = ks]
      BY <3>6
    <3>3. x = [b2 EXCEPT !.reconfigure = taken]
      BY <1>3, <3>1, <3>2 DEF Entries
    <3>4. PICK z \in BOOLEAN : z = taken
      BY <1>5
    <3>5. [b2 EXCEPT !.reconfigure = z] \in Entries
      BY <3>2 DEF Entries
    <3> QED
      BY <3>3, <3>4, <3>5
  <2>2. x.action = "build" /\ x.version = h.version /\ x.hold
        /\ x.holdVersion = wanted /\ x.constraints = ks
    BY <1>2, <1>3, <1>5 DEF Entries
  <2> QED
    BY <2>1, <2>2
<1>7. Entering(world, before, line, p, x)
  BY <1>1, <1>4, <1>6 DEF Entering, Enterable, Holdable, Buildable
<1>8. EnteredAsAsked(line, p, x)
  BY <1>1, <1>4, <1>5, <1>6 DEF EnteredAsAsked, Holdable, ks
<1> QED
  BY <1>7, <1>8 DEF x

\* None is replaced yet.
Unreplaced(rs) == [p \in DOMAIN rs |-> [rs[p] EXCEPT !.replaced = FALSE]]

\* Less replacements, or none.
LEMMA ReplacingLess ==
    ASSUME NEW w, NEW sel, NEW l, NEW rs, Replacing(w, sel, l, rs)
    PROVE  /\ Replacing(w, sel, l, CancelBogus(rs))
           /\ Replacing(w, sel, l, Unreplaced(rs))
           /\ Replacing(w, sel, l, NoMap) /\ Maps(w, sel, l, NoMap)
<1>1. Replacing(w, sel, l, CancelBogus(rs))
  BY DEF Replacing, CancelBogus
<1>2. ASSUME NEW p \in DOMAIN rs
      PROVE  /\ [rs[p] EXCEPT !.replaced = FALSE] \in Replacements
             /\ Replaces(w, sel, l, p, [rs[p] EXCEPT !.replaced = FALSE])
  <2>1. rs[p] \in Replacements /\ Replaces(w, sel, l, p, rs[p])
    BY DEF Replacing
  <2> DEFINE x == [rs[p] EXCEPT !.replaced = FALSE]
  <2>2. x \in Replacements /\ x.version = rs[p].version
    BY <2>1 DEF Replacements
  <2> HIDE DEF x
  <2>3. Replaces(w, sel, l, p, x)
    BY <2>1, <2>2 DEF Replaces
  <2> QED
    BY <2>2, <2>3 DEF x
<1>3. Replacing(w, sel, l, [p \in DOMAIN rs |-> [rs[p] EXCEPT !.replaced = FALSE]])
  <2> DEFINE f(p) == [rs[p] EXCEPT !.replaced = FALSE]
  <2>1. \A p \in DOMAIN rs : f(p) \in Replacements /\ Replaces(w, sel, l, p, f(p))
    BY <1>2
  <2> HIDE DEF f
  <2>2. Replacing(w, sel, l, [p \in DOMAIN rs |-> f(p)])
    BY <2>1 DEF Replacing
  <2> QED
    BY <2>2 DEF f
<1>4. Replacing(w, sel, l, NoMap) /\ Maps(w, sel, l, NoMap)
  BY DEF Replacing, Maps, NoMap
<1> QED
  BY <1>1, <1>3, <1>4 DEF Unreplaced

\* Cancelled drops.
LEMMA CancelDropsOf ==
    ASSUME NEW w, NEW sel, NEW l, NEW bm, Maps(w, sel, l, bm)
    PROVE  Maps(w, sel, l, CancelDrops(bm)) /\ BuildsStay(bm, CancelDrops(bm))
<1> DEFINE revived == {p \in DOMAIN bm :
                         /\ bm[p].action # "drop" /\ ~bm[p].collected
                         /\ selected[p].state = "configured"
                         /\ \E i \in DOMAIN deps : deps[i].name = p /\ deps[i].version = 0}
           next == [p \in Pkgs |-> {q \in DOMAIN selected[p].prereqs : Dropped(bm, q)}]
           cancelled == {q \in Closure(revived, next) : Dropped(bm, q)}
<1>1. /\ CancelDrops(bm) = [p \in DOMAIN bm \ cancelled |-> bm[p]]
      /\ \A q \in cancelled : Dropped(bm, q)
  BY DEF CancelDrops
<1> HIDE DEF cancelled
<1> QED
  BY <1>1 DEF Maps, BuildsStay, Stays, Dropped

---------------------------------------------------------------------------
(* The adjustments of the command line.                                     *)
\* l and m have the same for q.
SameFor(l, m, q) ==
    /\ q \in DOMAIN m.hold <=> q \in DOMAIN l.hold
    /\ q \in DOMAIN m.expect <=> q \in DOMAIN l.expect
    /\ q \in DOMAIN l.hold => m.hold[q] = l.hold[q]
    /\ q \in DOMAIN l.expect => m.expect[q] = l.expect[q]

\* The last element and the others.
LEMMA FrontSet ==
    ASSUME NEW T, NEW s \in Seq(T), s # <<>>
    PROVE  /\ Last(s) \in T /\ Front(s) \in Seq(T)
           /\ ToSet(s) = {Last(s)} \cup ToSet(Front(s))
           /\ IsInjective(s) => IsInjective(Front(s)) /\ Last(s) \notin ToSet(Front(s))
<1>1. Len(s) \in Nat \ {0} /\ Last(s) = s[Len(s)] /\ \A i \in 1..Len(s) : s[i] \in T
  BY EmptySeq, LenProperties, ElementOfSeq DEF Last
<1> DEFINE n == Len(s)
           f == Front(s)
<1>2. f \in Seq(T) /\ Len(f) = n - 1 /\ \A i \in 1..n - 1 : f[i] = s[i]
  <2>1. 1 \in Int /\ n - 1 \in Int /\ \A i \in 1..n - 1 : s[i] \in T
    BY <1>1
  <2>2. /\ SubSeq(s, 1, n - 1) \in Seq(T)
        /\ Len(SubSeq(s, 1, n - 1)) = IF 1 <= n - 1 THEN n - 1 - 1 + 1 ELSE 0
        /\ \A i \in 1..n - 1 - 1 + 1 : SubSeq(s, 1, n - 1)[i] = s[1 + i - 1]
    BY <2>1, SubSeqProperties
  <2>3. f = SubSeq(s, 1, n - 1)
    BY DEF Front
  <2>4. n \in Nat \ {0}
    BY <1>1
  <2> DEFINE g == SubSeq(s, 1, n - 1)
  <2>5. /\ g \in Seq(T) /\ Len(g) = (IF 1 <= n - 1 THEN n - 1 - 1 + 1 ELSE 0)
        /\ \A i \in 1..n - 1 - 1 + 1 : g[i] = s[1 + i - 1]
    BY <2>2
  <2> HIDE DEF f, n, g
  <2>6. Len(g) = n - 1 /\ \A i \in 1..n - 1 : g[i] = s[i]
    BY <2>4, <2>5
  <2> QED
    BY <2>3, <2>5, <2>6 DEF g
<1> HIDE DEF f
<1>5. \A x : x \in ToSet(s) <=> \E i \in 1..n : s[i] = x
  BY SetOf
<1>6. DOMAIN f = 1..n - 1 /\ \A x : x \in ToSet(f) <=> \E i \in 1..n - 1 : f[i] = x
  BY <1>2, SetOf
<1>7. DOMAIN s = 1..n
  BY SetOf
<1> HIDE DEF n
<1>8. n \in Nat \ {0} /\ Last(s) = s[n] /\ s[n] \in T
  BY <1>1 DEF n
<1>3. ASSUME NEW x PROVE x \in ToSet(s) <=> x = Last(s) \/ x \in ToSet(f)
  BY <1>2, <1>5, <1>6, <1>8
<1>4. ASSUME IsInjective(s) PROVE IsInjective(f) /\ Last(s) \notin ToSet(f)
  <2>1. \A i, j \in 1..n : s[i] = s[j] => i = j
    BY <1>4, <1>7 DEF IsInjective
  <2>2. \A i, j \in 1..n - 1 : f[i] = f[j] => i = j
    BY <1>2, <1>8, <2>1
  <2>3. IsInjective(f)
    BY <1>6, <2>2 DEF IsInjective
  <2> QED
    BY <1>2, <1>6, <1>8, <2>1, <2>3
<1> QED
  BY <1>2, <1>3, <1>4, <1>8 DEF f

\* The command line but for p, and whether p is adjusted.
LEMMA RequestedFrom ==
    ASSUME NEW w, NEW sel, NEW r, NEW l, Requested(w, sel, r, l), NEW m, Lines(m), NEW p,
           \A q \in Pkgs \ {p} : SameFor(l, m, q),
           \A b \in ToSet(m.stack) :
              \/ b \in ToSet(l.stack) /\ b.name # p
              \/ b.name = p /\ Adjustable(w, sel, r, b) /\ InForce(r, m, b),
           \A b, c \in ToSet(m.stack) : b.name = p /\ c.name = p => b = c,
           IsInjective(m.stack),
           p \in NamesOf(m.stack) \/ AsRequested(r, m, p),
           NamesOf(l.stack) \subseteq NamesOf(m.stack) \cup {p},
           \A b \in ToSet(m.dropped) : /\ Adjustable(w, sel, r, b)
                                       /\ b.name \notin NamesOf(m.stack)
    PROVE  Requested(w, sel, r, m)
<1>1. /\ \A q \in DOMAIN r.hold : Holdable(w, sel, q, r.hold[q])
      /\ \A q \in DOMAIN r.expect : ~sel[q].hold
      /\ \A a \in ToSet(l.stack) : Adjustable(w, sel, r, a) /\ InForce(r, l, a)
      /\ \A q \in Pkgs \ NamesOf(l.stack) : AsRequested(r, l, q)
      /\ \A a, b \in ToSet(l.stack) : a.name = b.name => a = b
      /\ l.stack \in Seq(Adjustments)
  BY DEF Requested, Lines
<1>2. \A a \in ToSet(l.stack) : a.name \in Pkgs
  <2>1. \A a \in Adjustments : a.name \in Pkgs
    BY DEF Adjustments
  <2>2. ToSet(l.stack) \subseteq Adjustments
    BY <1>1, SetOf
  <2> QED
    BY <2>1, <2>2
<1>3. ASSUME NEW b \in ToSet(m.stack)
      PROVE  Adjustable(w, sel, r, b) /\ InForce(r, m, b)
  <2>1. CASE b \in ToSet(l.stack) /\ b.name # p
    <3>1. SameFor(l, m, b.name) /\ InForce(r, l, b)
      BY <1>1, <1>2, <2>1
    <3>2. InForce(r, m, b)
      BY <3>1 DEF InForce, SameFor
    <3> QED
      BY <1>1, <2>1, <3>2
  <2> QED
    BY <2>1
<1>4. ASSUME NEW q \in Pkgs \ NamesOf(m.stack) PROVE AsRequested(r, m, q)
  <2>1. CASE q # p
    <3>1. q \notin NamesOf(l.stack)
      BY <2>1
    <3>2. AsRequested(r, l, q) /\ SameFor(l, m, q)
      BY <1>1, <2>1, <3>1
    <3> QED
      BY <3>2 DEF AsRequested, SameFor
  <2> QED
    BY <2>1
<1>5. \A a, b \in ToSet(m.stack) : a.name = b.name => a = b
  BY <1>1
<1>6. NamesOf(m.dropped) \cap NamesOf(m.stack) = {}
  BY DEF NamesOf
<1> QED
  BY <1>1, <1>3, <1>4, <1>5, <1>6 DEF Requested

\* What only the history of the command line tells apart.
LEMMA RequestedSame ==
    ASSUME NEW w, NEW sel, NEW r, NEW l, Requested(w, sel, r, l), NEW m, Lines(m),
           m.hold = l.hold, m.expect = l.expect, m.stack = l.stack,
           m.dropped = l.dropped \/ m.dropped = <<>>
    PROVE  Requested(w, sel, r, m)
<1>1. \A a : InForce(r, l, a) <=> InForce(r, m, a)
  BY DEF InForce
<1>2. \A p : AsRequested(r, l, p) <=> AsRequested(r, m, p)
  BY DEF AsRequested
<1>3. ToSet(m.dropped) \subseteq ToSet(l.dropped)
  BY DEF ToSet
<1>4. NamesOf(m.dropped) \subseteq NamesOf(l.dropped)
  BY <1>3 DEF NamesOf
<1> QED
  BY <1>1, <1>2, <1>3, <1>4 DEF Requested

\* The fields of a command line.
IsLine(l) ==
    l = [hold |-> l.hold, order |-> l.order, expect |-> l.expect, stack |-> l.stack,
         former |-> l.former, denyDowngrade |-> l.denyDowngrade,
         denyProjects |-> l.denyProjects, downgrades |-> l.downgrades,
         projects |-> l.projects, dropped |-> l.dropped, index |-> l.index,
         iteration |-> l.iteration]

\* What m has of a command line.
HasLine(m, hold, order, expect, stack) ==
    m.hold = hold /\ m.order = order /\ m.expect = expect /\ m.stack = stack

\* What is kept of its adjustments.
HasMarks(m, former_, dropped, index) ==
    m.former = former_ /\ m.dropped = dropped /\ m.index = index

\* A command line but for what it asks for.
LineParts(m) ==
    /\ IsLine(m) /\ m.stack \in Seq(Adjustments) /\ m.dropped \in Seq(Adjustments)
    /\ m.index \in Int

\* The fields of a command line that an adjustment changes.
LEMMA LineExcept ==
    ASSUME NEW l, IsLine(l), NEW s, NEW f, NEW h, NEW o, NEW e,
           NEW x, x = [l EXCEPT !.stack = s, !.former = f, !.hold = h, !.order = o, !.expect = e]
    PROVE  /\ IsLine(x) /\ HasLine(x, h, o, e, s) /\ x.former = f
           /\ x.dropped = l.dropped /\ x.index = l.index
           /\ HasMarks(x, f, l.dropped, l.index)
<1>1. /\ IsLine(x) /\ x.hold = h /\ x.order = o /\ x.expect = e /\ x.stack = s
      /\ x.former = f /\ x.dropped = l.dropped /\ x.index = l.index
  BY DEF IsLine
<1> QED
  BY <1>1 DEF HasLine, HasMarks

\* The same, but for the sets that have been tried.
LEMMA LineExceptFormer ==
    ASSUME NEW l, IsLine(l), NEW s, NEW h, NEW o, NEW e,
           NEW x, x = [l EXCEPT !.stack = s, !.hold = h, !.order = o, !.expect = e]
    PROVE  /\ IsLine(x) /\ HasLine(x, h, o, e, s) /\ x.former = l.former
           /\ x.dropped = l.dropped /\ x.index = l.index
           /\ HasMarks(x, l.former, l.dropped, l.index)
<1>1. /\ IsLine(x) /\ x.hold = h /\ x.order = o /\ x.expect = e /\ x.stack = s
      /\ x.former = l.former /\ x.dropped = l.dropped /\ x.index = l.index
  BY DEF IsLine
<1> QED
  BY <1>1 DEF HasLine, HasMarks

\* One version of a package is asked for.
LEMMA SpecOf ==
    ASSUME NEW v \in Versions
    PROVE  /\ HoldSpec(v, {v}) \in HoldSpecs /\ DependencySpec({v}) \in DependencySpecs
           /\ \A h \in HoldSpecs : [h EXCEPT !.version = v, !.allowed = {v}] \in HoldSpecs
           /\ \A d \in DependencySpecs : [d EXCEPT !.allowed = {v}] \in DependencySpecs
<1>1. HoldSpec(v, {v}) \in HoldSpecs
  BY DEF HoldSpec, HoldSpecs
<1>2. DependencySpec({v}) \in DependencySpecs
  BY DEF DependencySpec, DependencySpecs
<1>3. ASSUME NEW h \in HoldSpecs PROVE [h EXCEPT !.version = v, !.allowed = {v}] \in HoldSpecs
  BY DEF HoldSpecs
<1>4. ASSUME NEW d \in DependencySpecs PROVE [d EXCEPT !.allowed = {v}] \in DependencySpecs
  BY DEF DependencySpecs
<1> QED
  BY <1>1, <1>2, <1>3, <1>4

\* A part of the command line that is put in, or taken out.
LEMMA HoldPut ==
    ASSUME NEW l, Lines(l), NEW p \in Pkgs, NEW m, LineParts(m),
           NEW h \in HoldSpecs, m.hold = Put(l.hold, p, h), m.expect = l.expect,
           m.order \in Seq(Pkgs), ToSet(m.order) = ToSet(l.order) \cup {p}
    PROVE  /\ Lines(m) /\ \A q \in Pkgs \ {p} : SameFor(l, m, q)
           /\ p \in DOMAIN m.hold /\ m.hold[p] = h
<1>1. /\ DOMAIN m.hold = DOMAIN l.hold \cup {p} /\ m.hold[p] = h
      /\ \A q \in DOMAIN l.hold : q # p => m.hold[q] = l.hold[q]
  BY DEF Put
<1>2. m.hold \in [DOMAIN m.hold -> HoldSpecs]
  <2>1. l.hold \in [DOMAIN l.hold -> HoldSpecs]
    BY DEF Lines
  <2>2. Put(l.hold, p, h) \in [DOMAIN l.hold \cup {p} -> HoldSpecs]
    BY <2>1, PutIn
  <2> QED
    BY <1>1, <2>2
<1>3. Lines(m)
  BY <1>1, <1>2 DEF Lines, IsLine, LineParts
<1> QED
  BY <1>1, <1>3 DEF SameFor

\* A package is not to be held any more.
LEMMA HoldWithout ==
    ASSUME NEW l, Lines(l), NEW p \in Pkgs, NEW m, LineParts(m),
           m.hold = Without(l.hold, p), m.expect = l.expect,
           m.order \in Seq(Pkgs), ToSet(m.order) = ToSet(l.order) \ {p}
    PROVE  /\ Lines(m) /\ \A q \in Pkgs \ {p} : SameFor(l, m, q)
           /\ p \notin DOMAIN m.hold
<1>1. /\ DOMAIN m.hold = DOMAIN l.hold \ {p}
      /\ \A q \in DOMAIN l.hold : q # p => m.hold[q] = l.hold[q]
  BY DEF Without
<1>2. m.hold \in [DOMAIN m.hold -> HoldSpecs]
  <2>1. l.hold \in [DOMAIN l.hold -> HoldSpecs]
    BY DEF Lines
  <2>2. Without(l.hold, p) \in [DOMAIN l.hold \ {p} -> HoldSpecs]
    BY <2>1, WithoutIn
  <2> QED
    BY <1>1, <2>2
<1>3. Lines(m)
  BY <1>1, <1>2 DEF Lines, IsLine, LineParts
<1> QED
  BY <1>1, <1>3 DEF SameFor

\* Something is expected of a dependency.
LEMMA ExpectPut ==
    ASSUME NEW l, Lines(l), NEW p \in Pkgs, NEW m, LineParts(m),
           NEW d \in DependencySpecs, m.expect = Put(l.expect, p, d), m.hold = l.hold,
           m.order = l.order
    PROVE  /\ Lines(m) /\ \A q \in Pkgs \ {p} : SameFor(l, m, q)
           /\ p \in DOMAIN m.expect /\ m.expect[p] = d
<1>1. /\ DOMAIN m.expect = DOMAIN l.expect \cup {p} /\ m.expect[p] = d
      /\ \A q \in DOMAIN l.expect : q # p => m.expect[q] = l.expect[q]
  BY DEF Put
<1>2. m.expect \in [DOMAIN m.expect -> DependencySpecs]
  <2>1. l.expect \in [DOMAIN l.expect -> DependencySpecs]
    BY DEF Lines
  <2>2. Put(l.expect, p, d) \in [DOMAIN l.expect \cup {p} -> DependencySpecs]
    BY <2>1, PutIn
  <2> QED
    BY <1>1, <2>2
<1>3. Lines(m)
  BY <1>1, <1>2 DEF Lines, IsLine, LineParts
<1> QED
  BY <1>1, <1>3 DEF SameFor

\* Nothing is expected of it any more.
LEMMA ExpectWithout ==
    ASSUME NEW l, Lines(l), NEW p \in Pkgs, NEW m, LineParts(m),
           m.expect = Without(l.expect, p), m.hold = l.hold, m.order = l.order
    PROVE  /\ Lines(m) /\ \A q \in Pkgs \ {p} : SameFor(l, m, q)
           /\ p \notin DOMAIN m.expect
<1>1. /\ DOMAIN m.expect = DOMAIN l.expect \ {p}
      /\ \A q \in DOMAIN l.expect : q # p => m.expect[q] = l.expect[q]
  BY DEF Without
<1>2. m.expect \in [DOMAIN m.expect -> DependencySpecs]
  <2>1. l.expect \in [DOMAIN l.expect -> DependencySpecs]
    BY DEF Lines
  <2>2. Without(l.expect, p) \in [DOMAIN l.expect \ {p} -> DependencySpecs]
    BY <2>1, WithoutIn
  <2> QED
    BY <1>1, <2>2
<1>3. Lines(m)
  BY <1>1, <1>2 DEF Lines, IsLine, LineParts
<1> QED
  BY <1>1, <1>3 DEF SameFor

\* m is the command line l once the adjustment is put in, or taken out.
Pushed(l, a, m) ==
    /\ IsLine(m) /\ m.index \in Int /\ m.dropped = <<>>
    /\ m.hold = Push(l, a).hold /\ m.order = Push(l, a).order
    /\ m.expect = Push(l, a).expect /\ m.stack = Push(l, a).stack

\* What is put in, and where.
PushedOn(l, a, m) ==
    \E b \in Adjustments : /\ b.name = a.name /\ b.version = a.version
                           /\ m.stack = Append(l.stack, b)

\* The fields of an adjustment.
LEMMA AdjustmentOf ==
    ASSUME NEW a \in Adjustments
    PROVE  /\ a.name \in Pkgs /\ a.version \in Versions
           /\ a.type \in {"hold_existing", "hold_new", "dep_existing", "dep_new"}
           /\ \A o \in Seq(Specs) : LET b == [a EXCEPT !.original = o]
                                    IN  /\ b \in Adjustments /\ b.name = a.name
                                        /\ b.version = a.version /\ b.type = a.type
                                        /\ b.original = o
BY DEF Adjustments

\* The names and the state of a stack with one adjustment more.
LEMMA StackNames ==
    ASSUME NEW s, NEW a, NEW b, ToSet(b) = ToSet(s) \cup {a}
    PROVE  /\ NamesOf(b) = NamesOf(s) \cup {a.name}
           /\ State(b) = State(s) \cup {Key(a)}
BY DEF NamesOf, State, Key

\* What is changed is the part of the request, or there is none.
LEMMA PushOf ==
    ASSUME NEW w, NEW sel, NEW r \in Requests, r.kind = "build",
           NEW l, Requested(w, sel, r, l), NEW a \in Adjustments, Adjustable(w, sel, r, a),
           a.name \notin NamesOf(l.stack), NEW m, Pushed(l, a, m)
    PROVE  /\ Requested(w, sel, r, m)
           /\ PushedOn(l, a, m)
<1> DEFINE p == a.name
           v == a.version
<1>1. /\ p \in Pkgs /\ v \in Versions
      /\ a.type \in {"hold_existing", "hold_new", "dep_existing", "dep_new"}
  BY AdjustmentOf
<1>2. AsRequested(r, l, p) /\ Lines(l)
  BY <1>1 DEF Requested
<1>3. /\ DOMAIN r.hold \cap DOMAIN r.expect = {}
      /\ r.hold \in [DOMAIN r.hold -> HoldSpecs]
      /\ r.expect \in [DOMAIN r.expect -> DependencySpecs]
  BY RequestsAssumption
<1>4. /\ IsLine(l) /\ l.stack \in Seq(Adjustments) /\ l.order \in Seq(Pkgs)
  BY <1>2 DEF Lines, IsLine
<1>5. IsLine(m) /\ m.index \in Int /\ m.dropped \in Seq(Adjustments) /\ m.dropped = <<>>
  BY EmptySeqOf DEF Pushed
<1> DEFINE held == IF a.type = "hold_existing"
                   THEN [l.hold[p] EXCEPT !.version = v, !.allowed = {v}]
                   ELSE HoldSpec(v, {v})
           expected == IF a.type = "dep_existing"
                       THEN [l.expect[p] EXCEPT !.allowed = {v}]
                       ELSE DependencySpec({v})
           original == IF a.type = "hold_existing" THEN <<l.hold[p]>>
                       ELSE IF a.type = "dep_existing" THEN <<l.expect[p]>> ELSE <<>>
           b == [a EXCEPT !.original = original]
           holds == a.type \in {"hold_existing", "hold_new"}
<1>6. /\ m.stack = Append(l.stack, b)
      /\ m.hold = IF holds THEN Put(l.hold, p, held) ELSE l.hold
      /\ m.order = IF a.type = "hold_new" THEN Append(l.order, p) ELSE l.order
      /\ m.expect = IF holds THEN l.expect ELSE Put(l.expect, p, expected)
  <2>1. /\ Push(l, a).stack = Append(l.stack, b)
        /\ Push(l, a).hold = IF holds THEN Put(l.hold, p, held) ELSE l.hold
        /\ Push(l, a).order = IF a.type = "hold_new" THEN Append(l.order, p) ELSE l.order
        /\ Push(l, a).expect = IF holds THEN l.expect ELSE Put(l.expect, p, expected)
    <3> DEFINE s == Append(l.stack, b)
               h == IF holds THEN Put(l.hold, p, held) ELSE l.hold
               o == IF a.type = "hold_new" THEN Append(l.order, p) ELSE l.order
               e == IF holds THEN l.expect ELSE Put(l.expect, p, expected)
               f == l.former \cup {State(s)}
    <3>1. Push(l, a) = [l EXCEPT !.stack = s, !.former = f, !.hold = h, !.order = o, !.expect = e]
      BY DEF Push
    <3> DEFINE x == Push(l, a)
    <3>3. IsLine(l)
      BY <1>4
    <3> HIDE DEF s, h, o, e, f, x, held, expected, original, b, holds
    <3>4. x = [l EXCEPT !.stack = s, !.former = f, !.hold = h, !.order = o, !.expect = e]
      BY <3>1 DEF x
    <3>5. HasLine(x, h, o, e, s)
      BY <3>3, <3>4, LineExcept, ZenonT(60)
    <3>2. HasLine(Push(l, a), h, o, e, s)
      BY <3>5 DEF x
    <3> QED
      BY <3>2 DEF HasLine, s, h, o, e
  <2> QED
    BY <2>1 DEF Pushed
<1>7. /\ a.type = "hold_existing" => p \in DOMAIN r.hold /\ p \in DOMAIN l.hold
                                     /\ l.hold[p] = r.hold[p] /\ l.hold[p] \in HoldSpecs
      /\ a.type = "dep_existing" => p \in DOMAIN r.expect /\ p \in DOMAIN l.expect
                                    /\ l.expect[p] = r.expect[p] /\ l.expect[p] \in DependencySpecs
      /\ a.type \in {"hold_new", "dep_new"} => p \notin DOMAIN l.hold \cup DOMAIN l.expect
      /\ p \notin DOMAIN l.hold \cap DOMAIN l.expect
  BY <1>2, <1>3 DEF Adjustable, AsRequested
<1>8. original \in Seq(Specs)
  BY <1>7, PairOf, EmptySeqOf DEF Specs
<1>9. b \in Adjustments /\ b.name = p /\ b.version = v /\ b.type = a.type /\ b.original = original
  BY <1>8, AdjustmentOf
<1>10. /\ m.stack \in Seq(Adjustments) /\ ToSet(m.stack) = ToSet(l.stack) \cup {b}
       /\ IsInjective(l.stack) /\ b \notin ToSet(l.stack) => IsInjective(m.stack)
  <2> HIDE DEF b
  <2> QED
    BY <1>4, <1>6, <1>9, AppendSet
<1>11. held \in HoldSpecs /\ expected \in DependencySpecs
  <2>1. CASE a.type = "hold_existing"
    BY <1>1, <1>7, <2>1, SpecOf
  <2>2. CASE a.type # "hold_existing"
    BY <1>1, <1>7, <2>2, SpecOf
  <2> QED
    BY <2>1, <2>2
<1> HIDE DEF b, held, expected, original, holds
<1>20. LineParts(m)
  BY <1>5, <1>10 DEF LineParts
<1>12. /\ Lines(m) /\ \A q \in Pkgs \ {p} : SameFor(l, m, q)
       /\ InForce(r, m, b)
  <2>1. CASE a.type = "hold_existing"
    <3>1. /\ m.hold = Put(l.hold, p, held) /\ m.expect = l.expect /\ m.order = l.order
          /\ original = <<r.hold[p]>> /\ held = [r.hold[p] EXCEPT !.version = v, !.allowed = {v}]
          /\ ToSet(m.order) = ToSet(l.order) \cup {p}
      BY <1>2, <1>6, <1>7, <2>1 DEF Lines, held, original, holds
    <3>4. m.order \in Seq(Pkgs)
      BY <1>4, <3>1
    <3>5. p \in Pkgs /\ Lines(l) /\ held \in HoldSpecs
      BY <1>1, <1>2, <1>11
    <3>6. m.hold = Put(l.hold, p, held) /\ m.expect = l.expect
          /\ ToSet(m.order) = ToSet(l.order) \cup {p}
      BY <3>1
    <3>2. /\ Lines(m) /\ \A q \in Pkgs \ {p} : SameFor(l, m, q)
          /\ p \in DOMAIN m.hold /\ m.hold[p] = held
      <4> HIDE DEF p
      <4> QED
        BY <1>20, <3>4, <3>5, <3>6, HoldPut
    <3>3. InForce(r, m, b)
      BY <1>7, <1>9, <2>1, <3>1, <3>2 DEF InForce
    <3> QED
      BY <3>2, <3>3
  <2>2. CASE a.type = "hold_new"
    <3>1. /\ m.hold = Put(l.hold, p, held) /\ m.expect = l.expect /\ m.order = Append(l.order, p)
          /\ held = HoldSpec(v, {v})
      BY <1>6, <2>2 DEF held, holds
    <3>4. m.order \in Seq(Pkgs) /\ ToSet(m.order) = ToSet(l.order) \cup {p}
      BY <1>1, <1>4, <3>1, AppendSet
    <3>5. p \in Pkgs /\ Lines(l) /\ held \in HoldSpecs
      BY <1>1, <1>2, <1>11
    <3>6. m.hold = Put(l.hold, p, held) /\ m.expect = l.expect
      BY <3>1
    <3>2. /\ Lines(m) /\ \A q \in Pkgs \ {p} : SameFor(l, m, q)
          /\ p \in DOMAIN m.hold /\ m.hold[p] = held
      <4> HIDE DEF p
      <4> QED
        BY <1>20, <3>4, <3>5, <3>6, HoldPut
    <3>3. InForce(r, m, b)
      BY <1>7, <1>9, <2>2, <3>1, <3>2 DEF InForce
    <3> QED
      BY <3>2, <3>3
  <2>3. CASE a.type = "dep_existing"
    <3>1. /\ m.expect = Put(l.expect, p, expected) /\ m.hold = l.hold /\ m.order = l.order
          /\ original = <<r.expect[p]>> /\ expected = [r.expect[p] EXCEPT !.allowed = {v}]
      BY <1>6, <1>7, <2>3 DEF expected, original, holds
    <3>5. p \in Pkgs /\ Lines(l) /\ expected \in DependencySpecs
      BY <1>1, <1>2, <1>11
    <3>6. m.expect = Put(l.expect, p, expected) /\ m.hold = l.hold /\ m.order = l.order
      BY <3>1
    <3>2. /\ Lines(m) /\ \A q \in Pkgs \ {p} : SameFor(l, m, q)
          /\ p \in DOMAIN m.expect /\ m.expect[p] = expected
      <4> HIDE DEF p
      <4> QED
        BY <1>20, <3>5, <3>6, ExpectPut
    <3>3. InForce(r, m, b)
      BY <1>7, <1>9, <2>3, <3>1, <3>2 DEF InForce
    <3> QED
      BY <3>2, <3>3
  <2>4. CASE a.type = "dep_new"
    <3>1. /\ m.expect = Put(l.expect, p, expected) /\ m.hold = l.hold /\ m.order = l.order
          /\ expected = DependencySpec({v})
      BY <1>6, <2>4 DEF expected, holds
    <3>5. p \in Pkgs /\ Lines(l) /\ expected \in DependencySpecs
      BY <1>1, <1>2, <1>11
    <3>6. m.expect = Put(l.expect, p, expected) /\ m.hold = l.hold /\ m.order = l.order
      BY <3>1
    <3>2. /\ Lines(m) /\ \A q \in Pkgs \ {p} : SameFor(l, m, q)
          /\ p \in DOMAIN m.expect /\ m.expect[p] = expected
      <4> HIDE DEF p
      <4> QED
        BY <1>20, <3>5, <3>6, ExpectPut
    <3>3. InForce(r, m, b)
      BY <1>7, <1>9, <2>4, <3>1, <3>2 DEF InForce
    <3> QED
      BY <3>2, <3>3
  <2> QED
    BY <1>1, <2>1, <2>2, <2>3, <2>4
<1>13. \A c \in ToSet(l.stack) : c.name # p
  BY DEF NamesOf
<1>14. Adjustable(w, sel, r, b)
  BY <1>9 DEF Adjustable
<1>15. IsInjective(m.stack)
  BY <1>9, <1>10, <1>13 DEF Requested
<1>16. NamesOf(m.stack) = NamesOf(l.stack) \cup {p}
  BY <1>9, <1>10 DEF NamesOf
<1>17. \A c \in ToSet(m.dropped) : FALSE
  BY <1>5, SetOf
<1>18. \A c \in ToSet(m.stack) : \/ c \in ToSet(l.stack) /\ c.name # p
                                 \/ c = b
  BY <1>10, <1>13
<1> HIDE DEF p
<1>19. Requested(w, sel, r, m)
  BY <1>9, <1>12, <1>13, <1>14, <1>15, <1>16, <1>17, <1>18, RequestedFrom
<1> QED
  BY <1>6, <1>9, <1>19 DEF p, PushedOn

\* m is the command line l once the adjustment a is taken out of its stack.
Popped(l, a, rest, m) ==
    /\ IsLine(m) /\ m.index \in Int /\ m.dropped \in {<<>>, <<a>>}
    /\ m.hold = Pop(l, a, rest).hold /\ m.order = Pop(l, a, rest).order
    /\ m.expect = Pop(l, a, rest).expect /\ m.stack = rest

\* A command line with an adjustment taken out is one of the request.
LEMMA PopOf ==
    ASSUME NEW w, NEW sel, NEW r \in Requests, r.kind = "build",
           NEW l, Requested(w, sel, r, l), NEW a \in ToSet(l.stack),
           NEW rest \in Seq(Adjustments), ToSet(l.stack) = {a} \cup ToSet(rest),
           a \notin ToSet(rest), IsInjective(rest), NEW m, Popped(l, a, rest, m)
    PROVE  Requested(w, sel, r, m)
<1> DEFINE p == a.name
           v == a.version
<1>2. Lines(l) /\ Adjustable(w, sel, r, a) /\ InForce(r, l, a)
  BY DEF Requested
<1>4. /\ IsLine(l) /\ l.stack \in Seq(Adjustments) /\ l.order \in Seq(Pkgs)
      /\ DOMAIN l.hold \subseteq Pkgs
      /\ ToSet(l.order) = DOMAIN l.hold
  BY <1>2 DEF Lines, IsLine
<1>1. /\ a \in Adjustments /\ p \in Pkgs /\ v \in Versions
      /\ a.type \in {"hold_existing", "hold_new", "dep_existing", "dep_new"}
  <2>1. a \in Adjustments
    BY <1>4, SetOf
  <2> QED
    BY <2>1, AdjustmentOf
<1>3. /\ DOMAIN r.hold \cap DOMAIN r.expect = {}
      /\ r.hold \in [DOMAIN r.hold -> HoldSpecs]
      /\ r.expect \in [DOMAIN r.expect -> DependencySpecs]
  BY RequestsAssumption
<1>5. IsLine(m) /\ m.index \in Int /\ m.dropped \in {<<>>, <<a>>} /\ m.stack = rest
  BY DEF Popped
<1>20. LineParts(m)
  BY <1>1, <1>5, PairOf, EmptySeqOf DEF LineParts
<1> DEFINE hold == IF a.type = "hold_existing" THEN Put(l.hold, p, a.original[1])
                   ELSE IF a.type = "hold_new" THEN Without(l.hold, p) ELSE l.hold
           order == IF a.type = "hold_new" THEN Those(l.order, Pkgs \ {p}) ELSE l.order
           expect == IF a.type = "dep_existing" THEN Put(l.expect, p, a.original[1])
                     ELSE IF a.type = "dep_new" THEN Without(l.expect, p) ELSE l.expect
<1>6. m.hold = hold /\ m.order = order /\ m.expect = expect
  <2> DEFINE x == Pop(l, a, rest)
  <2>1. x = [l EXCEPT !.stack = rest, !.hold = hold, !.order = order, !.expect = expect]
    BY DEF Pop
  <2>2. IsLine(l)
    BY <1>4
  <2> HIDE DEF x, hold, order, expect
  <2>3. HasLine(x, hold, order, expect, rest)
    BY <2>1, <2>2, LineExceptFormer
  <2> QED
    BY <2>3 DEF HasLine, Popped, x
<1>7. /\ a.type = "hold_existing" => /\ p \in DOMAIN r.hold /\ p \in DOMAIN l.hold
                                     /\ p \notin DOMAIN l.expect /\ p \notin DOMAIN r.expect
                                     /\ a.original[1] = r.hold[p] /\ r.hold[p] \in HoldSpecs
      /\ a.type = "dep_existing" => /\ p \in DOMAIN r.expect /\ p \in DOMAIN l.expect
                                    /\ p \notin DOMAIN l.hold /\ p \notin DOMAIN r.hold
                                    /\ a.original[1] = r.expect[p]
                                    /\ r.expect[p] \in DependencySpecs
      /\ a.type = "hold_new" => p \notin DOMAIN l.expect \cup DOMAIN r.hold \cup DOMAIN r.expect
      /\ a.type = "dep_new" => p \notin DOMAIN l.hold \cup DOMAIN r.hold \cup DOMAIN r.expect
  <2>1. CASE a.type = "hold_existing"
    <3>1. /\ p \in DOMAIN r.hold /\ a.original = <<r.hold[p]>>
          /\ p \in DOMAIN l.hold \ DOMAIN l.expect
      BY <1>2, <2>1 DEF Adjustable, InForce
    <3> QED
      BY <1>3, <2>1, <3>1
  <2>2. CASE a.type = "hold_new"
    BY <1>2, <2>2 DEF Adjustable, InForce
  <2>3. CASE a.type = "dep_existing"
    <3>1. /\ p \in DOMAIN r.expect /\ a.original = <<r.expect[p]>>
          /\ p \in DOMAIN l.expect \ DOMAIN l.hold
      BY <1>2, <2>3 DEF Adjustable, InForce
    <3> QED
      BY <1>3, <2>3, <3>1
  <2>4. CASE a.type = "dep_new"
    BY <1>2, <2>4 DEF Adjustable, InForce
  <2> HIDE DEF p
  <2> QED
    BY <1>1, <2>1, <2>2, <2>3, <2>4
<1> HIDE DEF hold, order, expect
<1>12. /\ Lines(m) /\ \A q \in Pkgs \ {p} : SameFor(l, m, q)
       /\ AsRequested(r, m, p)
  <2>1. CASE a.type = "hold_existing"
    <3>1. /\ m.hold = Put(l.hold, p, r.hold[p]) /\ m.expect = l.expect /\ m.order = l.order
      BY <1>6, <1>7, <2>1 DEF hold, order, expect
    <3>4. m.order \in Seq(Pkgs) /\ ToSet(m.order) = ToSet(l.order) \cup {p}
      BY <1>4, <1>7, <2>1, <3>1
    <3> DEFINE h == r.hold[p]
    <3>5. p \in Pkgs /\ Lines(l) /\ h \in HoldSpecs
      BY <1>1, <1>2, <1>7, <2>1
    <3>6. m.hold = Put(l.hold, p, h) /\ m.expect = l.expect
      BY <3>1
    <3>2. /\ Lines(m) /\ \A q \in Pkgs \ {p} : SameFor(l, m, q)
          /\ p \in DOMAIN m.hold /\ m.hold[p] = h
      <4> HIDE DEF p, h
      <4> QED
        BY <1>20, <3>4, <3>5, <3>6, HoldPut
    <3>3. AsRequested(r, m, p)
      BY <1>7, <2>1, <3>1, <3>2 DEF AsRequested
    <3> QED
      BY <3>2, <3>3
  <2>2. CASE a.type = "hold_new"
    <3>1. /\ m.hold = Without(l.hold, p) /\ m.expect = l.expect
          /\ m.order = Those(l.order, Pkgs \ {p})
      BY <1>6, <2>2 DEF hold, order, expect
    <3>4. m.order \in Seq(Pkgs) /\ ToSet(m.order) = ToSet(l.order) \ {p}
      <4>1. m.order \in Seq(Pkgs) /\ ToSet(m.order) = ToSet(l.order) \cap (Pkgs \ {p})
        BY <1>4, <3>1, ThoseOf
      <4> QED
        BY <1>4, <4>1
    <3>5. p \in Pkgs /\ Lines(l)
      BY <1>1, <1>2
    <3>2. /\ Lines(m) /\ \A q \in Pkgs \ {p} : SameFor(l, m, q)
          /\ p \notin DOMAIN m.hold
      <4> HIDE DEF p
      <4> QED
        BY <1>20, <3>1, <3>4, <3>5, HoldWithout
    <3>3. AsRequested(r, m, p)
      BY <1>7, <2>2, <3>1, <3>2 DEF AsRequested
    <3> QED
      BY <3>2, <3>3
  <2>3. CASE a.type = "dep_existing"
    <3>1. /\ m.expect = Put(l.expect, p, r.expect[p]) /\ m.hold = l.hold /\ m.order = l.order
      BY <1>6, <1>7, <2>3 DEF hold, order, expect
    <3> DEFINE h == r.expect[p]
    <3>5. p \in Pkgs /\ Lines(l) /\ h \in DependencySpecs
      BY <1>1, <1>2, <1>7, <2>3
    <3>6. m.expect = Put(l.expect, p, h) /\ m.hold = l.hold /\ m.order = l.order
      BY <3>1
    <3>2. /\ Lines(m) /\ \A q \in Pkgs \ {p} : SameFor(l, m, q)
          /\ p \in DOMAIN m.expect /\ m.expect[p] = h
      <4> HIDE DEF p, h
      <4> QED
        BY <1>20, <3>5, <3>6, ExpectPut
    <3>3. AsRequested(r, m, p)
      BY <1>7, <2>3, <3>1, <3>2 DEF AsRequested
    <3> QED
      BY <3>2, <3>3
  <2>4. CASE a.type = "dep_new"
    <3>1. /\ m.expect = Without(l.expect, p) /\ m.hold = l.hold /\ m.order = l.order
      BY <1>6, <2>4 DEF hold, order, expect
    <3>5. p \in Pkgs /\ Lines(l)
      BY <1>1, <1>2
    <3>2. /\ Lines(m) /\ \A q \in Pkgs \ {p} : SameFor(l, m, q)
          /\ p \notin DOMAIN m.expect
      <4> HIDE DEF p
      <4> QED
        BY <1>20, <3>1, <3>5, ExpectWithout
    <3>3. AsRequested(r, m, p)
      BY <1>7, <2>4, <3>1, <3>2 DEF AsRequested
    <3> QED
      BY <3>2, <3>3
  <2> QED
    BY <1>1, <2>1, <2>2, <2>3, <2>4
<1>13. \A c \in ToSet(m.stack) : c \in ToSet(l.stack) /\ c.name # p
  BY <1>5 DEF Requested
<1>14. p \notin NamesOf(m.stack)
  BY <1>13 DEF NamesOf
<1>15. NamesOf(l.stack) \subseteq NamesOf(m.stack) \cup {p}
  BY <1>5 DEF NamesOf
<1>16. \A b \in ToSet(m.dropped) : Adjustable(w, sel, r, b) /\ b.name \notin NamesOf(m.stack)
  <2>1. \A b \in ToSet(m.dropped) : b = a
    BY <1>5 DEF ToSet
  <2> QED
    BY <1>2, <1>14, <2>1
<1>17. IsInjective(m.stack)
  BY <1>5
<1>18. \A b, c \in ToSet(m.stack) : b.name = p /\ c.name = p => b = c
  BY <1>13
<1> HIDE DEF p
<1> QED
  BY <1>12, <1>13, <1>15, <1>16, <1>17, <1>18, RequestedFrom

---------------------------------------------------------------------------
(* Steps that have much in common.                                          *)
\* The disjuncts of Next that are steps of pkg-build or pkg-drop at work leave these alone.
LEMMA UndisturbedStays ==
    ASSUME Undisturbed, phase \notin Stages \cup {"idle"},
           UNCHANGED <<world, selected, req, before>>,
           phase' \in BuildPhases \cup {"filter"} \cup Stages,
           phase' \in OfBuild => req.kind = "build",
           phase' \in {"filter", "purge"} => req.kind = "drop",
           phase' \in {"collect", "dependents"} => plan' = <<>>,
           phase' \in {"adjust"} \cup Stages => tasks' = <<>>
    PROVE  Undisturbed'
<1>1. phase' # "idle" /\ phase # "idle"
  BY DEF BuildPhases, Stages
<1>2. Configuration(world, selected)' /\ Configuration(world, before)'
  BY DEF Undisturbed, Configuration
<1>3. Config!PrerequisitesHeld'
  BY DEF Undisturbed, Config!PrerequisitesHeld, Config!Configured, Config!Satisfied
<1> QED
  BY <1>1, <1>2, <1>3 DEF Undisturbed, OfBuild

\* A step of pkg-build before a plan is made or while there is none to execute.
LEMMA BetweenPlans ==
    ASSUME Undisturbed', Collecting', Tasking', Refining(judged'.bad, line'),
           phase' \in {"collect", "dependents", "kept", "search"},
           phase' \in {"kept", "search"} =>
              State(line'.stack) \in judged'.bad /\ line'.index = NoRefinement /\ col'.unsat # <<>>
    PROVE  Inv'
<1>1. req'.kind = "build" /\ phase' \notin Stages /\ phase' # "idle"
  BY DEF Undisturbed, OfBuild, BuildPhases, Stages
<1>2. Ordering' /\ Simulating' /\ Progressing' /\ Dropping'
  BY <1>1 DEF Ordering, Simulating, Progressing, Dropping, Planning, Stages
<1>3. Judging'
  BY <1>1 DEF Judging, AdjustmentsNeeded
<1>4. UnusedDropped' /\ RequestMet'
  BY <1>1 DEF UnusedDropped, RequestMet, Ended
<1> QED
  BY <1>2, <1>3, <1>4 DEF Inv

\* What has been collected as asked for stays so.
LEMMA AsAskedStays ==
    ASSUME NEW w, NEW sel, NEW l, NEW c, NEW d, NEW p, AsAsked(l, c, p), p \in DOMAIN l.hold,
           BuildsStay(c.bm, d.bm), Maps(w, sel, l, d.bm)
    PROVE  AsAsked(l, d, p)
<1>1. Wanted(l, p) # 0
  BY DEF Wanted
<1>2. p \in DOMAIN d.bm /\ Stays(c.bm[p], d.bm[p])
  BY DEF AsAsked, BuildsStay
<1>3. Enterable(w, sel, l, p, d.bm[p])
  BY <1>2 DEF Maps
<1> QED
  BY <1>1, <1>2, <1>3 DEF AsAsked, Stays, Enterable

\* The tasks are still those of the collection.
LEMMA TaskedStays ==
    ASSUME NEW w, NEW sel, NEW l, NEW c, NEW d, NEW ps, NEW t,
           NEW ph, Tasked(ph, w, sel, l, c, ps, t), ph \in {"collect", "dependents", "kept"},
           BuildsStay(c.bm, d.bm), NEW qs
    PROVE  Tasked(ph, w, sel, l, d, qs, t)
<1>1. Building(c, t.name) => Building(d, t.name)
  BY DEF Building, BuildsStay, Stays
<1>2. t.op \notin {"consider", "insert"}
  BY DEF Tasked, Ops
<1> QED
  BY <1>1, <1>2 DEF Tasked

\* The tasks of a phase.
LEMMA TasksOf ==
    ASSUME NEW op \in {"hold", "prerequisites", "visit", "order", "reorder", "insert",
                       "replace", "others", "filter"}, NEW ps \in Seq(Pkgs)
    PROVE  /\ Tasks(op, ps) \in Seq(TaskRecords)
           /\ ToSet(Tasks(op, ps)) = {Do(op, p) : p \in ToSet(ps)}
           /\ Len(Tasks(op, ps)) = Len(ps) /\ \A i \in 1..Len(ps) : Tasks(op, ps)[i] = Do(op, ps[i])
<1>1. DOMAIN ps = 1..Len(ps) /\ Len(ps) \in Nat /\ \A i \in 1..Len(ps) : ps[i] \in Pkgs
  BY SetOf
<1>2. \A p \in Pkgs : Do(op, p) \in TaskRecords
  BY DEF Do, TaskRecords
<1>3. Tasks(op, ps) = [i \in 1..Len(ps) |-> Do(op, ps[i])]
  BY <1>1 DEF Tasks
<1>4. Tasks(op, ps) \in [1..Len(ps) -> TaskRecords]
  BY <1>1, <1>2, <1>3
<1>5. Tasks(op, ps) \in Seq(TaskRecords)
  BY <1>1, <1>4, SeqIs
<1>6. \A x : x \in ToSet(Tasks(op, ps)) <=> \E i \in 1..Len(ps) : Tasks(op, ps)[i] = x
  BY <1>1, <1>3 DEF ToSet
<1>7. \A x : x \in ToSet(ps) <=> \E i \in 1..Len(ps) : ps[i] = x
  BY SetOf
<1>8. ToSet(Tasks(op, ps)) = {Do(op, p) : p \in ToSet(ps)}
  BY <1>3, <1>6, <1>7
<1>9. Len(Tasks(op, ps)) = Len(ps)
  BY <1>1, <1>3, <1>5, LenProperties
<1> QED
  BY <1>3, <1>5, <1>8, <1>9

\* The tasks of the decisions.
LEMMA DecidedOf ==
    ASSUME NEW ds \in Seq(Decisions)
    PROVE  /\ Decided(ds) \in Seq(TaskRecords)
           /\ \A t \in ToSet(Decided(ds)) :
                 t.op = "replaced" /\ \E d \in ToSet(ds) : t.name = d.name /\ t.version = d.version
<1>1. DOMAIN ds = 1..Len(ds) /\ Len(ds) \in Nat /\ \A i \in 1..Len(ds) : ds[i] \in Decisions
  BY SetOf
<1> DEFINE t(d) == [op |-> "replaced", name |-> d.name, version |-> d.version]
<1>2. \A d \in Decisions : t(d) \in TaskRecords
  BY DEF Decisions, TaskRecords
<1>7. \A d \in Decisions : t(d).op = "replaced" /\ t(d).name = d.name /\ t(d).version = d.version
  OBVIOUS
<1>3. Decided(ds) = [i \in 1..Len(ds) |-> t(ds[i])]
  BY <1>1 DEF Decided
<1> HIDE DEF t
<1>4. Decided(ds) \in [1..Len(ds) -> TaskRecords]
  BY <1>1, <1>2, <1>3
<1>5. Decided(ds) \in Seq(TaskRecords)
  BY <1>1, <1>4, SeqIs
<1>6. ASSUME NEW x \in ToSet(Decided(ds))
      PROVE  x.op = "replaced" /\ \E d \in ToSet(ds) : x.name = d.name /\ x.version = d.version
  <2>1. PICK i \in 1..Len(ds) : x = t(ds[i])
    BY <1>3, <1>6 DEF ToSet
  <2>2. ds[i] \in ToSet(ds)
    BY SetOf
  <2> QED
    BY <1>1, <1>7, <2>1, <2>2
<1> QED
  BY <1>5, <1>6

\* A task.
LEMMA DoOf == \A p, op : Do(op, p).op = op /\ Do(op, p).name = p
BY DEF Do

\* An iteration begins with what the invariant asks for.
LEMMA IteratedOf ==
    ASSUME Undisturbed', req'.kind = "build", phase' = "collect",
           NEW l, NEW ds, NEW rs, NEW bm, NEW scratch \in BOOLEAN,
           Iterate(l, ds, rs, bm, scratch),
           Requested(world', before', req', l), DOMAIN l.hold \cap DOMAIN l.expect = {},
           Refining(judged'.bad, l),
           ds \in Seq(Decisions), \A d \in ToSet(ds) : Decides(world', before', l, d),
           Replacing(world', before', l, rs),
           scratch \/ /\ Maps(world', before', l, bm)
                      /\ \E c : c.bm = bm /\ \A p \in DOMAIN l.hold : AsAsked(l, c, p)
    PROVE  Inv'
<1> DEFINE start == [bm |-> IF scratch THEN Entered(l) ELSE bm,
                     replaced |-> IF scratch
                                  THEN [p \in DOMAIN rs |-> [rs[p] EXCEPT !.replaced = FALSE]]
                                  ELSE rs,
                     unsat |-> <<>>, scratch |-> FALSE, taken |-> FALSE]
           held == Tasks("hold", l.order)
           rest == Tasks("prerequisites", l.order)
           ts == (IF scratch THEN held \o rest ELSE <<>>) \o Decided(ds)
<1>1. /\ col' = start /\ line' = l /\ deps' = ds /\ tasks' = ts
      /\ search' = NoSearch /\ plan' = <<>>
  BY DEF Iterate
<1>2. Lines(l) /\ l.order \in Seq(Pkgs) /\ ToSet(l.order) = DOMAIN l.hold
  BY DEF Requested, Lines
<1>3. Collects(world', before', l, start)
  <2>1. Maps(world', before', l, start.bm)
    <3>1. CASE scratch
      BY <1>2, <3>1, EnteredOf
    <3>2. CASE ~scratch
      BY <3>2
    <3> QED
      BY <3>1, <3>2
  <2>2. Replacing(world', before', l, start.replaced)
    <3>1. CASE scratch
      <4>1. Replacing(world', before', l, Unreplaced(rs))
        BY ReplacingLess
      <4>2. start.replaced = Unreplaced(rs)
        BY <3>1 DEF Unreplaced
      <4> HIDE DEF start
      <4> QED
        BY <4>1, <4>2
    <3>2. CASE ~scratch
      BY <3>2
    <3> QED
      BY <3>1, <3>2
  <2>3. /\ start.unsat = <<>> /\ start.scratch = FALSE
        /\ start.unsat \in Seq(Unsatisfieds) /\ start.scratch \in BOOLEAN
    BY EmptySeqOf
  <2>4. IsCollection(start)
    BY DEF IsCollection
  <2> HIDE DEF start
  <2> QED
    BY <2>1, <2>2, <2>3, <2>4, CollectsIff
<1>4. /\ held \in Seq(TaskRecords) /\ ToSet(held) = {Do("hold", p) : p \in DOMAIN l.hold}
      /\ rest \in Seq(TaskRecords) /\ ToSet(rest) = {Do("prerequisites", p) : p \in DOMAIN l.hold}
  BY <1>2, TasksOf
<1>5. /\ Decided(ds) \in Seq(TaskRecords)
      /\ \A t \in ToSet(Decided(ds)) :
            t.op = "replaced" /\ \E d \in ToSet(ds) : t.name = d.name /\ t.version = d.version
  BY DecidedOf
<1> HIDE DEF held, rest
<1>6. /\ ts \in Seq(TaskRecords)
      /\ ToSet(ts) \subseteq ToSet(held) \cup ToSet(rest) \cup ToSet(Decided(ds))
      /\ scratch => ToSet(held) \subseteq ToSet(ts)
  <2>1. CASE scratch
    <3>1. held \o rest \in Seq(TaskRecords) /\ ToSet(held \o rest) = ToSet(held) \cup ToSet(rest)
      BY <1>4, ConcatSet
    <3> DEFINE all == held \o rest
               final == all \o Decided(ds)
    <3>2. ts = final
      BY <2>1
    <3>4. all \in Seq(TaskRecords) /\ ToSet(all) = ToSet(held) \cup ToSet(rest)
      BY <3>1
    <3> DEFINE last == Decided(ds)
    <3>5. last \in Seq(TaskRecords)
      BY <1>5
    <3> HIDE DEF all, ts, last
    <3>3. all \o last \in Seq(TaskRecords) /\ ToSet(all \o last) = ToSet(all) \cup ToSet(last)
      BY <3>4, <3>5, ConcatSet
    <3> QED
      BY <3>2, <3>3, <3>4 DEF last
  <2>2. CASE ~scratch
    <3>1. <<>> \in Seq(TaskRecords) /\ ToSet(<<>>) = {}
      BY EmptySeqOf DEF ToSet
    <3>2. ts = <<>> \o Decided(ds)
      BY <2>2
    <3> HIDE DEF ts
    <3>3. ts = Decided(ds)
      BY <1>5, <3>2
    <3> QED
      BY <1>5, <2>2, <3>3
  <2> QED
    BY <2>1, <2>2
<1> HIDE DEF start, ts
<1>7. Collecting'
  <2>1. Commanded'
    BY DEF Commanded
  <2>2. ASSUME NEW p \in DOMAIN l.hold
        PROVE  AsAsked(l, start, p) \/ (phase' = "collect" /\ Do("hold", p) \in ToSet(ts))
    <3>1. CASE scratch
      BY <1>4, <1>6, <3>1
    <3>2. CASE ~scratch
      BY <3>2 DEF AsAsked, start
    <3> QED
      BY <3>1, <3>2
  <2> QED
    BY <1>1, <1>3, <2>1, <2>2 DEF Collecting
<1>8. Tasking'
  <2>1. ASSUME NEW t \in ToSet(ts), NEW ps
        PROVE  Tasked("collect", world', before', l, start, ps, t)
    <3>1. CASE t \in ToSet(held)
      <4>1. t.op = "hold" /\ t.name \in DOMAIN l.hold
        BY <1>4, <3>1, DoOf
      <4> QED
        BY <4>1 DEF Tasked, Ops
    <3>2. CASE t \in ToSet(rest)
      <4>1. t.op = "prerequisites"
        BY <1>4, <3>2, DoOf
      <4> QED
        BY <4>1 DEF Tasked, Ops
    <3>3. CASE t \in ToSet(Decided(ds))
      <4>1. PICK d \in ToSet(ds) : t.op = "replaced" /\ t.name = d.name /\ t.version = d.version
        BY <1>5, <3>3
      <4>2. Decides(world', before', l, t)
        BY <4>1 DEF Decides
      <4> QED
        BY <4>1, <4>2 DEF Tasked, Ops
    <3> QED
      BY <1>6, <3>1, <3>2, <3>3
  <2>2. NoSearch \in Searches
    BY EmptySeqOf DEF NoSearch, Searches
  <2> QED
    BY <1>1, <1>6, <2>1, <2>2 DEF Tasking
<1> QED
  BY <1>1, <1>7, <1>8, BetweenPlans

\* What the command line has to be for the collection to begin anew with it.
LEMMA RecollectedOf ==
    ASSUME Undisturbed, Commanded, phase \notin Stages, UNCHANGED <<world, selected, req, before>>,
           NEW l, NEW ds, NEW rs, Iterate(l, ds, rs, NoMap, TRUE),
           Requested(world, before, req, l), Refining(judged'.bad, l),
           ds \in Seq(Decisions), \A d \in ToSet(ds) : Decides(world, before, l, d),
           Replacing(world, before, l, rs)
    PROVE  Inv'
<1>1. phase' = "collect" /\ plan' = <<>> /\ req.kind = "build" /\ phase # "idle"
  BY DEF Iterate, Commanded
<1>2. Undisturbed'
  BY <1>1, UndisturbedStays DEF BuildPhases, OfBuild, Stages
<1>3. DOMAIN l.hold \cap DOMAIN l.expect = {}
  BY <1>1, LineHas DEF Undisturbed
<1> QED
  BY <1>1, <1>2, <1>3, IteratedOf

\* What holds as pkg-build collects.
AtWork ==
    /\ req.kind = "build" /\ req \in Requests /\ Commanded /\ world \in Worlds
    /\ Requested(world, before, req, line) /\ Collects(world, before, line, col)
    /\ Lines(line) /\ Maps(world, before, line, col.bm)
    /\ Replacing(world, before, line, col.replaced)
    /\ deps \in Seq(Decisions) /\ \A d \in ToSet(deps) : Decides(world, before, line, d)
    /\ Configuration(world, before) /\ Config!PrerequisitesHeld
    /\ tasks \in Seq(TaskRecords)
    /\ \A t \in ToSet(tasks) : Tasked(phase, world, before, line, col, ToSet(plan), t)

\* It does in every phase of pkg-build.
LEMMA WorkOf ==
    ASSUME Inv, phase \in OfBuild \/ (phase \in BuildPhases /\ req.kind = "build")
    PROVE  AtWork
<1>1. phase # "idle" /\ req.kind = "build" /\ req \in Requests
  BY DEF Inv, Undisturbed, OfBuild, BuildPhases
<1>2. Commanded
  BY <1>1 DEF Commanded
<1> QED
  BY <1>1, <1>2, CollectsIff DEF Inv, Undisturbed, Collecting, Requested, Tasking, AtWork

\* The adjustments are those that are needed so far.
LEMMA RefiningOf ==
    ASSUME Inv, phase \in BuildPhases, req.kind = "build"
    PROVE  Refining(judged.bad, line)
BY DEF Inv, Judging, Commanded, BuildPhases, Stages

\* A step of the collection.
LEMMA CollectedOf ==
    ASSUME Inv, phase = "collect", tasks # <<>>, NEW c, NEW more \in Seq(TaskRecords),
           Collected(c, more), Collects(world, before, line, c),
           c.scratch \/ /\ BuildsStay(col.bm, c.bm)
                        /\ \A t \in ToSet(more) :
                              Tasked("collect", world, before, line, c, ToSet(plan), t)
                        /\ Head(tasks).op = "hold" => AsAsked(line, c, Head(tasks).name)
    PROVE  Inv'
<1>1. /\ req.kind = "build" /\ req \in Requests /\ Commanded
      /\ Requested(world, before, req, line) /\ Collects(world, before, line, col)
      /\ deps \in Seq(Decisions) /\ \A d \in ToSet(deps) : Decides(world, before, line, d)
      /\ tasks \in Seq(TaskRecords)
      /\ \A t \in ToSet(tasks) : Tasked(phase, world, before, line, col, ToSet(plan), t)
  <2>1. phase \in OfBuild
    BY DEF OfBuild, BuildPhases
  <2> QED
    BY <2>1, WorkOf DEF AtWork
<1>2. UNCHANGED <<world, selected, req, before, judged>>
  BY DEF Collected, Staying
<1>3. Refining(judged.bad, line) /\ Refining(judged'.bad, line)
  BY <1>1, <1>2, RefiningOf DEF BuildPhases
<1>4. /\ Maps(world, before, line, c.bm) /\ Replacing(world, before, line, c.replaced)
  BY CollectsIff
<1>5. CASE c.scratch
  <2>1. Iterate(line, deps, CancelBogus(c.replaced), NoMap, TRUE)
    BY <1>5 DEF Collected
  <2>2. Replacing(world, before, line, CancelBogus(c.replaced))
    BY <1>4, ReplacingLess
  <2>3. phase \notin Stages /\ Undisturbed
    BY DEF Stages, Inv
  <2> QED
    BY <1>1, <1>2, <1>3, <2>1, <2>2, <2>3, RecollectedOf
<1>6. CASE ~c.scratch
  <2>1. /\ col' = c /\ tasks' = more \o Tail(tasks)
        /\ UNCHANGED <<line, search, deps, plan, phase>>
    BY <1>6 DEF Collected, More
  <2>2. /\ BuildsStay(col.bm, c.bm)
        /\ \A t \in ToSet(more) : Tasked("collect", world, before, line, c, ToSet(plan), t)
        /\ Head(tasks).op = "hold" => AsAsked(line, c, Head(tasks).name)
    BY <1>6
  <2>3. /\ Head(tasks) \in TaskRecords /\ Tail(tasks) \in Seq(TaskRecords)
        /\ ToSet(tasks) = {Head(tasks)} \cup ToSet(Tail(tasks))
    BY <1>1, TailSet
  <2>4. /\ tasks' \in Seq(TaskRecords) /\ ToSet(tasks') = ToSet(more) \cup ToSet(Tail(tasks))
    <3> DEFINE rest == Tail(tasks)
    <3>1. rest \in Seq(TaskRecords) /\ tasks' = more \o rest
      BY <2>1, <2>3
    <3> HIDE DEF rest
    <3>2. tasks' \in Seq(TaskRecords) /\ ToSet(tasks') = ToSet(more) \cup ToSet(rest)
      BY <3>1, ConcatSet
    <3> QED
      BY <3>2 DEF rest
  <2>5. Undisturbed'
    <3>1. plan = <<>>
      BY DEF Inv, Undisturbed
    <3> QED
      BY <1>1, <1>2, <2>1, <3>1, UndisturbedStays DEF Inv, BuildPhases, OfBuild, Stages
  <2>6. \A t \in ToSet(tasks') : Tasked("collect", world, before, line, c, ToSet(plan), t)
    BY <1>1, <2>2, <2>3, <2>4, TaskedStays
  <2>7. Tasking'
    <3>1. search \in Searches
      BY DEF Inv, Tasking
    <3> QED
      BY <1>2, <2>1, <2>4, <2>6, <3>1 DEF Tasking
  <2>8. Collecting'
    <3>1. ASSUME NEW p \in DOMAIN line.hold
          PROVE  AsAsked(line, c, p) \/ (phase = "collect" /\ Do("hold", p) \in ToSet(tasks'))
      <4>1. CASE AsAsked(line, col, p)
        BY <1>4, <2>2, <4>1, AsAskedStays
      <4>2. CASE Do("hold", p) \in ToSet(Tail(tasks))
        BY <2>4, <4>2
      <4>3. CASE Do("hold", p) = Head(tasks)
        BY <2>2, <4>3, DoOf
      <4>4. AsAsked(line, col, p) \/ Do("hold", p) \in ToSet(tasks)
        BY <1>1 DEF Inv, Collecting
      <4> QED
        BY <2>3, <4>1, <4>2, <4>3, <4>4
    <3>2. Commanded'
      BY <1>1, <1>2, <2>1 DEF Commanded
    <3> QED
      BY <1>1, <1>2, <2>1, <3>1, <3>2 DEF Collecting
  <2> QED
    BY <1>2, <1>3, <2>1, <2>5, <2>7, <2>8, BetweenPlans
<1> QED
  BY <1>5, <1>6

---------------------------------------------------------------------------
(* The end of a command, and the collection.                                *)
\* A command that ends leaves nothing of itself.
LEMMA FinishedOf ==
    ASSUME Inv, phase # "idle", NEW how, Finish(how), Kept,
           Configuration(world, selected'), Config!PrerequisitesHeld',
           how # "ok" \/ (UnusedDropped' /\ RequestMet')
    PROVE  Inv'
<1>1. /\ phase' = "idle" /\ outcome' = how /\ line' = NoLine /\ deps' = <<>> /\ tasks' = <<>>
      /\ search' = NoSearch /\ plan' = <<>>
      /\ UNCHANGED <<world, req, before>>
  BY DEF Finish, Kept
<1>2. Undisturbed'
  <2>1. Configuration(world, before)'
    BY <1>1 DEF Inv, Undisturbed, Configuration
  <2>2. Configuration(world, selected)'
    BY <1>1 DEF Configuration
  <2> QED
    BY <1>1, <2>1, <2>2 DEF Inv, Undisturbed, OfBuild, BuildPhases, Stages
<1>3. Collecting'
  BY <1>1 DEF Collecting, Commanded
<1>4. Tasking'
  <2>1. ToSet(<<>>) = {} /\ <<>> \in Seq(TaskRecords)
    BY EmptySeqOf DEF ToSet
  <2>2. NoSearch \in Searches
    BY EmptySeqOf DEF NoSearch, Searches
  <2> QED
    BY <1>1, <2>1, <2>2 DEF Tasking
<1>5. Ordering' /\ Simulating' /\ Progressing' /\ Dropping'
  BY <1>1 DEF Ordering, Simulating, Progressing, Dropping, Planning, Stages
<1>6. Judging'
  BY <1>1 DEF Judging, Commanded, AdjustmentsNeeded
<1>7. UnusedDropped' /\ RequestMet'
  BY <1>1 DEF UnusedDropped, RequestMet, Ended
<1> QED
  BY <1>2, <1>3, <1>4, <1>5, <1>6, <1>7 DEF Inv

\* A command that ends this way has changed nothing by it.
LEMMA EndsOf ==
    ASSUME Inv, phase # "idle", NEW how, Ends(how), how # "ok"
    PROVE  Inv'
<1>1. UNCHANGED <<world, selected, req, before, commands>> /\ Finish(how)
  BY DEF Ends
<1>2. Configuration(world, selected')
  BY <1>1 DEF Inv, Undisturbed, Configuration
<1>3. Config!PrerequisitesHeld'
  BY <1>1 DEF Inv, Undisturbed, Config!PrerequisitesHeld, Config!Configured, Config!Satisfied
<1> QED
  BY <1>1, <1>2, <1>3, FinishedOf DEF Kept

\* A command that fails.
LEMMA FailsOf ==
    ASSUME Inv, phase # "idle", Fail \/ FailAssertion \/ Refused
    PROVE  Inv'
BY EndsOf DEF Fail, FailAssertion, Refused

\* The fields of a task.
LEMMA TaskOf ==
    ASSUME NEW t \in TaskRecords
    PROVE  /\ t.name \in Pkgs
           /\ t.op = "depend" => t.at \in Nat \ {0}
           /\ t.op = "replaced" => t.version \in Versions \cup {0}
           /\ t.op = "dependent" => t.of \in Pkgs
           /\ t.op = "consider" => t.refused \in Seq(Pkgs) /\ t.versions \subseteq Versions
           /\ t.op = "dependents" => t.refused \in Seq(Pkgs)
BY DEF TaskRecords

\* The first task.
LEMMA HeadOf ==
    ASSUME Inv, NEW op, Task(op)
    PROVE  /\ phase # "idle" /\ tasks # <<>> /\ Head(tasks) \in TaskRecords
           /\ Head(tasks).op = op /\ op \in Ops(phase)
           /\ Tasked(phase, world, before, line, col, ToSet(plan), Head(tasks))
           /\ Head(tasks) \in ToSet(tasks)
<1>1. tasks # <<>> /\ Head(tasks).op = op
  BY DEF Task
<1>2. tasks \in Seq(TaskRecords)
  BY DEF Inv, Tasking
<1>3. Head(tasks) \in TaskRecords /\ Head(tasks) \in ToSet(tasks)
  BY <1>1, <1>2, TailSet
<1>4. Tasked(phase, world, before, line, col, ToSet(plan), Head(tasks))
  BY <1>3 DEF Inv, Tasking
<1>5. op \in Ops(phase)
  BY <1>1, <1>4 DEF Tasked
<1>6. phase # "idle"
  BY <1>5 DEF Ops
<1> QED
  BY <1>1, <1>3, <1>4, <1>5, <1>6

\* The steps of the collection keep the invariant.
LEMMA CollectHoldKeeps == ASSUME Inv, CollectHold PROVE Inv'
<1> DEFINE p == Head(tasks).name
           c == CollectBuild(col, p, HoldBuild(p))
<1>1. Task("hold") /\ Collected(c, <<>>)
  BY DEF CollectHold
<1>2. /\ tasks # <<>> /\ Head(tasks) \in TaskRecords
      /\ Head(tasks).op = "hold" /\ "hold" \in Ops(phase)
      /\ Tasked(phase, world, before, line, col, ToSet(plan), Head(tasks))
  BY <1>1, HeadOf
<1>3. phase = "collect"
  BY <1>2 DEF Ops
<1>4. AtWork
  BY <1>3, WorkOf DEF OfBuild, BuildPhases
<1>5. p \in Pkgs /\ p \in DOMAIN line.hold
  BY <1>2, TaskOf DEF Tasked
<1> DEFINE b == HoldBuild(p)
<1>6. Entering(world, before, line, p, b) /\ EnteredAsAsked(line, p, b)
  BY <1>4, <1>5, HoldBuildOf DEF AtWork
<1>7. /\ Collects(world, before, line, c)
      /\ c.scratch \/ (BuildsStay(col.bm, c.bm) /\ AsAsked(line, c, p))
  <2> HIDE DEF b, p
  <2>1. /\ Collects(world, before, line, CollectBuild(col, p, b))
        /\ CollectBuild(col, p, b).scratch
           \/ (/\ BuildsStay(col.bm, CollectBuild(col, p, b).bm)
               /\ EnteredAsAsked(line, p, b) => AsAsked(line, CollectBuild(col, p, b), p))
    BY <1>4, <1>5, <1>6, CollectBuildOf DEF AtWork
  <2> QED
    BY <1>6, <2>1 DEF b
<1>8. <<>> \in Seq(TaskRecords) /\ \A t \in ToSet(<<>>) : FALSE
  BY EmptySeqOf DEF ToSet
<1> HIDE DEF c
<1> QED
  BY <1>1, <1>2, <1>3, <1>7, <1>8, CollectedOf

LEMMA CollectPrerequisitesKeeps == ASSUME Inv, CollectPrerequisites PROVE Inv'
<1> DEFINE p == Head(tasks).name
           pruned == col.bm[p].collected \/ Pruned(selected, col.bm, p)
           c == [col EXCEPT !.bm[p].recursive = TRUE, !.bm[p].collected = @ \/ ~pruned]
           more == IF pruned THEN <<>> ELSE <<Dependency(p, 1)>>
<1>1. /\ Task("prerequisites")
      /\ IF ~Has(col, p) \/ col.bm[p].action # "build" THEN FailAssertion
         ELSE Collected(c, more)
  BY DEF CollectPrerequisites
<1>2. /\ phase # "idle" /\ tasks # <<>> /\ Head(tasks) \in TaskRecords
      /\ Head(tasks).op = "prerequisites" /\ "prerequisites" \in Ops(phase)
  BY <1>1, HeadOf
<1>3. phase = "collect"
  BY <1>2 DEF Ops
<1>4. AtWork
  BY <1>3, WorkOf DEF OfBuild, BuildPhases
<1>5. p \in Pkgs
  BY <1>2, TaskOf
<1>6. CASE FailAssertion
  BY <1>2, <1>6, FailsOf
<1>7. CASE ~FailAssertion
  <2>1. Collected(c, more) /\ p \in DOMAIN col.bm /\ col.bm[p].action = "build"
    BY <1>1, <1>7 DEF Has
  <2>2. PICK b \in Entries : b = col.bm[p] /\ Enterable(world, before, line, p, b)
    BY <1>4, <2>1 DEF AtWork, Maps
  <2> DEFINE collected == b.collected \/ ~pruned
             new == [b EXCEPT !.recursive = TRUE, !.collected = collected]
  <2>3. /\ new \in Entries /\ new.action = b.action /\ new.version = b.version
        /\ new.hold = b.hold /\ new.holdVersion = b.holdVersion
    <3>1. PICK x \in BOOLEAN : x = collected
      OBVIOUS
    <3>2. PICK y \in BOOLEAN : y = TRUE
      OBVIOUS
    <3>3. new = [b EXCEPT !.recursive = y, !.collected = x]
      BY <3>1, <3>2
    <3> HIDE DEF new, collected
    <3> QED
      BY <2>2, <3>3 DEF Entries
  <2>4. /\ IsCollection(c) /\ c.bm = [col.bm EXCEPT ![p] = new] /\ c.replaced = col.replaced
        /\ c.unsat = col.unsat /\ c.scratch = col.scratch
    <3>1. IsCollection(col)
      BY <1>4, CollectsIff DEF AtWork
    <3> DEFINE m == [col.bm EXCEPT ![p] = new]
    <3>2. c = [col EXCEPT !.bm = m]
      BY <2>1, <2>2, <3>1 DEF IsCollection
    <3> HIDE DEF c, m
    <3>3. /\ IsCollection(c) /\ c.bm = m /\ c.replaced = col.replaced
          /\ c.unsat = col.unsat /\ c.scratch = col.scratch
      BY <3>1, <3>2 DEF IsCollection
    <3> QED
      BY <3>3 DEF m
  <2> HIDE DEF c, new
  <2>5. Enterable(world, before, line, p, new) /\ Stays(b, new)
    BY <2>1, <2>2, <2>3 DEF Enterable, Stays
  <2>6. /\ Maps(world, before, line, Put(col.bm, p, new)) /\ c.bm = Put(col.bm, p, new)
        /\ BuildsStay(col.bm, Put(col.bm, p, new))
    BY <1>4, <1>5, <2>1, <2>2, <2>3, <2>4, <2>5, MapsPut DEF AtWork
  <2>7. Collects(world, before, line, c)
    <3>1. col.unsat \in Seq(Unsatisfieds) /\ col.scratch \in BOOLEAN
          /\ Replacing(world, before, line, col.replaced)
      BY <1>4, CollectsIff DEF AtWork
    <3> QED
      BY <2>4, <2>6, <3>1, CollectsIff
  <2>8. /\ more \in Seq(TaskRecords)
        /\ \A t \in ToSet(more) : Tasked("collect", world, before, line, c, ToSet(plan), t)
    <3>1. CASE more = <<>>
      BY <3>1, EmptySeqOf DEF ToSet
    <3>2. CASE more = <<Dependency(p, 1)>>
      <4>1. /\ Dependency(p, 1) \in TaskRecords /\ Dependency(p, 1).op = "depend"
            /\ Dependency(p, 1).name = p
        BY <1>5 DEF Dependency, TaskRecords
      <4>2. Building(c, p)
        BY <2>1, <2>6 DEF Building, BuildsStay, Stays
      <4>3. Tasked("collect", world, before, line, c, ToSet(plan), Dependency(p, 1))
        BY <4>1, <4>2 DEF Tasked, Ops
      <4>4. ToSet(more) = {Dependency(p, 1)}
        BY <3>2 DEF ToSet
      <4> QED
        BY <3>2, <4>1, <4>3, <4>4, PairOf
    <3> QED
      BY <3>1, <3>2
  <2> HIDE DEF more
  <2> QED
    BY <1>2, <1>3, <2>1, <2>6, <2>7, <2>8, CollectedOf
<1> QED
  BY <1>6, <1>7

\* A build for a dependency, or one decided.
LEMMA EnteringOf ==
    ASSUME NEW w, NEW sel, NEW l, NEW p \in Pkgs, NEW v \in Versions,
           Buildable(w, sel, p, v), NEW ks \in Seq(Constraints)
    PROVE  /\ Entering(w, sel, l, p, [BuildPackage("build", v) EXCEPT !.byDependents = TRUE,
                                                                     !.constraints = ks])
           /\ Entering(w, sel, l, p, [BuildPackage("build", v) EXCEPT !.user = TRUE])
<1>1. PICK b \in Entries : /\ b = BuildPackage("build", v) /\ b.action = "build" /\ b.version = v
                           /\ ~b.hold /\ b.holdVersion = 0
  BY BuildPackageOf
<1>2. PICK yes \in BOOLEAN : yes = TRUE
  OBVIOUS
<1> DEFINE x == [b EXCEPT !.byDependents = yes, !.constraints = ks]
           y == [b EXCEPT !.user = yes]
<1>3. /\ x \in Entries /\ x.action = "build" /\ x.version = v /\ ~x.hold /\ x.holdVersion = 0
  BY <1>1 DEF Entries
<1>4. /\ y \in Entries /\ y.action = "build" /\ y.version = v /\ ~y.hold /\ y.holdVersion = 0
  BY <1>1 DEF Entries
<1>5. /\ x = [BuildPackage("build", v) EXCEPT !.byDependents = TRUE, !.constraints = ks]
      /\ y = [BuildPackage("build", v) EXCEPT !.user = TRUE]
  BY <1>1, <1>2
<1> HIDE DEF x, y
<1>6. Entering(w, sel, l, p, x) /\ Entering(w, sel, l, p, y)
  BY <1>3, <1>4 DEF Entering, Enterable
<1> QED
  BY <1>5, <1>6

\* A version that is found for a dependency can be built.
LEMMA CandidatesOf ==
    ASSUME NEW w \in Worlds, NEW sel, Configuration(w, sel), NEW d \in Pkgs,
           NEW allowed \in SUBSET Versions, sel[d].state # "broken",
           NEW v \in Candidates(w, sel, d, allowed)
    PROVE  v \in Versions /\ Buildable(w, sel, d, v)
<1>1. v \in w.available[d] /\ v \in Versions
  <2>1. CASE sel[d].version \in allowed
    <3>1. sel[d].state # "none"
      BY <2>1, VersionsAssumption DEF Configuration, None, Config!NoPackage
    <3> QED
      BY <2>1, <3>1 DEF Candidates, Configuration
  <2>2. CASE sel[d].version \notin allowed
    BY <2>2 DEF Candidates
  <2> QED
    BY <2>1, <2>2
<1> QED
  BY <1>1 DEF Buildable

\* The task of a dependency.
LEMMA DependencyOf ==
    ASSUME NEW p \in Pkgs, NEW i \in Nat \ {0}
    PROVE  /\ Dependency(p, i) \in TaskRecords /\ Dependency(p, i).op = "depend"
           /\ Dependency(p, i).name = p
BY DEF Dependency, TaskRecords

\* The elements of a sequence of one or two.
LEMMA PairSet ==
    ASSUME NEW x, NEW y
    PROVE  ToSet(<<x>>) = {x} /\ ToSet(<<x, y>>) = {x, y}
<1>1. ToSet(<<x>>) = {x}
  BY DEF ToSet
<1>2. DOMAIN <<x, y>> = {1, 2} /\ <<x, y>>[1] = x /\ <<x, y>>[2] = y
  OBVIOUS
<1>3. ToSet(<<x, y>>) = {<<x, y>>[k] : k \in {1, 2}}
  BY <1>2 DEF ToSet
<1>4. {<<x, y>>[k] : k \in {1, 2}} = {x, y}
  BY <1>2
<1> QED
  BY <1>1, <1>3, <1>4

\* No tasks.
LEMMA NothingMore == <<>> \in Seq(TaskRecords) /\ \A t : t \notin ToSet(<<>>)
BY EmptySeqOf DEF ToSet

\* A version decided for a dependency.
LEMMA CollectReplacedKeeps == ASSUME Inv, CollectReplaced PROVE Inv'
<1> DEFINE p == Head(tasks).name
           v == Head(tasks).version
           b == [BuildPackage("build", v) EXCEPT !.user = TRUE]
           c == IF v = 0 THEN CollectDrop(col, p) ELSE CollectBuild(col, p, b)
           more == IF v = 0 \/ c.scratch \/ c.bm[p].action # "build" THEN <<>>
                   ELSE <<Do("prerequisites", p)>>
<1>1. Task("replaced") /\ Collected(c, more)
  BY DEF CollectReplaced
<1>2. /\ tasks # <<>> /\ Head(tasks) \in TaskRecords
      /\ Head(tasks).op = "replaced" /\ "replaced" \in Ops(phase)
      /\ Tasked(phase, world, before, line, col, ToSet(plan), Head(tasks))
  BY <1>1, HeadOf
<1>3. phase = "collect"
  BY <1>2 DEF Ops
<1>4. AtWork
  BY <1>3, WorkOf DEF OfBuild, BuildPhases
<1>5. p \in Pkgs /\ v \in Versions \cup {0}
  BY <1>2, TaskOf
<1>6. IF v = 0 THEN Droppable(before, line, p) ELSE Buildable(world, before, p, v)
  BY <1>2 DEF Tasked, Decides
<1>7. Collects(world, before, line, c) /\ (c.scratch \/ BuildsStay(col.bm, c.bm))
  <2>1. CASE v = 0
    BY <1>4, <1>5, <1>6, <2>1, CollectDropOf DEF AtWork
  <2>2. CASE v # 0
    <3>1. v \in Versions /\ Buildable(world, before, p, v) /\ <<>> \in Seq(Constraints)
      BY <1>5, <1>6, <2>2, EmptySeqOf
    <3> HIDE DEF p, v
    <3>2. Entering(world, before, line, p, b)
      BY <1>5, <3>1, EnteringOf
    <3> DEFINE built == CollectBuild(col, p, b)
    <3>4. built = c
      BY <2>2
    <3>5. built = CollectBuild(col, p, b)
      OBVIOUS
    <3> HIDE DEF b, built, c
    <3>3. Collects(world, before, line, built) /\ (built.scratch \/ BuildsStay(col.bm, built.bm))
      BY <1>4, <1>5, <3>2, <3>5, CollectBuildOf DEF AtWork
    <3> QED
      BY <3>3, <3>4
  <2> QED
    BY <2>1, <2>2
<1>8. /\ more \in Seq(TaskRecords)
      /\ \A t \in ToSet(more) : Tasked("collect", world, before, line, c, ToSet(plan), t)
  <2>1. CASE more = <<>>
    BY <2>1, NothingMore
  <2>2. CASE more = <<Do("prerequisites", p)>>
    <3>1. Do("prerequisites", p) \in TaskRecords
      BY <1>5 DEF Do, TaskRecords
    <3>2. ToSet(more) = {Do("prerequisites", p)}
      BY <2>2, PairSet
    <3>3. Tasked("collect", world, before, line, c, ToSet(plan), Do("prerequisites", p))
      BY DEF Tasked, Ops, Do
    <3> QED
      BY <2>2, <3>1, <3>2, <3>3, PairOf
  <2> QED
    BY <2>1, <2>2
<1> HIDE DEF c, more
<1> QED
  BY <1>1, <1>2, <1>3, <1>7, <1>8, CollectedOf

\* The dependencies of a package that is built.
LEMMA DependsOf ==
    ASSUME NEW w \in Worlds, NEW p \in Pkgs, NEW v \in w.available[p]
    PROVE  /\ Depends(w, p, v) \in Seq([name : Pkgs, allowed : SUBSET Versions])
           /\ \A i, j \in DOMAIN Depends(w, p, v) :
                 Depends(w, p, v)[i].name = Depends(w, p, v)[j].name => i = j
BY WorldsAssumption

\* A dependency for which there is a version is entered as it may be.
LEMMA DependencyEntered ==
    ASSUME Inv, Task("depend")
    PROVE
        LET p == Head(tasks).name
            i == Head(tasks).at
            ds == Depends(world, p, col.bm[p].version)
            d == ds[i]
            entered == d.name \in DOMAIN col.bm /\ col.bm[d.name].action = "enter"
            user == IF entered THEN col.bm[d.name].constraints ELSE <<>>
            allowed == IF user # <<>> THEN user[1].allowed ELSE d.allowed
            imposed == [by |-> p, allowed |-> d.allowed]
            vs == Candidates(world, selected, d.name, allowed)
            b == [BuildPackage("build", CHOOSE v \in vs : TRUE) EXCEPT
                     !.byDependents = TRUE,
                     !.constraints = Append(user, imposed)]
            ignored == IF allowed \subseteq d.allowed THEN <<>>
                       ELSE <<Unsatisfied(p, d.name, <<imposed>>)>>
            col1 == [col EXCEPT !.unsat = Noted(@, ignored)]
        IN  ~(i > Len(ds)) /\ selected[d.name].state # "broken" /\ vs # {} =>
                /\ d.name \in Pkgs /\ Entering(world, before, line, d.name, b)
                /\ Collects(world, before, line, col1) /\ col1.bm = col.bm
<1> DEFINE p == Head(tasks).name
           i == Head(tasks).at
           ds == Depends(world, p, col.bm[p].version)
           d == ds[i]
           entered == d.name \in DOMAIN col.bm /\ col.bm[d.name].action = "enter"
           user == IF entered THEN col.bm[d.name].constraints ELSE <<>>
           allowed == IF user # <<>> THEN user[1].allowed ELSE d.allowed
           imposed == [by |-> p, allowed |-> d.allowed]
           vs == Candidates(world, selected, d.name, allowed)
           b == [BuildPackage("build", CHOOSE v \in vs : TRUE) EXCEPT
                    !.byDependents = TRUE,
                    !.constraints = Append(user, imposed)]
           ignored == IF allowed \subseteq d.allowed THEN <<>>
                      ELSE <<Unsatisfied(p, d.name, <<imposed>>)>>
           col1 == [col EXCEPT !.unsat = Noted(@, ignored)]
<1>1. /\ phase # "idle" /\ tasks # <<>> /\ Head(tasks) \in TaskRecords
      /\ Head(tasks).op = "depend" /\ "depend" \in Ops(phase)
      /\ Tasked(phase, world, before, line, col, ToSet(plan), Head(tasks))
  BY HeadOf
<1>2. phase = "collect"
  BY <1>1 DEF Ops
<1>3. AtWork /\ selected = before
  BY <1>2, WorkOf DEF OfBuild, BuildPhases, Inv, Undisturbed, Stages
<1>4. p \in Pkgs /\ i \in Nat \ {0} /\ Building(col, p)
  BY <1>1, TaskOf DEF Tasked
<1>5. ASSUME ~(i > Len(ds)) /\ selected[d.name].state # "broken" /\ vs # {}
      PROVE  /\ d.name \in Pkgs /\ Entering(world, before, line, d.name, b)
             /\ Collects(world, before, line, col1) /\ col1.bm = col.bm
  <2>1. /\ d \in [name : Pkgs, allowed : SUBSET Versions]
    <3>1. col.bm[p].version \in world.available[p] /\ world \in Worlds
      BY <1>3, <1>4 DEF AtWork, Maps, Building, Enterable, Buildable
    <3>2. ds \in Seq([name : Pkgs, allowed : SUBSET Versions])
      BY <1>4, <3>1, DependsOf
    <3>3. i \in 1..Len(ds)
      <4> DEFINE n == Len(ds)
      <4>1. n \in Nat /\ ~(i > n)
        BY <1>5, <3>2, LenProperties
      <4> HIDE DEF n
      <4>2. i \in 1..n
        BY <1>4, <4>1
      <4> QED
        BY <4>2 DEF n
    <3> QED
      BY <3>2, <3>3, ElementOfSeq
  <2> DEFINE q == d.name
  <2>2. q \in Pkgs /\ d.allowed \subseteq Versions
    BY <2>1
  <2>3. user \in Seq(Constraints)
    <3>1. CASE entered
      <4>1. col.bm[q] \in Entries
        BY <1>3, <3>1 DEF AtWork, Maps
      <4> QED
        BY <3>1, <4>1 DEF Entries
    <3>2. CASE ~entered
      BY <3>2, EmptySeqOf
    <3> QED
      BY <3>1, <3>2
  <2>4. allowed \in SUBSET Versions
    <3>1. CASE user # <<>>
      <4>1. user[1] \in Constraints
        <5> HIDE DEF user
        <5> QED
          BY <2>3, <3>1, EmptySeq, LenProperties, ElementOfSeq
      <4>2. user[1].allowed \subseteq Versions
        <5> HIDE DEF user
        <5> QED
          BY <4>1 DEF Constraints
      <4> QED
        BY <3>1, <4>2
    <3>2. CASE user = <<>>
      BY <2>2, <3>2
    <3> QED
      BY <3>1, <3>2
  <2>5. imposed \in Constraints
    BY <1>4, <2>2 DEF Constraints
  <2> DEFINE v == CHOOSE x \in vs : TRUE
             ks == Append(user, imposed)
  <2>6. v \in vs
    BY <1>5
  <2> HIDE DEF allowed, user, imposed
  <2>7. v \in Versions /\ Buildable(world, before, q, v)
    <3> DEFINE u == v
    <3>1. /\ u \in Candidates(world, before, q, allowed) /\ before[q].state # "broken"
          /\ world \in Worlds /\ Configuration(world, before)
      BY <1>3, <1>5, <2>6 DEF AtWork
    <3> HIDE DEF u, q
    <3>2. u \in Versions /\ Buildable(world, before, q, u)
      BY <2>2, <2>4, <3>1, CandidatesOf
    <3> QED
      BY <3>2 DEF u
  <2>8. ks \in Seq(Constraints)
    BY <2>3, <2>5, AppendSet
  <2>9. ignored \in Seq(Unsatisfieds)
    <3>1. CASE ignored = <<>>
      BY <3>1, EmptySeqOf
    <3>2. CASE ignored = <<Unsatisfied(p, q, <<imposed>>)>>
      <4>1. <<imposed>> \in Seq(Constraints)
        BY <2>5, PairOf
      <4>2. Unsatisfied(p, q, <<imposed>>) \in Unsatisfieds
        BY <1>4, <2>2, <4>1, UnsatisfiedOf
      <4> QED
        BY <3>2, <4>2, PairOf
    <3> QED
      BY <3>1, <3>2
  <2>10. b = [BuildPackage("build", v) EXCEPT !.byDependents = TRUE, !.constraints = ks]
    OBVIOUS
  <2> HIDE DEF v, ks, ignored, b
  <2>11. Entering(world, before, line, q, b)
    <3> HIDE DEF q
    <3> QED
      BY <2>2, <2>7, <2>8, <2>10, EnteringOf
  <2>12. Collects(world, before, line, col1) /\ col1.bm = col.bm
    <3>1. /\ Collection(col) /\ IsCollection(col) /\ col.unsat \in Seq(Unsatisfieds)
          /\ Collects(world, before, line, col)
      BY <1>3, CollectsIff DEF AtWork, Collection, Collects
    <3>2. Noted(col.unsat, ignored) \in Seq(Unsatisfieds)
      BY <2>9, <3>1, NotedOf
    <3> DEFINE noted == Noted(col.unsat, ignored)
    <3>3. col1 = [col EXCEPT !.unsat = noted]
      OBVIOUS
    <3> HIDE DEF col1, noted
    <3>4. /\ IsCollection(col1) /\ col1.bm = col.bm /\ col1.replaced = col.replaced
          /\ col1.unsat = noted /\ col1.scratch = col.scratch
      BY <3>1, <3>3 DEF IsCollection
    <3> QED
      BY <3>1, <3>2, <3>4, CollectsIff DEF noted
  <2> QED
    BY <2>2, <2>11, <2>12
<1> QED
  BY <1>5

\* A dependency, its constraint and whether it can be satisfied.
LEMMA CollectDependencyKeeps == ASSUME Inv, CollectDependency PROVE Inv'
<1> DEFINE p == Head(tasks).name
           i == Head(tasks).at
           ds == Depends(world, p, col.bm[p].version)
           d == ds[i]
           entered == d.name \in DOMAIN col.bm /\ col.bm[d.name].action = "enter"
           user == IF entered THEN col.bm[d.name].constraints ELSE <<>>
           allowed == IF user # <<>> THEN user[1].allowed ELSE d.allowed
           imposed == [by |-> p, allowed |-> d.allowed]
           vs == Candidates(world, selected, d.name, allowed)
           b == [BuildPackage("build", CHOOSE v \in vs : TRUE) EXCEPT
                    !.byDependents = TRUE,
                    !.constraints = Append(user, imposed)]
           ignored == IF allowed \subseteq d.allowed THEN <<>>
                      ELSE <<Unsatisfied(p, d.name, <<imposed>>)>>
           col1 == [col EXCEPT !.unsat = Noted(@, ignored)]
           c == CollectBuild(col1, d.name, b)
           next == Dependency(p, i + 1)
           more == IF c.scratch \/ c.bm[d.name].recursive THEN <<next>>
                   ELSE <<Do("prerequisites", d.name), next>>
<1>1. /\ Task("depend")
      /\ \/ i > Len(ds) /\ Collected(col, <<>>)
         \/ Fail
         \/ /\ ~(i > Len(ds)) /\ selected[d.name].state # "broken" /\ vs # {}
            /\ Collected(c, more)
  BY DEF CollectDependency
<1>2. /\ phase # "idle" /\ tasks # <<>> /\ Head(tasks) \in TaskRecords
      /\ Head(tasks).op = "depend" /\ "depend" \in Ops(phase)
      /\ Tasked(phase, world, before, line, col, ToSet(plan), Head(tasks))
  BY <1>1, HeadOf
<1>3. phase = "collect"
  BY <1>2 DEF Ops
<1>4. AtWork
  BY <1>3, WorkOf DEF OfBuild, BuildPhases
<1>5. p \in Pkgs /\ i \in Nat \ {0} /\ Building(col, p)
  BY <1>2, TaskOf DEF Tasked
<1>6. CASE Fail
  BY <1>2, <1>6, FailsOf
<1>7. CASE i > Len(ds) /\ Collected(col, <<>>)
  <2>1. Collects(world, before, line, col) /\ BuildsStay(col.bm, col.bm)
    BY <1>4, StaysItself DEF AtWork
  <2> QED
    BY <1>2, <1>3, <1>7, <2>1, NothingMore, CollectedOf
<1>8. CASE ~(i > Len(ds)) /\ selected[d.name].state # "broken" /\ vs # {} /\ Collected(c, more)
  <2> DEFINE q == d.name
  <2>1. /\ q \in Pkgs /\ Entering(world, before, line, q, b)
        /\ Collects(world, before, line, col1) /\ col1.bm = col.bm
    BY <1>1, <1>8, DependencyEntered
  <2> HIDE DEF entered, user, allowed, imposed, ignored, col1, b
  <2>2. /\ Collects(world, before, line, c)
        /\ c.scratch \/ BuildsStay(col.bm, c.bm)
    <3>1. c = CollectBuild(col1, q, b)
      OBVIOUS
    <3> HIDE DEF c, q
    <3> QED
      BY <1>4, <2>1, <3>1, CollectBuildOf DEF AtWork
  <2> HIDE DEF c
  <2>3. /\ next \in TaskRecords /\ next.op = "depend" /\ next.name = p
    <3>1. i + 1 \in Nat \ {0}
      BY <1>5
    <3> QED
      BY <1>5, <3>1, DependencyOf
  <2>4. /\ Do("prerequisites", q) \in TaskRecords
        /\ Tasked("collect", world, before, line, c, ToSet(plan), Do("prerequisites", q))
    BY <2>1 DEF Do, TaskRecords, Tasked, Ops
  <2> DEFINE prerequisites == Do("prerequisites", q)
  <2> HIDE DEF next, prerequisites
  <2>5. ~c.scratch => Tasked("collect", world, before, line, c, ToSet(plan), next)
    BY <1>5, <2>2, <2>3 DEF Tasked, Ops, Building, BuildsStay, Stays
  <2>6. /\ more \in Seq(TaskRecords) /\ \A t \in ToSet(more) : t = next \/ t = prerequisites
    <3>1. CASE more = <<next>>
      BY <2>3, <3>1, PairOf, PairSet
    <3>2. CASE more = <<prerequisites, next>>
      <4>1. prerequisites \in TaskRecords
        BY <2>4 DEF prerequisites
      <4> HIDE DEF more
      <4>2. more \in Seq(TaskRecords)
        BY <2>3, <3>2, <4>1, PairOf
      <4>3. ToSet(more) = {prerequisites, next}
        BY <3>2, PairSet
      <4> QED
        BY <4>2, <4>3
    <3> QED
      BY <3>1, <3>2 DEF prerequisites
  <2>7. Collected(c, more)
    BY <1>8
  <2> HIDE DEF more
  <2> QED
    BY <1>2, <1>3, <2>2, <2>4, <2>5, <2>6, <2>7, CollectedOf DEF prerequisites
<1> QED
  BY <1>1, <1>6, <1>7, <1>8

---------------------------------------------------------------------------
(* The dependents.                                                          *)
\* With the user selection collected, all that is asked for is in the map.
LEMMA AskedOf ==
    ASSUME Inv, AtWork, phase # "collect" \/ tasks = <<>>
    PROVE  \A p \in DOMAIN line.hold : AsAsked(line, col, p)
<1>1. tasks = <<>> => ToSet(tasks) = {}
  BY DEF ToSet
<1> QED
  BY <1>1 DEF Inv, Collecting, AtWork

\* Between two collections the collection only grows.
LEMMA MovedOf ==
    ASSUME Inv, AtWork, phase \in BuildPhases, phase # "collect" \/ tasks = <<>>,
           UNCHANGED <<world, selected, req, before, judged, line, deps, plan>>,
           phase' \in {"dependents", "kept", "search"},
           phase' = "dependents" => plan = <<>>,
           phase' \in {"kept", "search"} =>
              State(line.stack) \in judged.bad /\ line.index = NoRefinement /\ col'.unsat # <<>>,
           Collects(world, before, line, col'), BuildsStay(col.bm, col'.bm),
           tasks' \in Seq(TaskRecords), search' \in Searches,
           \A t \in ToSet(tasks') : Tasked(phase', world, before, line, col', ToSet(plan), t)
    PROVE  Inv'
<1>1. Undisturbed'
  BY UndisturbedStays DEF AtWork, Inv, BuildPhases, Stages, OfBuild
<1>2. Collecting'
  <2>1. Commanded'
    BY DEF Commanded, AtWork
  <2>2. Maps(world, before, line, col'.bm)
    BY CollectsIff
  <2>3. \A p \in DOMAIN line.hold : AsAsked(line, col, p)
    BY AskedOf
  <2>4. \A p \in DOMAIN line.hold : AsAsked(line, col', p)
    BY <2>2, <2>3, AsAskedStays
  <2> QED
    BY <2>1, <2>4 DEF Collecting, AtWork
<1>3. Tasking'
  BY DEF Tasking
<1>4. Refining(judged'.bad, line')
  BY RefiningOf DEF AtWork
<1> QED
  BY <1>1, <1>2, <1>3, <1>4, BetweenPlans

\* The visits that collecting dependents begins with.
LEMMA VisitsOf ==
    ASSUME NEW ps \in Seq(Pkgs), NEW ph \in {"dependents", "kept"},
           NEW w, NEW sel, NEW l, NEW c, NEW qs
    PROVE  /\ Tasks("visit", ps) \in Seq(TaskRecords)
           /\ \A t \in ToSet(Tasks("visit", ps)) : Tasked(ph, w, sel, l, c, qs, t)
<1>1. /\ Tasks("visit", ps) \in Seq(TaskRecords)
      /\ ToSet(Tasks("visit", ps)) = {Do("visit", p) : p \in ToSet(ps)}
  BY TasksOf
<1>2. \A p : Tasked(ph, w, sel, l, c, qs, Do("visit", p))
  BY DEF Tasked, Do, Ops
<1> QED
  BY <1>1, <1>2

\* The search, one package more.
LEMMA SearchesOf ==
    ASSUME NEW s \in Searches
    PROVE  /\ NoSearch \in Searches
           /\ s.deps \subseteq Pkgs /\ s.dpts \subseteq Pkgs
           /\ s.tried \in Seq([name : Pkgs, refused : Seq(Pkgs)])
           /\ \A p \in Pkgs : /\ [s EXCEPT !.deps = @ \cup {p}] \in Searches
                              /\ [s EXCEPT !.dpts = @ \cup {p}] \in Searches
           /\ [s EXCEPT !.tried = <<>>] \in Searches
           /\ \A t \in [name : Pkgs, refused : Seq(Pkgs)] :
                 [s EXCEPT !.tried = Append(@, t)] \in Searches
<1>1. NoSearch \in Searches
  BY EmptySeqOf DEF NoSearch, Searches
<1>2. /\ s.deps \subseteq Pkgs /\ s.dpts \subseteq Pkgs
      /\ s.tried \in Seq([name : Pkgs, refused : Seq(Pkgs)])
      /\ s = [deps |-> s.deps, dpts |-> s.dpts, tried |-> s.tried]
  BY DEF Searches
<1>3. \A p \in Pkgs : /\ [s EXCEPT !.deps = @ \cup {p}] \in Searches
                      /\ [s EXCEPT !.dpts = @ \cup {p}] \in Searches
  BY DEF Searches
<1>4. ASSUME NEW ts \in Seq([name : Pkgs, refused : Seq(Pkgs)])
      PROVE  [s EXCEPT !.tried = ts] \in Searches
  BY DEF Searches
<1>5. [s EXCEPT !.tried = <<>>] \in Searches
  BY <1>4, EmptySeqOf
<1>6. ASSUME NEW t \in [name : Pkgs, refused : Seq(Pkgs)]
      PROVE  [s EXCEPT !.tried = Append(@, t)] \in Searches
  <2>1. Append(s.tried, t) \in Seq([name : Pkgs, refused : Seq(Pkgs)])
    BY <1>2, AppendSet
  <2> QED
    BY <1>2, <1>4, <2>1
<1> QED
  BY <1>1, <1>2, <1>3, <1>5, <1>6

\* The end of a collection.
LEMMA FinishCollectionKeeps == ASSUME Inv, FinishCollection PROVE Inv'
<1> DEFINE c == [col EXCEPT !.bm = CancelDrops(@)]
           ps == Roots(selected, c.bm, TRUE)
<1>1. phase = "collect" /\ tasks = <<>> /\ phase' = "dependents" /\ Visit(c, ps)
  BY DEF FinishCollection
<1>2. AtWork /\ plan = <<>>
  BY <1>1, WorkOf DEF OfBuild, BuildPhases, Inv, Undisturbed
<1>3. /\ col' = c /\ tasks' = Tasks("visit", ps) /\ search' = NoSearch
      /\ UNCHANGED <<world, selected, req, before, judged, line, deps, plan>>
  BY <1>1 DEF Visit, Staying
<1>4. /\ Collects(world, before, line, c) /\ BuildsStay(col.bm, c.bm)
  <2> DEFINE m == CancelDrops(col.bm)
  <2>1. IsCollection(col) /\ col.unsat \in Seq(Unsatisfieds) /\ col.scratch \in BOOLEAN
        /\ Maps(world, before, line, col.bm) /\ Replacing(world, before, line, col.replaced)
    BY <1>2, CollectsIff DEF AtWork
  <2>2. Maps(world, before, line, m) /\ BuildsStay(col.bm, m)
    BY <2>1, CancelDropsOf
  <2>3. c = [col EXCEPT !.bm = m]
    OBVIOUS
  <2> HIDE DEF c, m
  <2>4. /\ IsCollection(c) /\ c.bm = m /\ c.replaced = col.replaced
        /\ c.unsat = col.unsat /\ c.scratch = col.scratch
    BY <2>1, <2>3 DEF IsCollection
  <2> QED
    BY <2>1, <2>2, <2>4, CollectsIff
<1>5. ps \in Seq(Pkgs)
  BY ListedOf DEF Roots
<1> HIDE DEF c, ps
<1>6. /\ tasks' \in Seq(TaskRecords)
      /\ \A t \in ToSet(tasks') : Tasked("dependents", world, before, line, c, ToSet(plan), t)
  BY <1>3, <1>5, VisitsOf
<1>7. search' \in Searches
  BY <1>3, SearchesOf DEF Inv, Tasking
<1> QED
  BY <1>1, <1>2, <1>3, <1>4, <1>6, <1>7, MovedOf DEF BuildPhases

\* The first step of an adjustment.
LEMMA AdjustKeeps == ASSUME Inv, Adjust PROVE Inv'
<1> DEFINE ps == Roots(selected, col.bm, FALSE)
<1>1. /\ phase = "adjust" /\ col.unsat # <<>> /\ line.index = NoRefinement
      /\ phase' = "kept" /\ Visit(col, ps)
  BY DEF Adjust, Adjusting
<1>2. AtWork /\ State(line.stack) \in judged.bad
  <2>1. AtWork
    BY <1>1, WorkOf DEF OfBuild, BuildPhases
  <2> QED
    BY <1>1, <2>1 DEF Inv, Judging
<1>3. /\ col' = col /\ tasks' = Tasks("visit", ps) /\ search' = NoSearch
      /\ UNCHANGED <<world, selected, req, before, judged, line, deps, plan>>
  BY <1>1 DEF Visit, Staying
<1>5. ps \in Seq(Pkgs)
  BY ListedOf DEF Roots
<1> HIDE DEF ps
<1>6. /\ tasks' \in Seq(TaskRecords)
      /\ \A t \in ToSet(tasks') : Tasked("kept", world, before, line, col, ToSet(plan), t)
  BY <1>3, <1>5, VisitsOf
<1>7. search' \in Searches
  BY <1>3, SearchesOf DEF Inv, Tasking
<1>8. Collects(world, before, line, col) /\ BuildsStay(col.bm, col.bm) /\ col'.unsat # <<>>
  BY <1>1, <1>2, <1>3, StaysItself DEF AtWork
<1> QED
  BY <1>1, <1>2, <1>3, <1>6, <1>7, <1>8, MovedOf DEF BuildPhases

\* The tasks that follow the first one.
LEMMA MoreOf ==
    ASSUME tasks \in Seq(TaskRecords), tasks # <<>>, NEW more \in Seq(TaskRecords), More(more)
    PROVE  /\ tasks' \in Seq(TaskRecords)
           /\ ToSet(tasks) = {Head(tasks)} \cup ToSet(Tail(tasks))
           /\ ToSet(tasks') = ToSet(more) \cup ToSet(Tail(tasks))
<1>1. Tail(tasks) \in Seq(TaskRecords) /\ ToSet(tasks) = {Head(tasks)} \cup ToSet(Tail(tasks))
  BY TailSet
<1> DEFINE rest == Tail(tasks)
<1>2. rest \in Seq(TaskRecords) /\ tasks' = more \o rest
  BY <1>1 DEF More
<1> HIDE DEF rest
<1>3. tasks' \in Seq(TaskRecords) /\ ToSet(tasks') = ToSet(more) \cup ToSet(rest)
  BY <1>2, ConcatSet
<1> QED
  BY <1>1, <1>3 DEF rest

\* A sequence made of another.
Mapped(f, s) == [i \in DOMAIN s |-> f[s[i]]]

\* The elements it is made of.
ImageOf(f, s) == {f[x] : x \in ToSet(s)}

\* Its elements.
LEMMA MappedOf ==
    ASSUME NEW T, NEW s \in Seq(T), NEW U, NEW f \in [T -> U]
    PROVE  /\ Mapped(f, s) \in Seq(U)
           /\ ToSet(Mapped(f, s)) = ImageOf(f, s)
<1> DEFINE g == [i \in DOMAIN s |-> f[s[i]]]
<1>1. DOMAIN s = 1..Len(s) /\ Len(s) \in Nat /\ \A i \in 1..Len(s) : s[i] \in T
  BY SetOf
<1>2. g = [i \in 1..Len(s) |-> f[s[i]]]
  BY <1>1
<1>3. g \in [1..Len(s) -> U]
  BY <1>1, <1>2
<1>4. g \in Seq(U)
  BY <1>1, <1>3, SeqIs
<1>5. \A x : x \in ToSet(s) <=> \E i \in 1..Len(s) : s[i] = x
  BY SetOf
<1>6. ToSet(g) = {g[i] : i \in 1..Len(s)}
  BY <1>2 DEF ToSet
<1>7. ToSet(g) = {f[x] : x \in ToSet(s)}
  BY <1>2, <1>5, <1>6
<1> QED
  BY <1>4, <1>7 DEF Mapped, ImageOf

\* A dependency whose dependents follow.
LEMMA VisitDependencyKeeps == ASSUME Inv, VisitDependency PROVE Inv'
<1> DEFINE p == Head(tasks).name
           qs == DependentsToVisit(selected, col.bm, p)
           task(q) == [op |-> "dependent", name |-> q, of |-> p]
           more == [i \in DOMAIN qs |-> task(qs[i])]
<1>1. /\ Task("visit")
      /\ \/ More(<<>>) /\ UNCHANGED search
         \/ More(more) /\ search' = [search EXCEPT !.deps = @ \cup {p}]
      /\ UNCHANGED <<world, selected, req, before, phase, line, judged, col, deps, plan>>
  BY DEF VisitDependency, Staying
<1>2. /\ tasks # <<>> /\ Head(tasks) \in TaskRecords /\ "visit" \in Ops(phase)
  BY <1>1, HeadOf
<1>3. phase \in {"dependents", "kept"}
  BY <1>2 DEF Ops
<1>4. AtWork /\ selected = before /\ search \in Searches
  BY <1>3, WorkOf DEF OfBuild, BuildPhases, Inv, Undisturbed, Stages, Tasking
<1>5. p \in Pkgs
  BY <1>2, TaskOf
<1>6. /\ more \in Seq(TaskRecords)
      /\ \A t \in ToSet(more) : Tasked(phase, world, before, line, col, ToSet(plan), t)
  <2>1. qs \in Seq(Pkgs) /\ ToSet(qs) \subseteq ConfiguredDependents(before, p)
    BY <1>4, ListedOf DEF DependentsToVisit
  <2>2. \A q \in Pkgs : task(q) \in TaskRecords
    BY <1>5 DEF TaskRecords
  <2>3. more \in Seq(TaskRecords) /\ ToSet(more) = {task(q) : q \in ToSet(qs)}
    <3> DEFINE f == [q \in Pkgs |-> task(q)]
               made == Mapped(f, qs)
    <3>1. f \in [Pkgs -> TaskRecords]
      BY <2>2
    <3>2. more = made /\ {task(q) : q \in ToSet(qs)} = {f[q] : q \in ToSet(qs)}
      <4>1. ToSet(qs) \subseteq Pkgs /\ DOMAIN qs = 1..Len(qs) /\ \A i \in 1..Len(qs) : qs[i] \in Pkgs
        BY <2>1, SetOf
      <4> HIDE DEF qs
      <4> QED
        BY <4>1 DEF Mapped
    <3> HIDE DEF f, qs, more
    <3>4. qs \in Seq(Pkgs)
      BY <2>1
    <3>3. made \in Seq(TaskRecords) /\ ToSet(made) = {f[q] : q \in ToSet(qs)}
      <4>1. Mapped(f, qs) \in Seq(TaskRecords) /\ ToSet(Mapped(f, qs)) = ImageOf(f, qs)
        BY <3>1, <3>4, MappedOf
      <4> QED
        BY <4>1 DEF ImageOf
    <3> QED
      BY <3>2, <3>3
  <2>4. \A q \in ConfiguredDependents(before, p) :
           Tasked(phase, world, before, line, col, ToSet(plan), task(q))
    BY <1>3 DEF Tasked, Ops
  <2> HIDE DEF task, more, qs
  <2> QED
    BY <2>1, <2>3, <2>4
<1> HIDE DEF more
<1>7. /\ tasks' \in Seq(TaskRecords)
      /\ \A t \in ToSet(tasks') : Tasked(phase, world, before, line, col, ToSet(plan), t)
  BY <1>1, <1>2, <1>4, <1>6, MoreOf, NothingMore DEF AtWork
<1>8. search' \in Searches
  BY <1>1, <1>4, <1>5, SearchesOf
<1>9. Collects(world, before, line, col) /\ BuildsStay(col.bm, col.bm)
  BY <1>4, StaysItself DEF AtWork
<1>10. /\ phase = "dependents" => plan = <<>>
       /\ phase = "kept" => /\ State(line.stack) \in judged.bad /\ line.index = NoRefinement
                            /\ col'.unsat # <<>>
  BY <1>1 DEF Inv, Undisturbed, Judging
<1> QED
  BY <1>1, <1>3, <1>4, <1>7, <1>8, <1>9, <1>10, MovedOf DEF BuildPhases

\* A dependent that follows.
LEMMA VisitDependentKeeps == ASSUME Inv, VisitDependent PROVE Inv'
<1> DEFINE q == Head(tasks).name
           p == Head(tasks).of
           c == CollectDependent(selected, col, p, q)
<1>1. /\ Task("dependent") /\ col' = c /\ More(<<Do("visit", q)>>)
      /\ UNCHANGED <<world, selected, req, before, phase, line, judged, search, deps, plan>>
  BY DEF VisitDependent, Staying
<1>2. /\ tasks # <<>> /\ Head(tasks) \in TaskRecords /\ "dependent" \in Ops(phase)
      /\ Head(tasks).op = "dependent"
      /\ Tasked(phase, world, before, line, col, ToSet(plan), Head(tasks))
  BY <1>1, HeadOf
<1>3. phase \in {"dependents", "kept"}
  BY <1>2 DEF Ops
<1>4. AtWork /\ selected = before /\ search \in Searches
  BY <1>3, WorkOf DEF OfBuild, BuildPhases, Inv, Undisturbed, Stages, Tasking
<1>5. p \in Pkgs /\ q \in Pkgs /\ q \in ConfiguredDependents(before, p)
  BY <1>2, TaskOf DEF Tasked
<1>6. before[q].state = "configured" /\ before[q].prereqs[p] \subseteq Versions
  <2>1. /\ before[q].state = "configured" /\ p \in DOMAIN before[q].prereqs
    BY <1>5 DEF ConfiguredDependents
  <2>2. Config!IsPackage(before[q])
    BY <1>4, <1>5 DEF AtWork, Configuration
  <2>3. before[q].prereqs \in [DOMAIN before[q].prereqs -> SUBSET Versions]
    BY <2>2 DEF Config!IsPackage
  <2> QED
    BY <2>1, <2>3
<1>7. /\ Collects(world, before, line, c) /\ BuildsStay(col.bm, c.bm)
      /\ col.unsat # <<>> => c.unsat # <<>>
  <2>1. c = CollectDependent(before, col, p, q)
    BY <1>4
  <2> HIDE DEF c, p, q
  <2> QED
    BY <1>4, <1>5, <1>6, <2>1, CollectDependentOf DEF AtWork
<1> HIDE DEF c
<1>8. /\ Do("visit", q) \in TaskRecords /\ ToSet(<<Do("visit", q)>>) = {Do("visit", q)}
      /\ Tasked(phase, world, before, line, c, ToSet(plan), Do("visit", q))
  BY <1>3, <1>5, PairSet DEF Do, TaskRecords, Tasked, Ops
<1>9. <<Do("visit", q)>> \in Seq(TaskRecords)
  BY <1>8, PairOf
<1>10. /\ tasks' \in Seq(TaskRecords)
       /\ ToSet(tasks') = {Do("visit", q)} \cup ToSet(Tail(tasks))
       /\ ToSet(Tail(tasks)) \subseteq ToSet(tasks)
  <2> DEFINE more == <<Do("visit", q)>>
  <2>1. More(more) /\ more \in Seq(TaskRecords) /\ ToSet(more) = {Do("visit", q)}
    BY <1>1, <1>8, <1>9
  <2> HIDE DEF more
  <2> QED
    BY <1>2, <1>4, <2>1, MoreOf DEF AtWork
<1>11. \A t \in ToSet(tasks') : Tasked(phase, world, before, line, c, ToSet(plan), t)
  BY <1>3, <1>4, <1>7, <1>8, <1>10, TaskedStays DEF AtWork
<1>12. /\ phase = "dependents" => plan = <<>>
       /\ phase = "kept" => /\ State(line.stack) \in judged.bad /\ line.index = NoRefinement
                            /\ col'.unsat # <<>>
  BY <1>1, <1>3, <1>7 DEF Inv, Undisturbed, Judging
<1> QED
  BY <1>1, <1>3, <1>4, <1>7, <1>10, <1>11, <1>12, MovedOf DEF BuildPhases

---------------------------------------------------------------------------
(* The search for an adjustment.                                            *)
\* A step of the search.
LEMMA SearchingOf ==
    ASSUME Inv, NEW op \in {"replace", "others", "consider", "dependents"}, Task(op),
           NEW more \in Seq(TaskRecords), NEW s \in Searches, Searching(more, s),
           \A t \in ToSet(more) : Tasked("search", world, before, line, col, ToSet(plan), t)
    PROVE  Inv'
<1>1. /\ More(more) /\ search' = s
      /\ UNCHANGED <<world, selected, req, before, phase, line, judged, col, deps, plan>>
  BY DEF Searching, Staying
<1>2. tasks # <<>> /\ op \in Ops(phase)
  BY HeadOf
<1>3. phase = "search"
  BY <1>2 DEF Ops
<1>4. AtWork
  BY <1>3, WorkOf DEF OfBuild, BuildPhases
<1>5. /\ tasks' \in Seq(TaskRecords)
      /\ ToSet(tasks) = {Head(tasks)} \cup ToSet(Tail(tasks))
      /\ ToSet(tasks') = ToSet(more) \cup ToSet(Tail(tasks))
  BY <1>1, <1>2, <1>4, MoreOf DEF AtWork
<1>6. \A t \in ToSet(tasks') : Tasked("search", world, before, line, col, ToSet(plan), t)
  BY <1>3, <1>4, <1>5 DEF AtWork
<1>7. Collects(world, before, line, col) /\ BuildsStay(col.bm, col.bm)
  BY <1>4, StaysItself DEF AtWork
<1>8. State(line.stack) \in judged.bad /\ line.index = NoRefinement /\ col'.unsat # <<>>
  BY <1>1, <1>3 DEF Inv, Judging
<1> QED
  BY <1>1, <1>3, <1>4, <1>5, <1>6, <1>7, <1>8, MovedOf DEF BuildPhases

\* What a search does with a package, but for its versions.
LEMMA SearchTasksOf ==
    ASSUME NEW p \in Pkgs, NEW op \in {"replace", "others"}, NEW ps
    PROVE  /\ Do(op, p) \in TaskRecords
           /\ Tasked("search", world, before, line, col, ps, Do(op, p))
BY DEF Do, TaskRecords, Tasked, Ops

\* The steps of the search keep the invariant.
LEMMA StartSearchKeeps == ASSUME Inv, StartSearch PROVE Inv'
<1> DEFINE d == Head(col.unsat).dep
           ts == <<Do("replace", d), Do("others", d)>>
<1>1. phase = "kept" /\ tasks = <<>>
  BY DEF StartSearch
<1>2. CASE ~Builds(d)
  <2>1. FailAssertion
    BY <1>2 DEF StartSearch
  <2> QED
    BY <1>1, <2>1, FailsOf
<1>3. CASE Builds(d)
  <2>1. /\ phase' = "search" /\ tasks' = ts /\ search' = NoSearch
        /\ UNCHANGED <<world, selected, req, before, line, judged, col, deps, plan>>
    BY <1>3 DEF StartSearch, Staying
  <2>2. AtWork
    BY <1>1, WorkOf DEF OfBuild, BuildPhases
  <2>3. Collects(world, before, line, col) /\ BuildsStay(col.bm, col.bm)
    BY <2>2, StaysItself DEF AtWork
  <2>4. d \in Pkgs
    BY <1>3, <2>2 DEF Builds, Has, AtWork, Maps
  <2> HIDE DEF d
  <2>5. /\ Do("replace", d) \in TaskRecords /\ Do("others", d) \in TaskRecords
        /\ Tasked("search", world, before, line, col, ToSet(plan), Do("replace", d))
        /\ Tasked("search", world, before, line, col, ToSet(plan), Do("others", d))
    BY <2>4, SearchTasksOf
  <2>6. ts \in Seq(TaskRecords) /\ ToSet(ts) = {Do("replace", d), Do("others", d)}
    BY <2>5, PairOf, PairSet
  <2> HIDE DEF ts
  <2>7. \A t \in ToSet(tasks') : Tasked("search", world, before, line, col, ToSet(plan), t)
    BY <2>1, <2>5, <2>6
  <2>8. State(line.stack) \in judged.bad /\ line.index = NoRefinement /\ col'.unsat # <<>>
    BY <1>1, <2>1 DEF Inv, Judging
  <2>9. search' \in Searches
    BY <2>1, SearchesOf DEF Inv, Tasking
  <2> QED
    BY <1>1, <2>1, <2>2, <2>3, <2>6, <2>7, <2>8, <2>9, MovedOf DEF BuildPhases
<1> QED
  BY <1>2, <1>3

\* The versions that are offered are available.
LEMMA OffersOf ==
    ASSUME NEW p \in Pkgs, AtWork
    PROVE  Offers(world, before, line, p) \subseteq Versions \cap world.available[p]
<1>1. world.available[p] \subseteq Versions
  BY WorldsAssumption DEF AtWork
<1> QED
  BY <1>1 DEF Offers

LEMMA TryReplaceKeeps == ASSUME Inv, TryReplace PROVE Inv'
<1> DEFINE q == Head(tasks).name
           t == [op |-> "consider", name |-> q, refused |-> <<>>,
                 versions |-> Offers(world, selected, line, q)]
           s == [search EXCEPT !.dpts = @ \cup {q}]
<1>1. Task("replace") /\ \/ FailAssertion
                         \/ Searching(<<>>, search)
                         \/ Replaceable(q) /\ Searching(<<t>>, s)
  BY DEF TryReplace
<1>2. /\ tasks # <<>> /\ Head(tasks) \in TaskRecords /\ "replace" \in Ops(phase) /\ phase # "idle"
  BY <1>1, HeadOf
<1>3. phase = "search"
  BY <1>2 DEF Ops
<1>4. AtWork /\ selected = before /\ search \in Searches
  BY <1>3, WorkOf DEF OfBuild, BuildPhases, Inv, Undisturbed, Stages, Tasking
<1>5. q \in Pkgs
  BY <1>2, TaskOf
<1>6. CASE Searching(<<>>, search)
  BY <1>1, <1>4, <1>6, NothingMore, SearchingOf
<1>7. CASE Replaceable(q) /\ Searching(<<t>>, s)
  <2>1. s \in Searches
    BY <1>4, <1>5, SearchesOf
  <2>2. t \in TaskRecords /\ Tasked("search", world, before, line, col, ToSet(plan), t)
    <3>1. t.versions \subseteq Versions
      BY <1>4, <1>5, OffersOf
    <3>2. <<>> \in Seq(Pkgs)
      BY EmptySeqOf
    <3> DEFINE vs == Offers(world, selected, line, q)
               none == <<>>
    <3>3. vs \in SUBSET Versions /\ none \in Seq(Pkgs)
      BY <3>1, <3>2
    <3>4. vs = Offers(world, before, line, q)
      BY <1>4
    <3>5. t = [op |-> "consider", name |-> q, refused |-> none, versions |-> vs]
      OBVIOUS
    <3> HIDE DEF q, vs, none, t
    <3>6. t \in TaskRecords
      BY <1>5, <3>3, <3>5 DEF TaskRecords
    <3>7. t.op = "consider" /\ t.name = q /\ t.versions = vs
      BY <3>5
    <3>8. Remade(col, q)
      BY <1>7 DEF Remade, Replaceable, Has
    <3> QED
      BY <3>4, <3>6, <3>7, <3>8 DEF Tasked, Ops
  <2> HIDE DEF t, s
  <2>3. <<t>> \in Seq(TaskRecords) /\ ToSet(<<t>>) = {t}
    BY <2>2, PairOf, PairSet
  <2> DEFINE more == <<t>>
  <2>4. /\ more \in Seq(TaskRecords) /\ Searching(more, s)
        /\ \A x \in ToSet(more) : Tasked("search", world, before, line, col, ToSet(plan), x)
    BY <1>7, <2>2, <2>3
  <2> HIDE DEF more
  <2> QED
    BY <1>1, <2>1, <2>4, SearchingOf
<1> QED
  BY <1>1, <1>2, <1>6, <1>7, FailsOf

LEMMA NothingOfferedKeeps == ASSUME Inv, NothingOffered PROVE Inv'
<1> DEFINE t == [name |-> Head(tasks).name, refused |-> Head(tasks).refused]
           s == [search EXCEPT !.tried = Append(@, t)]
<1>1. Task("consider") /\ Searching(<<>>, s)
  BY DEF NothingOffered
<1>2. /\ Head(tasks) \in TaskRecords /\ Head(tasks).op = "consider" /\ search \in Searches
  BY <1>1, HeadOf DEF Inv, Tasking
<1>3. t \in [name : Pkgs, refused : Seq(Pkgs)]
  BY <1>2, TaskOf
<1> HIDE DEF t
<1>4. s \in Searches
  BY <1>2, <1>3, SearchesOf
<1> HIDE DEF s
<1> QED
  BY <1>1, <1>4, NothingMore, SearchingOf

LEMMA TryOthersKeeps == ASSUME Inv, TryOthers PROVE Inv'
<1> DEFINE tried == search.tried
           task(x) == [op |-> "dependents", name |-> x.name, refused |-> x.refused]
           more == [i \in DOMAIN tried |-> task(tried[i])]
           s == [search EXCEPT !.tried = <<>>]
           T == [name : Pkgs, refused : Seq(Pkgs)]
           f == [x \in T |-> task(x)]
           made == Mapped(f, tried)
<1>1. Task("others") /\ Searching(more, s)
  BY DEF TryOthers
<1>2. tried \in Seq(T) /\ s \in Searches
  <2>1. search \in Searches
    BY DEF Inv, Tasking
  <2> QED
    BY <2>1, SearchesOf
<1>3. f \in [T -> TaskRecords]
  BY DEF TaskRecords
<1>4. \A x \in T : f[x] = task(x) /\ f[x].op = "dependents"
  OBVIOUS
<1> HIDE DEF tried, T, f, task
<1>5. more = made
  <2>1. DOMAIN tried = 1..Len(tried) /\ \A i \in 1..Len(tried) : tried[i] \in T
    BY <1>2, SetOf
  <2> QED
    BY <1>4, <2>1 DEF Mapped
<1>6. ToSet(tried) \subseteq T
  BY <1>2, SetOf
<1> HIDE DEF more, s
<1>7. made \in Seq(TaskRecords) /\ ToSet(made) = ImageOf(f, tried)
  BY <1>2, <1>3, MappedOf
<1> HIDE DEF made
<1>8. \A t \in ToSet(made) : t.op = "dependents"
  BY <1>4, <1>6, <1>7 DEF ImageOf
<1>9. \A t \in ToSet(more) : Tasked("search", world, before, line, col, ToSet(plan), t)
  BY <1>5, <1>8 DEF Tasked, Ops
<1> QED
  BY <1>1, <1>2, <1>5, <1>7, <1>9, SearchingOf

LEMMA TryDependentsKeeps == ASSUME Inv, TryDependents PROVE Inv'
<1> DEFINE p == Head(tasks).name
           u == Head(col.unsat)
           conflicting == IF p = u.dep THEN u.conflicting ELSE <<>>
           qs == ToReplace(selected, col, p, conflicting, Head(tasks).refused)
           s == [search EXCEPT !.deps = @ \cup {p}]
           more == Tasks("replace", qs) \o <<Do("others", p)>>
<1>1. Task("dependents") /\ \/ FailAssertion
                            \/ Searching(<<>>, search)
                            \/ Replaceable(p) /\ Searching(more, s)
  BY DEF TryDependents
<1>2. /\ tasks # <<>> /\ Head(tasks) \in TaskRecords /\ "dependents" \in Ops(phase)
      /\ phase # "idle" /\ Head(tasks).op = "dependents"
  BY <1>1, HeadOf
<1>3. phase = "search"
  BY <1>2 DEF Ops
<1>4. AtWork /\ selected = before /\ search \in Searches
  BY <1>3, WorkOf DEF OfBuild, BuildPhases, Inv, Undisturbed, Stages, Tasking
<1>5. p \in Pkgs /\ Head(tasks).refused \in Seq(Pkgs)
  BY <1>2, TaskOf
<1>6. CASE Searching(<<>>, search)
  BY <1>1, <1>4, <1>6, NothingMore, SearchingOf
<1>7. CASE Replaceable(p) /\ Searching(more, s)
  <2>1. s \in Searches
    BY <1>4, <1>5, SearchesOf
  <2>2. qs \in Seq(Pkgs)
    <3>1. col.bm[p] \in Entries /\ col.bm[p].constraints \in Seq(Constraints)
      <4>1. col.bm[p] \in Entries
        BY <1>4, <1>7 DEF Replaceable, Has, AtWork, Maps
      <4> QED
        BY <4>1 DEF Entries
    <3> DEFINE ks == col.bm[p].constraints
               wrong == {k \in ToSet(ks) : Incompatible(k, ks)}
               v == Current(selected, col, p)
               one == Dependents(Against(v, col.bm[p]))
               two == Dependents(Those(ks, wrong))
               refused == Head(tasks).refused
    <3>2. one \in Seq(Pkgs)
      <4> HIDE DEF v
      <4>1. Against(v, col.bm[p]) \in Seq(Constraints)
        BY <3>1, AgainstOf
      <4> QED
        BY <4>1, DependentsOf
    <3>3. two \in Seq(Pkgs)
      <4> HIDE DEF wrong
      <4>1. Those(ks, wrong) \in Seq(Constraints)
        BY <3>1, ThoseOf
      <4> QED
        BY <4>1, DependentsOf
    <3>4. conflicting \in Seq(Pkgs)
      <4>1. CASE p = u.dep
        <5>1. col.unsat # <<>>
          BY <1>3 DEF Inv, Judging
        <5>2. u \in Unsatisfieds
          BY <1>4, <5>1, TailSet DEF AtWork, Collects, Collection
        <5> QED
          BY <4>1, <5>2 DEF Unsatisfieds
      <4>2. CASE p # u.dep
        BY <4>2, EmptySeqOf
      <4> QED
        BY <4>1, <4>2
    <3>5. qs = one \o conflicting \o two \o refused
      BY DEF ToReplace
    <3>6. refused \in Seq(Pkgs)
      BY <1>5
    <3> HIDE DEF one, two, conflicting, qs, refused
    <3> QED
      BY <3>2, <3>3, <3>4, <3>5, <3>6, ConcatSet
  <2> HIDE DEF qs
  <2>3. /\ Tasks("replace", qs) \in Seq(TaskRecords)
        /\ ToSet(Tasks("replace", qs)) = {Do("replace", q) : q \in ToSet(qs)}
        /\ ToSet(qs) \subseteq Pkgs
    BY <2>2, TasksOf, SetOf
  <2>4. \A q \in Pkgs :
           /\ Tasked("search", world, before, line, col, ToSet(plan), Do("replace", q))
           /\ Tasked("search", world, before, line, col, ToSet(plan), Do("others", q))
           /\ Do("others", q) \in TaskRecords
    BY SearchTasksOf
  <2> DEFINE one == Tasks("replace", qs)
             two == <<Do("others", p)>>
  <2>5. two \in Seq(TaskRecords) /\ ToSet(two) = {Do("others", p)}
    BY <1>5, <2>4, PairOf, PairSet
  <2> HIDE DEF p, s
  <2>7. one \in Seq(TaskRecords) /\ more = one \o two
    BY <2>3 DEF p
  <2> HIDE DEF one, two, more
  <2>6. more \in Seq(TaskRecords) /\ ToSet(more) = ToSet(one) \cup ToSet(two)
    BY <2>5, <2>7, ConcatSet
  <2>8. \A t \in ToSet(more) : Tasked("search", world, before, line, col, ToSet(plan), t)
    BY <1>5, <2>3, <2>4, <2>5, <2>6 DEF one
  <2> QED
    BY <1>1, <1>7, <2>1, <2>6, <2>8, SearchingOf
<1> QED
  BY <1>1, <1>2, <1>6, <1>7, FailsOf

---------------------------------------------------------------------------
(* The command line, adjusted.                                              *)
\* What the command line is but for what it is counted by.
SameLine(l, m) ==
    /\ IsLine(m) /\ m.hold = l.hold /\ m.order = l.order /\ m.expect = l.expect
    /\ m.stack = l.stack /\ m.dropped = l.dropped /\ m.index = l.index

\* It is one of the same request.
LEMMA SameLineOf ==
    ASSUME NEW w, NEW sel, NEW r, NEW l, Requested(w, sel, r, l), NEW m, SameLine(l, m)
    PROVE  Requested(w, sel, r, m)
<1>1. Lines(l)
  BY DEF Requested
<1>2. Lines(m)
  BY <1>1 DEF Lines, SameLine, IsLine
<1> QED
  BY <1>2, RequestedSame DEF SameLine

\* Everything is collected again, with another command line.
LEMMA RecollectKeeps ==
    ASSUME Inv, AtWork, phase \in BuildPhases, NEW l, Recollect(l),
           Requested(world, before, req, l), Refining(judged.bad, l)
    PROVE  Inv'
<1> DEFINE n == l.iteration + 1
           m == [l EXCEPT !.iteration = n]
<1>1. /\ Iterate(m, <<>>, NoMap, NoMap, TRUE)
      /\ UNCHANGED <<world, selected, req, before, judged>>
  BY DEF Recollect, Staying
<1>2. IsLine(l)
  BY DEF Requested, Lines, IsLine
<1> HIDE DEF n
<1>3. SameLine(l, m) /\ m.former = l.former
  BY <1>2 DEF IsLine, SameLine
<1> HIDE DEF m
<1>4. Requested(world, before, req, m)
  BY <1>3, SameLineOf
<1>5. Refining(judged'.bad, m)
  BY <1>1, <1>3 DEF Refining, SameLine
<1>6. Replacing(world, before, m, NoMap)
  BY DEF Replacing, NoMap
<1>7. <<>> \in Seq(Decisions) /\ ToSet(<<>>) = {}
  BY EmptySeqOf DEF ToSet
<1>8. Undisturbed /\ Commanded /\ phase \notin Stages
  BY DEF Inv, AtWork, BuildPhases, Stages
<1> DEFINE none == <<>>
<1>9. none \in Seq(Decisions) /\ \A d \in ToSet(none) : Decides(world, before, m, d)
  BY <1>7
<1>10. Iterate(m, none, NoMap, NoMap, TRUE)
  BY <1>1
<1> HIDE DEF none
<1> QED
  BY <1>1, <1>4, <1>5, <1>6, <1>8, <1>9, <1>10, RecollectedOf

\* What is denied, or has been tried, is no part of the request.
LEMMA DeniedLine ==
    ASSUME NEW l, IsLine(l), NEW b, NEW d, NEW f, NEW m
    PROVE  /\ m = [l EXCEPT !.denyProjects = b, !.denyDowngrade = d] => SameLine(l, m)
           /\ m = [l EXCEPT !.former = f, !.downgrades = b, !.projects = d] =>
                 SameLine(l, m) /\ HasMarks(m, f, l.dropped, l.index)
<1>1. ASSUME m = [l EXCEPT !.denyProjects = b, !.denyDowngrade = d]
      PROVE  SameLine(l, m)
  BY <1>1 DEF SameLine, IsLine
<1>2. ASSUME m = [l EXCEPT !.former = f, !.downgrades = b, !.projects = d]
      PROVE  SameLine(l, m) /\ HasMarks(m, f, l.dropped, l.index)
  <2>1. SameLine(l, m) /\ m.former = f
    BY <1>2 DEF SameLine, IsLine
  <2> QED
    BY <2>1 DEF SameLine, HasMarks
<1> QED
  BY <1>1, <1>2

\* What an adjustment that is put in leaves alone.
LEMMA PushLine ==
    ASSUME NEW l, Lines(l), NEW a
    PROVE  /\ IsLine(Push(l, a)) /\ Push(l, a).index = l.index /\ Push(l, a).dropped = l.dropped
           /\ Push(l, a).former # {}
<1> DEFINE p == a.name
           holds == a.type \in {"hold_existing", "hold_new"}
           original == IF a.type = "hold_existing" THEN <<l.hold[p]>>
                       ELSE IF a.type = "dep_existing" THEN <<l.expect[p]>> ELSE <<>>
           held == IF a.type = "hold_existing"
                   THEN [l.hold[p] EXCEPT !.version = a.version, !.allowed = {a.version}]
                   ELSE HoldSpec(a.version, {a.version})
           expected == IF a.type = "dep_existing"
                       THEN [l.expect[p] EXCEPT !.allowed = {a.version}]
                       ELSE DependencySpec({a.version})
           s == Append(l.stack, [a EXCEPT !.original = original])
           f == l.former \cup {State(s)}
           h == IF holds THEN Put(l.hold, p, held) ELSE l.hold
           o == IF a.type = "hold_new" THEN Append(l.order, p) ELSE l.order
           e == IF holds THEN l.expect ELSE Put(l.expect, p, expected)
           x == Push(l, a)
<1>1. x = [l EXCEPT !.stack = s, !.former = f, !.hold = h, !.order = o, !.expect = e]
  BY DEF Push
<1>2. IsLine(l)
  BY DEF Lines, IsLine
<1>4. f # {}
  OBVIOUS
<1> HIDE DEF x, s, f, h, o, e, original, held, expected, holds, p
<1>3. /\ IsLine(x) /\ HasLine(x, h, o, e, s) /\ x.former = f
      /\ x.dropped = l.dropped /\ x.index = l.index
  <2>1. IsLine(x) /\ HasLine(x, h, o, e, s) /\ HasMarks(x, f, l.dropped, l.index)
    <3>1. IsLine(x)
      BY <1>1, <1>2 DEF IsLine
    <3>2. HasLine(x, h, o, e, s)
      BY <1>1, <1>2, LineExcept
    <3>3. HasMarks(x, f, l.dropped, l.index)
      BY <1>1, <1>2, LineExcept
    <3> QED
      BY <3>1, <3>2, <3>3
  <2> QED
    BY <2>1 DEF HasMarks
<1> QED
  BY <1>3, <1>4 DEF x

\* And one that is taken out.
LEMMA PopLine ==
    ASSUME NEW l, Lines(l), NEW a, NEW s
    PROVE  /\ IsLine(Pop(l, a, s)) /\ Pop(l, a, s).index = l.index
           /\ Pop(l, a, s).dropped = l.dropped /\ Pop(l, a, s).former = l.former
           /\ Pop(l, a, s).stack = s
<1> DEFINE p == a.name
           h == IF a.type = "hold_existing" THEN Put(l.hold, p, a.original[1])
                ELSE IF a.type = "hold_new" THEN Without(l.hold, p) ELSE l.hold
           o == IF a.type = "hold_new" THEN Those(l.order, Pkgs \ {p}) ELSE l.order
           e == IF a.type = "dep_existing" THEN Put(l.expect, p, a.original[1])
                ELSE IF a.type = "dep_new" THEN Without(l.expect, p) ELSE l.expect
           x == Pop(l, a, s)
<1>1. x = [l EXCEPT !.stack = s, !.hold = h, !.order = o, !.expect = e]
  BY DEF Pop
<1>2. IsLine(l)
  BY DEF Lines, IsLine
<1> HIDE DEF x, h, o, e, p
<1>3. /\ IsLine(x) /\ x.former = l.former /\ x.dropped = l.dropped /\ x.index = l.index
      /\ HasLine(x, h, o, e, s)
  <2>1. IsLine(x) /\ HasLine(x, h, o, e, s) /\ HasMarks(x, l.former, l.dropped, l.index)
    BY <1>1, <1>2, LineExceptFormer
  <2> QED
    BY <2>1 DEF HasMarks
<1> QED
  BY <1>3 DEF x, HasLine

\* Nothing is found.
LEMMA GiveUpKeeps == ASSUME Inv, GiveUp PROVE Inv'
<1>1. phase = "search" /\ tasks = <<>>
  BY DEF GiveUp
<1>2. AtWork
  BY <1>1, WorkOf DEF OfBuild, BuildPhases
<1>3. /\ Refining(judged.bad, line) /\ line.index = NoRefinement /\ line.dropped = <<>>
      /\ State(line.stack) \in judged.bad
  <2>1. Refining(judged.bad, line) /\ line.index = NoRefinement /\ State(line.stack) \in judged.bad
    BY <1>1, <1>2, RefiningOf DEF BuildPhases, AtWork, Inv, Judging
  <2> QED
    BY <2>1 DEF Refining
<1>4. Lines(line) /\ line.stack \in Seq(Adjustments)
  BY <1>2 DEF AtWork, Lines
<1>5. CASE line.stack # <<>>
  <2> DEFINE a == Last(line.stack)
             rest == Front(line.stack)
             l == Pop(line, a, rest)
  <2>1. Recollect(l)
    BY <1>5 DEF GiveUp
  <2>2. /\ a \in ToSet(line.stack) /\ rest \in Seq(Adjustments)
        /\ ToSet(line.stack) = {a} \cup ToSet(rest)
        /\ a \notin ToSet(rest) /\ IsInjective(rest)
    <3>1. IsInjective(line.stack)
      BY <1>2 DEF AtWork, Requested
    <3> QED
      BY <1>4, <1>5, <3>1, FrontSet
  <2>5. l = Pop(line, a, rest)
    OBVIOUS
  <2> HIDE DEF a, rest, l
  <2>6. /\ IsLine(l) /\ l.index = line.index /\ l.dropped = line.dropped
        /\ l.former = line.former /\ l.stack = rest
    BY <1>4, <2>5, PopLine
  <2>3. Popped(line, a, rest, l)
    BY <1>3, <2>5, <2>6 DEF Popped, NoRefinement
  <2>4. Requested(world, before, req, l)
    BY <1>2, <2>2, <2>3, PopOf DEF AtWork
  <2>7. Refining(judged.bad, l)
    BY <1>3, <1>5, <2>6 DEF Refining
  <2> QED
    BY <1>1, <1>2, <2>1, <2>4, <2>7, RecollectKeeps DEF BuildPhases
<1>6. ASSUME NEW l, Cycle(l), line.stack = <<>>, SameLine(line, l)
      PROVE  Inv'
  <2> DEFINE none == {}
             no == FALSE
             m == [l EXCEPT !.former = none, !.downgrades = no, !.projects = no]
  <2>1. Recollect(m)
    BY <1>6 DEF Cycle
  <2>5. none = {}
    OBVIOUS
  <2> HIDE DEF no, none
  <2>2. SameLine(line, m) /\ m.former = {}
    <3>1. IsLine(l)
      BY <1>6 DEF SameLine
    <3>2. SameLine(l, m) /\ m.former = none
      <4>1. m = [l EXCEPT !.former = none, !.downgrades = no, !.projects = no]
        OBVIOUS
      <4> HIDE DEF m
      <4> QED
        <5>1. SameLine(l, m) /\ HasMarks(m, none, l.dropped, l.index)
          BY <3>1, <4>1, DeniedLine
        <5> QED
          BY <5>1 DEF HasMarks
    <3> QED
      BY <1>6, <2>5, <3>2 DEF SameLine
  <2> HIDE DEF m
  <2>3. Requested(world, before, req, m)
    BY <1>2, <2>2, SameLineOf DEF AtWork
  <2>4. Refining(judged.bad, m)
    BY <1>3, <1>6, <2>2 DEF Refining, SameLine
  <2> QED
    BY <1>1, <1>2, <2>1, <2>3, <2>4, RecollectKeeps DEF BuildPhases
<1>7. CASE line.stack = <<>>
  <2>1. \/ Cycle([line EXCEPT !.denyDowngrade = FALSE])
        \/ Cycle([line EXCEPT !.denyProjects = FALSE, !.denyDowngrade = Upgrades(req)])
        \/ Fail
    BY <1>7 DEF GiveUp
  <2>2. IsLine(line)
    BY <1>4 DEF Lines, IsLine
  <2>3. \A b : SameLine(line, [line EXCEPT !.denyDowngrade = b])
    BY <2>2 DEF SameLine, IsLine
  <2>5. CASE Cycle([line EXCEPT !.denyDowngrade = FALSE])
    <3> DEFINE l == [line EXCEPT !.denyDowngrade = FALSE]
    <3>1. SameLine(line, l)
      BY <2>3
    <3> HIDE DEF l
    <3> QED
      BY <1>6, <1>7, <2>5, <3>1 DEF l
  <2>6. CASE Cycle([line EXCEPT !.denyProjects = FALSE, !.denyDowngrade = Upgrades(req)])
    <3> DEFINE no == FALSE
               u == Upgrades(req)
               l == [line EXCEPT !.denyProjects = no, !.denyDowngrade = u]
    <3>2. Cycle(l)
      BY <2>6
    <3> HIDE DEF no, u
    <3>3. l = [line EXCEPT !.denyProjects = no, !.denyDowngrade = u]
      OBVIOUS
    <3> HIDE DEF l
    <3>1. SameLine(line, l)
      BY <2>2, <3>3, DeniedLine
    <3> HIDE DEF l
    <3> QED
      BY <1>6, <1>7, <3>1, <3>2
  <2> QED
    BY <1>1, <2>1, <2>5, <2>6, FailsOf
<1> QED
  BY <1>5, <1>7

\* The adjustment that is being dropped, and its index.
LEMMA MarkedLine ==
    ASSUME NEW x, IsLine(x), NEW d, NEW i, NEW m, m = [x EXCEPT !.dropped = d, !.index = i]
    PROVE  /\ IsLine(m) /\ HasLine(m, x.hold, x.order, x.expect, x.stack)
           /\ HasMarks(m, x.former, d, i)
<1>1. /\ IsLine(m) /\ m.hold = x.hold /\ m.order = x.order /\ m.expect = x.expect
      /\ m.stack = x.stack /\ m.former = x.former /\ m.dropped = d /\ m.index = i
  BY DEF IsLine
<1> QED
  BY <1>1 DEF HasLine, HasMarks

\* The state of a stack.
LEMMA StateOf ==
    ASSUME NEW a, NEW s \in Seq(Adjustments)
    PROVE  /\ State(<<>>) = {} /\ State(<<a>>) = {Key(a)}
           /\ s # <<>> => State(s) = State(Tail(s)) \cup {Key(Head(s))}
           /\ \A b \in Adjustments : State(Append(s, b)) = State(s) \cup {Key(b)}
           /\ Key(a) \in State(s) => \E b \in ToSet(s) : b.name = a.name
           /\ \A t : ToSet(t) = {} => State(t) = {}
<1>1. State(<<>>) = {} /\ \A t : ToSet(t) = {} => State(t) = {}
  BY DEF State, ToSet
<1>2. State(<<a>>) = {Key(a)}
  <2> DEFINE s1 == <<a>>
  <2>1. ToSet(s1) = {a}
    BY PairSet
  <2> HIDE DEF s1
  <2>2. State(s1) = {Key(a)}
    BY <2>1 DEF State, Key
  <2> QED
    BY <2>2 DEF s1
<1>3. ASSUME s # <<>>
      PROVE  State(s) = State(Tail(s)) \cup {Key(Head(s))}
  <2> DEFINE t == Tail(s)
             h == Head(s)
  <2>1. ToSet(s) = ToSet(t) \cup {h}
    BY <1>3, TailSet
  <2> HIDE DEF t, h
  <2>2. State(s) = State(t) \cup {Key(h)}
    BY <2>1, StackNames
  <2> QED
    BY <2>2 DEF t, h
<1>4. ASSUME NEW b \in Adjustments
      PROVE  State(Append(s, b)) = State(s) \cup {Key(b)}
  <2> DEFINE t == Append(s, b)
  <2>1. ToSet(t) = ToSet(s) \cup {b}
    BY AppendSet
  <2> HIDE DEF t
  <2>2. State(t) = State(s) \cup {Key(b)}
    BY <2>1, StackNames
  <2> QED
    BY <2>2 DEF t
<1>5. Key(a) \in State(s) => \E b \in ToSet(s) : b.name = a.name
  BY DEF State, Key
<1> QED
  BY <1>1, <1>2, <1>3, <1>4, <1>5

\* The refinement goes on without the first adjustment, those it has found needed last.
LEMMA Without1stKeeps ==
    ASSUME Inv, AtWork, phase = "adjust", NEW l, Requested(world, before, req, l),
           l.stack # <<>>, l.former # {}, NEW index \in Int, Without1st(l, index),
           {} \in judged.bad, index \in 0 .. Len(l.stack) - 1,
           \A i \in 2..Len(l.stack) :
              i > Len(l.stack) - index => State(l.stack) \ {Key(l.stack[i])} \in judged.bad
    PROVE  Inv'
<1> DEFINE a == Head(l.stack)
           rest == Tail(l.stack)
           x == Pop(l, a, rest)
           one == <<a>>
           m == [x EXCEPT !.dropped = one, !.index = index]
           n == Len(l.stack)
<1>1. Recollect(m)
  BY DEF Without1st
<1>2. Lines(l) /\ l.stack \in Seq(Adjustments) /\ IsInjective(l.stack)
  BY DEF Requested, Lines
<1>3. /\ a \in Adjustments /\ rest \in Seq(Adjustments) /\ ToSet(l.stack) = {a} \cup ToSet(rest)
      /\ IsInjective(rest) /\ a \notin ToSet(rest) /\ Len(rest) = n - 1
      /\ \A i \in 1..n - 1 : rest[i] = l.stack[i + 1]
  BY <1>2, TailSet
<1>4. n \in Nat
  BY <1>2, SetOf
<1>5. State(l.stack) = State(rest) \cup State(one)
  BY <1>2, <1>3, StateOf
<1>6. one # <<>> /\ Len(one) = 1
  OBVIOUS
<1>7. m = [x EXCEPT !.dropped = one, !.index = index] /\ x = Pop(l, a, rest) /\ one = <<a>>
  OBVIOUS
<1> HIDE DEF a, rest, x, one, m
<1>8. /\ IsLine(x) /\ x.index = l.index
      /\ x.dropped = l.dropped /\ x.former = l.former
      /\ x.stack = rest
  BY <1>2, <1>7, PopLine
<1>9. IsLine(x)
  BY <1>8
<1>14. m = [x EXCEPT !.dropped = one, !.index = index]
  BY <1>7
<1>10. /\ IsLine(m) /\ HasLine(m, x.hold, x.order, x.expect, x.stack)
       /\ HasMarks(m, x.former, one, index)
  BY <1>9, <1>14, MarkedLine
<1>11. Popped(l, a, rest, m)
  BY <1>7, <1>8, <1>10 DEF Popped, HasLine, HasMarks
<1>12. Requested(world, before, req, m)
  BY <1>3, <1>11, PopOf DEF AtWork
<1>13. Refining(judged.bad, m)
  <2>1. /\ m.stack = rest /\ m.former = l.former /\ m.dropped = one /\ m.index = index
    BY <1>8, <1>10 DEF HasLine, HasMarks
  <2>2. ASSUME NEW i \in 1..Len(rest), i > Len(rest) - index
        PROVE  (State(rest) \cup State(one)) \ {Key(rest[i])} \in judged.bad
    <3>1. i + 1 \in 2..n /\ i + 1 > n - index /\ rest[i] = l.stack[i + 1]
      BY <1>3, <1>4, <2>2
    <3> QED
      BY <1>5, <3>1
  <2>3. index # NoRefinement /\ index \in 0..Len(rest)
    BY <1>3, <1>4 DEF NoRefinement
  <2> QED
    BY <1>6, <2>1, <2>2, <2>3 DEF Refining
<1> QED
  BY <1>1, <1>12, <1>13, RecollectKeeps DEF BuildPhases

\* The adjustment that has been dropped is needed: some dependent is not satisfied without.
LEMMA KeepAdjustmentKeeps == ASSUME Inv, KeepAdjustment PROVE Inv'
<1>1. phase = "adjust" /\ col.unsat # <<>> /\ line.index # NoRefinement
  BY DEF KeepAdjustment, Adjusting
<1>2. AtWork
  BY <1>1, WorkOf DEF OfBuild, BuildPhases
<1>3. Refining(judged.bad, line) /\ State(line.stack) \in judged.bad
  BY <1>1, <1>2, RefiningOf DEF BuildPhases, AtWork, Inv, Judging
<1>4. Lines(line) /\ line.stack \in Seq(Adjustments) /\ line.dropped \in Seq(Adjustments)
  BY <1>2 DEF AtWork, Lines
<1>5. CASE line.dropped = <<>>
  <2>1. FailAssertion
    BY <1>5 DEF KeepAdjustment
  <2> QED
    BY <1>1, <2>1, FailsOf
<1>6. CASE line.dropped # <<>>
  <2> DEFINE a == line.dropped[1]
             x == Push(line, a)
             none == <<>>
             l == [x EXCEPT !.dropped = none]
             next == line.index + 1
             n == Len(line.stack)
             bad == judged.bad
  <2>1. IF next # Len(l.stack) THEN Without1st(l, next)
        ELSE Recollect([l EXCEPT !.index = next])
    BY <1>6 DEF KeepAdjustment
  <2>2. /\ a \in Adjustments /\ a \in ToSet(line.dropped) /\ ToSet(line.dropped) = {a}
    <3>1. Len(line.dropped) = 1
      BY <1>3, <1>6 DEF Refining
    <3> QED
      BY <1>4, <3>1, SetOf
  <2>3. Adjustable(world, before, req, a) /\ a.name \notin NamesOf(line.stack)
    BY <1>2, <2>2 DEF AtWork, Requested, NamesOf
  <2>4. n \in Nat /\ line.index \in 0..n
    BY <1>1, <1>3, <1>4, SetOf DEF Refining
  <2>5. \A i \in 1..n : i > n - line.index =>
           (State(line.stack) \cup State(line.dropped)) \ {Key(line.stack[i])} \in bad
    BY <1>1, <1>3 DEF Refining
  <2>6. {} \in bad
    BY <1>1, <1>3 DEF Refining
  <2>7. State(line.dropped) = {Key(a)}
    BY <2>2 DEF State, Key
  <2>8. Key(a) \notin State(line.stack)
    BY <2>3 DEF NamesOf, State, Key
  <2>9. l = [x EXCEPT !.dropped = none] /\ x = Push(line, a) /\ none = <<>>
    OBVIOUS
  <2> HIDE DEF a, x, none, l
  <2>10. /\ IsLine(x) /\ x.index = line.index /\ x.former # {}
    BY <1>4, <2>9, PushLine
  <2>11. /\ IsLine(l) /\ l.hold = x.hold /\ l.order = x.order /\ l.expect = x.expect
         /\ l.stack = x.stack /\ l.former = x.former /\ l.dropped = none /\ l.index = x.index
    BY <2>9, <2>10 DEF IsLine
  <2>12. Pushed(line, a, l)
    BY <2>4, <2>9, <2>10, <2>11 DEF Pushed
  <2>13. Requested(world, before, req, l) /\ PushedOn(line, a, l)
    <3>1. req \in Requests /\ req.kind = "build" /\ Requested(world, before, req, line)
      BY <1>2 DEF AtWork
    <3> QED
      BY <2>2, <2>3, <2>12, <3>1, PushOf
  <2>14. PICK b \in Adjustments : Key(b) = Key(a) /\ l.stack = Append(line.stack, b)
    BY <2>13 DEF Key, PushedOn
  <2>15. /\ Len(l.stack) = n + 1 /\ l.stack[n + 1] = b
         /\ \A i \in 1..n : l.stack[i] = line.stack[i]
         /\ l.stack \in Seq(Adjustments)
    BY <1>4, <2>14, AppendSet
  <2>16. State(l.stack) = State(line.stack) \cup State(line.dropped)
    <3>1. State(Append(line.stack, b)) = State(line.stack) \cup {Key(b)}
      BY <1>4, StateOf
    <3> QED
      BY <2>7, <2>14, <3>1
  <2>17. State(l.stack) \ {Key(b)} = State(line.stack)
    BY <2>7, <2>8, <2>14, <2>16
  <2>18. ASSUME NEW i \in 1..n + 1, i > n - line.index
         PROVE  State(l.stack) \ {Key(l.stack[i])} \in bad
    <3>1. CASE i = n + 1
      BY <1>3, <2>15, <2>17, <3>1
    <3>2. CASE i # n + 1
      <4>1. i \in 1..n
        BY <2>4, <3>2
      <4> QED
        BY <2>5, <2>15, <2>16, <2>18, <4>1
    <3> QED
      BY <3>1, <3>2
  <2>19. CASE next # Len(l.stack)
    <3>1. Without1st(l, next)
      BY <2>1, <2>19
    <3>2. next \in Int /\ next \in 0 .. Len(l.stack) - 1
      BY <2>4, <2>15, <2>19
    <3>3. \A i \in 2..Len(l.stack) :
             i > Len(l.stack) - next => State(l.stack) \ {Key(l.stack[i])} \in bad
      <4> SUFFICES ASSUME NEW i \in 2..Len(l.stack), i > Len(l.stack) - next
                   PROVE  State(l.stack) \ {Key(l.stack[i])} \in bad
        OBVIOUS
      <4>1. i \in 1..n + 1 /\ i > n - line.index
        BY <2>4, <2>15
      <4> QED
        BY <2>18, <4>1
    <3>4. l.stack # <<>>
      <4>1. Len(l.stack) # 0
        BY <2>4, <2>15
      <4> QED
        BY <2>15, <4>1, EmptySeq
    <3>5. l.former # {}
      BY <2>10, <2>11
    <3> HIDE DEF next
    <3> QED
      BY <1>1, <1>2, <2>6, <2>13, <3>1, <3>2, <3>3, <3>4, <3>5, Without1stKeeps
  <2>20. CASE next = Len(l.stack)
    <3> DEFINE m == [l EXCEPT !.index = next]
    <3>1. Recollect(m)
      BY <2>1, <2>20
    <3>2. m = [l EXCEPT !.index = next]
      OBVIOUS
    <3>6. next \in Int /\ next = n + 1
      BY <2>4, <2>15, <2>20
    <3> HIDE DEF m, next
    <3>3. /\ IsLine(m) /\ m.hold = l.hold /\ m.order = l.order /\ m.expect = l.expect
          /\ m.stack = l.stack /\ m.former = l.former /\ m.dropped = l.dropped /\ m.index = next
      BY <2>11, <3>2 DEF IsLine
    <3>4. Requested(world, before, req, m)
      <4>1. Lines(m)
        BY <2>13, <3>3, <3>6 DEF Requested, Lines, IsLine
      <4> QED
        BY <2>13, <3>3, <4>1, RequestedSame
    <3>5. Refining(bad, m)
      <4>1. m.index = Len(m.stack) /\ m.dropped = <<>> /\ m.former # {}
        BY <2>9, <2>10, <2>11, <2>20, <3>3 DEF next
      <4>2. m.index \in 0..Len(m.stack) /\ m.index # NoRefinement
        BY <2>4, <3>3, <3>6, <4>1 DEF NoRefinement
      <4>3. State(m.dropped) = {}
        BY <1>4, <4>1, StateOf
      <4>4. \A i \in 1..Len(m.stack) :
               (State(m.stack) \cup State(m.dropped)) \ {Key(m.stack[i])} \in bad
        <5>1. \A i \in 1..n + 1 : i > n - line.index
          BY <2>4, <3>6 DEF next
        <5>2. \A i \in 1..n + 1 : State(l.stack) \ {Key(l.stack[i])} \in bad
          BY <2>18, <5>1
        <5> QED
          BY <2>15, <3>3, <4>3, <5>2
      <4> QED
        BY <2>6, <4>1, <4>2, <4>4 DEF Refining
    <3> QED
      BY <1>1, <1>2, <3>1, <3>4, <3>5, RecollectKeeps DEF BuildPhases
  <2> QED
    BY <2>19, <2>20
<1> QED
  BY <1>5, <1>6

\* What is offered is available and the user's constraint allows it.
LEMMA ConsiderOf ==
    ASSUME AtWork, NEW p \in Pkgs, p \in DOMAIN col.bm,
           NEW versions, versions \subseteq Offers(world, before, line, p),
           NEW refused \in Seq(Pkgs), NEW v \in versions,
           NEW found, found = Consider(world, before, col, line, p, versions, refused, v)
    PROVE  /\ found.versions \subseteq versions /\ found.refused \in Seq(Pkgs)
           /\ found.offer # <<>> => /\ found.offer[1] \in Versions \cap world.available[p]
                                    /\ found.offer[1] \in Constraint(line, p)
<1> DEFINE b == col.bm[p]
           s == before[p].version
           suits(w) == /\ Satisfies(w, b.constraints) /\ w # Current(before, col, p)
                       /\ ~TriedEarlier(line, p, w)
           older == Constraint(line, p) = AnyVersion /\ s # 0 /\ v < s
           other(w) == line.denyProjects /\ OtherVersion(world, line, p, w)
           rest == versions \ {v}
           refuse == Extended(refused, Refusing(b, v))
           refuseBoth == IF older THEN Extended(refuse, Refusing(b, s)) ELSE refuse
           denied == older /\ suits(s) /\ other(s)
<1>1. b \in Entries
  BY DEF AtWork, Maps
<1>2. \A w : Refusing(b, w) \in Seq(Pkgs)
  BY <1>1, AgainstOf, DependentsOf DEF Refusing
<1>3. refuse \in Seq(Pkgs)
  BY <1>2, ExtendedOf
<1>4. refuseBoth \in Seq(Pkgs)
  <2> HIDE DEF refuse
  <2>1. Extended(refuse, Refusing(b, s)) \in Seq(Pkgs)
    BY <1>2, <1>3, ExtendedOf
  <2> QED
    BY <1>3, <2>1
<1>5. v \in Versions \cap world.available[p] /\ v \in Constraint(line, p)
  BY OffersOf DEF Offers
<1>6. ASSUME older
      PROVE  s \in Versions \cap world.available[p] /\ s \in Constraint(line, p)
  <2>1. before[p].state # "none"
    BY <1>6 DEF AtWork, Configuration, None, Config!NoPackage
  <2>2. s \in world.available[p]
    BY <2>1 DEF AtWork, Configuration
  <2>3. world.available[p] \subseteq Versions
    BY WorldsAssumption DEF AtWork
  <2> QED
    BY <1>6, <2>2, <2>3 DEF AnyVersion
<1>7. found = IF ~suits(v) THEN Found(<<>>, rest, refuse, FALSE, FALSE)
              ELSE IF older /\ suits(s) /\ ~other(s) THEN Found(<<s>>, {}, refuseBoth, FALSE, FALSE)
              ELSE IF older /\ line.denyDowngrade THEN Found(<<>>, {}, refuseBoth, TRUE, denied)
              ELSE IF other(v) THEN Found(<<>>, rest, refuseBoth, FALSE, TRUE)
              ELSE Found(<<v>>, {}, refuseBoth, FALSE, denied)
  BY DEF Consider
<1> HIDE DEF older, refuse, refuseBoth, suits, other, denied
<1>8. \/ found = Found(<<>>, rest, refuse, FALSE, FALSE)
      \/ found = Found(<<>>, rest, refuseBoth, FALSE, TRUE)
      \/ older /\ found = Found(<<s>>, {}, refuseBoth, FALSE, FALSE)
      \/ found = Found(<<>>, {}, refuseBoth, TRUE, denied)
      \/ found = Found(<<v>>, {}, refuseBoth, FALSE, denied)
  BY <1>7
<1>9. ASSUME NEW o, NEW vs, NEW r, NEW d, NEW e, found = Found(o, vs, r, d, e)
      PROVE  found.offer = o /\ found.versions = vs /\ found.refused = r
  BY <1>9 DEF Found
<1>10. /\ found.versions \in {rest, {}} /\ found.refused \in {refuse, refuseBoth}
       /\ found.offer = <<>> \/ found.offer = <<v>> \/ (older /\ found.offer = <<s>>)
  <2>1. CASE found = Found(<<>>, rest, refuse, FALSE, FALSE)
    <3>1. found.offer = <<>> /\ found.versions = rest /\ found.refused = refuse
      BY <1>9, <2>1
    <3> QED
      BY <3>1
  <2>2. CASE found = Found(<<>>, rest, refuseBoth, FALSE, TRUE)
    <3>1. found.offer = <<>> /\ found.versions = rest /\ found.refused = refuseBoth
      BY <1>9, <2>2
    <3> QED
      BY <3>1
  <2>3. CASE older /\ found = Found(<<s>>, {}, refuseBoth, FALSE, FALSE)
    <3>1. found.offer = <<s>> /\ found.versions = {} /\ found.refused = refuseBoth
      BY <1>9, <2>3
    <3> QED
      BY <2>3, <3>1
  <2>4. CASE found = Found(<<>>, {}, refuseBoth, TRUE, denied)
    <3>1. found.offer = <<>> /\ found.versions = {} /\ found.refused = refuseBoth
      BY <1>9, <2>4
    <3> QED
      BY <3>1
  <2>5. CASE found = Found(<<v>>, {}, refuseBoth, FALSE, denied)
    <3>1. found.offer = <<v>> /\ found.versions = {} /\ found.refused = refuseBoth
      BY <1>9, <2>5
    <3> QED
      BY <3>1
  <2> QED
    BY <1>8, <2>1, <2>2, <2>3, <2>4, <2>5
<1>11. found.versions \subseteq versions
  BY <1>10
<1>12. found.refused \in Seq(Pkgs)
  BY <1>3, <1>4, <1>10
<1>13. ASSUME found.offer # <<>>
       PROVE  /\ found.offer[1] \in Versions \cap world.available[p]
              /\ found.offer[1] \in Constraint(line, p)
  <2>1. CASE found.offer = <<v>>
    BY <1>5, <2>1
  <2>2. CASE older /\ found.offer = <<s>>
    BY <1>6, <2>2
  <2> QED
    BY <1>10, <1>13, <2>1, <2>2
<1> QED
  BY <1>11, <1>12, <1>13

\* What a package offered another version is adjusted to.
LEMMA AdjustmentMade ==
    ASSUME AtWork, NEW p \in Pkgs, Remade(col, p), NEW x \in Versions \cap world.available[p],
           ~Fixed(before, line, p), x \in Constraint(line, p),
           NEW a, a = Adjustment(before, line, p, x)
    PROVE  /\ a \in Adjustments /\ Adjustable(world, before, req, a)
           /\ a.name \notin NamesOf(line.stack) /\ a.name = p
<1>1. /\ Requested(world, before, req, line) /\ req \in Requests /\ req.kind = "build"
  BY DEF AtWork
<1>2. /\ req.hold \in [DOMAIN req.hold -> HoldSpecs]
      /\ req.expect \in [DOMAIN req.expect -> DependencySpecs]
      /\ DOMAIN req.hold \cap DOMAIN req.expect = {}
  BY <1>1, RequestsAssumption
<1>3. p \notin NamesOf(line.stack)
  <2> SUFFICES ASSUME NEW b \in ToSet(line.stack), b.name = p PROVE FALSE
    BY DEF NamesOf
  <2>1. InForce(req, line, b) /\ Adjustable(world, before, req, b)
    BY <1>1 DEF Requested
  <2>2. b \in Adjustments
    <3>1. line.stack \in Seq(Adjustments)
      BY <1>1 DEF Requested, Lines
    <3> QED
      BY <3>1, SetOf
  <2>3. \A y : Exact({y})
    BY FS_Singleton DEF Exact
  <2>4. CASE b.type = "hold_existing"
    <3>1. req.hold[p] \in HoldSpecs
      BY <1>2, <2>1, <2>4 DEF Adjustable
    <3>2. p \in DOMAIN line.hold /\ line.hold[p].allowed = {b.version}
      BY <2>1, <2>4, <3>1 DEF InForce, HoldSpecs
    <3> QED
      BY <2>3, <3>2 DEF Fixed
  <2>5. CASE b.type = "hold_new"
    <3>1. p \in DOMAIN line.hold /\ line.hold[p].allowed = {b.version}
      BY <2>1, <2>5 DEF InForce, HoldSpec
    <3> QED
      BY <2>3, <3>1 DEF Fixed
  <2>6. CASE b.type = "dep_existing"
    <3>1. req.expect[p] \in DependencySpecs
      BY <1>2, <2>1, <2>6 DEF Adjustable
    <3>2. p \in DOMAIN line.expect /\ line.expect[p].allowed = {b.version}
      BY <2>1, <2>6, <3>1 DEF InForce, DependencySpecs
    <3> QED
      BY <2>3, <3>2 DEF Fixed
  <2>7. CASE b.type = "dep_new"
    <3>1. p \in DOMAIN line.expect /\ line.expect[p].allowed = {b.version}
      BY <2>1, <2>7 DEF InForce, DependencySpec
    <3> QED
      BY <2>3, <3>1 DEF Fixed
  <2> QED
    BY <2>2, <2>4, <2>5, <2>6, <2>7 DEF Adjustments
<1>4. AsRequested(req, line, p)
  BY <1>1, <1>3 DEF Requested
<1>5. /\ a.name = p /\ a.version = x /\ a.original = <<>>
      /\ a.type = (IF p \in DOMAIN line.hold THEN "hold_existing"
                   ELSE IF p \in DOMAIN line.expect THEN "dep_existing"
                   ELSE IF before[p].hold THEN "hold_new" ELSE "dep_new")
  BY DEF Adjustment
<1>6. a \in Adjustments
  BY EmptySeqOf DEF Adjustment, Adjustments
<1>7. before[p].state # "broken"
  <2>1. Enterable(world, before, line, p, col.bm[p])
    BY DEF AtWork, Maps, Remade
  <2> QED
    BY <2>1 DEF Remade, Enterable, Buildable
<1>8. Adjustable(world, before, req, a)
  <2>1. CASE p \in DOMAIN line.hold
    <3>1. p \in DOMAIN req.hold /\ x \in req.hold[p].allowed
      BY <1>4, <2>1 DEF AsRequested, Constraint
    <3> QED
      BY <1>5, <1>7, <2>1, <3>1 DEF Adjustable
  <2>2. CASE p \notin DOMAIN line.hold /\ p \in DOMAIN line.expect
    <3>1. p \in DOMAIN req.expect /\ x \in req.expect[p].allowed
      BY <1>4, <2>2 DEF AsRequested, Constraint
    <3> QED
      BY <1>5, <2>2, <3>1 DEF Adjustable
  <2>3. CASE p \notin DOMAIN line.hold /\ p \notin DOMAIN line.expect
    <3>1. p \notin DOMAIN req.hold \cup DOMAIN req.expect
      BY <1>4, <2>3 DEF AsRequested
    <3> QED
      BY <1>5, <1>7, <2>3, <3>1 DEF Adjustable
  <2> QED
    BY <2>1, <2>2, <2>3
<1> QED
  BY <1>3, <1>5, <1>6, <1>8

\* The history of the command line changes nothing about the collection.
LEMMA SameLineWorks ==
    ASSUME AtWork, NEW l, l.hold = line.hold, l.expect = line.expect
    PROVE  /\ Collects(world, before, l, col)
           /\ \A d \in ToSet(deps) : Decides(world, before, l, d)
           /\ \A p : AsAsked(line, col, p) => AsAsked(l, col, p)
           /\ \A ph, c, ps, t : Tasked(ph, world, before, line, c, ps, t) =>
                 Tasked(ph, world, before, l, c, ps, t)
           /\ \A p : Offers(world, before, l, p) = Offers(world, before, line, p)
<1>1. l.hold = line.hold /\ l.expect = line.expect
  OBVIOUS
<1>2. \A p : /\ Wanted(l, p) = Wanted(line, p)
             /\ Droppable(before, l, p) <=> Droppable(before, line, p)
  BY <1>1 DEF Wanted, Droppable
<1>3. \A p, b : Enterable(world, before, line, p, b) => Enterable(world, before, l, p, b)
  BY <1>1, <1>2 DEF Enterable
<1>4. \A p, r : Replaces(world, before, line, p, r) => Replaces(world, before, l, p, r)
  BY <1>2 DEF Replaces
<1>5. Collects(world, before, l, col)
  BY <1>3, <1>4 DEF Collects, AtWork
<1>6. \A d : Decides(world, before, line, d) => Decides(world, before, l, d)
  BY <1>2 DEF Decides
<1>7. \A p : AsAsked(line, col, p) => AsAsked(l, col, p)
  BY <1>1, <1>2 DEF AsAsked
<1>8. \A p : Offers(world, before, l, p) = Offers(world, before, line, p)
  BY <1>1 DEF Offers, Fixed, Constraint
<1>9. \A ph, c, ps, t : Tasked(ph, world, before, line, c, ps, t) =>
         Tasked(ph, world, before, l, c, ps, t)
  BY <1>1, <1>6, <1>8 DEF Tasked
<1> QED
  BY <1>5, <1>6, <1>7, <1>8, <1>9 DEF AtWork

\* A version is offered, or not.
LEMMA ConsiderVersionKeeps == ASSUME Inv, ConsiderVersion PROVE Inv'
<1> DEFINE t == Head(tasks)
           p == t.name
<1>1. Task("consider")
  BY DEF ConsiderVersion
<1>2. /\ tasks # <<>> /\ t \in TaskRecords /\ "consider" \in Ops(phase) /\ phase # "idle"
      /\ t.op = "consider" /\ Tasked(phase, world, before, line, col, ToSet(plan), t)
  BY <1>1, HeadOf
<1>3. phase = "search"
  BY <1>2 DEF Ops
<1>4. AtWork /\ selected = before /\ search \in Searches
  BY <1>3, WorkOf DEF OfBuild, BuildPhases, Inv, Undisturbed, Stages, Tasking
<1>5. p \in Pkgs /\ t.refused \in Seq(Pkgs) /\ t.versions \subseteq Versions
  BY <1>2, TaskOf
<1>6. Remade(col, p) /\ t.versions \subseteq Offers(world, before, line, p)
  BY <1>2 DEF Tasked
<1>7. /\ Refining(judged.bad, line) /\ line.index = NoRefinement
      /\ State(line.stack) \in judged.bad /\ col.unsat # <<>> /\ line.dropped = <<>>
  <2>1. /\ Refining(judged.bad, line) /\ line.index = NoRefinement
        /\ State(line.stack) \in judged.bad /\ col.unsat # <<>>
    BY <1>3, <1>4, RefiningOf DEF BuildPhases, AtWork, Inv, Judging
  <2> QED
    BY <2>1 DEF Refining
<1>8. PICK v \in t.versions :
        LET found == Consider(world, selected, col, line, p, t.versions, t.refused, v)
            l == [line EXCEPT !.downgrades = @ \/ found.downgrades,
                              !.projects = @ \/ found.projects]
        IN  IF \E q \in ToSet(found.refused) : ~Has(col, q) THEN FailAssertion
            ELSE IF found.offer # <<>>
            THEN Recollect(Push(l, Adjustment(selected, l, p, found.offer[1])))
            ELSE /\ line' = l
                 /\ More(<<[op |-> "consider", name |-> p, refused |-> found.refused,
                           versions |-> found.versions]>>)
                 /\ UNCHANGED <<phase, judged, col, search, deps, initial, iterations, plan>>
                 /\ Staying
  BY DEF ConsiderVersion
<1> DEFINE found == Consider(world, before, col, line, p, t.versions, t.refused, v)
           some == line.downgrades \/ found.downgrades
           others == line.projects \/ found.projects
           l == [line EXCEPT !.downgrades = some, !.projects = others]
           a == Adjustment(before, l, p, found.offer[1])
           next == [op |-> "consider", name |-> p, refused |-> found.refused,
                     versions |-> found.versions]
<1>9. \/ FailAssertion
      \/ found.offer # <<>> /\ Recollect(Push(l, a))
      \/ /\ line' = l /\ More(<<next>>)
         /\ UNCHANGED <<world, selected, req, before, phase, judged, col, search, deps, plan>>
  BY <1>4, <1>8 DEF Staying
<1>10. /\ found.versions \subseteq t.versions /\ found.refused \in Seq(Pkgs)
       /\ found.offer # <<>> => /\ found.offer[1] \in Versions \cap world.available[p]
                                /\ found.offer[1] \in Constraint(line, p)
  <2> DEFINE vs == t.versions
             refused == t.refused
             f == Consider(world, before, col, line, p, vs, refused, v)
  <2>1. p \in DOMAIN col.bm
    BY <1>6 DEF Remade
  <2>2. vs \subseteq Offers(world, before, line, p) /\ refused \in Seq(Pkgs) /\ v \in vs
    BY <1>5, <1>6
  <2>3. f = found /\ f = Consider(world, before, col, line, p, vs, refused, v)
    OBVIOUS
  <2> HIDE DEF f, found, vs, refused, t, p
  <2>4. /\ f.versions \subseteq vs /\ f.refused \in Seq(Pkgs)
        /\ f.offer # <<>> => /\ f.offer[1] \in Versions \cap world.available[p]
                             /\ f.offer[1] \in Constraint(line, p)
    BY <1>4, <1>5, <2>1, <2>2, <2>3, ConsiderOf
  <2> QED
    BY <2>3, <2>4 DEF vs
<1>11. SameLine(line, l) /\ l.former = line.former
  <2>1. IsLine(line)
    BY <1>4 DEF AtWork, Lines, IsLine
  <2>2. l = [line EXCEPT !.downgrades = some, !.projects = others]
    OBVIOUS
  <2> HIDE DEF l, some, others
  <2> QED
    BY <2>1, <2>2 DEF SameLine, IsLine
<1>12. a.name = p
  BY DEF Adjustment
<1> HIDE DEF found, l, next
<1>13. Requested(world, before, req, l)
  BY <1>4, <1>11, SameLineOf DEF AtWork
<1>14. CASE found.offer # <<>> /\ Recollect(Push(l, a))
  <2> DEFINE x == found.offer[1]
             m == Push(l, a)
  <2>1. ~Fixed(before, line, p)
    BY <1>6 DEF Offers
  <2>2. x \in Versions \cap world.available[p] /\ x \in Constraint(line, p)
    BY <1>10, <1>14
  <2>3. a = Adjustment(before, line, p, x)
    BY <1>11 DEF Adjustment, SameLine
  <2>11. Recollect(m) /\ m = Push(l, a)
    BY <1>14
  <2> HIDE DEF a, x, p, m
  <2>4. /\ a \in Adjustments /\ Adjustable(world, before, req, a)
        /\ a.name \notin NamesOf(line.stack) /\ a.name = p
    BY <1>4, <1>5, <1>6, <2>1, <2>2, <2>3, AdjustmentMade
  <2>5. l.stack = line.stack /\ l.dropped = <<>> /\ l.index = NoRefinement /\ Lines(l)
    BY <1>7, <1>11, <1>13 DEF SameLine, Requested
  <2>6. IsLine(m) /\ m.index = l.index /\ m.dropped = l.dropped /\ m.former # {}
    BY <2>5, <2>11, PushLine
  <2>7. Pushed(l, a, m)
    BY <2>5, <2>6, <2>11 DEF Pushed, NoRefinement
  <2>8. Requested(world, before, req, m)
    <3>1. req \in Requests /\ req.kind = "build"
      BY <1>4 DEF AtWork
    <3>2. a.name \notin NamesOf(l.stack)
      BY <2>4, <2>5
    <3> QED
      BY <1>13, <2>4, <2>7, <3>1, <3>2, PushOf
  <2>9. Refining(judged.bad, m)
    <3>1. {} \in judged.bad
      <4>1. CASE line.stack # <<>>
        BY <1>7, <4>1 DEF Refining
      <4>2. CASE line.stack = <<>>
        <5>1. State(line.stack) = {}
          BY <4>2 DEF State, ToSet
        <5> QED
          BY <1>7, <5>1
      <4> QED
        BY <4>1, <4>2
    <3> QED
      BY <2>5, <2>6, <3>1 DEF Refining
  <2> QED
    BY <1>3, <1>4, <2>8, <2>9, <2>11, RecollectKeeps DEF BuildPhases
<1>15. CASE /\ line' = l /\ More(<<next>>)
            /\ UNCHANGED <<world, selected, req, before, phase, judged, col, search, deps, plan>>
  <2>1. /\ Collects(world, before, l, col)
        /\ \A d \in ToSet(deps) : Decides(world, before, l, d)
        /\ \A q : AsAsked(line, col, q) => AsAsked(l, col, q)
        /\ \A ph, c, ps, u : Tasked(ph, world, before, line, c, ps, u) =>
              Tasked(ph, world, before, l, c, ps, u)
        /\ \A q : Offers(world, before, l, q) = Offers(world, before, line, q)
    BY <1>4, <1>11, SameLineWorks DEF SameLine
  <2>2. next \in TaskRecords /\ next.op = "consider" /\ next.name = p
        /\ next.versions = found.versions
    <3> DEFINE vs == found.versions
               refused == found.refused
    <3>2. vs \in SUBSET Versions /\ refused \in Seq(Pkgs)
      BY <1>5, <1>10
    <3>4. next = [op |-> "consider", name |-> p, refused |-> refused, versions |-> vs]
      BY DEF next
    <3> HIDE DEF vs, refused, t, p
    <3>5. next.op = "consider" /\ next.name = p /\ next.versions = vs
      BY <3>4
    <3>6. next \in TaskRecords
      BY <1>5, <3>2, <3>4 DEF TaskRecords
    <3> QED
      BY <3>5, <3>6 DEF vs
  <2>3. Tasked("search", world, before, l, col, ToSet(plan), next)
    BY <1>6, <1>10, <2>1, <2>2 DEF Tasked, Ops
  <2> DEFINE more == <<next>>
  <2>4. More(more) /\ more \in Seq(TaskRecords) /\ ToSet(more) = {next}
    BY <1>15, <2>2, PairOf, PairSet
  <2> HIDE DEF more
  <2>5. /\ tasks' \in Seq(TaskRecords) /\ ToSet(tasks) = {Head(tasks)} \cup ToSet(Tail(tasks))
        /\ ToSet(tasks') = ToSet(more) \cup ToSet(Tail(tasks))
    BY <1>2, <1>4, <2>4, MoreOf DEF AtWork
  <2>6. \A u \in ToSet(tasks') : Tasked("search", world, before, l, col, ToSet(plan), u)
    BY <1>3, <1>4, <2>1, <2>3, <2>4, <2>5 DEF AtWork
  <2>7. Undisturbed'
    BY <1>3, <1>4, <1>15, UndisturbedStays DEF AtWork, Inv, BuildPhases, Stages, OfBuild
  <2>8. Collecting'
    <3>1. \A q \in DOMAIN line.hold : AsAsked(line, col, q)
      BY <1>3, <1>4, AskedOf
    <3>2. \A q \in DOMAIN l.hold : AsAsked(l, col, q)
      BY <1>11, <2>1, <3>1 DEF SameLine
    <3>3. Commanded'
      BY <1>4, <1>15 DEF Commanded, AtWork
    <3> QED
      BY <1>4, <1>13, <1>15, <2>1, <3>2, <3>3 DEF Collecting, AtWork
  <2>9. Tasking'
    BY <1>3, <1>4, <1>15, <2>5, <2>6 DEF Tasking
  <2>10. Refining(judged'.bad, line')
    BY <1>7, <1>11, <1>15 DEF Refining, SameLine
  <2>11. State(line'.stack) \in judged'.bad /\ line'.index = NoRefinement /\ col'.unsat # <<>>
    BY <1>7, <1>11, <1>15 DEF SameLine
  <2> QED
    BY <1>3, <1>15, <2>7, <2>8, <2>9, <2>10, <2>11, BetweenPlans
<1> QED
  BY <1>2, <1>9, <1>14, <1>15, FailsOf
===========================================================================
