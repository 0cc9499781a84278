------------------------ MODULE PackageCommandsProofs ------------------------
(* What pkg-build and pkg-drop leave behind, for any packages, versions,    *)
(* repositories and requests, whatever the order of the packages and        *)
(* however many commands and faults there are.                              *)
(*                                                                          *)
(* The invariant of PackageCommandsInvariant is kept by every action: there *)
(* is a lemma for each, named after it, here from the order of the plan on. *)
(* Those of the execution also say which step of ConfiguredPackages the     *)
(* action takes. Lemmas of a second kind are about the order of the plan:   *)
(* that every action keeps it, and that therefore no step of the execution  *)
(* is refused that was not refused as it was simulated. Those of a third    *)
(* kind are about what the order is made from: that no plan is refused for  *)
(* its order, as it is simulated either.                                    *)
EXTENDS CollectionProofs

---------------------------------------------------------------------------
(* The order of the plan.                                                   *)
\* What is once in two sequences without any of it in common is once in both together.
LEMMA OnceConcat ==
    ASSUME NEW T, NEW s \in Seq(T), NEW t \in Seq(T), NEW I, Once(s, I), Once(t, I),
           ToSet(s) \cap ToSet(t) \cap I = {}
    PROVE  Once(s \o t, I)
<1>1. s \o t \in Seq(T) /\ Len(s \o t) = Len(s) + Len(t)
      /\ \A i \in 1..Len(s) + Len(t) : (s \o t)[i] = IF i <= Len(s) THEN s[i] ELSE t[i - Len(s)]
  BY ConcatProperties
<1>2. /\ Len(s) \in Nat /\ DOMAIN s = 1..Len(s) /\ Len(t) \in Nat /\ DOMAIN t = 1..Len(t)
      /\ DOMAIN (s \o t) = 1..Len(s \o t)
  BY <1>1, SetOf
<1>3. (\A i \in 1..Len(s) : s[i] \in ToSet(s)) /\ (\A i \in 1..Len(t) : t[i] \in ToSet(t))
  BY SetOf
<1> DEFINE u == s \o t
           m == Len(s)
           n == Len(t)
<1> SUFFICES ASSUME NEW i \in 1..m + n, NEW j \in 1..m + n, u[i] \in I, u[i] = u[j]
             PROVE  i = j
  BY <1>1, <1>2 DEF Once
<1>4. /\ \A x \in 1..m + n : u[x] = IF x <= m THEN s[x] ELSE t[x - m]
      /\ m \in Nat /\ n \in Nat
      /\ \A x, y \in 1..m : s[x] \in I /\ s[x] = s[y] => x = y
      /\ \A x, y \in 1..n : t[x] \in I /\ t[x] = t[y] => x = y
  BY <1>1, <1>2 DEF Once
<1>5. \A x \in 1..m : \A y \in 1..n : s[x] \in I => s[x] # t[y]
  BY <1>3
<1> HIDE DEF u, m, n
<1>6. CASE i <= m /\ j <= m
  BY <1>4, <1>6
<1>7. CASE i <= m /\ ~(j <= m)
  <2>1. j - m \in 1..n /\ i \in 1..m
    BY <1>4, <1>7
  <2> QED
    BY <1>4, <1>5, <1>7, <2>1
<1>8. CASE ~(i <= m) /\ j <= m
  <2>1. i - m \in 1..n /\ j \in 1..m
    BY <1>4, <1>8
  <2> QED
    BY <1>4, <1>5, <1>8, <2>1
<1>9. CASE ~(i <= m) /\ ~(j <= m)
  <2>1. i - m \in 1..n /\ j - m \in 1..n
    BY <1>4, <1>9
  <2>2. i - m = j - m
    BY <1>4, <1>9, <2>1
  <2> QED
    BY <1>4, <2>2
<1> QED
  BY <1>6, <1>7, <1>8, <1>9

\* The first task is done.
LEMMA OnceTail ==
    ASSUME NEW T, NEW s \in Seq(T), s # <<>>, NEW I, Once(s, I)
    PROVE  Once(Tail(s), I) /\ (Head(s) \in I => Head(s) \notin ToSet(Tail(s)))
<1>1. /\ Len(s) \in Nat /\ DOMAIN s = 1..Len(s)
  BY SetOf
<1>2. /\ Tail(s) \in Seq(T) /\ Head(s) = s[1] /\ Len(s) > 0 /\ Len(Tail(s)) = Len(s) - 1
      /\ \A i \in 1..Len(s) - 1 : Tail(s)[i] = s[i + 1]
  BY TailSet
<1> DEFINE n == Len(s)
           r == Tail(s)
<1>3. DOMAIN r = 1..n - 1 /\ \A x : x \in ToSet(r) => \E i \in 1..n - 1 : r[i] = x
  <2>1. /\ \A x : x \in ToSet(r) <=> \E i \in 1..Len(r) : r[i] = x
        /\ DOMAIN r = 1..Len(r)
    BY <1>2, SetOf
  <2> QED
    BY <1>2, <2>1
<1>4. /\ n \in Nat /\ n > 0 /\ \A i \in 1..n - 1 : r[i] = s[i + 1]
      /\ \A i, j \in 1..n : s[i] \in I /\ s[i] = s[j] => i = j
  BY <1>1, <1>2 DEF Once
<1> HIDE DEF n, r
<1>5. ASSUME NEW i \in 1..n - 1, NEW j \in 1..n - 1, r[i] \in I, r[i] = r[j]
      PROVE  i = j
  <2>1. i + 1 \in 1..n /\ j + 1 \in 1..n
    BY <1>4
  <2>2. i + 1 = j + 1
    BY <1>4, <1>5, <2>1
  <2> QED
    BY <1>4, <2>2
<1>6. ASSUME s[1] \in I, s[1] \in ToSet(r)
      PROVE  FALSE
  <2>1. PICK i \in 1..n - 1 : r[i] = s[1]
    BY <1>3, <1>6
  <2>2. i + 1 \in 1..n /\ 1 \in 1..n /\ s[i + 1] = s[1]
    BY <1>4, <2>1
  <2>3. i + 1 = 1
    BY <1>4, <1>6, <2>2
  <2> QED
    BY <1>4, <2>3
<1> QED
  BY <1>2, <1>3, <1>5, <1>6 DEF Once, r

\* What p is inserted into the plan.
LEMMA InsertOf ==
    ASSUME NEW s \in Seq(Pkgs), NEW p \in Pkgs, p \notin ToSet(s), IsInjective(s), NEW qs
    PROVE  /\ Insert(s, p, qs) \in Seq(Pkgs) /\ IsInjective(Insert(s, p, qs))
           /\ ToSet(Insert(s, p, qs)) = ToSet(s) \cup {p}
<1> DEFINE first == {i \in DOMAIN s : \A j \in 1..i : s[j] \notin ToSet(qs)}
           k == Cardinality(first) + 1
           n == Len(s)
           u == Insert(s, p, qs)
<1>1. n \in Nat /\ DOMAIN s = 1..n /\ \A i \in 1..n : s[i] \in Pkgs
  BY SetOf
<1>2. k \in 1..n + 1
  <2>1. IsFiniteSet(1..n) /\ Cardinality(1..n) = n
    <3>1. 1 \in Int /\ n \in Int /\ (1 > n => n = 0)
      BY <1>1
    <3>2. IsFiniteSet(1..n) /\ Cardinality(1..n) = IF 1 > n THEN 0 ELSE n - 1 + 1
      BY <3>1, FS_Interval
    <3> QED
      BY <1>1, <3>1, <3>2
  <2>2. first \subseteq 1..n
    BY <1>1
  <2> HIDE DEF first, n
  <2>3. IsFiniteSet(first) /\ Cardinality(first) <= Cardinality(1..n)
    BY <2>1, <2>2, FS_Subset
  <2>4. Cardinality(first) \in Nat
    BY <2>3, FS_CardinalityType
  <2> QED
    BY <1>1, <2>1, <2>3, <2>4
<1>3. u = SubSeq(s, 1, k - 1) \o <<p>> \o SubSeq(s, k, n)
  BY DEF Insert, InsertAt
<1> HIDE DEF k, u
<1>4. /\ SubSeq(s, 1, k - 1) \in Seq(Pkgs) /\ SubSeq(s, k, n) \in Seq(Pkgs)
      /\ Len(SubSeq(s, 1, k - 1)) = k - 1 /\ Len(SubSeq(s, k, n)) = n - k + 1
      /\ \A i \in 1..k - 1 : SubSeq(s, 1, k - 1)[i] = s[i]
      /\ \A i \in 1..n - k + 1 : SubSeq(s, k, n)[i] = s[k + i - 1]
  BY <1>1, <1>2
<1>5. /\ u \in Seq(Pkgs) /\ Len(u) = n + 1
      /\ \A i \in 1..n + 1 : u[i] = IF i < k THEN s[i] ELSE IF i = k THEN p ELSE s[i - 1]
  <2> DEFINE a == SubSeq(s, 1, k - 1)
             b == SubSeq(s, k, n)
             c == a \o <<p>>
  <2>1. /\ a \in Seq(Pkgs) /\ b \in Seq(Pkgs) /\ Len(a) = k - 1 /\ Len(b) = n - k + 1
        /\ \A i \in 1..k - 1 : a[i] = s[i]
        /\ \A i \in 1..n - k + 1 : b[i] = s[k + i - 1]
    BY <1>4
  <2>2. <<p>> \in Seq(Pkgs) /\ Len(<<p>>) = 1 /\ <<p>>[1] = p
    BY PairOf
  <2>3. u = c \o b
    BY <1>3
  <2> HIDE DEF a, b
  <2>4. /\ c \in Seq(Pkgs) /\ Len(c) = Len(a) + Len(<<p>>)
        /\ \A i \in 1..Len(a) + Len(<<p>>) :
              c[i] = IF i <= Len(a) THEN a[i] ELSE <<p>>[i - Len(a)]
    BY <2>1, <2>2, ConcatProperties
  <2> HIDE DEF c
  <2>5. /\ c \in Seq(Pkgs) /\ Len(c) = k
        /\ \A i \in 1..k : c[i] = IF i < k THEN s[i] ELSE p
    <3>1. Len(c) = k
      BY <1>1, <1>2, <2>1, <2>2, <2>4
    <3> SUFFICES ASSUME NEW i \in 1..k PROVE c[i] = IF i < k THEN s[i] ELSE p
      BY <2>4, <3>1
    <3>2. CASE i < k
      <4>1. i \in 1..k - 1 /\ i \in 1..Len(a) + Len(<<p>>) /\ i <= Len(a)
        BY <1>1, <1>2, <2>1, <2>2, <3>2
      <4> QED
        BY <2>1, <2>4, <3>2, <4>1
    <3>3. CASE ~(i < k)
      <4>1. i - Len(a) = 1 /\ i \in 1..Len(a) + Len(<<p>>) /\ ~(i <= Len(a))
        BY <1>1, <1>2, <2>1, <2>2, <3>3
      <4> QED
        BY <2>2, <2>4, <3>3, <4>1
    <3> QED
      BY <3>2, <3>3
  <2>6. /\ u \in Seq(Pkgs) /\ Len(u) = Len(c) + Len(b)
        /\ \A i \in 1..Len(c) + Len(b) :
              u[i] = IF i <= Len(c) THEN c[i] ELSE b[i - Len(c)]
    BY <2>1, <2>3, <2>5, ConcatProperties
  <2>7. Len(c) + Len(b) = n + 1
    BY <1>1, <1>2, <2>1, <2>5
  <2>8. ASSUME NEW i \in 1..n + 1
        PROVE  u[i] = IF i < k THEN s[i] ELSE IF i = k THEN p ELSE s[i - 1]
    <3>1. CASE i <= k
      <4>1. i \in 1..k
        BY <1>1, <1>2, <3>1
      <4>2. u[i] = c[i] /\ c[i] = IF i < k THEN s[i] ELSE p
        BY <2>5, <2>6, <2>7, <3>1, <4>1
      <4> QED
        BY <1>1, <1>2, <3>1, <4>2
    <3>2. CASE ~(i <= k)
      <4>1. i - k \in 1..n - k + 1 /\ k + (i - k) - 1 = i - 1 /\ ~(i < k) /\ i # k
        BY <1>1, <1>2, <3>2
      <4>2. u[i] = b[i - k]
        BY <2>5, <2>6, <2>7, <3>2
      <4>3. b[i - k] = s[k + (i - k) - 1]
        BY <2>1, <4>1
      <4> QED
        BY <4>1, <4>2, <4>3
    <3> QED
      BY <3>1, <3>2
  <2> QED
    BY <2>6, <2>7, <2>8
<1> HIDE DEF n
<1>6. DOMAIN u = 1..n + 1 /\ \A x : x \in ToSet(u) <=> \E i \in 1..n + 1 : u[i] = x
  BY <1>5, SetOf
<1>7. \A x : x \in ToSet(s) <=> \E i \in 1..n : s[i] = x
  BY SetOf DEF n
<1>8. \A i, j \in 1..n : s[i] = s[j] => i = j
  BY <1>1 DEF IsInjective
<1>9. \A i \in 1..n : s[i] # p
  BY <1>7
<1>10. ASSUME NEW i \in 1..n + 1, NEW j \in 1..n + 1, u[i] = u[j]
       PROVE  i = j
  <2>1. \A x \in 1..n + 1 : \/ x < k /\ x \in 1..n /\ u[x] = s[x]
                            \/ x = k /\ u[x] = p
                            \/ x > k /\ x - 1 \in 1..n /\ u[x] = s[x - 1]
    BY <1>1, <1>2, <1>5
  <2>2. CASE i = k \/ j = k
    BY <1>1, <1>2, <1>9, <1>10, <2>1, <2>2
  <2>3. CASE i < k /\ j < k
    BY <1>1, <1>2, <1>8, <1>10, <2>1, <2>3
  <2>4. CASE i < k /\ j > k
    <3>1. i = j - 1
      BY <1>1, <1>2, <1>8, <1>10, <2>1, <2>4
    <3> QED
      BY <1>1, <1>2, <2>4, <3>1
  <2>5. CASE i > k /\ j < k
    <3>1. j = i - 1
      BY <1>1, <1>2, <1>8, <1>10, <2>1, <2>5
    <3> QED
      BY <1>1, <1>2, <2>5, <3>1
  <2>6. CASE i > k /\ j > k
    <3>1. i - 1 = j - 1
      BY <1>1, <1>2, <1>8, <1>10, <2>1, <2>6
    <3> QED
      BY <1>1, <3>1
  <2> QED
    BY <1>1, <1>2, <2>2, <2>3, <2>4, <2>5, <2>6
<1>11. ToSet(u) \subseteq ToSet(s) \cup {p}
  <2> SUFFICES ASSUME NEW i \in 1..n + 1 PROVE u[i] \in ToSet(s) \cup {p}
    BY <1>6
  <2>1. i < k => i \in 1..n
    BY <1>1, <1>2
  <2>2. i > k => i - 1 \in 1..n
    BY <1>1, <1>2
  <2>3. i < k \/ i = k \/ i > k
    BY <1>1, <1>2
  <2> QED
    BY <1>1, <1>2, <1>5, <1>7, <2>1, <2>2, <2>3
<1>12. ToSet(s) \cup {p} \subseteq ToSet(u)
  <2>1. p \in ToSet(u)
    <3>1. k \in 1..n + 1 /\ u[k] = p
      BY <1>1, <1>2, <1>5
    <3> QED
      BY <1>6, <3>1
  <2>2. ASSUME NEW i \in 1..n
        PROVE  s[i] \in ToSet(u)
    <3>1. CASE i < k
      <4>1. i \in 1..n + 1 /\ u[i] = s[i]
        BY <1>1, <1>2, <1>5, <3>1
      <4> QED
        BY <1>6, <4>1
    <3>2. CASE ~(i < k)
      <4>1. i + 1 \in 1..n + 1 /\ ~(i + 1 < k) /\ i + 1 # k /\ (i + 1) - 1 = i
        BY <1>1, <1>2, <3>2
      <4>2. u[i + 1] = s[i]
        BY <1>5, <4>1
      <4> QED
        BY <1>6, <4>1, <4>2
    <3> QED
      BY <3>1, <3>2
  <2> QED
    BY <1>7, <2>1, <2>2
<1>13. IsInjective(u)
  BY <1>6, <1>10 DEF IsInjective
<1> QED
  BY <1>5, <1>11, <1>12, <1>13 DEF u

\* A step to where the plan is ordered or filtered.
LEMMA InOrder ==
    ASSUME Undisturbed', Collecting', Tasking', Ordering', Dropping',
           req'.kind = "build" => Refining(judged'.bad, line'), phase' \in {"order", "filter"}
    PROVE  Inv'
<1>1. phase' \notin Stages \cup {"idle", "adjust", "kept", "search"}
  BY DEF Stages
<1>2. Simulating' /\ Progressing' /\ UnusedDropped' /\ RequestMet'
  BY <1>1 DEF Simulating, Progressing, UnusedDropped, RequestMet, Ended
<1>3. Judging'
  BY <1>1 DEF Judging, AdjustmentsNeeded, Commanded, Stages
<1> QED
  BY <1>2, <1>3 DEF Inv

\* A step that orders.
LEMMA OrderingOf ==
    ASSUME Inv, phase = "order",
           UNCHANGED <<world, selected, req, before, phase, line, judged, col, search, deps>>,
           tasks' \in Seq(TaskRecords),
           \A t \in ToSet(tasks') : Tasked("order", world, before, line, col, ToSet(plan'), t),
           plan' \in Seq(Pkgs), IsInjective(plan'), ToSet(plan') \subseteq Acted(col.bm),
           Once(tasks', Inserts),
           \A p \in ToPlan : p \in ToSet(plan') \/ \E t \in ToSet(tasks') : t.name = p
    PROVE  Inv'
<1>1. Undisturbed'
  BY UndisturbedStays DEF Inv, Undisturbed, OfBuild, BuildPhases, Stages
<1>2. Collecting'
  <2>1. Commanded' <=> Commanded
    BY DEF Commanded
  <2> QED
    BY <2>1 DEF Inv, Collecting
<1>3. Tasking'
  BY DEF Inv, Tasking
<1>4. Ordering'
  <2>1. ToPlan' = ToPlan
    BY DEF ToPlan
  <2> QED
    BY <2>1 DEF Ordering, Awaited
<1>5. Dropping'
  BY DEF Inv, Dropping, Unheld, ConfiguredDependents
<1>6. req'.kind = "build" => Refining(judged'.bad, line')
  BY RefiningOf DEF BuildPhases
<1> QED
  BY <1>1, <1>2, <1>3, <1>4, <1>5, <1>6, InOrder

\* The names of decisions.
LEMMA NamesOfDecisions ==
    ASSUME NEW ds \in Seq(Decisions)
    PROVE  [i \in DOMAIN ds |-> ds[i].name] \in Seq(Pkgs)
<1>1. DOMAIN ds = 1..Len(ds) /\ Len(ds) \in Nat /\ \A i \in 1..Len(ds) : ds[i] \in Decisions
  BY SetOf
<1> DEFINE n == Len(ds)
           names == [i \in 1..n |-> ds[i].name]
<1>2. names \in [1..n -> Pkgs]
  BY <1>1 DEF Decisions
<1>3. names = [i \in DOMAIN ds |-> ds[i].name]
  BY <1>1
<1> HIDE DEF names, n
<1>4. names \in Seq(Pkgs)
  BY <1>1, <1>2, SeqIs DEF n
<1> QED
  BY <1>3, <1>4

\* What is to be ordered.
LEMMA ToOrderOf ==
    ASSUME deps \in Seq(Decisions), Lines(line)
    PROVE  /\ ToOrder \in Seq(TaskRecords)
           /\ \A t \in ToSet(ToOrder) : t.op \in {"order", "reorder"}
           /\ \A p \in DOMAIN line.hold : Do("reorder", p) \in ToSet(ToOrder)
<1> DEFINE builds == Those(deps, {r \in ToSet(deps) : r.version # 0})
           drops == Those(deps, {r \in ToSet(deps) : r.version = 0 /\ Dropped(col.bm, r.name)})
           b == [i \in DOMAIN builds |-> builds[i].name]
           d == [i \in DOMAIN drops |-> drops[i].name]
           adjusted == Listed({p \in Acted(col.bm) : col.bm[p].reconfigure})
           held == Reverse(line.order)
<1>1. b \in Seq(Pkgs) /\ d \in Seq(Pkgs)
  <2>1. builds \in Seq(Decisions) /\ drops \in Seq(Decisions)
    BY ThoseOf
  <2> HIDE DEF builds, drops
  <2> QED
    BY <2>1, NamesOfDecisions
<1>2. adjusted \in Seq(Pkgs)
  BY ListedOf
<1>3. held \in Seq(Pkgs) /\ ToSet(held) = DOMAIN line.hold
  BY ReverseSet DEF Lines
<1>4. ToOrder = Tasks("order", b) \o Tasks("reorder", held) \o Tasks("order", adjusted)
                \o Tasks("order", d)
  BY DEF ToOrder
<1> HIDE DEF b, d, adjusted, held
<1> DEFINE s == Tasks("order", b)
           t == Tasks("reorder", held)
           u == Tasks("order", adjusted)
           v == Tasks("order", d)
<1>5. /\ s \in Seq(TaskRecords) /\ u \in Seq(TaskRecords) /\ v \in Seq(TaskRecords)
      /\ ToSet(s) = {Do("order", p) : p \in ToSet(b)}
      /\ ToSet(u) = {Do("order", p) : p \in ToSet(adjusted)}
      /\ ToSet(v) = {Do("order", p) : p \in ToSet(d)}
  BY <1>1, <1>2, TasksOf
<1>6. t \in Seq(TaskRecords) /\ ToSet(t) = {Do("reorder", p) : p \in ToSet(held)}
  BY <1>3, TasksOf
<1>7. ToOrder = s \o t \o u \o v
  BY <1>4
<1>8. /\ \A x \in ToSet(s) \cup ToSet(t) \cup ToSet(u) \cup ToSet(v) : x.op \in {"order", "reorder"}
      /\ \A p \in DOMAIN line.hold : Do("reorder", p) \in ToSet(t)
  BY <1>3, <1>5, <1>6, DoOf
<1> HIDE DEF s, t, u, v
<1>9. s \o t \in Seq(TaskRecords) /\ ToSet(s \o t) = ToSet(s) \cup ToSet(t)
  BY <1>5, <1>6, ConcatSet
<1> DEFINE st == s \o t
<1>10. st \in Seq(TaskRecords) /\ ToSet(st) = ToSet(s) \cup ToSet(t) /\ ToOrder = st \o u \o v
  BY <1>7, <1>9
<1> HIDE DEF st
<1>11. st \o u \in Seq(TaskRecords) /\ ToSet(st \o u) = ToSet(st) \cup ToSet(u)
  BY <1>5, <1>10, ConcatSet
<1> DEFINE stu == st \o u
<1>12. stu \in Seq(TaskRecords) /\ ToSet(stu) = ToSet(st) \cup ToSet(u) /\ ToOrder = stu \o v
  BY <1>10, <1>11
<1> HIDE DEF stu
<1>13. stu \o v \in Seq(TaskRecords) /\ ToSet(stu \o v) = ToSet(stu) \cup ToSet(v)
  <2>1. stu \in Seq(TaskRecords) /\ v \in Seq(TaskRecords)
    BY <1>5, <1>12
  <2> QED
    BY <2>1, ConcatSet
<1> QED
  BY <1>8, <1>10, <1>12, <1>13

\* The replacements are settled, or the order begins.
LEMMA SettleKeeps == ASSUME Inv, Settle PROVE Inv'
<1> DEFINE redundant == Redundant(col, former, initial)
           p == CHOOSE q \in redundant :
                    \A r \in redundant : Position(Names, q) <= Position(Names, r)
<1>1. phase = "dependents" /\ tasks = <<>> /\ UNCHANGED <<world, selected, req, before, judged>>
  BY DEF Settle
<1>2. AtWork
  BY <1>1, WorkOf DEF OfBuild, BuildPhases
<1>3. /\ Undisturbed /\ phase \notin Stages
  BY <1>1 DEF Inv, Stages
<1>4. Refining(judged'.bad, line)
  BY <1>1, <1>2, RefiningOf DEF BuildPhases, AtWork
<1>5. CASE Iterate(line, deps, CancelBogus(col.replaced), NoMap, TRUE)
  <2>1. Replacing(world, before, line, CancelBogus(col.replaced))
    BY <1>2, ReplacingLess DEF AtWork
  <2> QED
    BY <1>1, <1>2, <1>3, <1>4, <1>5, <2>1, RecollectedOf DEF AtWork
<1>6. CASE Iterate(line, deps, Without(col.replaced, p), NoMap, TRUE)
  <2> HIDE DEF p
  <2>1. Replacing(world, before, line, Without(col.replaced, p))
    <3>1. Replacing(world, before, line, col.replaced)
      BY <1>2 DEF AtWork
    <3> QED
      BY <3>1 DEF Replacing, Without
  <2> QED
    BY <1>1, <1>2, <1>3, <1>4, <1>6, <2>1, RecollectedOf DEF AtWork
<1>7. CASE /\ phase' = "order" /\ tasks' = ToOrder /\ search' = NoSearch
           /\ UNCHANGED <<line, col, deps, initial, iterations, plan, former>>
  <2>1. /\ ToOrder \in Seq(TaskRecords)
        /\ \A t \in ToSet(ToOrder) : t.op \in {"order", "reorder"}
        /\ \A q \in DOMAIN line.hold : Do("reorder", q) \in ToSet(ToOrder)
    BY <1>2, ToOrderOf DEF AtWork
  <2>2. plan = <<>>
    BY <1>1, <1>3 DEF Undisturbed
  <2>3. Undisturbed'
    BY <1>1, <1>3, <1>7, UndisturbedStays DEF OfBuild, BuildPhases, Stages
  <2>4. Collecting'
    <3>1. Commanded'
      BY <1>1, <1>2, <1>7 DEF Commanded, AtWork
    <3>2. \A q \in DOMAIN line.hold : AsAsked(line, col, q)
      BY <1>1, <1>2, AskedOf
    <3> QED
      BY <1>1, <1>2, <1>7, <3>1, <3>2 DEF Collecting, AtWork
  <2>5. Tasking'
    <3>1. \A t \in ToSet(ToOrder) : Tasked("order", world, before, line, col, ToSet(plan), t)
      BY <2>1 DEF Tasked, Ops
    <3>2. NoSearch \in Searches
      BY EmptySeqOf DEF NoSearch, Searches
    <3> QED
      BY <1>1, <1>7, <2>1, <3>1, <3>2 DEF Tasking
  <2>6. Ordering'
    <3>1. plan' = <<>> /\ <<>> \in Seq(Pkgs) /\ ToSet(<<>>) = {} /\ IsInjective(<<>>)
      BY <1>7, <2>2, EmptySeqOf DEF ToSet, IsInjective
    <3>2. Once(ToOrder, Inserts)
      <4>1. DOMAIN ToOrder = 1..Len(ToOrder) /\ \A i \in 1..Len(ToOrder) : ToOrder[i] \in ToSet(ToOrder)
        BY <2>1, SetOf
      <4>2. \A t \in Inserts : t.op = "insert"
        BY DEF Inserts
      <4> QED
        BY <2>1, <4>1, <4>2 DEF Once
    <3>3. ToPlan' = DOMAIN line.hold
      BY <1>1, <1>2, <1>7 DEF ToPlan, AtWork
    <3>4. \A q \in DOMAIN line.hold : \E t \in ToSet(tasks') : t.name = q
      BY <1>7, <2>1, DoOf
    <3> QED
      BY <1>7, <3>1, <3>2, <3>3, <3>4 DEF Ordering, Awaited
  <2>7. Dropping'
    BY <1>1, <1>2 DEF Dropping, AtWork
  <2> QED
    BY <1>4, <1>7, <2>3, <2>4, <2>5, <2>6, <2>7, InOrder
<1> QED
  BY <1>5, <1>6, <1>7 DEF Settle

\* What a package is ordered before.
LEMMA OrderedOf ==
    ASSUME NEW w, NEW sel, NEW bm, NEW p,
           bm[p].action = "build" =>
              Depends(w, p, bm[p].version) \in Seq([name : Pkgs, allowed : SUBSET Versions])
    PROVE  Ordered(w, sel, bm, p) \in Seq(Pkgs)
<1> DEFINE ds == Depends(w, p, bm[p].version)
           manifest == [i \in DOMAIN ds |-> ds[i].name]
           builds == bm[p].action = "build"
           current == CurrentDisfigured(sel, bm, p)
           configured == IF builds THEN Those(Reverse(manifest), Acted(bm)) ELSE <<>>
<1>1. ConfiguredAgainst(sel, bm, p) \in Seq(Pkgs) /\ current \in Seq(Pkgs)
  BY ListedOf DEF ConfiguredAgainst, CurrentDisfigured
<1>2. configured \in Seq(Pkgs)
  <2>1. CASE builds
    <3> DEFINE n == Len(ds)
               f == [i \in 1..n |-> ds[i].name]
               T == [name : Pkgs, allowed : SUBSET Versions]
    <3>0. ds \in Seq(T) /\ \A d \in T : d.name \in Pkgs
      BY <2>1
    <3>a. manifest = [i \in DOMAIN ds |-> ds[i].name]
      OBVIOUS
    <3> HIDE DEF ds, T, manifest
    <3>1. DOMAIN ds = 1..n /\ n \in Nat /\ \A i \in 1..n : ds[i] \in T
      BY <3>0, SetOf
    <3>2. f \in [1..n -> Pkgs] /\ manifest = f
      BY <3>0, <3>1, <3>a
    <3> HIDE DEF f, n
    <3>3. manifest \in Seq(Pkgs)
      BY <3>1, <3>2, SeqIs
    <3>4. Reverse(manifest) \in Seq(Pkgs)
      BY <3>3, ReverseSet
    <3>5. Those(Reverse(manifest), Acted(bm)) \in Seq(Pkgs)
      BY <3>4, ThoseOf
    <3> QED
      BY <2>1, <3>5 DEF manifest, ds
  <2>2. CASE ~builds
    BY <2>2, EmptySeqOf
  <2> QED
    BY <2>1, <2>2
<1>3. Ordered(w, sel, bm, p) \in {ConfiguredAgainst(sel, bm, p), configured \o current}
  BY DEF Ordered
<1> HIDE DEF configured, current
<1>4. configured \o current \in Seq(Pkgs)
  BY <1>1, <1>2, ConcatSet
<1> QED
  BY <1>1, <1>3, <1>4

\* What is in force as packages are ordered.
LEMMA OrderWork ==
    ASSUME Inv, phase = "order"
    PROVE  /\ tasks \in Seq(TaskRecords) /\ selected = before
           /\ \A t \in ToSet(tasks) : Tasked("order", world, before, line, col, ToSet(plan), t)
           /\ plan \in Seq(Pkgs) /\ IsInjective(plan) /\ ToSet(plan) \subseteq Acted(col.bm)
           /\ Once(tasks, Inserts)
           /\ \A p \in ToPlan : p \in ToSet(plan) \/ \E t \in ToSet(tasks) : t.name = p
           /\ \A p \in Acted(col.bm) : Ordered(world, selected, col.bm, p) \in Seq(Pkgs)
<1>1. selected = before /\ world \in Worlds /\ req \in Requests /\ req.kind \in {"build", "drop"}
  BY RequestsAssumption DEF Inv, Undisturbed, Stages
<1>2. /\ plan \in Seq(Pkgs) /\ IsInjective(plan) /\ ToSet(plan) \subseteq Acted(col.bm)
      /\ Once(tasks, Inserts)
      /\ \A p \in ToPlan : p \in ToSet(plan) \/ \E t \in ToSet(tasks) : t.name = p
  BY DEF Inv, Ordering, Planning, Awaited
<1>3. ASSUME NEW p \in Acted(col.bm)
      PROVE  Ordered(world, selected, col.bm, p) \in Seq(Pkgs)
  <2>1. CASE req.kind = "build"
    <3>1. AtWork
      BY <2>1, WorkOf DEF BuildPhases
    <3>2. ASSUME col.bm[p].action = "build"
          PROVE  Depends(world, p, col.bm[p].version)
                    \in Seq([name : Pkgs, allowed : SUBSET Versions])
      <4>1. p \in Pkgs /\ Enterable(world, before, line, p, col.bm[p])
        BY <3>1 DEF AtWork, Maps, Acted
      <4>2. col.bm[p].version \in world.available[p]
        BY <3>2, <4>1 DEF Enterable, Buildable
      <4> QED
        BY <1>1, <4>1, <4>2, DependsOf
    <3> QED
      BY <3>2, OrderedOf
  <2>2. CASE req.kind = "drop"
    <3>1. col.bm[p].action = "drop"
      BY <2>2 DEF Inv, Dropping, Acted
    <3> QED
      BY <3>1, OrderedOf
  <2> QED
    BY <1>1, <2>1, <2>2
<1> QED
  BY <1>1, <1>2, <1>3 DEF Inv, Tasking

\* The tasks that remain, and others: what has to be once still is.
LEMMA TailTasks ==
    ASSUME tasks \in Seq(TaskRecords), tasks # <<>>, Once(tasks, Inserts), More(<<>>)
    PROVE  /\ tasks' = Tail(tasks) /\ tasks' \in Seq(TaskRecords) /\ Once(tasks', Inserts)
           /\ ToSet(tasks) = {Head(tasks)} \cup ToSet(tasks')
           /\ Head(tasks) \in Inserts => Head(tasks) \notin ToSet(tasks')
<1>1. /\ Tail(tasks) \in Seq(TaskRecords) /\ ToSet(tasks) = {Head(tasks)} \cup ToSet(Tail(tasks))
  BY TailSet
<1> DEFINE r == Tail(tasks)
<1>2. tasks' = <<>> \o r
  BY DEF More
<1>3. Once(r, Inserts) /\ (Head(tasks) \in Inserts => Head(tasks) \notin ToSet(r))
  BY OnceTail
<1> HIDE DEF r
<1>4. tasks' = r
  <2>1. r \in Seq(TaskRecords)
    BY <1>1 DEF r
  <2> QED
    BY <1>2, <2>1
<1> QED
  BY <1>1, <1>3, <1>4 DEF r

\* One task is there once.
LEMMA OnceAlone == \A x, I : Once(<<x>>, I)
BY DEF Once

\* The task that puts a package into the plan.
LEMMA InsertTask ==
    ASSUME NEW p \in Pkgs
    PROVE  /\ Do("insert", p) \in TaskRecords /\ Do("insert", p) \in Inserts
           /\ Do("insert", p).op = "insert" /\ Do("insert", p).name = p
           /\ \A t \in Inserts : t.op = "insert" /\ t = Do("insert", t.name)
           /\ \A t \in TaskRecords : t.op = "insert" => t \in Inserts
BY DEF Do, TaskRecords, Inserts

\* What the package is ordered before comes first.
LEMMA OrderKeeps == ASSUME Inv, Order PROVE Inv'
<1> DEFINE p == Head(tasks).name
           os == Ordered(world, selected, col.bm, p)
           insert == Do("insert", p)
           more == Tasks("order", os) \o <<insert>>
<1>1. PICK op \in {"order", "reorder"} : Task(op)
  BY DEF Order
<1>2. /\ phase # "idle" /\ tasks # <<>> /\ Head(tasks) \in TaskRecords
      /\ Head(tasks).op = op /\ op \in Ops(phase)
  BY <1>1, HeadOf
<1>3. phase = "order"
  BY <1>2 DEF Ops
<1>4. p \in Pkgs
  BY <1>2, TaskOf
<1>5. /\ tasks \in Seq(TaskRecords)
      /\ \A t \in ToSet(tasks) : Tasked("order", world, before, line, col, ToSet(plan), t)
      /\ plan \in Seq(Pkgs) /\ IsInjective(plan) /\ ToSet(plan) \subseteq Acted(col.bm)
      /\ Once(tasks, Inserts)
      /\ \A q \in ToPlan : q \in ToSet(plan) \/ \E t \in ToSet(tasks) : t.name = q
      /\ \A q \in Acted(col.bm) : Ordered(world, selected, col.bm, q) \in Seq(Pkgs)
  BY <1>3, OrderWork
<1>6. CASE FailAssertion \/ Fail
  BY <1>2, <1>6, FailsOf
<1>7. CASE /\ p \in ToSet(plan) /\ More(<<>>)
           /\ UNCHANGED <<phase, line, judged, col, search, deps, initial, iterations, plan>>
           /\ Staying
  <2>1. /\ tasks' \in Seq(TaskRecords) /\ Once(tasks', Inserts)
        /\ ToSet(tasks) = {Head(tasks)} \cup ToSet(tasks')
    BY <1>2, <1>5, <1>7, TailTasks
  <2>2. \A t \in ToSet(tasks') : Tasked("order", world, before, line, col, ToSet(plan'), t)
    BY <1>5, <1>7, <2>1
  <2>3. \A q \in ToPlan : q \in ToSet(plan') \/ \E t \in ToSet(tasks') : t.name = q
    BY <1>5, <1>7, <2>1
  <2> QED
    BY <1>3, <1>5, <1>7, <2>1, <2>2, <2>3, OrderingOf DEF Staying
<1>8. CASE /\ p \in Acted(col.bm) /\ insert \notin ToSet(Tail(tasks)) /\ More(more)
           /\ plan' = Those(plan, Pkgs \ {p})
           /\ UNCHANGED <<phase, line, judged, col, search, deps, initial, iterations>>
           /\ Staying
  <2>1. /\ plan' \in Seq(Pkgs) /\ IsInjective(plan') /\ ToSet(plan') = ToSet(plan) \ {p}
    <3>1. /\ Those(plan, Pkgs \ {p}) \in Seq(Pkgs)
          /\ ToSet(Those(plan, Pkgs \ {p})) = ToSet(plan) \cap (Pkgs \ {p})
          /\ IsInjective(Those(plan, Pkgs \ {p}))
      BY <1>5, ThoseOf
    <3>2. ToSet(plan) \subseteq Pkgs
      BY <1>5, SetOf
    <3> QED
      BY <1>8, <3>1, <3>2
  <2> DEFINE rest == Tail(tasks)
             first == Tasks("order", os)
  <2>2. /\ rest \in Seq(TaskRecords) /\ Once(rest, Inserts) /\ insert \notin ToSet(rest)
        /\ ToSet(tasks) = {Head(tasks)} \cup ToSet(rest)
    BY <1>2, <1>5, <1>8, TailSet, OnceTail
  <2>3. /\ insert \in TaskRecords /\ insert \in Inserts /\ insert.op = "insert" /\ insert.name = p
        /\ \A t \in Inserts : t.op = "insert"
    BY <1>4, InsertTask
  <2>4. first \in Seq(TaskRecords) /\ \A t \in ToSet(first) : t.op = "order"
    <3>1. os \in Seq(Pkgs)
      BY <1>5, <1>8
    <3> HIDE DEF os
    <3>2. first \in Seq(TaskRecords) /\ ToSet(first) = {Do("order", q) : q \in ToSet(os)}
      BY <3>1, TasksOf
    <3> QED
      BY <3>2, DoOf
  <2>5. <<insert>> \in Seq(TaskRecords) /\ ToSet(<<insert>>) = {insert} /\ Once(<<insert>>, Inserts)
    <3> HIDE DEF insert
    <3> QED
      BY <2>3, PairOf, PairSet, OnceAlone
  <2>6. Once(first, Inserts)
    <3>1. DOMAIN first = 1..Len(first) /\ \A i \in 1..Len(first) : first[i] \in ToSet(first)
      BY <2>4, SetOf
    <3> QED
      BY <2>3, <2>4, <3>1 DEF Once
  <2>7. more = first \o <<insert>> /\ tasks' = more \o rest
    BY <1>8 DEF More
  <2> HIDE DEF first, insert, rest, more
  <2>8. /\ more \in Seq(TaskRecords) /\ ToSet(more) = ToSet(first) \cup {insert}
        /\ Once(more, Inserts)
    <3> DEFINE last == <<insert>>
    <3>1. /\ last \in Seq(TaskRecords) /\ ToSet(last) = {insert} /\ Once(last, Inserts)
          /\ more = first \o last
      BY <2>5, <2>7
    <3> HIDE DEF last
    <3>2. ToSet(first) \cap ToSet(last) \cap Inserts = {}
      BY <2>3, <2>4
    <3>3. Once(first \o last, Inserts)
      BY <2>4, <2>6, <3>1, <3>2, OnceConcat
    <3>4. first \o last \in Seq(TaskRecords) /\ ToSet(first \o last) = ToSet(first) \cup ToSet(last)
      BY <2>4, <3>1, ConcatSet
    <3> QED
      BY <3>1, <3>3, <3>4
  <2>9. /\ tasks' \in Seq(TaskRecords) /\ ToSet(tasks') = ToSet(more) \cup ToSet(rest)
        /\ Once(tasks', Inserts)
    <3>1. ToSet(more) \cap ToSet(rest) \cap Inserts = {}
      BY <2>2, <2>3, <2>4, <2>8
    <3>2. Once(more \o rest, Inserts)
      BY <2>2, <2>8, <3>1, OnceConcat
    <3>3. more \o rest \in Seq(TaskRecords) /\ ToSet(more \o rest) = ToSet(more) \cup ToSet(rest)
      BY <2>2, <2>8, ConcatSet
    <3> QED
      BY <2>7, <3>2, <3>3
  <2>10. \A t \in ToSet(tasks') : Tasked("order", world, before, line, col, ToSet(plan'), t)
    <3>1. \A t \in ToSet(rest) : Tasked("order", world, before, line, col, ToSet(plan'), t)
      BY <1>5, <2>1, <2>2 DEF Tasked
    <3>2. \A t \in ToSet(first) : Tasked("order", world, before, line, col, ToSet(plan'), t)
      BY <2>4 DEF Tasked, Ops
    <3>3. Tasked("order", world, before, line, col, ToSet(plan'), insert)
      BY <1>8, <2>1, <2>3 DEF Tasked, Ops
    <3> QED
      BY <2>8, <2>9, <3>1, <3>2, <3>3
  <2>11. \A q \in ToPlan : q \in ToSet(plan') \/ \E t \in ToSet(tasks') : t.name = q
    <3> SUFFICES ASSUME NEW q \in ToPlan, q \notin ToSet(plan')
                 PROVE  \E t \in ToSet(tasks') : t.name = q
      OBVIOUS
    <3>1. CASE q = p
      BY <2>3, <2>8, <2>9, <3>1
    <3>2. CASE q # p
      <4>1. PICK t \in ToSet(tasks) : t.name = q
        BY <1>5, <2>1, <3>2
      <4>2. t \in ToSet(rest)
        BY <2>2, <3>2, <4>1
      <4> QED
        BY <2>9, <4>1, <4>2
    <3> QED
      BY <3>1, <3>2
  <2>12. ToSet(plan') \subseteq Acted(col.bm)
    BY <1>5, <2>1
  <2>13. UNCHANGED <<world, selected, req, before, phase, line, judged, col, search, deps>>
    BY <1>8 DEF Staying
  <2> QED
    BY <1>3, <2>1, <2>9, <2>10, <2>11, <2>12, <2>13, OrderingOf
<1> QED
  BY <1>6, <1>7, <1>8 DEF Order

\* The package is put into the plan.
LEMMA InsertPackageKeeps == ASSUME Inv, InsertPackage PROVE Inv'
<1> DEFINE p == Head(tasks).name
           os == Ordered(world, selected, col.bm, p)
<1>1. /\ Task("insert") /\ plan' = Insert(plan, p, os) /\ More(<<>>)
      /\ UNCHANGED <<world, selected, req, before, phase, line, judged, col, search, deps>>
  BY DEF InsertPackage, Staying
<1>2. /\ phase # "idle" /\ tasks # <<>> /\ Head(tasks) \in TaskRecords
      /\ Head(tasks).op = "insert" /\ "insert" \in Ops(phase)
      /\ Head(tasks) \in ToSet(tasks)
  BY <1>1, HeadOf
<1>3. phase = "order"
  BY <1>2 DEF Ops
<1>4. p \in Pkgs
  BY <1>2, TaskOf
<1>5. /\ tasks \in Seq(TaskRecords)
      /\ \A t \in ToSet(tasks) : Tasked("order", world, before, line, col, ToSet(plan), t)
      /\ plan \in Seq(Pkgs) /\ IsInjective(plan) /\ ToSet(plan) \subseteq Acted(col.bm)
      /\ Once(tasks, Inserts)
      /\ \A q \in ToPlan : q \in ToSet(plan) \/ \E t \in ToSet(tasks) : t.name = q
  BY <1>3, OrderWork
<1>6. p \in Acted(col.bm) \ ToSet(plan)
  BY <1>2, <1>5 DEF Tasked
<1>7. plan' \in Seq(Pkgs) /\ IsInjective(plan') /\ ToSet(plan') = ToSet(plan) \cup {p}
  BY <1>1, <1>4, <1>5, <1>6, InsertOf
<1>8. /\ tasks' \in Seq(TaskRecords) /\ Once(tasks', Inserts)
      /\ ToSet(tasks) = {Head(tasks)} \cup ToSet(tasks')
      /\ Head(tasks) \in Inserts => Head(tasks) \notin ToSet(tasks')
  BY <1>1, <1>2, <1>5, TailTasks
<1>9. Head(tasks) \in Inserts /\ \A t \in TaskRecords : t.op = "insert" => t = Do("insert", t.name)
  BY <1>2, <1>4, InsertTask
<1>10. \A t \in ToSet(tasks') : Tasked("order", world, before, line, col, ToSet(plan'), t)
  <2> SUFFICES ASSUME NEW t \in ToSet(tasks')
               PROVE  Tasked("order", world, before, line, col, ToSet(plan'), t)
    OBVIOUS
  <2>1. t \in TaskRecords
    BY <1>8, SetOf
  <2>2. t.op = "insert" => t.name # p
    BY <1>2, <1>8, <1>9, <2>1
  <2> QED
    BY <1>5, <1>7, <1>8, <2>2 DEF Tasked
<1>11. \A q \in ToPlan : q \in ToSet(plan') \/ \E t \in ToSet(tasks') : t.name = q
  BY <1>5, <1>7, <1>8
<1>12. ToSet(plan') \subseteq Acted(col.bm)
  BY <1>5, <1>6, <1>7
<1> QED
  BY <1>1, <1>3, <1>7, <1>8, <1>10, <1>11, <1>12, OrderingOf

---------------------------------------------------------------------------
(* The refinement of the plan.                                              *)
\* Where everything is planned.
LEMMA PlannedOf ==
    ASSUME Inv, AtWork, phase \in Planning, phase # "order" \/ tasks = <<>>
    PROVE  /\ plan \in Seq(Pkgs) /\ IsInjective(plan) /\ ToSet(plan) \subseteq Acted(col.bm)
           /\ ToSet(plan) \subseteq Pkgs
           /\ \A p \in DOMAIN line.hold : p \in ToSet(plan) /\ AsAsked(line, col, p)
           /\ \A p \in ToSet(plan) : /\ p \in DOMAIN col.bm /\ col.bm[p].action # "enter"
                                     /\ col.bm[p] \in Entries
                                     /\ Enterable(world, before, line, p, col.bm[p])
<1>1. phase # "collect"
  BY DEF Planning, Stages
<1>2. \A p \in DOMAIN line.hold : AsAsked(line, col, p)
  BY <1>1, AskedOf
<1>3. /\ plan \in Seq(Pkgs) /\ IsInjective(plan) /\ ToSet(plan) \subseteq Acted(col.bm)
      /\ \A p \in DOMAIN line.hold : p \in ToSet(plan) \/ (phase = "order" /\ Awaited(p))
  BY DEF Inv, Ordering, ToPlan, AtWork
<1>4. phase = "order" => ToSet(tasks) = {}
  BY DEF ToSet
<1>5. \A p \in DOMAIN line.hold : p \in ToSet(plan)
  BY <1>3, <1>4 DEF Awaited
<1>6. ToSet(plan) \subseteq Pkgs
  BY <1>3, SetOf
<1> QED
  BY <1>2, <1>3, <1>5, <1>6 DEF Acted, AtWork, Maps

\* What the simulation leaves of a package.
LEMMA SimulatedOf ==
    ASSUME Inv, AtWork, phase \in Planning, phase # "order" \/ tasks = <<>>, NEW p \in Pkgs
    PROVE  /\ before[p].hold => Simulated(before)[p].hold
           /\ p \in DOMAIN line.hold => Simulated(before)[p].hold
           /\ Simulated(before)[p].state = "configured" => before[p].state # "broken"
<1> DEFINE s == Simulated(before)[p]
<1>1. /\ \A q \in DOMAIN line.hold : q \in ToSet(plan) /\ AsAsked(line, col, q)
      /\ \A q \in ToSet(plan) : /\ q \in DOMAIN col.bm /\ col.bm[q].action # "enter"
                                /\ col.bm[q] \in Entries
                                /\ Enterable(world, before, line, q, col.bm[q])
  BY PlannedOf
<1>2. s = IF p \in ToSet(plan) THEN Planned(before, p) ELSE before[p]
  BY DEF Simulated
<1>3. before[p].hold \in BOOLEAN
  BY DEF AtWork, Configuration, Config!IsPackage
<1> SUFFICES /\ before[p].hold => s.hold
             /\ p \in DOMAIN line.hold => s.hold
             /\ s.state = "configured" => before[p].state # "broken"
  OBVIOUS
<1> HIDE DEF s
<1>4. CASE p \notin ToSet(plan)
  BY <1>1, <1>2, <1>4
<1>5. CASE p \in ToSet(plan) /\ Dropped(col.bm, p)
  <2>1. s = None
    BY <1>2, <1>5 DEF Planned
  <2>2. s.state # "configured"
    BY <2>1 DEF None, Config!NoPackage
  <2>3. ~before[p].hold /\ p \notin DOMAIN line.hold
    BY <1>1, <1>5 DEF Dropped, Enterable, Droppable
  <2> QED
    BY <2>2, <2>3
<1>6. CASE p \in ToSet(plan) /\ ~Dropped(col.bm, p)
  <2>1. s.hold = HoldPackage(before, p)
    BY <1>2, <1>6 DEF Planned
  <2>2. col.bm[p].hold \in BOOLEAN /\ col.bm[p].action \in {"build", "adjust"}
    BY <1>1, <1>6 DEF Entries, Dropped
  <2>3. before[p].hold => s.hold
    BY <1>3, <2>1, <2>2 DEF HoldPackage
  <2>4. p \in DOMAIN line.hold => s.hold
    BY <1>1, <1>3, <2>1, <2>2 DEF HoldPackage, AsAsked
  <2>5. before[p].state # "broken"
    BY <1>1, <1>6, <2>2 DEF Enterable, Buildable
  <2> QED
    BY <2>3, <2>4, <2>5
<1> QED
  BY <1>4, <1>5, <1>6

\* What remains to be decided may be.
LEMMA RefinementsOf ==
    ASSUME Inv, AtWork, phase = "order", tasks = <<>>
    PROVE  /\ Refinements(Simulated(before)) \in Seq(Decisions)
           /\ \A d \in ToSet(Refinements(Simulated(before))) : Decides(world, before, line, d)
<1> DEFINE sel == Simulated(before)
           asked == {p \in Pkgs : /\ sel[p].state = "configured"
                                  /\ Evaluate(sel, p) # {}
                                  /\ req.keep => 0 \notin Evaluate(sel, p)}
           ps == Listed(asked)
           decision(p) == [name |-> p, version |-> CHOOSE v \in Evaluate(sel, p) : TRUE]
           n == Len(ps)
           new == [i \in 1..n |-> decision(ps[i])]
<1>1. ps \in Seq(Pkgs) /\ ToSet(ps) = Pkgs \cap asked
  BY ListedOf
<1>2. ASSUME NEW p \in asked
      PROVE  decision(p) \in Decisions /\ Decides(world, before, line, decision(p))
  <2> DEFINE v == CHOOSE v \in Evaluate(sel, p) : TRUE
  <2>1. v \in Evaluate(sel, p) /\ p \in Pkgs /\ sel[p].state = "configured"
    OBVIOUS
  <2>2. ~sel[p].hold /\ (v = 0 \/ v \in Recommended(sel, p))
    BY <2>1 DEF Evaluate
  <2>3. /\ before[p].hold => sel[p].hold
        /\ p \in DOMAIN line.hold => sel[p].hold
        /\ sel[p].state = "configured" => before[p].state # "broken"
    BY <2>1, SimulatedOf DEF Planning
  <2>4. world.available[p] \subseteq Versions
    BY <2>1, WorldsAssumption DEF AtWork
  <2>5. decision(p).name = p /\ decision(p).version = v /\ decision(p) = [name |-> p, version |-> v]
    OBVIOUS
  <2> HIDE DEF v, decision, sel
  <2>6. v # 0 => v \in world.available[p]
    BY <2>2 DEF Recommended, Acceptable
  <2>7. decision(p) \in Decisions
    BY <2>1, <2>4, <2>5, <2>6 DEF Decisions
  <2>8. Decides(world, before, line, decision(p))
    BY <2>1, <2>2, <2>3, <2>5, <2>6 DEF Decides, Droppable, Buildable
  <2> QED
    BY <2>7, <2>8
<1>3. Refinements(sel) = new
  <2>1. DOMAIN ps = 1..n
    BY <1>1, SetOf
  <2> QED
    BY <2>1 DEF Refinements
<1> HIDE DEF asked, ps, decision, sel
<1>4. n \in Nat /\ \A i \in 1..n : ps[i] \in asked
  <2>1. Len(ps) \in Nat /\ \A x : x \in ToSet(ps) <=> \E i \in 1..Len(ps) : ps[i] = x
    BY <1>1, SetOf
  <2> QED
    BY <1>1, <2>1
<1> HIDE DEF n
<1>5. new \in [1..n -> Decisions]
  BY <1>2, <1>4
<1>6. new \in Seq(Decisions)
  BY <1>4, <1>5, SeqIs
<1>7. ASSUME NEW d \in ToSet(new)
      PROVE  Decides(world, before, line, d)
  <2>1. DOMAIN new = 1..n
    OBVIOUS
  <2>2. PICK i \in 1..n : d = decision(ps[i])
    BY <2>1 DEF ToSet
  <2> QED
    BY <1>2, <1>4, <2>2
<1> QED
  BY <1>3, <1>6, <1>7 DEF sel

\* The simulation of what is not changed is not changed.
LEMMA SimulatedStays ==
    ASSUME UNCHANGED <<world, req, col, plan, before>>, line'.expect = line.expect
    PROVE  /\ Simulated(before)' = Simulated(before)
           /\ Refinements(Simulated(before))' = Refinements(Simulated(before))
           /\ Unmet(Simulated(before))' = Unmet(Simulated(before))
           /\ DisfiguresOther(before)' <=> DisfiguresOther(before)
<1>1. \A p : Planned(before, p)' = Planned(before, p)
  BY DEF Planned, Configures, Target, Unconstrained, Resolved, HoldPackage, HoldVersion
<1>2. Simulated(before)' = Simulated(before)
  BY <1>1 DEF Simulated
<1>3. \A p : ConfiguredDependents(Simulated(before), p)' = ConfiguredDependents(Simulated(before), p)
  BY <1>2 DEF ConfiguredDependents
<1>4. \A p : Acceptable(Simulated(before), p)' = Acceptable(Simulated(before), p)
  BY <1>2, <1>3 DEF Acceptable
<1>5. \A p : Recommended(Simulated(before), p)' = Recommended(Simulated(before), p)
  BY <1>2, <1>4 DEF Recommended
<1>6. \A p : Unexpected(Simulated(before), p)' <=> Unexpected(Simulated(before), p)
  BY <1>2, <1>3 DEF Unexpected
<1>7. \A p : Evaluate(Simulated(before), p)' = Evaluate(Simulated(before), p)
  BY <1>2, <1>3, <1>5, <1>6 DEF Evaluate
<1>8. Refinements(Simulated(before))' = Refinements(Simulated(before))
  BY <1>2, <1>7 DEF Refinements
<1>9. Unmet(Simulated(before))' = Unmet(Simulated(before))
  BY <1>2, <1>6 DEF Unmet
<1>10. DisfiguresOther(before)' <=> DisfiguresOther(before)
  BY DEF DisfiguresOther
<1> QED
  BY <1>2, <1>8, <1>9, <1>10

\* The plan is refined.
LEMMA RefinedKeeps ==
    ASSUME Inv, AtWork, phase = "order", tasks = <<>>, phase' = "adjust",
           ~DisfiguresOther(before), Refinements(Simulated(before)) = <<>>,
           Unmet(Simulated(before)) = {},
           judged' = IF col.unsat = <<>>
                     THEN [good |-> judged.good \cup {State(line.stack)}, bad |-> judged.bad]
                     ELSE [good |-> judged.good, bad |-> judged.bad \cup {State(line.stack)}],
           UNCHANGED <<world, selected, req, before, line, col, tasks, search, deps, plan>>
    PROVE  Inv'
<1>1. Undisturbed'
  BY UndisturbedStays DEF Inv, OfBuild, BuildPhases, Stages, AtWork
<1>2. Collecting'
  <2>1. Commanded'
    BY DEF Commanded, AtWork
  <2> QED
    BY <2>1 DEF Inv, Collecting, AtWork
<1>3. Tasking'
  <2>1. ToSet(<<>>) = {}
    BY DEF ToSet
  <2> QED
    BY <2>1 DEF Inv, Tasking
<1>4. Ordering'
  <2>1. /\ plan \in Seq(Pkgs) /\ IsInjective(plan) /\ ToSet(plan) \subseteq Acted(col.bm)
        /\ \A p \in DOMAIN line.hold : p \in ToSet(plan) /\ AsAsked(line, col, p)
    BY PlannedOf DEF Planning
  <2>2. ToPlan' = DOMAIN line.hold
    BY DEF ToPlan, AtWork
  <2>3. Once(<<>>, Inserts)
    BY DEF Once
  <2> QED
    BY <2>1, <2>2, <2>3 DEF Ordering
<1>5. Judging'
  <2>1. Refining(judged.bad, line) /\ Refining(judged'.bad, line')
    BY RefiningOf DEF BuildPhases, AtWork, Refining
  <2> QED
    BY <2>1 DEF Judging, AdjustmentsNeeded, Stages
<1>6. Simulating'
  BY SimulatedStays DEF Simulating, Stages
<1>7. Progressing' /\ Dropping' /\ UnusedDropped' /\ RequestMet'
  BY DEF Progressing, Dropping, UnusedDropped, RequestMet, Ended, Stages, AtWork
<1> QED
  BY <1>1, <1>2, <1>3, <1>4, <1>5, <1>6, <1>7 DEF Inv

\* The plan is simulated, and refined.
LEMMA RefineKeeps == ASSUME Inv, Refine PROVE Inv'
<1> DEFINE sel == Simulated(before)
           kept == Those(deps, {r \in ToSet(deps) : ~Changed(sel, r)})
           new == Refinements(sel)
<1>1. phase = "order" /\ tasks = <<>> /\ req.kind = "build"
  BY DEF Refine
<1>2. AtWork /\ selected = before
  BY <1>1, WorkOf DEF BuildPhases, Inv, Undisturbed, Stages
<1>3. Undisturbed /\ phase \notin Stages /\ phase # "idle"
  BY <1>1 DEF Inv, Stages
<1>4. Refining(judged.bad, line)
  BY <1>1, RefiningOf DEF BuildPhases
<1>5. \/ FailAssertion
      \/ Ends("refused")
      \/ Again(kept, TRUE)
      \/ Again(deps \o new, TRUE)
      \/ Again(deps \o new, FALSE)
      \/ Fail
      \/ /\ ~DisfiguresOther(before) /\ new = <<>> /\ Unmet(sel) = {}
         /\ phase' = "adjust"
         /\ judged' = IF col.unsat = <<>>
                      THEN [good |-> judged.good \cup {State(line.stack)}, bad |-> judged.bad]
                      ELSE [good |-> judged.good, bad |-> judged.bad \cup {State(line.stack)}]
         /\ UNCHANGED <<line, col, tasks, search, deps, initial, iterations, plan>>
         /\ Staying
  BY <1>2 DEF Refine
<1>6. new \in Seq(Decisions) /\ \A d \in ToSet(new) : Decides(world, before, line, d)
  BY <1>1, <1>2, RefinementsOf
<1>7. Replacing(world, before, line, NoMap)
  BY <1>2, ReplacingLess DEF AtWork
<1> HIDE DEF new, kept, sel
<1>8. CASE Again(kept, TRUE)
  <2>1. kept \in Seq(Decisions) /\ ToSet(kept) \subseteq ToSet(deps)
    BY <1>2, ThoseOf DEF kept, AtWork
  <2>2. /\ Iterate(line, kept, NoMap, NoMap, TRUE)
        /\ UNCHANGED <<world, selected, req, before, judged>>
    BY <1>8 DEF Again, Staying
  <2>3. \A d \in ToSet(kept) : Decides(world, before, line, d)
    BY <1>2, <2>1 DEF AtWork
  <2> QED
    BY <1>2, <1>3, <1>4, <1>7, <2>1, <2>2, <2>3, RecollectedOf DEF AtWork
<1> DEFINE ds == deps \o new
<1>9. ds \in Seq(Decisions) /\ \A d \in ToSet(ds) : Decides(world, before, line, d)
  <2>1. deps \in Seq(Decisions) /\ new \in Seq(Decisions)
    BY <1>2, <1>6 DEF AtWork
  <2>2. deps \o new \in Seq(Decisions) /\ ToSet(deps \o new) = ToSet(deps) \cup ToSet(new)
    BY <2>1, ConcatSet
  <2> QED
    BY <1>2, <1>6, <2>2 DEF AtWork
<1>10. CASE Again(deps \o new, TRUE)
  <2>1. Again(ds, TRUE)
    BY <1>10
  <2> HIDE DEF ds
  <2>2. /\ Iterate(line, ds, NoMap, NoMap, TRUE)
        /\ UNCHANGED <<world, selected, req, before, judged>>
    BY <2>1 DEF Again, Staying
  <2> QED
    BY <1>2, <1>3, <1>4, <1>7, <1>9, <2>2, RecollectedOf DEF AtWork
<1>11. CASE Again(deps \o new, FALSE)
  <2>1. Again(ds, FALSE)
    BY <1>11
  <2> HIDE DEF ds
  <2>2. /\ Iterate(line, ds, col.replaced, col.bm, FALSE)
        /\ UNCHANGED <<world, selected, req, before, judged>>
    BY <2>1 DEF Again, Staying
  <2>3. phase' = "collect" /\ plan' = <<>>
    BY <2>2 DEF Iterate
  <2>4. Undisturbed'
    BY <1>2, <1>3, <2>2, <2>3, UndisturbedStays DEF OfBuild, BuildPhases, Stages, AtWork
  <2>5. /\ Requested(world', before', req', line) /\ DOMAIN line.hold \cap DOMAIN line.expect = {}
        /\ req'.kind = "build"
    <3>1. DOMAIN line.hold \cap DOMAIN line.expect = {}
      BY <1>2, LineHas DEF AtWork
    <3> QED
      BY <1>2, <2>2, <3>1 DEF AtWork
  <2>6. Refining(judged'.bad, line)
    BY <1>4, <2>2
  <2>7. \A d \in ToSet(ds) : Decides(world', before', line, d)
    BY <1>9, <2>2
  <2>8. Replacing(world', before', line, col.replaced) /\ Maps(world', before', line, col.bm)
    BY <1>2, <2>2 DEF AtWork
  <2>9. \E c : c.bm = col.bm /\ \A p \in DOMAIN line.hold : AsAsked(line, c, p)
    <3>1. \A p \in DOMAIN line.hold : AsAsked(line, col, p)
      BY <1>1, <1>2, AskedOf
    <3> QED
      BY <3>1
  <2> DEFINE rs == col.replaced
             bm == col.bm
             l == line
  <2>10. Iterate(l, ds, rs, bm, FALSE)
    BY <2>2
  <2>11. /\ Requested(world', before', req', l) /\ DOMAIN l.hold \cap DOMAIN l.expect = {}
         /\ Refining(judged'.bad, l) /\ \A d \in ToSet(ds) : Decides(world', before', l, d)
         /\ Replacing(world', before', l, rs) /\ Maps(world', before', l, bm)
         /\ \E c : c.bm = bm /\ \A p \in DOMAIN l.hold : AsAsked(l, c, p)
    BY <2>5, <2>6, <2>7, <2>8, <2>9
  <2> HIDE DEF rs, bm, l
  <2> QED
    BY <1>9, <2>3, <2>4, <2>5, <2>10, <2>11, IteratedOf
<1>12. CASE /\ ~DisfiguresOther(before) /\ new = <<>> /\ Unmet(sel) = {}
            /\ phase' = "adjust"
            /\ judged' = IF col.unsat = <<>>
                         THEN [good |-> judged.good \cup {State(line.stack)}, bad |-> judged.bad]
                         ELSE [good |-> judged.good, bad |-> judged.bad \cup {State(line.stack)}]
            /\ UNCHANGED <<line, col, tasks, search, deps, initial, iterations, plan>>
            /\ Staying
  BY <1>1, <1>2, <1>12, RefinedKeeps DEF new, sel, Staying
<1> QED
  BY <1>3, <1>5, <1>8, <1>10, <1>11, <1>12, EndsOf, FailsOf

---------------------------------------------------------------------------
(* The execution begins.                                                    *)
\* A step to a stage of the execution, or in it.
LEMMA InStage ==
    ASSUME Undisturbed', Collecting', Tasking', Ordering', Simulating', Progressing', Dropping',
           AdjustmentsNeeded', phase' \in Stages
    PROVE  Inv'
<1>1. phase' \notin {"idle", "adjust", "kept", "search"}
  BY DEF Stages
<1>2. Judging'
  BY <1>1 DEF Judging
<1>3. UnusedDropped' /\ RequestMet'
  BY <1>1 DEF UnusedDropped, RequestMet, Ended
<1> QED
  BY <1>2, <1>3 DEF Inv

\* The plan is executed, with the adjustments of the command line.
LEMMA ExecutePlanKeeps ==
    ASSUME Inv, AtWork, phase = "adjust", col.unsat = <<>>, NEW l, ExecutePlan(l),
           Requested(world, before, req, l), l.hold = line.hold, l.expect = line.expect,
           l.stack = line.stack,
           l.stack # <<>> => /\ {} \in judged.bad
                             /\ \A a \in State(l.stack) :
                                   \/ State(l.stack) \ {a} \in judged.bad
                                   \/ /\ l.dropped # <<>>
                                      /\ State(l.stack \o l.dropped) \ {a} \in judged.bad
    PROVE  Inv'
<1>1. /\ phase' = "disfigure" /\ line' = l
      /\ todo' = Those(plan, {p \in ToSet(plan) : Disfigures(selected, col.bm, p)})
      /\ UNCHANGED <<world, selected, req, judged, col, tasks, search, deps, plan, before>>
  BY DEF ExecutePlan
<1>2. selected = before /\ tasks = <<>> /\ Undisturbed
  BY DEF Inv, Undisturbed, Stages
<1>3. /\ Collects(world, before, l, col)
      /\ \A d \in ToSet(deps) : Decides(world, before, l, d)
      /\ \A p : AsAsked(line, col, p) => AsAsked(l, col, p)
  BY SameLineWorks
<1>4. /\ plan \in Seq(Pkgs) /\ IsInjective(plan) /\ ToSet(plan) \subseteq Acted(col.bm)
      /\ ToSet(plan) \subseteq Pkgs
      /\ \A p \in DOMAIN line.hold : p \in ToSet(plan) /\ AsAsked(line, col, p)
  BY PlannedOf DEF Planning
<1>5. Undisturbed'
  BY <1>1, <1>2, UndisturbedStays DEF OfBuild, BuildPhases, Stages
<1>6. Collecting'
  <2>1. Commanded'
    BY <1>1 DEF Commanded, AtWork
  <2> QED
    BY <1>1, <1>3, <1>4, <2>1 DEF Collecting, AtWork
<1>7. Tasking'
  <2>1. ToSet(<<>>) = {} /\ <<>> \in Seq(TaskRecords)
    BY EmptySeqOf DEF ToSet
  <2> QED
    BY <1>1, <1>2, <2>1 DEF Inv, Tasking
<1>8. Ordering'
  <2>1. ToPlan' = DOMAIN line.hold
    BY <1>1 DEF ToPlan, AtWork
  <2>2. Once(<<>>, Inserts)
    BY DEF Once
  <2> QED
    BY <1>1, <1>2, <1>4, <2>1, <2>2 DEF Ordering
<1>9. ~DisfiguresOther(before)
  BY DEF Inv, Simulating
<1>10. Simulating'
  BY <1>1, SimulatedStays DEF Inv, Simulating
<1>11. Progressing'
  <2>1. /\ todo' \in Seq(Pkgs) /\ IsInjective(todo')
        /\ ToSet(todo') = {p \in ToSet(plan) : Disfigures(before, col.bm, p)}
    <3> DEFINE S == {p \in ToSet(plan) : Disfigures(before, col.bm, p)}
    <3>1. /\ Those(plan, S) \in Seq(Pkgs) /\ IsInjective(Those(plan, S))
          /\ ToSet(Those(plan, S)) = ToSet(plan) \cap S
      BY <1>4, ThoseOf
    <3>2. todo' = Those(plan, S)
      BY <1>1, <1>2
    <3> QED
      BY <3>1, <3>2
  <2>2. \A p \in Pkgs : selected'[p] = before[p]
    BY <1>1, <1>2
  <2>3. ASSUME NEW p \in ToSet(plan)
        PROVE  /\ Progress(p, before[p], Disfigured(p))'
               /\ p \in ToSet(todo') => Disfiguring(p)'
    <3>1. p \in ToSet(todo') <=> Disfiguring(p)'
      BY <1>1, <2>1 DEF Disfiguring, AtWork
    <3>2. p \notin ToSet(todo') => Disfigured(p)' = before[p]
      BY <1>1, <3>1 DEF Disfigured
    <3>3. selected'[p] = before[p] /\ before' = before
      BY <1>1, <1>4, <2>2
    <3> QED
      BY <3>1, <3>2, <3>3 DEF Progress
  <2> QED
    BY <1>1, <2>1, <2>2, <2>3 DEF Progressing
<1>12. Dropping'
  BY <1>1 DEF Dropping, AtWork
<1>13. AdjustmentsNeeded'
  <2>1. State(line.stack) \in judged.good
    BY DEF Inv, Judging
  <2> QED
    BY <1>1, <2>1 DEF AdjustmentsNeeded
<1> QED
  BY <1>1, <1>5, <1>6, <1>7, <1>8, <1>10, <1>11, <1>12, <1>13, InStage DEF Stages

\* All are satisfied: an adjustment is dropped, or the plan executed.
LEMMA DropAdjustmentKeeps == ASSUME Inv, DropAdjustment PROVE Inv'
<1>1. phase = "adjust" /\ col.unsat = <<>>
  BY DEF DropAdjustment, Adjusting
<1>2. AtWork
  BY <1>1, WorkOf DEF OfBuild, BuildPhases
<1>3. Refining(judged.bad, line) /\ Requested(world, before, req, line) /\ Lines(line)
  BY <1>1, <1>2, RefiningOf DEF BuildPhases, AtWork
<1> DEFINE n == Len(line.stack)
<1>4. /\ line.stack \in Seq(Adjustments) /\ line.dropped \in Seq(Adjustments)
      /\ n \in Nat /\ DOMAIN line.stack = 1..n
      /\ \A x : x \in ToSet(line.stack) <=> \E i \in 1..n : line.stack[i] = x
  <2>1. line.stack \in Seq(Adjustments) /\ line.dropped \in Seq(Adjustments)
    BY <1>3 DEF Lines
  <2> QED
    BY <2>1, SetOf
<1>5. \A a \in State(line.stack) : \E i \in 1..n : a = Key(line.stack[i])
  BY <1>4 DEF State, Key
<1>6. CASE /\ line.former = {} \/ line.index = n
           /\ ExecutePlan(line)
  <2>1. ASSUME line.stack # <<>>
        PROVE  /\ {} \in judged.bad
               /\ \A a \in State(line.stack) :
                     \/ State(line.stack) \ {a} \in judged.bad
                     \/ /\ line.dropped # <<>>
                        /\ State(line.stack \o line.dropped) \ {a} \in judged.bad
    <3>1. {} \in judged.bad /\ line.former # {} /\ line.index = n
      BY <1>3, <1>6, <2>1 DEF Refining
    <3>2. n # 0 /\ line.index # NoRefinement
      BY <1>4, <2>1, <3>1 DEF NoRefinement
    <3>3. ASSUME NEW a \in State(line.stack)
          PROVE  (State(line.stack) \cup State(line.dropped)) \ {a} \in judged.bad
      <4>1. PICK i \in 1..n : a = Key(line.stack[i])
        BY <1>5
      <4>2. i > n - line.index
        BY <1>4, <3>1
      <4> QED
        BY <1>3, <3>2, <4>1, <4>2 DEF Refining
    <3>4. CASE line.dropped = <<>>
      <4>1. State(line.dropped) = {}
        BY <3>4 DEF State, ToSet
      <4> QED
        BY <3>1, <3>3, <4>1
    <3>5. CASE line.dropped # <<>>
      <4>1. ToSet(line.stack \o line.dropped) = ToSet(line.stack) \cup ToSet(line.dropped)
        BY <1>4, ConcatSet
      <4>2. State(line.stack \o line.dropped) = State(line.stack) \cup State(line.dropped)
        BY <4>1 DEF State
      <4> QED
        BY <3>1, <3>3, <3>5, <4>2
    <3> QED
      BY <3>4, <3>5
  <2> DEFINE l == line
  <2>2. /\ ExecutePlan(l) /\ Requested(world, before, req, l)
        /\ l.hold = line.hold /\ l.expect = line.expect /\ l.stack = line.stack
    BY <1>3, <1>6
  <2>3. l.stack # <<>> => /\ {} \in judged.bad
                          /\ \A a \in State(l.stack) :
                                \/ State(l.stack) \ {a} \in judged.bad
                                \/ /\ l.dropped # <<>>
                                   /\ State(l.stack \o l.dropped) \ {a} \in judged.bad
    BY <2>1
  <2> HIDE DEF l
  <2> QED
    BY <1>1, <1>2, <2>2, <2>3, ExecutePlanKeeps
<1>7. CASE FailAssertion
  BY <1>1, <1>7, FailsOf
<1>8. CASE line.former # {} /\ line.stack # <<>> /\ Without1st(line, 0)
  <2>1. {} \in judged.bad
    BY <1>3, <1>8 DEF Refining
  <2>2. n # 0
    BY <1>4, <1>8
  <2> DEFINE l == line
             index == 0
  <2>3. /\ Without1st(l, index) /\ Requested(world, before, req, l) /\ l.stack # <<>>
        /\ l.former # {} /\ index \in Int /\ index \in 0..Len(l.stack) - 1
    BY <1>3, <1>4, <1>8, <2>2
  <2>4. \A i \in 2..Len(l.stack) :
           i > Len(l.stack) - index => State(l.stack) \ {Key(l.stack[i])} \in judged.bad
    BY <1>4
  <2> HIDE DEF l, index
  <2> QED
    BY <1>1, <1>2, <2>1, <2>3, <2>4, Without1stKeeps
<1>9. CASE /\ line.stack # <<>> /\ n = 1
           /\ ExecutePlan([line EXCEPT !.dropped = <<>>, !.index = NoRefinement])
  <2> DEFINE none == <<>>
             l == [line EXCEPT !.dropped = none, !.index = NoRefinement]
  <2>1. /\ IsLine(l) /\ HasLine(l, line.hold, line.order, line.expect, line.stack)
        /\ HasMarks(l, line.former, none, NoRefinement)
    <3>1. IsLine(line) /\ l = [line EXCEPT !.dropped = none, !.index = NoRefinement]
      BY <1>3 DEF Lines, IsLine
    <3> HIDE DEF l, none
    <3> QED
      BY <3>1, MarkedLine
  <2>2. ExecutePlan(l)
    BY <1>9
  <2> HIDE DEF l
  <2>3. /\ l.hold = line.hold /\ l.expect = line.expect /\ l.stack = line.stack
        /\ l.order = line.order /\ l.dropped = <<>> /\ l.index = NoRefinement
    BY <2>1 DEF HasLine, HasMarks
  <2>4. Lines(l)
    BY <1>3, <2>1, <2>3, EmptySeqOf DEF Lines, IsLine, NoRefinement
  <2>5. Requested(world, before, req, l)
    BY <1>3, <2>3, <2>4, RequestedSame
  <2>6. {} \in judged.bad
    BY <1>3, <1>9 DEF Refining
  <2>7. ASSUME NEW a \in State(l.stack)
        PROVE  State(l.stack) \ {a} \in judged.bad
    <3>1. \A b \in State(line.stack) : b = Key(line.stack[1])
      BY <1>5, <1>9
    <3>2. State(l.stack) \ {a} = {}
      BY <2>3, <3>1
    <3> QED
      BY <2>6, <3>2
  <2> QED
    BY <1>1, <1>2, <2>2, <2>3, <2>5, <2>6, <2>7, ExecutePlanKeeps
<1> QED
  BY <1>6, <1>7, <1>8, <1>9 DEF DropAdjustment

\* A request of pkg-build.
LEMMA RequestBuildKeeps == ASSUME Inv, RequestBuild PROVE Inv'
<1>1. PICK r \in Requests :
         /\ r.kind = "build"
         /\ \A p \in DOMAIN r.hold : /\ r.hold[p].version \in world.available[p]
                                     /\ selected[p].state # "broken"
         /\ \A p \in DOMAIN r.expect : ~selected[p].hold
         /\ req' = r
         /\ Iterate(CommandLine(r.hold, r.expect, Upgrades(r)), <<>>, NoMap, NoMap, TRUE)
  BY DEF RequestBuild
<1>2. phase = "idle" /\ judged' = NotJudged /\ before' = selected /\ UNCHANGED <<world, selected>>
  BY DEF RequestBuild
<1> DEFINE l == CommandLine(r.hold, r.expect, Upgrades(r))
<1>3. phase' = "collect" /\ plan' = <<>>
  BY <1>1 DEF Iterate
<1>4. Undisturbed'
  <2>1. Configuration(world, selected)' /\ Configuration(world, before)'
    BY <1>2 DEF Inv, Undisturbed, Configuration
  <2>2. Config!PrerequisitesHeld'
    BY <1>2 DEF Inv, Undisturbed, Config!PrerequisitesHeld, Config!Configured, Config!Satisfied
  <2> QED
    BY <1>1, <1>2, <1>3, <2>1, <2>2 DEF Inv, Undisturbed, OfBuild, BuildPhases, Stages
<1>5. /\ DOMAIN r.hold \cup DOMAIN r.expect \subseteq Pkgs
      /\ DOMAIN r.hold \cap DOMAIN r.expect = {}
      /\ r.hold \in [DOMAIN r.hold -> HoldSpecs]
      /\ r.expect \in [DOMAIN r.expect -> DependencySpecs]
      /\ \A p \in DOMAIN r.hold : r.hold[p].version \in r.hold[p].allowed
  BY <1>1, RequestsAssumption
<1>6. /\ IsLine(l) /\ l.hold = r.hold /\ l.expect = r.expect /\ l.stack = <<>> /\ l.former = {}
      /\ l.dropped = <<>> /\ l.index = NoRefinement /\ l.order = Listed(DOMAIN r.hold)
  BY DEF CommandLine, IsLine
<1> HIDE DEF l
<1>7. ToSet(<<>>) = {} /\ <<>> \in Seq(Adjustments) /\ <<>> \in Seq(Decisions)
  BY EmptySeqOf DEF ToSet
<1>8. Lines(l)
  <2>1. l.order \in Seq(Pkgs) /\ ToSet(l.order) = DOMAIN r.hold
    <3> DEFINE ps == DOMAIN r.hold
    <3>1. ps \subseteq Pkgs /\ l.order = Listed(ps)
      BY <1>5, <1>6
    <3> HIDE DEF ps
    <3>2. Listed(ps) \in Seq(Pkgs) /\ ToSet(Listed(ps)) = Pkgs \cap ps
      BY ListedOf
    <3> QED
      BY <3>1, <3>2 DEF ps
  <2> QED
    BY <1>5, <1>6, <1>7, <2>1 DEF Lines, IsLine, NoRefinement
<1>9. Requested(world, selected, r, l)
  <2>1. \A p \in DOMAIN r.hold : Holdable(world, selected, p, r.hold[p])
    BY <1>1, <1>5 DEF Holdable
  <2>2. \A p : AsRequested(r, l, p)
    BY <1>6 DEF AsRequested
  <2>3. IsInjective(<<>>)
    BY DEF IsInjective
  <2>4. NamesOf(<<>>) = {}
    BY <1>7 DEF NamesOf
  <2> QED
    BY <1>1, <1>6, <1>7, <1>8, <2>1, <2>2, <2>3, <2>4 DEF Requested
<1>10. Refining(judged'.bad, l)
  BY <1>6 DEF Refining
<1> DEFINE ds == <<>>
           rs == NoMap
           bm == NoMap
<1>11. /\ Iterate(l, ds, rs, bm, TRUE)
       /\ Requested(world', before', req', l) /\ DOMAIN l.hold \cap DOMAIN l.expect = {}
       /\ req'.kind = "build"
       /\ ds \in Seq(Decisions) /\ \A d \in ToSet(ds) : Decides(world', before', l, d)
       /\ Replacing(world', before', l, rs)
  <2>1. Replacing(world, before', l, rs)
    BY DEF Replacing, NoMap
  <2> QED
    BY <1>1, <1>2, <1>5, <1>6, <1>7, <1>9, <2>1 DEF l
<1> HIDE DEF ds, rs, bm
<1> QED
  BY <1>3, <1>4, <1>10, <1>11, IteratedOf

---------------------------------------------------------------------------
(* pkg-drop.                                                                *)
\* What is closed is closed.
LEMMA ClosureOf ==
    ASSUME NEW start, NEW next, NEW p \in Closure(start, next)
    PROVE  /\ p \in Pkgs
           /\ \A q \in next[p] : q \in Pkgs => q \in Closure(start, next)
BY DEF Closure

\* The entry of a drop of pkg-drop.
LEMMA DropOf ==
    ASSUME NEW b \in BOOLEAN
    PROVE  LET d == [DropPackage EXCEPT !.user = b] IN d \in Entries /\ d.action = "drop"
<1>1. DropPackage \in Entries /\ DropPackage.action = "drop"
  BY DropPackageOf
<1> HIDE DEF DropPackage
<1> QED
  BY <1>1 DEF Entries

\* A request of pkg-drop.
LEMMA RequestDropKeeps == ASSUME Inv, RequestDrop PROVE Inv'
<1>1. PICK r \in Requests :
         /\ r.kind = "drop"
         /\ LET asked == WithDependents(r.names)
                all == WithPrerequisites(asked)
            IN  /\ req' = r
                /\ col' = [NoCollection EXCEPT
                              !.bm = [p \in all |-> [DropPackage EXCEPT !.user = p \in asked]]]
                /\ tasks' = Tasks("order", Listed(r.names) \o Listed(asked \ r.names)
                                           \o Listed(all \ asked))
  BY DEF RequestDrop
<1> DEFINE asked == WithDependents(r.names)
           all == WithPrerequisites(asked)
           bm == [p \in all |-> [DropPackage EXCEPT !.user = p \in asked]]
<1>2. /\ phase = "idle" /\ phase' = "order" /\ before' = selected
      /\ UNCHANGED <<world, selected, line, judged, search, deps, plan>>
  BY DEF RequestDrop
<1>3. /\ line' = NoLine /\ deps' = <<>> /\ plan' = <<>> /\ search' \in Searches
      /\ Configuration(world, selected) /\ world \in Worlds
  BY <1>2 DEF Inv, Undisturbed, Collecting, Commanded, Tasking
<1>4. Undisturbed'
  <2>1. Configuration(world, selected)' /\ Configuration(world, before)'
    BY <1>2, <1>3 DEF Configuration
  <2>2. Config!PrerequisitesHeld'
    BY <1>2 DEF Inv, Undisturbed, Config!PrerequisitesHeld, Config!Configured, Config!Satisfied
  <2> QED
    BY <1>1, <1>2, <1>3, <2>1, <2>2 DEF Undisturbed, OfBuild, BuildPhases, Stages
<1>5. Collecting'
  BY <1>1, <1>3 DEF Collecting, Commanded
<1>6. all \subseteq Pkgs /\ asked \subseteq Pkgs
  BY DEF WithDependents, WithPrerequisites, Closure
<1>7. /\ col' = [NoCollection EXCEPT !.bm = bm]
      /\ tasks' = Tasks("order", Listed(r.names) \o Listed(asked \ r.names) \o Listed(all \ asked))
  BY <1>1
<1>8. bm \in [all -> Entries] /\ \A p \in all : bm[p].action = "drop"
  <2> SUFFICES ASSUME NEW p \in all
               PROVE  bm[p] \in Entries /\ bm[p].action = "drop"
    BY DEF bm
  <2> HIDE DEF asked, all
  <2>1. PICK b \in BOOLEAN : b <=> p \in asked
    <3>1. CASE p \in asked
      <4>1. TRUE <=> p \in asked
        BY <3>1
      <4> QED
        BY <4>1
    <3>2. CASE p \notin asked
      <4>1. FALSE <=> p \in asked
        BY <3>2
      <4> QED
        BY <4>1
    <3> QED
      BY <3>1, <3>2
  <2>2. bm[p] = [DropPackage EXCEPT !.user = b]
    BY <2>1
  <2> QED
    BY <2>2, DropOf
<1>9. \A p \in all : Unheld(selected, p) \subseteq all
  <2> SUFFICES ASSUME NEW p \in all, NEW q \in Unheld(selected, p) PROVE q \in all
    OBVIOUS
  <2> DEFINE next == [x \in Pkgs |-> Unheld(selected, x)]
  <2>1. all = Closure(asked, next)
    BY DEF WithPrerequisites
  <2>2. p \in Pkgs /\ q \in next[p]
    BY <1>6
  <2>3. q \in Pkgs
    <3>1. Config!IsPackage(selected[p])
      BY <1>3, <2>2 DEF Configuration
    <3> QED
      BY <3>1 DEF Config!IsPackage, Unheld
  <2> HIDE DEF next, all
  <2> QED
    BY <2>1, <2>2, <2>3, ClosureOf
<1> DEFINE a == Listed(r.names)
           b == Listed(asked \ r.names)
           c == Listed(all \ asked)
<1>10. /\ a \in Seq(Pkgs) /\ b \in Seq(Pkgs) /\ c \in Seq(Pkgs)
       /\ ToSet(a) = Pkgs \cap r.names /\ ToSet(b) = Pkgs \cap (asked \ r.names)
       /\ ToSet(c) = Pkgs \cap (all \ asked)
  <2> HIDE DEF all, asked
  <2> QED
    BY ListedOf
<1>11. tasks' = Tasks("order", a \o b \o c)
  BY <1>7
<1> HIDE DEF a, b, c, all, asked, bm
<1> DEFINE ab == a \o b
<1>12. ab \in Seq(Pkgs) /\ ToSet(ab) = ToSet(a) \cup ToSet(b)
  BY <1>10, ConcatSet
<1>13. tasks' = Tasks("order", ab \o c)
  BY <1>11
<1> HIDE DEF ab
<1> DEFINE abc == ab \o c
<1>14. abc \in Seq(Pkgs) /\ ToSet(abc) = ToSet(ab) \cup ToSet(c) /\ tasks' = Tasks("order", abc)
  BY <1>10, <1>12, <1>13, ConcatSet
<1> HIDE DEF abc
<1>15. tasks' \in Seq(TaskRecords) /\ ToSet(tasks') = {Do("order", p) : p \in ToSet(abc)}
  BY <1>14, TasksOf
<1>16. all \subseteq ToSet(abc)
  BY <1>6, <1>10, <1>12, <1>14
<1>17. Tasking'
  <2>1. \A t \in ToSet(tasks') : t.op = "order"
    BY <1>15, DoOf
  <2> QED
    BY <1>2, <1>3, <1>15, <2>1 DEF Tasking, Tasked, Ops
<1>18. /\ col'.bm = bm /\ IsCollection(col)'
  <2>1. col' = [bm |-> bm, replaced |-> NoMap, unsat |-> <<>>, scratch |-> FALSE, taken |-> FALSE]
    BY <1>7 DEF NoCollection
  <2> QED
    BY <2>1 DEF IsCollection
<1>19. DOMAIN bm = all
  BY <1>8
<1>20. Ordering'
  <2>1. <<>> \in Seq(Pkgs) /\ ToSet(<<>>) = {} /\ IsInjective(<<>>)
    BY EmptySeqOf DEF ToSet, IsInjective
  <2>2. Once(tasks', Inserts)
    <3> DEFINE ts == tasks'
    <3>1. ts \in Seq(TaskRecords) /\ \A t \in ToSet(ts) : t.op = "order"
      BY <1>15, DoOf
    <3> HIDE DEF ts
    <3>2. DOMAIN ts = 1..Len(ts) /\ \A i \in 1..Len(ts) : ts[i] \in ToSet(ts)
      BY <3>1, SetOf
    <3>3. \A t \in Inserts : t.op = "insert"
      BY DEF Inserts
    <3>4. Once(ts, Inserts)
      BY <3>1, <3>2, <3>3 DEF Once
    <3> QED
      BY <3>4 DEF ts
  <2>3. ToPlan' = all
    BY <1>1, <1>18, <1>19 DEF ToPlan
  <2>4. \A p \in all : \E t \in ToSet(tasks') : t.name = p
    BY <1>15, <1>16, DoOf
  <2> QED
    BY <1>2, <1>3, <2>1, <2>2, <2>3, <2>4 DEF Ordering, Awaited
<1>21. Dropping'
  <2>1. \A p \in DOMAIN col'.bm : \A q \in Unheld(before, p)' : q \in DOMAIN col'.bm
    BY <1>2, <1>9, <1>18, <1>19 DEF Unheld
  <2> QED
    BY <1>6, <1>8, <1>18, <1>19, <2>1 DEF Dropping
<1> QED
  BY <1>1, <1>2, <1>4, <1>5, <1>17, <1>20, <1>21, InOrder

\* The prerequisites are filtered.
LEMMA FilterKeeps == ASSUME Inv, Filter PROVE Inv'
<1>1. /\ phase = "order" /\ tasks = <<>> /\ req.kind = "drop"
      /\ phase' = "filter" /\ tasks' = Tasks("filter", plan)
      /\ UNCHANGED <<world, selected, req, before, line, judged, col, search, deps, plan>>
  BY DEF Filter, Staying
<1>2. /\ plan \in Seq(Pkgs) /\ IsInjective(plan) /\ ToSet(plan) \subseteq Acted(col.bm)
      /\ \A p \in ToPlan : p \in ToSet(plan) \/ \E t \in ToSet(tasks) : t.name = p
  BY <1>1, OrderWork
<1>3. ToSet(<<>>) = {}
  BY DEF ToSet
<1>4. /\ tasks' \in Seq(TaskRecords) /\ ToSet(tasks') = {Do("filter", p) : p \in ToSet(plan)}
  BY <1>1, <1>2, TasksOf
<1>5. \A t \in ToSet(tasks') : t.op = "filter"
  BY <1>4, DoOf
<1>6. Undisturbed'
  BY <1>1, UndisturbedStays DEF Inv, OfBuild, BuildPhases, Stages
<1>7. Collecting'
  BY <1>1 DEF Inv, Collecting, Commanded
<1>8. Tasking'
  BY <1>1, <1>4, <1>5 DEF Inv, Tasking, Tasked, Ops
<1>9. Ordering'
  <2>1. Once(tasks', Inserts)
    <3> DEFINE ts == tasks'
    <3>1. ts \in Seq(TaskRecords) /\ \A t \in ToSet(ts) : t.op = "filter"
      BY <1>4, <1>5
    <3> HIDE DEF ts
    <3>2. DOMAIN ts = 1..Len(ts) /\ \A i \in 1..Len(ts) : ts[i] \in ToSet(ts)
      BY <3>1, SetOf
    <3>3. \A t \in Inserts : t.op = "insert"
      BY DEF Inserts
    <3>4. Once(ts, Inserts)
      BY <3>1, <3>2, <3>3 DEF Once
    <3> QED
      BY <3>4 DEF ts
  <2>2. ToPlan' = ToPlan
    BY <1>1 DEF ToPlan
  <2> QED
    BY <1>1, <1>2, <1>3, <2>1, <2>2 DEF Ordering
<1>10. Dropping'
  BY <1>1 DEF Inv, Dropping, Unheld, ConfiguredDependents
<1> QED
  BY <1>1, <1>6, <1>7, <1>8, <1>9, <1>10, InOrder

\* One that is used stays, with what it depends on.
LEMMA FilterPrerequisiteKeeps == ASSUME Inv, FilterPrerequisite PROVE Inv'
<1> DEFINE p == Head(tasks).name
           less == Without(col.bm, p)
<1>1. /\ Task("filter") /\ More(<<>>)
      /\ UNCHANGED <<world, selected, req, before, phase, line, judged, search, deps>>
      /\ \/ /\ req.keep \/ ConfiguredDependents(selected, p) \ DOMAIN col.bm # {}
            /\ col' = [col EXCEPT !.bm = less] /\ plan' = Those(plan, Pkgs \ {p})
         \/ col' = col /\ plan' = plan
  BY DEF FilterPrerequisite, Staying
<1>2. /\ tasks # <<>> /\ Head(tasks) \in TaskRecords /\ "filter" \in Ops(phase)
  BY <1>1, HeadOf
<1>3. phase = "filter" /\ p \in Pkgs
  BY <1>2, TaskOf DEF Ops
<1>4. /\ Undisturbed /\ selected = before /\ req.kind = "drop" /\ line = NoLine /\ deps = <<>>
      /\ tasks \in Seq(TaskRecords) /\ search \in Searches
      /\ \A t \in ToSet(tasks) : t.op = "filter"
      /\ plan \in Seq(Pkgs) /\ IsInjective(plan) /\ ToSet(plan) \subseteq Acted(col.bm)
      /\ Once(tasks, Inserts) /\ \A q \in DOMAIN col.bm : q \in ToSet(plan)
      /\ IsCollection(col) /\ DOMAIN col.bm \subseteq Pkgs /\ col.bm \in [DOMAIN col.bm -> Entries]
      /\ \A q \in DOMAIN col.bm : col.bm[q].action = "drop"
      /\ req.keep \/ \A r \in DOMAIN col.bm : \A q \in Unheld(before, r) :
            q \in DOMAIN col.bm \/ ConfiguredDependents(before, q) \ DOMAIN col.bm # {}
  BY <1>3 DEF Inv, Undisturbed, Collecting, Commanded, Tasking, Tasked, Ops, Ordering, Planning,
              ToPlan, Dropping, Stages
<1>5. /\ tasks' \in Seq(TaskRecords) /\ Once(tasks', Inserts)
      /\ ToSet(tasks) = {Head(tasks)} \cup ToSet(tasks')
  BY <1>1, <1>2, <1>4, TailTasks
<1>6. Undisturbed'
  BY <1>1, <1>3, <1>4, UndisturbedStays DEF OfBuild, BuildPhases, Stages
<1>7. Collecting'
  BY <1>1, <1>4 DEF Collecting, Commanded
<1>8. Tasking'
  BY <1>1, <1>3, <1>4, <1>5 DEF Tasking, Tasked, Ops
<1>9. Ordering' /\ Dropping'
  <2>1. CASE col' = col /\ plan' = plan
    <3>1. Ordering'
      BY <1>1, <1>3, <1>4, <1>5, <2>1 DEF Ordering, ToPlan
    <3>2. Dropping'
      BY <1>1, <1>4, <2>1 DEF Inv, Dropping, Unheld, ConfiguredDependents, IsCollection
    <3> QED
      BY <3>1, <3>2
  <2>2. CASE /\ req.keep \/ ConfiguredDependents(selected, p) \ DOMAIN col.bm # {}
             /\ col' = [col EXCEPT !.bm = less] /\ plan' = Those(plan, Pkgs \ {p})
    <3>1. /\ DOMAIN less = DOMAIN col.bm \ {p} /\ \A q \in DOMAIN less : less[q] = col.bm[q]
          /\ less \in [DOMAIN less -> Entries]
      BY <1>4 DEF Without
    <3> HIDE DEF less
    <3>2. col'.bm = less /\ IsCollection(col)'
      <4> DEFINE c == col
      <4>1. c = [bm |-> c.bm, replaced |-> c.replaced, unsat |-> c.unsat,
                 scratch |-> c.scratch, taken |-> c.taken]
        BY <1>4 DEF IsCollection
      <4>2. col' = [bm |-> less, replaced |-> c.replaced, unsat |-> c.unsat,
                    scratch |-> c.scratch, taken |-> c.taken]
        BY <2>2, <4>1
      <4> QED
        BY <4>2 DEF IsCollection
    <3>3. /\ plan' \in Seq(Pkgs) /\ IsInjective(plan') /\ ToSet(plan') = ToSet(plan) \ {p}
      <4>1. /\ Those(plan, Pkgs \ {p}) \in Seq(Pkgs)
            /\ ToSet(Those(plan, Pkgs \ {p})) = ToSet(plan) \cap (Pkgs \ {p})
            /\ IsInjective(Those(plan, Pkgs \ {p}))
        BY <1>4, ThoseOf
      <4>2. ToSet(plan) \subseteq Pkgs
        BY <1>4, SetOf
      <4> QED
        BY <2>2, <4>1, <4>2
    <3>4. Ordering'
      <4>1. ToSet(plan') \subseteq Acted(less)
        BY <1>4, <3>1, <3>3 DEF Acted
      <4>2. ToPlan' = DOMAIN less
        BY <1>1, <1>4, <3>2 DEF ToPlan
      <4> QED
        BY <1>4, <1>5, <3>1, <3>2, <3>3, <4>1, <4>2 DEF Ordering
    <3>5. Dropping'
      <4>1. ASSUME ~req.keep, NEW r \in DOMAIN less, NEW q \in Unheld(before, r)
            PROVE  q \in DOMAIN less \/ ConfiguredDependents(before, q) \ DOMAIN less # {}
        <5>1. CASE q = p
          BY <1>4, <2>2, <3>1, <4>1, <5>1
        <5>2. CASE q # p
          BY <1>4, <3>1, <4>1, <5>2
        <5> QED
          BY <5>1, <5>2
      <4>2. \A q : /\ Unheld(before, q)' = Unheld(before, q)
                   /\ ConfiguredDependents(before, q)' = ConfiguredDependents(before, q)
        BY <1>1 DEF Unheld, ConfiguredDependents
      <4> QED
        BY <1>1, <1>4, <3>1, <3>2, <4>1, <4>2 DEF Dropping
    <3> QED
      BY <3>4, <3>5
  <2> QED
    BY <1>1, <2>1, <2>2
<1> QED
  BY <1>1, <1>3, <1>4, <1>6, <1>7, <1>8, <1>9, InOrder

\* The drops begin.
LEMMA ExecuteDropKeeps == ASSUME Inv, ExecuteDrop PROVE Inv'
<1>1. /\ phase = "filter" /\ tasks = <<>> /\ phase' = "disfigure"
      /\ todo' = Those(plan, {p \in ToSet(plan) : selected[p].state = "configured"})
      /\ UNCHANGED <<world, selected, req, before, line, judged, col, tasks, search, deps, plan>>
  BY DEF ExecuteDrop, command
<1>2. /\ Undisturbed /\ selected = before /\ req.kind = "drop" /\ line = NoLine /\ deps = <<>>
      /\ search \in Searches
      /\ plan \in Seq(Pkgs) /\ IsInjective(plan) /\ ToSet(plan) \subseteq Acted(col.bm)
      /\ \A q \in ToPlan : q \in ToSet(plan)
  BY <1>1 DEF Inv, Undisturbed, Collecting, Commanded, Tasking, Ordering, Planning, Stages
<1>3. ToSet(<<>>) = {} /\ <<>> \in Seq(TaskRecords) /\ Once(<<>>, Inserts)
  BY EmptySeqOf DEF ToSet, Once
<1>4. Undisturbed'
  BY <1>1, <1>2, UndisturbedStays DEF OfBuild, BuildPhases, Stages
<1>5. Collecting'
  BY <1>1, <1>2 DEF Collecting, Commanded
<1>6. Tasking'
  BY <1>1, <1>2, <1>3 DEF Tasking
<1>7. Ordering'
  <2>1. ToPlan' = ToPlan
    BY <1>1 DEF ToPlan
  <2> QED
    BY <1>1, <1>2, <1>3, <2>1 DEF Ordering
<1>8. Simulating' /\ AdjustmentsNeeded'
  BY <1>1, <1>2 DEF Simulating, AdjustmentsNeeded, NoLine, CommandLine
<1>9. Progressing'
  <2> DEFINE S == {p \in ToSet(plan) : before[p].state = "configured"}
  <2>1. /\ todo' \in Seq(Pkgs) /\ IsInjective(todo') /\ ToSet(todo') = S
    <3>1. /\ Those(plan, S) \in Seq(Pkgs) /\ IsInjective(Those(plan, S))
          /\ ToSet(Those(plan, S)) = ToSet(plan) \cap S
      BY <1>2, ThoseOf
    <3>2. todo' = Those(plan, S)
      BY <1>1, <1>2
    <3> QED
      BY <3>1, <3>2
  <2>2. \A p \in Pkgs : selected'[p] = before[p]
    BY <1>1, <1>2
  <2>3. ASSUME NEW p \in ToSet(plan)
        PROVE  /\ Progress(p, before[p], Disfigured(p))'
               /\ p \in ToSet(todo') => Disfiguring(p)'
    <3>1. p \in Pkgs
      BY <1>2, SetOf
    <3>2. p \in ToSet(todo') <=> Disfiguring(p)'
      BY <1>1, <1>2, <2>1 DEF Disfiguring
    <3>3. p \notin ToSet(todo') => Disfigured(p)' = before[p]
      BY <1>1, <3>2 DEF Disfigured
    <3> QED
      BY <1>1, <2>1, <2>2, <3>1, <3>2, <3>3 DEF Progress
  <2> QED
    BY <1>1, <2>1, <2>2, <2>3 DEF Progressing
<1>10. Dropping'
  BY <1>1 DEF Inv, Dropping, Unheld, ConfiguredDependents, IsCollection
<1> QED
  BY <1>1, <1>4, <1>5, <1>6, <1>7, <1>8, <1>9, <1>10, InStage DEF Stages

---------------------------------------------------------------------------
(* The steps of a configuration.                                            *)
\* The fields of a package.
LEMMA FieldsOf ==
    ASSUME NEW x, Config!IsPackage(x)
    PROVE  /\ x = [state |-> x.state, version |-> x.version, hold |-> x.hold,
                   holdVersion |-> x.holdVersion, prereqs |-> x.prereqs]
           /\ x.state \in Config!States /\ x.version \in Versions \cup {0}
           /\ x.hold \in BOOLEAN /\ x.holdVersion \in BOOLEAN
           /\ DOMAIN x.prereqs \subseteq Pkgs
           /\ x.prereqs \in [DOMAIN x.prereqs -> SUBSET Versions]
BY DEF Config!IsPackage

\* What two of them are changed to.
LEMMA HeldIs ==
    ASSUME NEW x, Config!IsPackage(x), NEW h, NEW v, NEW s,
           s = [x EXCEPT !.hold = h, !.holdVersion = v]
    PROVE  s = [state |-> x.state, version |-> x.version, hold |-> h,
                holdVersion |-> v, prereqs |-> x.prereqs]
<1>1. x = [state |-> x.state, version |-> x.version, hold |-> x.hold,
           holdVersion |-> x.holdVersion, prereqs |-> x.prereqs]
  BY FieldsOf
<1> QED
  BY <1>1, Zenon

\* Its state and version.
LEMMA ObtainedIs ==
    ASSUME NEW x, Config!IsPackage(x), NEW t, NEW v, NEW s,
           s = [x EXCEPT !.state = t, !.version = v]
    PROVE  s = [state |-> t, version |-> v, hold |-> x.hold,
                holdVersion |-> x.holdVersion, prereqs |-> x.prereqs]
<1>1. x = [state |-> x.state, version |-> x.version, hold |-> x.hold,
           holdVersion |-> x.holdVersion, prereqs |-> x.prereqs]
  BY FieldsOf
<1> QED
  BY <1>1, Zenon

\* Its state and prerequisites.
LEMMA UnconfiguredIs ==
    ASSUME NEW x, Config!IsPackage(x), NEW t, NEW ds, NEW s,
           s = [x EXCEPT !.state = t, !.prereqs = ds]
    PROVE  s = [state |-> t, version |-> x.version, hold |-> x.hold,
                holdVersion |-> x.holdVersion, prereqs |-> ds]
<1>1. x = [state |-> x.state, version |-> x.version, hold |-> x.hold,
           holdVersion |-> x.holdVersion, prereqs |-> x.prereqs]
  BY FieldsOf
<1> QED
  BY <1>1, Zenon

\* One package becomes another.
LEMMA PackageOf ==
    ASSUME Configuration(world, selected), NEW p \in Pkgs, NEW s, selected' = Package(p, s)
    PROVE  /\ selected' = [q \in Pkgs |-> selected'[q]] /\ selected'[p] = s
           /\ \A q \in Pkgs : q # p => selected'[q] = selected[q]
           /\ selected' = [selected EXCEPT ![p] = selected'[p]]
<1>1. selected = [q \in Pkgs |-> selected[q]] /\ selected' = [selected EXCEPT ![p] = s]
  BY DEF Configuration, Package
<1>2. selected'[p] = s
  BY <1>1
<1> QED
  BY <1>1, <1>2

\* A configuration with one package changed.
LEMMA ConfigurationStep ==
    ASSUME Configuration(world, selected), NEW p \in Pkgs, NEW s, selected' = Package(p, s),
           Config!IsPackage(s), s.state = "none" => s = None,
           s.state # "none" => s.version \in world.available[p]
    PROVE  Configuration(world, selected')
<1>1. /\ selected' = [q \in Pkgs |-> selected'[q]] /\ selected'[p] = s
      /\ \A q \in Pkgs : q # p => selected'[q] = selected[q]
  BY PackageOf
<1> QED
  BY <1>1 DEF Configuration

\* A package that nothing depends on is taken apart.
LEMMA ApartOf ==
    ASSUME Configuration(world, selected), Config!PrerequisitesHeld,
           NEW p \in Pkgs, NEW s, selected' = Package(p, s),
           Config!IsPackage(s), s.state = "none" => s = None,
           s.state # "none" => s.version \in world.available[p],
           s.state # "configured", DOMAIN s.prereqs = {},
           selected[p].state # "configured" \/ ConfiguredDependents(selected, p) = {}
    PROVE  /\ Configuration(world, selected') /\ Config!PrerequisitesHeld'
           /\ Config!TakeApart(p)
<1>1. /\ selected' = [q \in Pkgs |-> selected'[q]] /\ selected'[p] = s
      /\ \A q \in Pkgs : q # p => selected'[q] = selected[q]
      /\ selected' = [selected EXCEPT ![p] = selected'[p]]
  BY PackageOf
<1>2. Config!Dependents(p) = {}
  <2>1. CASE selected[p].state # "configured"
    BY <2>1 DEF Config!PrerequisitesHeld, Config!Dependents, Config!Configured, Config!Satisfied
  <2>2. CASE ConfiguredDependents(selected, p) = {}
    BY <2>2 DEF ConfiguredDependents, Config!Dependents, Config!Configured
  <2> QED
    BY <2>1, <2>2
<1>3. Configuration(world, selected')
  BY ConfigurationStep
<1>4. Config!TakeApart(p)
  BY <1>1, <1>2 DEF Config!TakeApart, Config!Becomes
<1>5. ASSUME NEW q \in Pkgs, q # p, selected[q].state = "configured"
      PROVE  p \notin DOMAIN selected[q].prereqs
  BY <1>2, <1>5 DEF Config!Dependents, Config!Configured
<1>6. \A q \in Pkgs : DOMAIN selected[q].prereqs \subseteq Pkgs
  BY DEF Configuration, Config!IsPackage
<1>7. ASSUME NEW q \in Pkgs, q # p, selected[q].state = "configured"
      PROVE  \A d \in DOMAIN selected[q].prereqs :
                selected'[d].state = "configured" /\ selected'[d].version \in selected[q].prereqs[d]
  BY <1>1, <1>5, <1>6, <1>7 DEF Config!PrerequisitesHeld, Config!Configured, Config!Satisfied
<1>8. Config!PrerequisitesHeld'
  <2> SUFFICES ASSUME NEW q \in Pkgs
               PROVE  /\ selected'[q].state = "configured" =>
                            \A d \in DOMAIN selected'[q].prereqs :
                               /\ selected'[d].state = "configured"
                               /\ selected'[d].version \in selected'[q].prereqs[d]
                      /\ selected'[q].state # "configured" => DOMAIN selected'[q].prereqs = {}
    BY DEF Config!PrerequisitesHeld, Config!Configured, Config!Satisfied
  <2>1. CASE q = p
    BY <1>1, <2>1
  <2>2. CASE q # p
    BY <1>1, <1>7, <2>2 DEF Config!PrerequisitesHeld, Config!Configured
  <2> QED
    BY <2>1, <2>2
<1> QED
  BY <1>3, <1>4, <1>8

\* A package is configured against prerequisites that are.
LEMMA ConfigureOf ==
    ASSUME Configuration(world, selected), Config!PrerequisitesHeld,
           NEW p \in Pkgs, NEW ds, selected[p].state = "unpacked",
           selected' = Package(p, [selected[p] EXCEPT !.state = "configured", !.prereqs = ds]),
           DOMAIN ds \subseteq Pkgs, ds \in [DOMAIN ds -> SUBSET Versions],
           \A d \in DOMAIN ds : selected[d].state = "configured" /\ selected[d].version \in ds[d]
    PROVE  /\ Configuration(world, selected') /\ Config!PrerequisitesHeld'
           /\ Config!Configure(p)
<1> DEFINE s == [selected[p] EXCEPT !.state = "configured", !.prereqs = ds]
<1>1. selected' = Package(p, s)
  OBVIOUS
<1>2. /\ Config!IsPackage(s) /\ s.state = "configured" /\ s.prereqs = ds
      /\ s.version = selected[p].version
  BY DEF Configuration, Config!IsPackage, Config!States
<1>3. selected'[p] = s => s = [selected[p] EXCEPT !.state = "configured", !.prereqs = selected'[p].prereqs]
  BY <1>2
<1> HIDE DEF s
<1>4. /\ selected' = [q \in Pkgs |-> selected'[q]] /\ selected'[p] = s
      /\ \A q \in Pkgs : q # p => selected'[q] = selected[q]
      /\ selected' = [selected EXCEPT ![p] = selected'[p]]
  BY <1>1, PackageOf
<1>5. Configuration(world, selected')
  <2>1. s.version \in world.available[p]
    BY <1>2 DEF Configuration
  <2>2. s.state = "none" => s = None
    BY <1>2
  <2> QED
    BY <1>1, <1>2, <2>1, <2>2, ConfigurationStep
<1>6. Config!Configure(p)
  BY <1>2, <1>3, <1>4 DEF Config!Configure, Config!Becomes, Config!Satisfied, Config!Configured
<1>7. \A q \in Pkgs : DOMAIN selected[q].prereqs \subseteq Pkgs
  BY DEF Configuration, Config!IsPackage
<1>8. ASSUME NEW q \in Pkgs, q # p, selected[q].state = "configured"
      PROVE  \A d \in DOMAIN selected[q].prereqs :
                selected'[d].state = "configured" /\ selected'[d].version \in selected[q].prereqs[d]
  BY <1>2, <1>4, <1>7, <1>8 DEF Config!PrerequisitesHeld, Config!Configured, Config!Satisfied
<1>9. Config!PrerequisitesHeld'
  <2> SUFFICES ASSUME NEW q \in Pkgs
               PROVE  /\ selected'[q].state = "configured" =>
                            \A d \in DOMAIN selected'[q].prereqs :
                               /\ selected'[d].state = "configured"
                               /\ selected'[d].version \in selected'[q].prereqs[d]
                      /\ selected'[q].state # "configured" => DOMAIN selected'[q].prereqs = {}
    BY DEF Config!PrerequisitesHeld, Config!Configured, Config!Satisfied
  <2>1. CASE q = p
    <3>1. \A d \in DOMAIN ds : d \in Pkgs /\ d # p
      OBVIOUS
    <3> QED
      BY <1>2, <1>4, <2>1, <3>1
  <2>2. CASE q # p
    BY <1>4, <1>8, <2>2 DEF Config!PrerequisitesHeld, Config!Configured
  <2> QED
    BY <2>1, <2>2
<1> QED
  BY <1>5, <1>6, <1>9

\* What is configured against what is not affected.
LEMMA SameStands ==
    ASSUME Config!PrerequisitesHeld,
           \A q \in Pkgs : /\ selected'[q].state = selected[q].state
                           /\ selected'[q].version = selected[q].version
                           /\ selected'[q].prereqs = selected[q].prereqs
                           /\ DOMAIN selected[q].prereqs \subseteq Pkgs
    PROVE  Config!PrerequisitesHeld'
BY DEF Config!PrerequisitesHeld, Config!Configured, Config!Satisfied

\* Only what is held of a package changes.
LEMMA HoldOf ==
    ASSUME Configuration(world, selected), Config!PrerequisitesHeld,
           NEW p \in Pkgs, NEW h \in BOOLEAN, NEW v \in BOOLEAN, selected[p].state # "none",
           NEW s, s = [selected[p] EXCEPT !.hold = h, !.holdVersion = v],
           selected' = Package(p, s)
    PROVE  /\ Configuration(world, selected') /\ Config!PrerequisitesHeld'
           /\ Config!Hold(p)
<1>1. Config!IsPackage(selected[p])
  BY DEF Configuration
<1> DEFINE x == selected[p]
           k == [state |-> x.state, version |-> x.version, hold |-> h,
                 holdVersion |-> v, prereqs |-> x.prereqs]
<1>2. s = k
  BY <1>1, HeldIs
<1>3. /\ Config!IsPackage(k) /\ k.state = x.state /\ k.prereqs = x.prereqs
      /\ k.version = x.version /\ k.hold = h /\ k.holdVersion = v
  BY <1>1 DEF Config!IsPackage
<1> HIDE DEF k
<1>4. /\ selected' = [q \in Pkgs |-> selected'[q]] /\ selected'[p] = k
      /\ \A q \in Pkgs : q # p => selected'[q] = selected[q]
      /\ selected' = [selected EXCEPT ![p] = selected'[p]]
  BY <1>2, PackageOf, Zenon
<1>5. Configuration(world, selected')
  <2>1. k.version \in world.available[p] /\ k.state # "none" /\ selected' = Package(p, k)
    BY <1>2, <1>3, Zenon DEF Configuration
  <2> QED
    BY <1>3, <2>1, ConfigurationStep, Zenon
<1>6. Config!Hold(p)
  <2>1. selected'[p].hold = h /\ selected'[p].holdVersion = v
    BY <1>3, <1>4, Zenon
  <2>2. [x EXCEPT !.hold = selected'[p].hold, !.holdVersion = selected'[p].holdVersion] = k
    BY <1>2, <2>1, Zenon
  <2>3. Config!Becomes(p, k)
    BY <1>3, <1>4, Zenon DEF Config!Becomes
  <2> QED
    BY <2>2, <2>3, Zenon DEF Config!Hold
<1>7. ASSUME NEW q \in Pkgs
      PROVE  /\ selected'[q].state = selected[q].state
             /\ selected'[q].version = selected[q].version
             /\ selected'[q].prereqs = selected[q].prereqs
             /\ DOMAIN selected[q].prereqs \subseteq Pkgs
  <2>1. DOMAIN selected[q].prereqs \subseteq Pkgs
    BY FieldsOf, Zenon DEF Configuration
  <2> QED
    BY <1>3, <1>4, <2>1, Zenon
<1> QED
  BY <1>5, <1>6, <1>7, SameStands

---------------------------------------------------------------------------
(* The stages of the execution.                                             *)
\* What a package of a configuration is.
Proper(p, s) ==
    /\ Config!IsPackage(s)
    /\ s.state = "none" => s = None
    /\ s.state # "none" => s.version \in world.available[p]

\* What the plan has for p.
InPlan(p) ==
    /\ p \in Pkgs /\ p \in DOMAIN col.bm
    /\ col.bm[p].action \in {"build", "adjust", "drop"}
    /\ col.bm[p].version \in Versions \cup {0}
    /\ col.bm[p].hold \in BOOLEAN /\ col.bm[p].holdVersion \in 0..2
    /\ col.bm[p].action = "build" =>
          col.bm[p].version \in world.available[p] /\ before[p].state # "broken"
    /\ col.bm[p].action = "adjust" => before[p].state = "configured"
    /\ col.bm[p].action # "drop" => req.kind = "build"
    /\ Disfiguring(p) => before[p].state \in {"configured", "broken"}
    /\ before[p].state = "configured" /\ Dropped(col.bm, p) => Disfiguring(p)

\* What holds during the execution.
LEMMA StageOf ==
    ASSUME Inv, phase \in Stages
    PROVE  /\ world \in Worlds /\ req \in Requests /\ tasks = <<>>
           /\ Configuration(world, selected) /\ Configuration(world, before)
           /\ Config!PrerequisitesHeld
           /\ plan \in Seq(Pkgs) /\ IsInjective(plan) /\ ToSet(plan) \subseteq Pkgs
           /\ todo \in Seq(Pkgs) /\ IsInjective(todo) /\ ToSet(todo) \subseteq ToSet(plan)
           /\ \A p \in ToSet(plan) : InPlan(p)
           /\ req.kind = "build" => AtWork /\ phase \in {"disfigure", "fetch", "configure", "hold"}
           /\ req.kind # "build" => phase \in {"disfigure", "purge"} /\ req.kind = "drop"
<1>1. /\ world \in Worlds /\ req \in Requests /\ tasks = <<>> /\ phase # "idle"
      /\ Configuration(world, selected) /\ Configuration(world, before)
      /\ Config!PrerequisitesHeld
  BY DEF Inv, Undisturbed, Stages
<1>2. /\ plan \in Seq(Pkgs) /\ IsInjective(plan) /\ ToSet(plan) \subseteq Acted(col.bm)
  BY DEF Inv, Ordering, Planning
<1>3. ToSet(plan) \subseteq Pkgs
  BY <1>2, SetOf
<1>4. todo \in Seq(Pkgs) /\ IsInjective(todo) /\ ToSet(todo) \subseteq ToSet(plan)
  BY DEF Inv, Progressing
<1>5. req.kind \in {"build", "drop"}
  BY <1>1, RequestsAssumption
<1>6. /\ req.kind = "build" => phase \in {"disfigure", "fetch", "configure", "hold"}
      /\ req.kind # "build" => phase \in {"disfigure", "purge"}
  BY <1>5 DEF Inv, Undisturbed, OfBuild, Stages
<1>7. ASSUME req.kind = "build"
      PROVE  AtWork
  BY <1>1, <1>7, CollectsIff
     DEF Inv, Undisturbed, Collecting, Requested, Tasking, AtWork, Commanded
<1>8. ASSUME NEW p \in ToSet(plan)
      PROVE  InPlan(p)
  <2>1. p \in Pkgs /\ p \in DOMAIN col.bm /\ col.bm[p].action # "enter"
    BY <1>2, <1>3 DEF Acted
  <2>2. CASE req.kind = "build"
    <3>1. AtWork /\ phase \in Planning /\ phase # "order"
      BY <1>6, <1>7, <2>2 DEF Planning, Stages
    <3>2. col.bm[p] \in Entries /\ Enterable(world, before, line, p, col.bm[p])
      BY <3>1, PlannedOf
    <3>3. ~DisfiguresOther(before)
      BY <2>2 DEF Inv, Simulating
    <3>4. Disfiguring(p) => before[p].state \in {"configured", "broken"}
      BY <2>2, <3>3 DEF DisfiguresOther, Disfiguring
    <3>5. Dropped(col.bm, p) => Disfiguring(p)
      BY <2>2 DEF Disfiguring, Disfigures, Dropped
    <3> QED
      BY <2>1, <2>2, <3>2, <3>4, <3>5 DEF InPlan, Entries, Enterable, Buildable
  <2>3. CASE req.kind = "drop"
    <3>1. col.bm[p] \in Entries /\ col.bm[p].action = "drop"
      BY <1>1, <2>1, <2>3 DEF Inv, Dropping
    <3>2. Disfiguring(p) <=> before[p].state = "configured"
      BY <2>3 DEF Disfiguring
    <3> QED
      BY <2>1, <3>1, <3>2 DEF InPlan, Entries
  <2> QED
    BY <1>5, <2>2, <2>3
<1> QED
  BY <1>1, <1>2, <1>3, <1>4, <1>5, <1>6, <1>7, <1>8

\* A package that is not there.
LEMMA NoneOf ==
    /\ Config!IsPackage(None) /\ None.state = "none" /\ DOMAIN None.prereqs = {}
    /\ None.version = 0 /\ None.prereqs \in [DOMAIN None.prereqs -> SUBSET Versions]
    /\ None.hold = FALSE
<1>1. DOMAIN [d \in {} |-> {}] = {} /\ [d \in {} |-> {}] \in [{} -> SUBSET Versions]
  OBVIOUS
<1>2. /\ None.state = "none" /\ None.version = 0 /\ None.prereqs = [d \in {} |-> {}]
      /\ None.hold = FALSE
  BY DEF None, Config!NoPackage
<1>3. Config!IsPackage(None)
  BY <1>1 DEF None, Config!NoPackage, Config!IsPackage, Config!States
<1> QED
  BY <1>1, <1>2, <1>3

\* What becomes of a package.
TakenApart(x, t) == [x EXCEPT !.state = t, !.prereqs = None.prereqs]
ObtainedAt(x, t, v) == [x EXCEPT !.state = t, !.version = v]
ConfiguredWith(x, ds) == [x EXCEPT !.state = "configured", !.prereqs = ds]
HeldAs(x, h, v) == [x EXCEPT !.hold = h, !.holdVersion = v]

\* Taken apart.
LEMMA TakenApartOf ==
    ASSUME NEW x, Config!IsPackage(x), NEW t \in Config!States
    PROVE  /\ Config!IsPackage(TakenApart(x, t))
           /\ TakenApart(x, t).state = t /\ TakenApart(x, t).version = x.version
           /\ TakenApart(x, t).hold = x.hold /\ TakenApart(x, t).holdVersion = x.holdVersion
           /\ DOMAIN TakenApart(x, t).prereqs = {}
<1> DEFINE ds == None.prereqs
           s == TakenApart(x, t)
           k == [state |-> t, version |-> x.version, hold |-> x.hold,
                 holdVersion |-> x.holdVersion, prereqs |-> ds]
<1>1. DOMAIN ds = {} /\ ds \in [DOMAIN ds -> SUBSET Versions]
  BY NoneOf
<1>2. s = [x EXCEPT !.state = t, !.prereqs = ds]
  BY Zenon DEF TakenApart
<1> HIDE DEF ds, s
<1>3. s = k
  BY <1>2, UnconfiguredIs, Zenon
<1>4. /\ Config!IsPackage(k) /\ k.state = t /\ k.version = x.version
      /\ k.hold = x.hold /\ k.holdVersion = x.holdVersion /\ k.prereqs = ds
  BY <1>1 DEF Config!IsPackage
<1> HIDE DEF k
<1> QED
  BY <1>1, <1>3, <1>4, Zenon DEF s

\* Fetched or unpacked.
LEMMA ObtainedAtOf ==
    ASSUME NEW x, Config!IsPackage(x), NEW t \in Config!States, NEW v \in Versions
    PROVE  /\ Config!IsPackage(ObtainedAt(x, t, v))
           /\ ObtainedAt(x, t, v).state = t /\ ObtainedAt(x, t, v).version = v
           /\ ObtainedAt(x, t, v).hold = x.hold
           /\ ObtainedAt(x, t, v).holdVersion = x.holdVersion
           /\ ObtainedAt(x, t, v).prereqs = x.prereqs
<1> DEFINE s == ObtainedAt(x, t, v)
           k == [state |-> t, version |-> v, hold |-> x.hold,
                 holdVersion |-> x.holdVersion, prereqs |-> x.prereqs]
<1>2. s = [x EXCEPT !.state = t, !.version = v]
  BY Zenon DEF ObtainedAt
<1> HIDE DEF s
<1>3. s = k
  BY <1>2, ObtainedIs, Zenon
<1>4. /\ Config!IsPackage(k) /\ k.state = t /\ k.version = v
      /\ k.hold = x.hold /\ k.holdVersion = x.holdVersion /\ k.prereqs = x.prereqs
  BY DEF Config!IsPackage
<1> HIDE DEF k
<1> QED
  BY <1>3, <1>4, Zenon DEF s

\* Configured.
LEMMA ConfiguredWithOf ==
    ASSUME NEW x, Config!IsPackage(x), NEW ds, DOMAIN ds \subseteq Pkgs,
           ds \in [DOMAIN ds -> SUBSET Versions]
    PROVE  /\ Config!IsPackage(ConfiguredWith(x, ds))
           /\ ConfiguredWith(x, ds).state = "configured"
           /\ ConfiguredWith(x, ds).version = x.version
           /\ ConfiguredWith(x, ds).hold = x.hold
           /\ ConfiguredWith(x, ds).holdVersion = x.holdVersion
           /\ ConfiguredWith(x, ds).prereqs = ds
<1> DEFINE t == "configured"
           s == ConfiguredWith(x, ds)
           k == [state |-> t, version |-> x.version, hold |-> x.hold,
                 holdVersion |-> x.holdVersion, prereqs |-> ds]
<1>1. t \in Config!States
  BY DEF Config!States
<1>2. s = [x EXCEPT !.state = t, !.prereqs = ds]
  BY Zenon DEF ConfiguredWith
<1> HIDE DEF s
<1>3. s = k
  BY <1>2, UnconfiguredIs, Zenon
<1>4. /\ Config!IsPackage(k) /\ k.state = t /\ k.version = x.version
      /\ k.hold = x.hold /\ k.holdVersion = x.holdVersion /\ k.prereqs = ds
  BY <1>1 DEF Config!IsPackage
<1> HIDE DEF k
<1> QED
  BY <1>3, <1>4, Zenon DEF s

\* Held.
LEMMA HeldAsOf ==
    ASSUME NEW x, Config!IsPackage(x), NEW h \in BOOLEAN, NEW v \in BOOLEAN
    PROVE  /\ Config!IsPackage(HeldAs(x, h, v))
           /\ HeldAs(x, h, v).state = x.state /\ HeldAs(x, h, v).version = x.version
           /\ HeldAs(x, h, v).hold = h /\ HeldAs(x, h, v).holdVersion = v
           /\ HeldAs(x, h, v).prereqs = x.prereqs
<1> DEFINE s == HeldAs(x, h, v)
           k == [state |-> x.state, version |-> x.version, hold |-> h,
                 holdVersion |-> v, prereqs |-> x.prereqs]
<1>2. s = [x EXCEPT !.hold = h, !.holdVersion = v]
  BY Zenon DEF HeldAs
<1> HIDE DEF s
<1>3. s = k
  BY <1>2, HeldIs, Zenon
<1>4. /\ Config!IsPackage(k) /\ k.state = x.state /\ k.version = x.version
      /\ k.hold = h /\ k.holdVersion = v /\ k.prereqs = x.prereqs
  BY DEF Config!IsPackage
<1> HIDE DEF k
<1> QED
  BY <1>3, <1>4, Zenon DEF s

\* What it is after the first stage.
LEMMA DisfiguredOf ==
    ASSUME Inv, phase \in Stages, NEW p \in ToSet(plan)
    PROVE  /\ Proper(p, Disfigured(p)) /\ Disfigured(p).version = before[p].version
           /\ Disfigured(p).hold = before[p].hold
           /\ Disfigured(p).holdVersion = before[p].holdVersion
           /\ Disfiguring(p) => /\ Disfigured(p).state = "unpacked"
                                /\ DOMAIN Disfigured(p).prereqs = {}
           /\ ~Disfiguring(p) => Disfigured(p) = before[p]
<1>1. InPlan(p) /\ Configuration(world, before)
  BY StageOf
<1>2. Proper(p, before[p])
  BY <1>1 DEF InPlan, Configuration, Proper
<1>3. CASE Disfiguring(p)
  <2> DEFINE s == Disfigured(p)
             x == before[p]
             t == "unpacked"
  <2>1. s = TakenApart(x, t)
    BY <1>3, Zenon DEF Disfigured, TakenApart
  <2>2. Config!IsPackage(x)
    BY <1>2 DEF Proper
  <2>5. t \in Config!States
    BY DEF Config!States
  <2>6. x.version \in world.available[p]
    BY <1>1, <1>2, <1>3 DEF Proper, InPlan
  <2> HIDE DEF s, x, t
  <2>3. /\ Config!IsPackage(s) /\ s.state = t /\ s.version = x.version
        /\ s.hold = x.hold /\ s.holdVersion = x.holdVersion /\ DOMAIN s.prereqs = {}
    BY <2>1, <2>2, <2>5, TakenApartOf, Zenon
  <2>4. Proper(p, s)
    BY <2>3, <2>6 DEF Proper, t
  <2> QED
    BY <1>3, <2>3, <2>4 DEF s, x, t
<1>4. CASE ~Disfiguring(p)
  BY <1>2, <1>4 DEF Disfigured
<1> QED
  BY <1>3, <1>4

\* What a package is configured against.
LEMMA ResolvedOf ==
    ASSUME world \in Worlds, NEW p \in Pkgs, NEW v \in world.available[p]
    PROVE  /\ DOMAIN Resolved(p, v) \subseteq Pkgs
           /\ Resolved(p, v) \in [DOMAIN Resolved(p, v) -> SUBSET Versions]
<1> DEFINE ds == Depends(world, p, v)
           R == [name : Pkgs, allowed : SUBSET Versions]
           on == DependsOn(world, p, v)
           one(d) == CHOOSE r \in ToSet(ds) : r.name = d
<1>1. ds \in Seq(R)
  BY WorldsAssumption
<1>2. ToSet(ds) \subseteq R
  BY <1>1, SetOf
<1>3. \A r \in ToSet(ds) : r.name \in Pkgs /\ r.allowed \in SUBSET Versions
  BY <1>2
<1>4. on = {r.name : r \in ToSet(ds)}
  BY DEF DependsOn
<1>5. \A d \in on : \E r \in ToSet(ds) : r.name = d
  BY <1>4
<1>6. Resolved(p, v) = [d \in on |-> one(d).allowed]
  BY DEF Resolved
<1> HIDE DEF ds, R, on
<1>7. \A d \in on : d \in Pkgs
  BY <1>3, <1>5
<1>8. \A d \in on : one(d) \in ToSet(ds)
  BY <1>5
<1> HIDE DEF one
<1>9. \A d \in on : one(d).allowed \in SUBSET Versions
  BY <1>3, <1>8
<1> QED
  BY <1>6, <1>7, <1>9

\* The version the plan leaves a package at.
LEMMA TargetOf ==
    ASSUME NEW p, InPlan(p), Configuration(world, before), ~Dropped(col.bm, p)
    PROVE  /\ req.kind = "build" /\ Target(before, p) \in world.available[p]
           /\ before[p].state # "broken" /\ col.bm[p].action \in {"build", "adjust"}
           /\ Disfiguring(p) <=> Disfigures(before, col.bm, p)
           /\ Disfiguring(p) => before[p].state = "configured"
           /\ before[p].state = "configured" /\ before[p].version # Target(before, p) =>
                 Disfiguring(p)
<1>1. col.bm[p].action \in {"build", "adjust"} /\ p \in Pkgs /\ req.kind = "build"
  BY DEF InPlan, Dropped
<1>2. before[p].state # "broken"
  BY <1>1 DEF InPlan
<1>3. Target(before, p) \in world.available[p]
  BY <1>1 DEF InPlan, Target, Configuration
<1>4. Disfiguring(p) <=> Disfigures(before, col.bm, p)
  BY <1>1 DEF Disfiguring
<1>5. Disfiguring(p) => before[p].state = "configured"
  BY <1>1, <1>4 DEF Disfigures, Reconfigure
<1>6. before[p].state = "configured" /\ before[p].version # Target(before, p) => Disfiguring(p)
  BY <1>1, <1>4 DEF Disfigures, Reconfigure, Target
<1> QED
  BY <1>1, <1>2, <1>3, <1>4, <1>5, <1>6

\* A package that is obtained, in the state t.
LEMMA ObtainedOf ==
    ASSUME Inv, phase \in Stages, NEW p \in ToSet(plan), col.bm[p].action = "build",
           NEW t \in Config!States, t # "none"
    PROVE  /\ Proper(p, Obtained(p, t)) /\ Obtained(p, t).state = t
           /\ Obtained(p, t).version = col.bm[p].version
           /\ Obtained(p, t).hold = before[p].hold
           /\ Obtained(p, t).holdVersion = before[p].holdVersion
           /\ Obtained(p, t).prereqs = Disfigured(p).prereqs
<1>1. InPlan(p) /\ world \in Worlds
  BY StageOf
<1> DEFINE v == col.bm[p].version
           x == Disfigured(p)
           s == Obtained(p, t)
<1>2. v \in world.available[p] /\ world.available[p] \subseteq Versions
  BY <1>1, WorldsAssumption DEF InPlan
<1>3. v \in Versions
  BY <1>2
<1>4. s = ObtainedAt(x, t, v)
  BY Zenon DEF Obtained, ObtainedAt
<1>5. Config!IsPackage(x) /\ x.hold = before[p].hold /\ x.holdVersion = before[p].holdVersion
  BY DisfiguredOf DEF Proper
<1>6. Config!IsPackage(x)
  BY <1>5
<1> HIDE DEF v, x, s
<1>7. /\ Config!IsPackage(s) /\ s.state = t /\ s.version = v
      /\ s.hold = x.hold /\ s.holdVersion = x.holdVersion /\ s.prereqs = x.prereqs
  <2>1. t \in Config!States
    OBVIOUS
  <2>2. /\ Config!IsPackage(ObtainedAt(x, t, v))
        /\ ObtainedAt(x, t, v).state = t /\ ObtainedAt(x, t, v).version = v
        /\ ObtainedAt(x, t, v).hold = x.hold
        /\ ObtainedAt(x, t, v).holdVersion = x.holdVersion
        /\ ObtainedAt(x, t, v).prereqs = x.prereqs
    BY <1>3, <1>6, <2>1, ObtainedAtOf
  <2> QED
    BY <1>4, <2>2
<1>8. Proper(p, s)
  BY <1>2, <1>7 DEF Proper
<1> QED
  BY <1>5, <1>7, <1>8 DEF v, s, x

\* After the second one, at the version of the plan.
LEMMA FetchedOf ==
    ASSUME Inv, phase \in Stages, NEW p \in ToSet(plan), ~Dropped(col.bm, p)
    PROVE  /\ Proper(p, Fetched(p)) /\ Fetched(p).version = Target(before, p)
           /\ Fetched(p).hold = before[p].hold
           /\ Fetched(p).holdVersion = before[p].holdVersion
           /\ Configures(before, p) => Fetched(p).state = "unpacked"
           /\ ~Configures(before, p) => Fetched(p) = before[p] /\ before[p].state = "configured"
<1>1. InPlan(p) /\ world \in Worlds /\ Configuration(world, before)
  BY StageOf
<1>2. /\ Target(before, p) \in world.available[p]
      /\ before[p].state # "broken" /\ col.bm[p].action \in {"build", "adjust"}
      /\ Disfiguring(p) <=> Disfigures(before, col.bm, p)
      /\ Disfiguring(p) => before[p].state = "configured"
      /\ before[p].state = "configured" /\ before[p].version # Target(before, p) => Disfiguring(p)
  BY <1>1, TargetOf
<1>3. Configures(before, p) <=> (before[p].state = "configured" => Disfiguring(p))
  BY <1>2 DEF Configures
<1>4. /\ Proper(p, Disfigured(p)) /\ Disfigured(p).version = before[p].version
      /\ Disfigured(p).hold = before[p].hold
      /\ Disfigured(p).holdVersion = before[p].holdVersion
      /\ Disfiguring(p) => Disfigured(p).state = "unpacked"
      /\ ~Disfiguring(p) => Disfigured(p) = before[p]
  BY DisfiguredOf
<1> DEFINE obtains == /\ col.bm[p].action = "build"
                      /\ before[p].version # col.bm[p].version \/ Disfigured(p).state = "fetched"
<1>5. Fetched(p) = IF obtains THEN Obtained(p, "unpacked") ELSE Disfigured(p)
  BY DEF Fetched
<1>6. CASE obtains
  <2>1. /\ Proper(p, Obtained(p, "unpacked")) /\ Obtained(p, "unpacked").state = "unpacked"
        /\ Obtained(p, "unpacked").version = col.bm[p].version
        /\ Obtained(p, "unpacked").hold = before[p].hold
        /\ Obtained(p, "unpacked").holdVersion = before[p].holdVersion
    <3>1. "unpacked" \in Config!States /\ "unpacked" # "none" /\ col.bm[p].action = "build"
      BY <1>6 DEF Config!States
    <3> QED
      BY <3>1, ObtainedOf
  <2>2. Target(before, p) = col.bm[p].version
    BY <1>6 DEF Target
  <2>3. Configures(before, p)
    <3>1. CASE before[p].version # col.bm[p].version
      BY <1>2, <1>3, <2>2, <3>1
    <3>2. CASE Disfigured(p).state = "fetched"
      BY <1>3, <1>4, <3>2
    <3> QED
      BY <1>6, <3>1, <3>2
  <2> QED
    BY <1>5, <1>6, <2>1, <2>2, <2>3
<1>7. CASE ~obtains
  <2>1. Fetched(p) = Disfigured(p)
    BY <1>5, <1>7
  <2>2. Disfigured(p).version = Target(before, p)
    BY <1>2, <1>4, <1>7 DEF Target
  <2>3. ASSUME Configures(before, p)
        PROVE  Disfigured(p).state = "unpacked"
    <3>1. CASE Disfiguring(p)
      BY <1>4, <3>1
    <3>2. CASE ~Disfiguring(p)
      <4>1. Disfigured(p) = before[p] /\ before[p].state # "configured"
        BY <1>3, <1>4, <2>3, <3>2
      <4>2. col.bm[p].action = "build" /\ before[p].state # "fetched"
        BY <1>1, <1>2, <1>7, <4>1 DEF InPlan
      <4>3. before[p].state # "none"
        <5>1. col.bm[p].version \in Versions
          BY <1>1, <4>2, WorldsAssumption DEF InPlan
        <5>2. col.bm[p].version # 0
          BY <5>1, VersionsAssumption
        <5>3. before[p].state = "none" => before[p].version = 0
          BY <1>1, NoneOf DEF InPlan, Configuration
        <5> QED
          BY <1>7, <4>2, <5>2, <5>3
      <4>4. before[p].state \in Config!States
        BY <1>1, FieldsOf DEF InPlan, Configuration
      <4> QED
        BY <1>2, <4>1, <4>2, <4>3, <4>4 DEF Config!States
    <3> QED
      BY <3>1, <3>2
  <2> QED
    BY <1>3, <1>4, <2>1, <2>2, <2>3
<1> QED
  BY <1>6, <1>7

\* After the third one, configured.
LEMMA ReconfiguredOf ==
    ASSUME Inv, phase \in Stages, NEW p \in ToSet(plan), ~Dropped(col.bm, p)
    PROVE  /\ Proper(p, Reconfigured(p)) /\ Reconfigured(p).version = Target(before, p)
           /\ Reconfigured(p).hold = before[p].hold
           /\ Reconfigured(p).holdVersion = before[p].holdVersion
           /\ Reconfigured(p).state = "configured"
           /\ Configures(before, p) => Reconfigured(p).prereqs = Resolved(p, Target(before, p))
           /\ ~Configures(before, p) => Reconfigured(p) = before[p]
<1>1. InPlan(p) /\ world \in Worlds /\ Configuration(world, before)
  BY StageOf
<1>2. Target(before, p) \in world.available[p] /\ p \in Pkgs
  BY <1>1, TargetOf DEF InPlan
<1>3. /\ Proper(p, Fetched(p)) /\ Fetched(p).version = Target(before, p)
      /\ Fetched(p).hold = before[p].hold
      /\ Fetched(p).holdVersion = before[p].holdVersion
      /\ Configures(before, p) => Fetched(p).state = "unpacked"
      /\ ~Configures(before, p) => Fetched(p) = before[p] /\ before[p].state = "configured"
  BY FetchedOf
<1>4. CASE Configures(before, p)
  <2> DEFINE s == Reconfigured(p)
             x == Fetched(p)
             ds == Resolved(p, Target(before, p))
  <2>1. s = ConfiguredWith(x, ds)
    <3>1. ~Dropped(col.bm, p) /\ Fetched(p).state # "configured"
      BY <1>3, <1>4
    <3> QED
      BY <1>3, <3>1, Zenon DEF Reconfigured, ConfiguredWith
  <2>2. DOMAIN ds \subseteq Pkgs
    BY <1>1, <1>2, ResolvedOf
  <2>3. ds \in [DOMAIN ds -> SUBSET Versions]
    BY <1>1, <1>2, ResolvedOf
  <2>4. Config!IsPackage(x)
    BY <1>3 DEF Proper
  <2> HIDE DEF s, x, ds
  <2>5. /\ Config!IsPackage(s) /\ s.state = "configured" /\ s.version = x.version
        /\ s.hold = x.hold /\ s.holdVersion = x.holdVersion /\ s.prereqs = ds
    BY <2>1, <2>2, <2>3, <2>4, ConfiguredWithOf, Zenon
  <2>6. x.version = Target(before, p) /\ x.hold = before[p].hold
        /\ x.holdVersion = before[p].holdVersion
    BY <1>3 DEF x
  <2>7. Proper(p, s)
    BY <1>2, <2>5, <2>6 DEF Proper
  <2> QED
    BY <1>4, <2>5, <2>6, <2>7 DEF s, ds
<1>5. CASE ~Configures(before, p)
  BY <1>3, <1>5 DEF Reconfigured
<1> QED
  BY <1>4, <1>5

\* The flags are flags.
LEMMA HoldsOf ==
    ASSUME Inv, phase \in Stages, NEW p \in ToSet(plan)
    PROVE  HoldPackage(before, p) \in BOOLEAN /\ HoldVersion(before, p) \in BOOLEAN
<1>1. InPlan(p) /\ Configuration(world, before)
  BY StageOf
<1>2. before[p].holdVersion \in BOOLEAN
  BY <1>1, FieldsOf DEF InPlan, Configuration
<1>3. HoldVersion(before, p) \in BOOLEAN
  <2>1. CASE col.bm[p].holdVersion = 0
    BY <1>2, <2>1 DEF HoldVersion
  <2>2. CASE col.bm[p].holdVersion # 0
    BY <2>2 DEF HoldVersion
  <2> QED
    BY <2>1, <2>2
<1> QED
  BY <1>3 DEF HoldPackage

\* After the last one.
LEMMA HeldOf ==
    ASSUME Inv, phase \in Stages, NEW p \in ToSet(plan), ~Dropped(col.bm, p)
    PROVE  /\ Proper(p, Held(p)) /\ Held(p).state = "configured"
           /\ Held(p).version = Target(before, p)
           /\ Held(p).hold = HoldPackage(before, p)
           /\ Held(p).holdVersion = HoldVersion(before, p)
           /\ Configures(before, p) => Held(p).prereqs = Resolved(p, Target(before, p))
           /\ ~Configures(before, p) => /\ before[p].state = "configured"
                                        /\ Held(p).version = before[p].version
                                        /\ Held(p).prereqs = before[p].prereqs
<1>1. /\ Proper(p, Reconfigured(p)) /\ Reconfigured(p).version = Target(before, p)
      /\ Reconfigured(p).state = "configured"
      /\ Configures(before, p) => Reconfigured(p).prereqs = Resolved(p, Target(before, p))
      /\ ~Configures(before, p) => Reconfigured(p) = before[p]
  BY ReconfiguredOf
<1> DEFINE s == Held(p)
           x == Reconfigured(p)
           h == HoldPackage(before, p)
           v == HoldVersion(before, p)
<1>2. s = HeldAs(x, h, v)
  BY Zenon DEF Held, HeldAs
<1>3. h \in BOOLEAN
  BY HoldsOf
<1>4. v \in BOOLEAN
  BY HoldsOf
<1>5. Config!IsPackage(x)
  BY <1>1 DEF Proper
<1> HIDE DEF s, x, h, v
<1>6. /\ Config!IsPackage(s) /\ s.state = x.state /\ s.version = x.version
      /\ s.hold = h /\ s.holdVersion = v /\ s.prereqs = x.prereqs
  BY <1>2, <1>3, <1>4, <1>5, HeldAsOf, Zenon
<1>7. Proper(p, x) /\ x.state = "configured"
  BY <1>1 DEF x
<1>8. Proper(p, s)
  BY <1>6, <1>7 DEF Proper
<1>9. /\ s.state = "configured" /\ s.version = Target(before, p)
      /\ Configures(before, p) => s.prereqs = Resolved(p, Target(before, p))
      /\ ~Configures(before, p) => /\ before[p].state = "configured"
                                   /\ s.version = before[p].version
                                   /\ s.prereqs = before[p].prereqs
  BY <1>1, <1>6, <1>7 DEF x
<1> QED
  BY <1>6, <1>8, <1>9, Zenon DEF s, h, v

\* What the execution makes of the packages is given by the plan.
LEMMA SameStages ==
    ASSUME UNCHANGED <<world, req, before, col>>
    PROVE  \A p : /\ Disfiguring(p)' <=> Disfiguring(p)
                  /\ Disfigured(p)' = Disfigured(p)
                  /\ Obtained(p, "fetched")' = Obtained(p, "fetched")
                  /\ Fetched(p)' = Fetched(p) /\ Reconfigured(p)' = Reconfigured(p)
                  /\ Held(p)' = Held(p)
<1> TAKE p
<1>1. Disfiguring(p)' <=> Disfiguring(p)
  BY DEF Disfiguring
<1>2. Disfigured(p)' = Disfigured(p)
  BY <1>1 DEF Disfigured
<1>3. \A t : Obtained(p, t)' = Obtained(p, t)
  BY <1>2 DEF Obtained
<1>4. Fetched(p)' = Fetched(p)
  BY <1>2, <1>3 DEF Fetched
<1>5. Reconfigured(p)' = Reconfigured(p)
  BY <1>4 DEF Reconfigured, Resolved
<1>6. Held(p)' = Held(p)
  BY <1>5 DEF Held, HoldPackage, HoldVersion
<1> QED
  BY <1>1, <1>2, <1>3, <1>4, <1>5, <1>6

\* The execution goes on.
LEMMA ExecutesOn ==
    ASSUME Inv, phase \in Stages, phase' \in Stages, UNCHANGED <<world, req, before>>,
           UNCHANGED command, phase' = phase \/ phase' # "disfigure",
           phase' \in OfBuild => req.kind = "build", phase' = "purge" => req.kind = "drop",
           Configuration(world, selected'), Config!PrerequisitesHeld', Progressing'
    PROVE  Inv'
<1>1. /\ tasks = <<>> /\ phase # "idle" /\ phase' # "idle"
      /\ phase' \notin {"collect", "dependents", "filter"}
  BY StageOf DEF Stages
<1>2. UNCHANGED <<req, line, judged, col, tasks, search, deps, plan>>
  BY DEF command
<1>3. Undisturbed'
  <2>1. Configuration(world, before)' /\ Configuration(world, selected)'
    BY DEF Inv, Undisturbed, Configuration
  <2> QED
    BY <1>1, <1>2, <2>1 DEF Inv, Undisturbed, Stages
<1>4. Collecting'
  <2>1. Commanded' <=> Commanded
    BY <1>1 DEF Commanded
  <2>2. CASE Commanded
    <3>1. phase # "collect" /\ phase' # "collect"
      BY DEF Stages
    <3> QED
      BY <1>2, <2>1, <2>2, <3>1 DEF Inv, Collecting
  <2>3. CASE ~Commanded
    BY <1>2, <2>1, <2>3 DEF Inv, Collecting
  <2> QED
    BY <2>2, <2>3
<1>5. ToSet(<<>>) = {}
  BY DEF ToSet
<1>6. Tasking'
  BY <1>1, <1>2, <1>5 DEF Inv, Tasking
<1>7. Ordering'
  <2>1. ToPlan' = ToPlan
    BY <1>2 DEF ToPlan
  <2>2. phase # "order" /\ phase \in Planning
    BY DEF Stages, Planning
  <2> QED
    BY <1>2, <2>1, <2>2 DEF Inv, Ordering
<1>8. Simulating'
  <2>1. /\ Refinements(Simulated(before))' = Refinements(Simulated(before))
        /\ Unmet(Simulated(before))' = Unmet(Simulated(before))
        /\ DisfiguresOther(before)' <=> DisfiguresOther(before)
    BY <1>2, SimulatedStays
  <2>2. phase' # "adjust" /\ phase # "adjust"
    BY DEF Stages
  <2> QED
    BY <1>2, <2>1, <2>2 DEF Inv, Simulating
<1>9. Dropping'
  <2>1. /\ \A q : Unheld(before, q)' = Unheld(before, q)
        /\ \A q : ConfiguredDependents(before, q)' = ConfiguredDependents(before, q)
    BY DEF Unheld, ConfiguredDependents
  <2>2. IsCollection(col)' <=> IsCollection(col)
    BY <1>2
  <2> QED
    BY <1>1, <1>2, <2>1, <2>2 DEF Inv, Dropping
<1>10. AdjustmentsNeeded'
  BY <1>2 DEF Inv, Judging, AdjustmentsNeeded
<1> QED
  BY <1>3, <1>4, <1>6, <1>7, <1>8, <1>9, <1>10, InStage

\* What the stage makes of a package.
Made(ph, p) == CASE ph = "disfigure" -> Disfigured(p)
                 [] ph = "fetch" -> Fetched(p)
                 [] ph = "configure" -> Reconfigured(p)
                 [] ph = "hold" -> Held(p)
                 [] ph = "purge" -> None

\* The stage is done with a package.
LEMMA VisitedKeeps ==
    ASSUME Inv, phase \in Stages, phase' = phase, todo # <<>>, Visited,
           UNCHANGED <<world, req, before>>, UNCHANGED command,
           NEW s, selected' = Package(Head(todo), s), s = Made(phase, Head(todo)),
           Configuration(world, selected'), Config!PrerequisitesHeld'
    PROVE  Inv'
<1> DEFINE p == Head(todo)
<1>1. /\ Configuration(world, selected) /\ todo \in Seq(Pkgs) /\ IsInjective(todo)
      /\ ToSet(todo) \subseteq ToSet(plan) /\ ToSet(plan) \subseteq Pkgs
      /\ req.kind = "build" => phase \in {"disfigure", "fetch", "configure", "hold"}
      /\ req.kind # "build" => phase \in {"disfigure", "purge"} /\ req.kind = "drop"
  BY StageOf
<1>2. /\ p \in Pkgs /\ todo' \in Seq(Pkgs) /\ IsInjective(todo')
      /\ ToSet(todo) = {p} \cup ToSet(todo') /\ p \notin ToSet(todo')
  BY <1>1, TailSet DEF Visited
<1>3. /\ selected'[p] = s /\ \A q \in Pkgs : q # p => selected'[q] = selected[q]
  BY <1>1, <1>2, PackageOf
<1>4. UNCHANGED <<world, req, before, col, plan>>
  BY DEF command
<1>5. \A q : /\ Disfiguring(q)' <=> Disfiguring(q)
             /\ Disfigured(q)' = Disfigured(q)
             /\ Obtained(q, "fetched")' = Obtained(q, "fetched")
             /\ Fetched(q)' = Fetched(q) /\ Reconfigured(q)' = Reconfigured(q)
             /\ Held(q)' = Held(q)
  BY <1>4, SameStages
<1> HIDE DEF p
<1>7. ASSUME NEW q \in ToSet(plan), q = p
      PROVE  selected'[q] = Made(phase, q)
  BY <1>3, <1>7 DEF p
<1>8. ASSUME NEW q \in ToSet(plan), q # p
      PROVE  selected'[q] = selected[q] /\ (q \in ToSet(todo') <=> q \in ToSet(todo))
  BY <1>1, <1>2, <1>3, <1>8
<1>9. /\ \A q \in Pkgs \ ToSet(plan) : selected[q] = before[q]
      /\ \A q \in ToSet(plan) :
            CASE phase = "disfigure" ->
                   /\ Progress(q, before[q], Disfigured(q))
                   /\ q \in ToSet(todo) => Disfiguring(q)
              [] phase = "fetch" ->
                   \/ Progress(q, Disfigured(q), Fetched(q))
                   \/ /\ todo # <<>> /\ q = Head(todo) /\ col.bm[q].action = "build"
                      /\ before[q].version # col.bm[q].version
                      /\ selected[q] = Obtained(q, "fetched")
              [] phase = "configure" ->
                   /\ Progress(q, Fetched(q), Reconfigured(q))
                   /\ q \in ToSet(todo) => /\ ~Dropped(col.bm, q)
                                           /\ Fetched(q).state # "configured"
              [] phase = "hold" ->
                   /\ Progress(q, Reconfigured(q), Held(q))
                   /\ q \in ToSet(todo) => ~Dropped(col.bm, q)
              [] phase = "purge" -> Progress(q, Disfigured(q), None)
  BY DEF Inv, Progressing
<1>10. \A q \in Pkgs \ ToSet(plan) : selected'[q] = before[q]
  BY <1>1, <1>2, <1>3, <1>9
<1>11. ASSUME NEW q \in ToSet(plan)
       PROVE  /\ phase = "disfigure" =>
                    /\ selected'[q] = IF q \in ToSet(todo') THEN before[q] ELSE Disfigured(q)
                    /\ q \in ToSet(todo') => Disfiguring(q)
              /\ phase = "fetch" =>
                    selected'[q] = IF q \in ToSet(todo') THEN Disfigured(q) ELSE Fetched(q)
              /\ phase = "configure" =>
                    /\ selected'[q] = IF q \in ToSet(todo') THEN Fetched(q) ELSE Reconfigured(q)
                    /\ q \in ToSet(todo') => /\ ~Dropped(col.bm, q)
                                             /\ Fetched(q).state # "configured"
              /\ phase = "hold" =>
                    /\ selected'[q] = IF q \in ToSet(todo') THEN Reconfigured(q) ELSE Held(q)
                    /\ q \in ToSet(todo') => ~Dropped(col.bm, q)
              /\ phase = "purge" =>
                    selected'[q] = IF q \in ToSet(todo') THEN Disfigured(q) ELSE None
  <2>1. CASE q = p
    BY <1>2, <1>7, <2>1 DEF Made
  <2>2. CASE q # p
    BY <1>8, <1>9, <2>2 DEF Progress, p
  <2> QED
    BY <2>1, <2>2
<1>12. Progressing'
  <2>1. ToSet(todo') \subseteq ToSet(plan)
    BY <1>1, <1>2
  <2>2. phase' \in {"disfigure", "fetch", "configure", "hold", "purge"}
    BY DEF Stages
  <2>3. ASSUME NEW q \in ToSet(plan)
        PROVE  CASE phase' = "disfigure" ->
                      /\ Progress(q, before[q], Disfigured(q))'
                      /\ q \in ToSet(todo') => Disfiguring(q)'
                 [] phase' = "fetch" -> Progress(q, Disfigured(q), Fetched(q))'
                 [] phase' = "configure" ->
                      /\ Progress(q, Fetched(q), Reconfigured(q))'
                      /\ q \in ToSet(todo') => /\ ~Dropped(col.bm, q)'
                                               /\ (Fetched(q).state # "configured")'
                 [] phase' = "hold" ->
                      /\ Progress(q, Reconfigured(q), Held(q))'
                      /\ q \in ToSet(todo') => ~Dropped(col.bm, q)'
                 [] phase' = "purge" -> Progress(q, Disfigured(q), None)'
    BY <1>4, <1>5, <1>11, <2>2, <2>3 DEF Progress
  <2> QED
    BY <1>2, <1>4, <1>10, <2>1, <2>2, <2>3 DEF Progressing
<1>13. phase' \in OfBuild => req.kind = "build"
  BY <1>1 DEF OfBuild, BuildPhases, Stages
<1>14. phase' = "purge" => req.kind = "drop"
  BY <1>1
<1> QED
  BY <1>12, <1>13, <1>14, ExecutesOn

---------------------------------------------------------------------------
(* The steps of the execution.                                              *)
\* The package that a stage comes to.
LEMMA NextOf ==
    ASSUME Inv, NEW st \in Stages, Stage(st)
    PROVE  /\ phase = st /\ phase \in Stages /\ todo # <<>> /\ Head(todo) \in ToSet(todo)
           /\ Head(todo) \in ToSet(plan) /\ Head(todo) \in Pkgs /\ InPlan(Head(todo))
           /\ Configuration(world, selected) /\ Config!PrerequisitesHeld
           /\ Proper(Head(todo), selected[Head(todo)])
           /\ phase = "disfigure" => /\ selected[Head(todo)] = before[Head(todo)]
                                     /\ Disfiguring(Head(todo))
           /\ phase = "fetch" =>
                 \/ selected[Head(todo)] = Disfigured(Head(todo))
                 \/ /\ col.bm[Head(todo)].action = "build"
                    /\ before[Head(todo)].version # col.bm[Head(todo)].version
                    /\ selected[Head(todo)] = Obtained(Head(todo), "fetched")
           /\ phase = "configure" => /\ selected[Head(todo)] = Fetched(Head(todo))
                                     /\ ~Dropped(col.bm, Head(todo))
                                     /\ Fetched(Head(todo)).state # "configured"
           /\ phase = "hold" => /\ selected[Head(todo)] = Reconfigured(Head(todo))
                                /\ ~Dropped(col.bm, Head(todo))
           /\ phase = "purge" => selected[Head(todo)] = Disfigured(Head(todo))
<1>1. phase = st /\ phase \in Stages /\ todo # <<>>
  BY DEF Stage
<1>2. /\ Configuration(world, selected) /\ Config!PrerequisitesHeld
      /\ todo \in Seq(Pkgs) /\ ToSet(todo) \subseteq ToSet(plan)
      /\ \A p \in ToSet(plan) : InPlan(p)
  BY <1>1, StageOf
<1>3. Head(todo) \in ToSet(todo) /\ Head(todo) \in Pkgs
  BY <1>1, <1>2, TailSet
<1> DEFINE p == Head(todo)
<1>4. p \in ToSet(plan)
  BY <1>2, <1>3
<1>5. Proper(p, selected[p])
  BY <1>2, <1>3 DEF Configuration, Proper
<1>6. /\ phase = "disfigure" => Progress(p, before[p], Disfigured(p)) /\ Disfiguring(p)
      /\ phase = "fetch" => \/ Progress(p, Disfigured(p), Fetched(p))
                            \/ /\ col.bm[p].action = "build"
                               /\ before[p].version # col.bm[p].version
                               /\ selected[p] = Obtained(p, "fetched")
      /\ phase = "configure" => /\ Progress(p, Fetched(p), Reconfigured(p))
                                /\ ~Dropped(col.bm, p) /\ Fetched(p).state # "configured"
      /\ phase = "hold" => Progress(p, Reconfigured(p), Held(p)) /\ ~Dropped(col.bm, p)
      /\ phase = "purge" => Progress(p, Disfigured(p), None)
  BY <1>1, <1>3, <1>4 DEF Inv, Progressing
<1> HIDE DEF p
<1>7. p \in ToSet(todo)
  BY <1>3 DEF p
<1> QED
  BY <1>1, <1>2, <1>3, <1>4, <1>5, <1>6, <1>7 DEF Progress, p

\* What a step of a stage leaves alone.
LEMMA GoingOf ==
    ASSUME Going
    PROVE  UNCHANGED <<world, req, before>> /\ UNCHANGED command /\ phase' = phase
BY DEF Going, Kept

\* pkg_disfigure() takes a package apart.
LEMMA DisfigureStep ==
    ASSUME Inv, Disfigure
    PROVE  Refused \/ (Inv' /\ Config!TakeApart(Head(todo)) /\ Head(todo) \in Pkgs)
<1> DEFINE p == Head(todo)
           t == "unpacked"
           s == TakenApart(selected[p], t)
<1>1. Stage("disfigure") /\ "disfigure" \in Stages
  BY DEF Disfigure, Stages
<1>2. /\ phase = "disfigure" /\ phase \in Stages /\ todo # <<>> /\ p \in ToSet(plan) /\ p \in Pkgs
      /\ InPlan(p) /\ Configuration(world, selected) /\ Config!PrerequisitesHeld
      /\ Proper(p, selected[p]) /\ selected[p] = before[p] /\ Disfiguring(p)
  BY <1>1, NextOf
<1>3. CASE Refused
  BY <1>3
<1>4. CASE ~Refused
  <2>1. /\ ConfiguredDependents(selected, p) = {} /\ Visited /\ Going
        /\ selected' = Unconfigured(p, t)
    BY <1>4 DEF Disfigure
  <2>2. selected' = Package(p, s)
    BY <2>1, Zenon DEF Unconfigured, TakenApart
  <2>3. s = Disfigured(p)
    BY <1>2, Zenon DEF Disfigured, TakenApart
  <2>4. Config!IsPackage(s) /\ s.state = t /\ s.version = selected[p].version /\ DOMAIN s.prereqs = {}
    <3>1. Config!IsPackage(selected[p]) /\ t \in Config!States
      BY <1>2 DEF Proper, Config!States
    <3> HIDE DEF p, t
    <3> QED
      BY <3>1, TakenApartOf
  <2>5. s.version \in world.available[p] /\ s.state # "none" /\ s.state # "configured"
    BY <1>2, <2>4 DEF Proper, InPlan
  <2> HIDE DEF s
  <2>6. /\ Configuration(world, selected') /\ Config!PrerequisitesHeld'
        /\ Config!TakeApart(p)
    BY <1>2, <2>1, <2>2, <2>4, <2>5, ApartOf
  <2>7. s = Made(phase, p)
    BY <1>2, <2>3 DEF Made
  <2>8. UNCHANGED <<world, req, before>> /\ UNCHANGED command /\ phase' = phase
    BY <2>1, GoingOf
  <2>9. Inv'
    BY <1>2, <2>1, <2>2, <2>6, <2>7, <2>8, VisitedKeeps
  <2> QED
    BY <1>2, <2>6, <2>9
<1> QED
  BY <1>3, <1>4

\* A package is purged that is not configured.
LEMMA PurgeStep ==
    ASSUME Inv, phase \in {"fetch", "purge"}, Stage(phase), Dropped(col.bm, Head(todo)),
           selected' = Package(Head(todo), None), Visited, Going
    PROVE  Inv' /\ Config!TakeApart(Head(todo)) /\ Head(todo) \in Pkgs
<1> DEFINE p == Head(todo)
           s == None
<1>1. phase \in Stages
  BY DEF Stages
<1>2. /\ todo # <<>> /\ p \in ToSet(plan) /\ p \in Pkgs
      /\ InPlan(p) /\ Configuration(world, selected) /\ Config!PrerequisitesHeld
      /\ selected[p] = Disfigured(p)
  <2>1. col.bm[p].action # "build"
    BY DEF Dropped
  <2> QED
    BY <1>1, <2>1, NextOf
<1>3. selected[p].state # "configured"
  <2>1. /\ Disfiguring(p) => Disfigured(p).state = "unpacked"
        /\ ~Disfiguring(p) => Disfigured(p) = before[p]
    BY <1>1, <1>2, DisfiguredOf
  <2> QED
    BY <1>2, <2>1 DEF InPlan
<1>4. s = Made(phase, p)
  BY DEF Made, Fetched
<1>5. Config!IsPackage(s) /\ s.state = "none" /\ DOMAIN s.prereqs = {} /\ s = None
  BY NoneOf
<1>6. selected' = Package(p, s)
  OBVIOUS
<1> HIDE DEF s
<1>7. /\ Configuration(world, selected') /\ Config!PrerequisitesHeld' /\ Config!TakeApart(p)
  BY <1>2, <1>3, <1>5, <1>6, ApartOf
<1>8. UNCHANGED <<world, req, before>> /\ UNCHANGED command /\ phase' = phase
  BY GoingOf
<1>9. Inv'
  BY <1>1, <1>2, <1>4, <1>6, <1>7, <1>8, VisitedKeeps
<1> QED
  BY <1>2, <1>7, <1>9

\* So pkg-build purges.
LEMMA PurgeDroppedStep ==
    ASSUME Inv, PurgeDropped
    PROVE  Inv' /\ Config!TakeApart(Head(todo)) /\ Head(todo) \in Pkgs
<1>1. /\ Stage("fetch") /\ Dropped(col.bm, Head(todo))
      /\ selected' = Package(Head(todo), None) /\ Visited /\ Going
  BY DEF PurgeDropped
<1>2. phase \in {"fetch", "purge"} /\ Stage(phase)
  BY <1>1 DEF Stage
<1> QED
  BY <1>1, <1>2, PurgeStep

\* And pkg-drop.
LEMMA PurgeOfDropStep ==
    ASSUME Inv, Purge
    PROVE  Inv' /\ Config!TakeApart(Head(todo)) /\ Head(todo) \in Pkgs
<1>1. Stage("purge") /\ selected' = Package(Head(todo), None) /\ Visited /\ Going
  BY DEF Purge
<1>2. phase = "purge" /\ phase \in {"fetch", "purge"} /\ Stage(phase) /\ phase \in Stages
  BY <1>1 DEF Stage, Stages
<1>3. Dropped(col.bm, Head(todo))
  <2>1. InPlan(Head(todo))
    BY <1>2, NextOf
  <2>2. req.kind # "build"
    BY <1>2, StageOf
  <2> QED
    BY <2>1, <2>2 DEF InPlan, Dropped
<1> QED
  BY <1>1, <1>2, <1>3, PurgeStep

\* The archive of a package is fetched, or the package obtained.
LEMMA FetchPackageStep ==
    ASSUME Inv, FetchPackage
    PROVE  Inv' /\ Config!TakeApart(Head(todo)) /\ Head(todo) \in Pkgs
<1> DEFINE p == Head(todo)
<1>1. /\ Stage("fetch") /\ "fetch" \in Stages /\ Fetches(p) /\ Going
  BY DEF FetchPackage, Stages
<1>2. /\ phase = "fetch" /\ phase \in Stages /\ todo # <<>> /\ p \in ToSet(plan) /\ p \in Pkgs
      /\ InPlan(p) /\ Configuration(world, selected) /\ Config!PrerequisitesHeld
      /\ \/ selected[p] = Disfigured(p)
         \/ /\ col.bm[p].action = "build" /\ before[p].version # col.bm[p].version
            /\ selected[p] = Obtained(p, "fetched")
  BY <1>1, NextOf
<1>3. /\ col.bm[p].action = "build" /\ selected[p].version # col.bm[p].version
      /\ ~Dropped(col.bm, p)
  BY <1>1 DEF Fetches, Dropped
<1>4. "fetched" \in Config!States /\ "unpacked" \in Config!States
  BY DEF Config!States
<1>5. ASSUME NEW t \in {"fetched", "unpacked"}
      PROVE  /\ Proper(p, Obtained(p, t)) /\ Obtained(p, t).state = t
             /\ Obtained(p, t).version = col.bm[p].version
             /\ Obtained(p, t).prereqs = Disfigured(p).prereqs
  BY <1>2, <1>3, <1>4, ObtainedOf
<1>6. selected[p] = Disfigured(p)
  BY <1>2, <1>3, <1>5
<1>7. /\ Disfigured(p).version = before[p].version
      /\ Disfiguring(p) => Disfigured(p).state = "unpacked"
      /\ ~Disfiguring(p) => Disfigured(p) = before[p]
  BY <1>2, DisfiguredOf
<1>8. before[p].version # col.bm[p].version
  BY <1>3, <1>6, <1>7
<1>9. selected[p].state # "configured"
  <2>1. Target(before, p) = col.bm[p].version
    BY <1>3 DEF Target
  <2>2. before[p].state = "configured" => Disfiguring(p)
    <3>1. Configuration(world, before)
      BY <1>2, StageOf
    <3> QED
      BY <1>2, <1>3, <1>8, <2>1, <3>1, TargetOf
  <2> QED
    BY <1>6, <1>7, <2>2
<1>10. DOMAIN selected[p].prereqs = {}
  BY <1>2, <1>9 DEF Config!PrerequisitesHeld, Config!Configured
<1>11. \A t : Of(p, t) = Obtained(p, t)
  BY <1>6, Zenon DEF Of, Obtained
<1>12. UNCHANGED <<world, req, before>> /\ UNCHANGED command /\ phase' = phase
  BY <1>1, GoingOf
<1>13. ASSUME NEW t \in {"fetched", "unpacked"}, selected' = Package(p, Of(p, t))
       PROVE  /\ Configuration(world, selected') /\ Config!PrerequisitesHeld'
              /\ Config!TakeApart(p)
  <2> DEFINE s == Obtained(p, t)
  <2>1. selected' = Package(p, s)
    BY <1>11, <1>13
  <2>2. /\ Config!IsPackage(s) /\ s.state # "none" /\ s.state # "configured"
        /\ s.version \in world.available[p] /\ DOMAIN s.prereqs = {}
    BY <1>5, <1>6, <1>10, <1>13 DEF Proper
  <2> HIDE DEF s
  <2> QED
    BY <1>2, <1>9, <2>1, <2>2, ApartOf
<1>14. CASE selected' = Package(p, Of(p, "unpacked")) /\ Visited
  <2> DEFINE s == Of(p, "unpacked")
  <2>1. s = Made(phase, p)
    BY <1>2, <1>3, <1>8, <1>11 DEF Made, Fetched
  <2>2. /\ Configuration(world, selected') /\ Config!PrerequisitesHeld' /\ Config!TakeApart(p)
    BY <1>13, <1>14
  <2>3. selected' = Package(p, s)
    BY <1>14
  <2> HIDE DEF s
  <2>4. Inv'
    BY <1>2, <1>12, <1>14, <2>1, <2>2, <2>3, VisitedKeeps
  <2> QED
    BY <1>2, <2>2, <2>4
<1>15. CASE selected' = Package(p, Of(p, "fetched")) /\ UNCHANGED todo
  <2>1. /\ Configuration(world, selected') /\ Config!PrerequisitesHeld' /\ Config!TakeApart(p)
    BY <1>13, <1>15
  <2>2. selected'[p] = Obtained(p, "fetched") /\ \A q \in Pkgs : q # p => selected'[q] = selected[q]
    BY <1>2, <1>11, <1>15, PackageOf
  <2>3. UNCHANGED <<world, req, before, col, plan>>
    BY <1>12 DEF command
  <2>4. \A q : /\ Disfigured(q)' = Disfigured(q)
               /\ Obtained(q, "fetched")' = Obtained(q, "fetched")
               /\ Fetched(q)' = Fetched(q)
    BY <2>3, SameStages
  <2>5. /\ todo \in Seq(Pkgs) /\ IsInjective(todo) /\ ToSet(todo) \subseteq ToSet(plan)
        /\ ToSet(plan) \subseteq Pkgs
    BY <1>2, StageOf
  <2>6. /\ \A q \in Pkgs \ ToSet(plan) : selected[q] = before[q]
        /\ \A q \in ToSet(plan) :
              \/ Progress(q, Disfigured(q), Fetched(q))
              \/ q = p
    BY <1>2 DEF Inv, Progressing
  <2> HIDE DEF p
  <2>7. \A q \in Pkgs \ ToSet(plan) : selected'[q] = before[q]
    BY <1>2, <2>2, <2>6
  <2>8. ASSUME NEW q \in ToSet(plan)
        PROVE  \/ Progress(q, Disfigured(q), Fetched(q))'
               \/ /\ q = p /\ col.bm[q].action = "build"
                  /\ before[q].version # col.bm[q].version
                  /\ selected'[q] = Obtained(q, "fetched")'
    <3>1. CASE q = p
      BY <1>3, <1>8, <2>2, <2>4, <3>1
    <3>2. CASE q # p
      BY <1>15, <2>2, <2>4, <2>5, <2>6, <3>2 DEF Progress
    <3> QED
      BY <3>1, <3>2
  <2>9. Progressing'
    BY <1>2, <1>12, <1>15, <2>3, <2>5, <2>7, <2>8 DEF Progressing, p
  <2>10. phase' \in OfBuild => req.kind = "build"
    BY <1>2, StageOf
  <2>11. phase' # "purge" /\ phase' \in Stages
    BY <1>2, <1>12
  <2> QED
    BY <1>2, <1>12, <2>1, <2>9, <2>10, <2>11, ExecutesOn DEF p
<1>16. \/ selected' = Package(p, Of(p, "fetched")) /\ UNCHANGED todo
       \/ selected' = Package(p, Of(p, "unpacked")) /\ Visited
  BY DEF FetchPackage
<1> QED
  BY <1>14, <1>15, <1>16

\* First fetched and then unpacked.
LEMMA ObtainedTwice ==
    ASSUME NEW x, Config!IsPackage(x), NEW t \in Config!States, NEW u \in Config!States,
           NEW v \in Versions
    PROVE  ObtainedAt(ObtainedAt(x, t, v), u, v) = ObtainedAt(x, u, v)
<1> DEFINE y == ObtainedAt(x, t, v)
<1>1. Config!IsPackage(y) /\ y.hold = x.hold /\ y.holdVersion = x.holdVersion /\ y.prereqs = x.prereqs
  BY ObtainedAtOf
<1> HIDE DEF y
<1> DEFINE a == ObtainedAt(y, u, v)
           b == ObtainedAt(x, u, v)
<1>2. a = [y EXCEPT !.state = u, !.version = v]
  BY Zenon DEF ObtainedAt
<1>3. b = [x EXCEPT !.state = u, !.version = v]
  BY Zenon DEF ObtainedAt
<1> HIDE DEF a, b
<1>4. a = [state |-> u, version |-> v, hold |-> y.hold,
           holdVersion |-> y.holdVersion, prereqs |-> y.prereqs]
  BY <1>1, <1>2, ObtainedIs, Zenon
<1>5. b = [state |-> u, version |-> v, hold |-> x.hold,
           holdVersion |-> x.holdVersion, prereqs |-> x.prereqs]
  BY <1>3, ObtainedIs, Zenon
<1>6. a = b
  BY <1>1, <1>4, <1>5
<1> QED
  BY <1>6, Zenon DEF a, b, y

\* What is fetched is unpacked, and the next package is come to.
LEMMA UnpackStep ==
    ASSUME Inv, Unpack
    PROVE  Inv' /\ (UNCHANGED selected \/ (Config!TakeApart(Head(todo)) /\ Head(todo) \in Pkgs))
<1> DEFINE p == Head(todo)
<1>1. /\ Stage("fetch") /\ "fetch" \in Stages /\ ~Fetches(p) /\ ~Dropped(col.bm, p)
      /\ Visited /\ Going
      /\ selected' = IF col.bm[p].action = "build" /\ selected[p].state = "fetched"
                     THEN Package(p, Of(p, "unpacked")) ELSE selected
  BY DEF Unpack, Stages
<1>2. /\ phase = "fetch" /\ phase \in Stages /\ todo # <<>> /\ p \in ToSet(plan) /\ p \in Pkgs
      /\ InPlan(p) /\ Configuration(world, selected) /\ Config!PrerequisitesHeld
      /\ \/ selected[p] = Disfigured(p)
         \/ /\ col.bm[p].action = "build" /\ before[p].version # col.bm[p].version
            /\ selected[p] = Obtained(p, "fetched")
      /\ Proper(p, selected[p])
  BY <1>1, NextOf
<1>3. Disfigured(p).version = before[p].version
  BY <1>2, DisfiguredOf
<1>4. UNCHANGED <<world, req, before>> /\ UNCHANGED command /\ phase' = phase
  BY <1>1, GoingOf
<1>5. "fetched" \in Config!States /\ "unpacked" \in Config!States
  BY DEF Config!States
<1>6. ASSUME col.bm[p].action = "build"
      PROVE  Obtained(p, "fetched").state = "fetched"
  BY <1>2, <1>5, <1>6, ObtainedOf
<1>7. CASE col.bm[p].action = "build" /\ selected[p].state = "fetched"
  <2> DEFINE v == col.bm[p].version
             x == Disfigured(p)
             s == Obtained(p, "unpacked")
  <2>1. /\ Proper(p, s) /\ s.state = "unpacked" /\ s.prereqs = x.prereqs
    BY <1>2, <1>5, <1>7, ObtainedOf
  <2>2. Config!IsPackage(x)
    BY <1>2, DisfiguredOf DEF Proper
  <2>3. v \in Versions /\ world \in Worlds
    <3>1. world \in Worlds
      BY <1>2, StageOf
    <3> QED
      BY <1>2, <1>7, <3>1, WorldsAssumption DEF InPlan
  <2>4. Of(p, "unpacked") = s
    <3>1. Of(p, "unpacked") = ObtainedAt(selected[p], "unpacked", v)
      BY Zenon DEF Of, ObtainedAt
    <3>2. s = ObtainedAt(x, "unpacked", v)
      BY Zenon DEF Obtained, ObtainedAt
    <3>3. CASE selected[p] = x
      BY <3>1, <3>2, <3>3
    <3>4. CASE selected[p] = Obtained(p, "fetched")
      <4>1. selected[p] = ObtainedAt(x, "fetched", v)
        BY <3>4, Zenon DEF Obtained, ObtainedAt
      <4> HIDE DEF x, v
      <4>2. ObtainedAt(ObtainedAt(x, "fetched", v), "unpacked", v) = ObtainedAt(x, "unpacked", v)
        BY <1>5, <2>2, <2>3, ObtainedTwice
      <4> QED
        BY <3>1, <3>2, <4>1, <4>2
    <3> QED
      BY <1>2, <3>3, <3>4
  <2>5. selected' = Package(p, s)
    BY <1>1, <1>7, <2>4
  <2>6. DOMAIN selected[p].prereqs = {} /\ selected[p].state # "configured"
    BY <1>2, <1>7 DEF Config!PrerequisitesHeld, Config!Configured
  <2>7. DOMAIN s.prereqs = {}
    <3>1. CASE selected[p] = x
      BY <2>1, <2>6, <3>1
    <3>2. CASE selected[p] = Obtained(p, "fetched")
      BY <1>2, <1>5, <1>7, <2>1, <2>6, <3>2, ObtainedOf
    <3> QED
      BY <1>2, <3>1, <3>2
  <2>8. s = Made(phase, p)
    <3>1. before[p].version # v \/ x.state = "fetched"
      BY <1>2, <1>7
    <3> QED
      BY <1>1, <1>2, <1>7, <3>1 DEF Made, Fetched
  <2>9. /\ Config!IsPackage(s) /\ s.state # "none" /\ s.state # "configured"
        /\ s.version \in world.available[p]
    BY <2>1 DEF Proper
  <2> HIDE DEF s, x, v
  <2>10. /\ Configuration(world, selected') /\ Config!PrerequisitesHeld' /\ Config!TakeApart(p)
    BY <1>2, <2>5, <2>6, <2>7, <2>9, ApartOf
  <2>11. Inv'
    BY <1>1, <1>2, <1>4, <2>5, <2>8, <2>10, VisitedKeeps
  <2> QED
    BY <1>2, <2>10, <2>11
<1>8. CASE ~(col.bm[p].action = "build" /\ selected[p].state = "fetched")
  <2> DEFINE s == selected[p]
  <2>1. selected' = selected
    BY <1>1, <1>8
  <2>2. selected' = Package(p, s)
    BY <1>2, <2>1 DEF Configuration, Package
  <2>3. s = Disfigured(p)
    BY <1>2, <1>6, <1>8
  <2>4. s = Made(phase, p)
    <3>1. ~(/\ col.bm[p].action = "build"
            /\ before[p].version # col.bm[p].version \/ Disfigured(p).state = "fetched")
      BY <1>1, <1>3, <1>8, <2>3 DEF Fetches
    <3>2. Fetched(p) = Disfigured(p)
      BY <1>1, <3>1 DEF Fetched
    <3> QED
      BY <1>2, <2>3, <3>2 DEF Made
  <2>5. Configuration(world, selected') /\ Config!PrerequisitesHeld'
    BY <1>2, <2>1 DEF Config!PrerequisitesHeld, Config!Configured, Config!Satisfied
  <2> HIDE DEF s
  <2>6. Inv'
    BY <1>1, <1>2, <1>4, <2>2, <2>4, <2>5, VisitedKeeps
  <2> QED
    BY <2>1, <2>6
<1> QED
  BY <1>7, <1>8

\* pkg_configure() configures a package.
LEMMA ConfigureStep ==
    ASSUME Inv, Configure
    PROVE  Refused \/ (Inv' /\ Config!Configure(Head(todo)) /\ Head(todo) \in Pkgs)
<1> DEFINE p == Head(todo)
           ds == Resolved(p, selected[p].version)
           satisfied == \A d \in DOMAIN ds : selected[d].state = "configured"
                                             /\ selected[d].version \in ds[d]
<1>1. /\ Stage("configure") /\ "configure" \in Stages
      /\ IF satisfied
         THEN /\ selected' = Package(p, [selected[p] EXCEPT !.state = "configured",
                                                           !.prereqs = ds])
              /\ Visited /\ Going
         ELSE Refused
  BY DEF Configure, Stages
<1>2. /\ phase = "configure" /\ phase \in Stages /\ todo # <<>> /\ p \in ToSet(plan) /\ p \in Pkgs
      /\ InPlan(p) /\ Configuration(world, selected) /\ Config!PrerequisitesHeld
      /\ selected[p] = Fetched(p) /\ ~Dropped(col.bm, p) /\ Fetched(p).state # "configured"
  BY <1>1, NextOf
<1>3. CASE ~satisfied
  BY <1>1, <1>3
<1>4. CASE satisfied
  <2> DEFINE s == [selected[p] EXCEPT !.state = "configured", !.prereqs = ds]
  <2>1. /\ Fetched(p).version = Target(before, p)
        /\ Configures(before, p) => Fetched(p).state = "unpacked"
        /\ ~Configures(before, p) => Fetched(p) = before[p] /\ before[p].state = "configured"
    BY <1>2, FetchedOf
  <2>2. selected[p].state = "unpacked"
    BY <1>2, <2>1
  <2>3. selected[p].version \in world.available[p] /\ world \in Worlds
    <3>1. world \in Worlds
      BY <1>2, StageOf
    <3> QED
      BY <1>2, <2>2, <3>1 DEF Configuration
  <2>4. DOMAIN ds \subseteq Pkgs /\ ds \in [DOMAIN ds -> SUBSET Versions]
    BY <1>2, <2>3, ResolvedOf
  <2>5. s = Reconfigured(p)
    BY <1>2, Zenon DEF Reconfigured
  <2>6. selected' = Package(p, s) /\ Visited /\ Going
    BY <1>1, <1>4
  <2>7. /\ Configuration(world, selected') /\ Config!PrerequisitesHeld'
        /\ Config!Configure(p)
    <3>1. DOMAIN ds \subseteq Pkgs
      BY <2>4
    <3>2. ds \in [DOMAIN ds -> SUBSET Versions]
      BY <2>4
    <3>3. \A d \in DOMAIN ds : selected[d].state = "configured" /\ selected[d].version \in ds[d]
      BY <1>4
    <3>4. selected' = Package(p, [selected[p] EXCEPT !.state = "configured", !.prereqs = ds])
      BY <2>6
    <3> HIDE DEF ds
    <3> QED
      BY <1>2, <2>2, <3>1, <3>2, <3>3, <3>4, ConfigureOf
  <2>8. s = Made(phase, p)
    BY <1>2, <2>5 DEF Made
  <2>9. UNCHANGED <<world, req, before>> /\ UNCHANGED command /\ phase' = phase
    BY <2>6, GoingOf
  <2> HIDE DEF s
  <2>10. Inv'
    BY <1>2, <2>6, <2>7, <2>8, <2>9, VisitedKeeps
  <2> QED
    BY <1>2, <2>7, <2>10
<1> QED
  BY <1>3, <1>4

---------------------------------------------------------------------------
(* From stage to stage.                                                     *)
\* A package is held.
LEMMA HoldStep ==
    ASSUME Inv, Hold
    PROVE  Inv' /\ Config!Hold(Head(todo)) /\ Head(todo) \in Pkgs
<1> DEFINE p == Head(todo)
           h == HoldPackage(selected, p)
           v == HoldVersion(selected, p)
           s == [selected[p] EXCEPT !.hold = h, !.holdVersion = v]
<1>1. /\ Stage("hold") /\ "hold" \in Stages /\ Visited /\ Going
      /\ selected' = Package(p, s)
  BY DEF Hold, Stages
<1>2. /\ phase = "hold" /\ phase \in Stages /\ todo # <<>> /\ p \in ToSet(plan) /\ p \in Pkgs
      /\ InPlan(p) /\ Configuration(world, selected) /\ Config!PrerequisitesHeld
      /\ selected[p] = Reconfigured(p) /\ ~Dropped(col.bm, p)
  BY <1>1, NextOf
<1>3. /\ Reconfigured(p).hold = before[p].hold
      /\ Reconfigured(p).holdVersion = before[p].holdVersion
      /\ Reconfigured(p).state = "configured"
  BY <1>2, ReconfiguredOf
<1>4. h = HoldPackage(before, p) /\ v = HoldVersion(before, p)
  BY <1>2, <1>3 DEF HoldPackage, HoldVersion
<1>5. h \in BOOLEAN /\ v \in BOOLEAN
  BY <1>2, <1>4, HoldsOf
<1>6. s = Held(p)
  BY <1>2, <1>4, Zenon DEF Held
<1>7. /\ Configuration(world, selected') /\ Config!PrerequisitesHeld' /\ Config!Hold(p)
  <2>1. selected[p].state # "none"
    BY <1>2, <1>3
  <2>2. s = [selected[p] EXCEPT !.hold = h, !.holdVersion = v]
    OBVIOUS
  <2>3. h \in BOOLEAN
    BY <1>5
  <2>4. v \in BOOLEAN
    BY <1>5
  <2> HIDE DEF s, h, v
  <2> QED
    BY <1>1, <1>2, <2>1, <2>2, <2>3, <2>4, HoldOf
<1>8. s = Made(phase, p)
  BY <1>2, <1>6 DEF Made
<1>9. UNCHANGED <<world, req, before>> /\ UNCHANGED command /\ phase' = phase
  BY <1>1, GoingOf
<1> HIDE DEF s
<1>10. Inv'
  BY <1>1, <1>2, <1>7, <1>8, <1>9, VisitedKeeps
<1> QED
  BY <1>2, <1>7, <1>10

\* One stage is over and the next begins.
LEMMA ProceedKeeps ==
    ASSUME Inv, NEW st \in Stages, NEW next \in Stages \ {"disfigure"}, NEW ps,
           Proceed(st, next, ps), next = "purge" => req.kind = "drop",
           next # "purge" => req.kind = "build",
           ps \in Seq(Pkgs), IsInjective(ps), ToSet(ps) \subseteq ToSet(plan),
           \A p \in ToSet(plan) :
              /\ next = "fetch" =>
                    selected[p] = IF p \in ToSet(ps) THEN Disfigured(p) ELSE Fetched(p)
              /\ next = "configure" =>
                    /\ selected[p] = IF p \in ToSet(ps) THEN Fetched(p) ELSE Reconfigured(p)
                    /\ p \in ToSet(ps) => ~Dropped(col.bm, p) /\ Fetched(p).state # "configured"
              /\ next = "hold" =>
                    /\ selected[p] = IF p \in ToSet(ps) THEN Reconfigured(p) ELSE Held(p)
                    /\ p \in ToSet(ps) => ~Dropped(col.bm, p)
              /\ next = "purge" =>
                    selected[p] = IF p \in ToSet(ps) THEN Disfigured(p) ELSE None
    PROVE  Inv'
<1>1. /\ phase = st /\ todo = <<>> /\ phase' = next /\ todo' = ps
      /\ UNCHANGED <<world, req, before, selected>> /\ UNCHANGED command
  BY DEF Proceed, Kept
<1>2. UNCHANGED <<col, plan>>
  BY <1>1 DEF command
<1>3. Configuration(world, selected') /\ Config!PrerequisitesHeld'
  BY <1>1, StageOf
     DEF Configuration, Config!PrerequisitesHeld, Config!Configured, Config!Satisfied
<1>4. \A q : /\ Disfigured(q)' = Disfigured(q)
             /\ Fetched(q)' = Fetched(q) /\ Reconfigured(q)' = Reconfigured(q)
             /\ Held(q)' = Held(q)
  BY <1>1, <1>2, SameStages
<1>5. \A q \in Pkgs \ ToSet(plan) : selected[q] = before[q]
  BY <1>1 DEF Inv, Progressing
<1>6. ASSUME NEW q \in ToSet(plan)
      PROVE  CASE phase' = "disfigure" -> FALSE
               [] phase' = "fetch" -> Progress(q, Disfigured(q), Fetched(q))'
               [] phase' = "configure" ->
                    /\ Progress(q, Fetched(q), Reconfigured(q))'
                    /\ q \in ToSet(todo') => /\ ~Dropped(col.bm, q)'
                                             /\ (Fetched(q).state # "configured")'
               [] phase' = "hold" ->
                    /\ Progress(q, Reconfigured(q), Held(q))'
                    /\ q \in ToSet(todo') => ~Dropped(col.bm, q)'
               [] phase' = "purge" -> Progress(q, Disfigured(q), None)'
  BY <1>1, <1>2, <1>4 DEF Progress, Stages
<1>7. Progressing'
  BY <1>1, <1>2, <1>5, <1>6 DEF Progressing, Stages
<1>8. phase' \in OfBuild => req.kind = "build"
  BY <1>1 DEF OfBuild, BuildPhases, Stages
<1> QED
  BY <1>1, <1>3, <1>7, <1>8, ExecutesOn

\* Once a stage is over.
LEMMA OverOf ==
    ASSUME Inv, NEW st \in Stages, phase = st, todo = <<>>
    PROVE  /\ phase \in Stages /\ plan \in Seq(Pkgs) /\ IsInjective(plan)
           /\ ToSet(plan) \subseteq Pkgs
           /\ \A p \in Pkgs \ ToSet(plan) : selected[p] = before[p]
           /\ \A p \in ToSet(plan) :
                 /\ InPlan(p)
                 /\ phase = "disfigure" => selected[p] = Disfigured(p)
                 /\ phase = "fetch" => selected[p] = Fetched(p)
                 /\ phase = "configure" => selected[p] = Reconfigured(p)
                 /\ phase = "hold" => selected[p] = Held(p)
                 /\ phase = "purge" => selected[p] = None
<1>1. ToSet(todo) = {}
  BY DEF ToSet
<1>2. /\ plan \in Seq(Pkgs) /\ IsInjective(plan) /\ ToSet(plan) \subseteq Pkgs
      /\ \A p \in ToSet(plan) : InPlan(p)
  BY StageOf
<1>3. \A p \in Pkgs \ ToSet(plan) : selected[p] = before[p]
  BY DEF Inv, Progressing
<1>4. ASSUME NEW p \in ToSet(plan)
      PROVE  /\ phase = "disfigure" => selected[p] = Disfigured(p)
             /\ phase = "fetch" => selected[p] = Fetched(p)
             /\ phase = "configure" => selected[p] = Reconfigured(p)
             /\ phase = "hold" => selected[p] = Held(p)
             /\ phase = "purge" => selected[p] = None
  BY <1>1 DEF Inv, Progressing, Progress
<1> QED
  BY <1>2, <1>3, <1>4

\* From one stage to the next.
LEMMA FetchKeeps == ASSUME Inv, Fetch PROVE Inv'
<1>1. req.kind = "build" /\ Proceed("disfigure", "fetch", Reverse(plan))
  BY DEF Fetch
<1>2. phase = "disfigure" /\ todo = <<>> /\ "disfigure" \in Stages /\ "fetch" \in Stages \ {"disfigure"}
  BY <1>1 DEF Proceed, Stages
<1>3. /\ plan \in Seq(Pkgs) /\ IsInjective(plan)
      /\ \A p \in ToSet(plan) : selected[p] = Disfigured(p)
  BY <1>2, OverOf
<1> DEFINE ps == Reverse(plan)
<1>4. ps \in Seq(Pkgs) /\ IsInjective(ps) /\ ToSet(ps) = ToSet(plan)
  BY <1>3, ReverseSet
<1>5. Proceed("disfigure", "fetch", ps)
  BY <1>1
<1> HIDE DEF ps
<1> QED
  BY <1>1, <1>2, <1>3, <1>4, <1>5, ProceedKeeps

\* pkg-drop: from the first stage to the last.
LEMMA PurgingKeeps == ASSUME Inv, Purging PROVE Inv'
<1>1. req.kind = "drop" /\ Proceed("disfigure", "purge", plan)
  BY DEF Purging
<1>2. phase = "disfigure" /\ todo = <<>> /\ "disfigure" \in Stages /\ "purge" \in Stages \ {"disfigure"}
  BY <1>1 DEF Proceed, Stages
<1>3. /\ plan \in Seq(Pkgs) /\ IsInjective(plan)
      /\ \A p \in ToSet(plan) : selected[p] = Disfigured(p)
  BY <1>2, OverOf
<1> QED
  BY <1>1, <1>2, <1>3, ProceedKeeps

\* Some packages of the plan, in the order they are put together.
LEMMA RemainingOf ==
    ASSUME plan \in Seq(Pkgs), IsInjective(plan), NEW S
    PROVE  /\ Remaining(S) \in Seq(Pkgs) /\ IsInjective(Remaining(S))
           /\ ToSet(Remaining(S)) = ToSet(plan) \cap S
<1> DEFINE ps == Reverse(plan)
<1>1. ps \in Seq(Pkgs) /\ IsInjective(ps) /\ ToSet(ps) = ToSet(plan)
  BY ReverseSet
<1>2. Remaining(S) = Those(ps, S)
  BY DEF Remaining
<1> HIDE DEF ps
<1> QED
  BY <1>1, <1>2, ThoseOf

\* From the second stage to the third.
LEMMA ConfiguringKeeps == ASSUME Inv, Configuring PROVE Inv'
<1> DEFINE S == {p \in ToSet(plan) : ~Dropped(col.bm, p) /\ selected[p].state # "configured"}
           ps == Remaining(S)
<1>1. Proceed("fetch", "configure", ps)
  BY DEF Configuring
<1>2. phase = "fetch" /\ todo = <<>> /\ "fetch" \in Stages /\ "configure" \in Stages \ {"disfigure"}
  BY <1>1 DEF Proceed, Stages
<1>3. /\ plan \in Seq(Pkgs) /\ IsInjective(plan) /\ phase \in Stages
      /\ \A p \in ToSet(plan) : selected[p] = Fetched(p)
  BY <1>2, OverOf
<1>4. req.kind = "build"
  BY <1>2, <1>3, StageOf
<1>5. ps \in Seq(Pkgs) /\ IsInjective(ps) /\ ToSet(ps) = ToSet(plan) \cap S
  BY <1>3, RemainingOf
<1> HIDE DEF ps
<1>6. ASSUME NEW p \in ToSet(plan)
      PROVE  /\ selected[p] = IF p \in ToSet(ps) THEN Fetched(p) ELSE Reconfigured(p)
             /\ p \in ToSet(ps) => ~Dropped(col.bm, p) /\ Fetched(p).state # "configured"
  BY <1>3, <1>5 DEF Reconfigured
<1> HIDE DEF S
<1>7. ToSet(ps) \subseteq ToSet(plan)
  BY <1>5
<1> QED
  BY <1>1, <1>2, <1>4, <1>5, <1>6, <1>7, ProceedKeeps

\* From the third stage to the last.
LEMMA HoldingKeeps == ASSUME Inv, Holding PROVE Inv'
<1> DEFINE S == {p \in ToSet(plan) : /\ ~Dropped(col.bm, p)
                                     /\ \/ HoldPackage(selected, p) # selected[p].hold
                                        \/ HoldVersion(selected, p) # selected[p].holdVersion}
           ps == Remaining(S)
<1>1. Proceed("configure", "hold", ps)
  BY DEF Holding
<1>2. phase = "configure" /\ todo = <<>> /\ "configure" \in Stages /\ "hold" \in Stages \ {"disfigure"}
  BY <1>1 DEF Proceed, Stages
<1>3. /\ plan \in Seq(Pkgs) /\ IsInjective(plan) /\ phase \in Stages
      /\ \A p \in ToSet(plan) : selected[p] = Reconfigured(p)
  BY <1>2, OverOf
<1>4. req.kind = "build"
  BY <1>2, <1>3, StageOf
<1>5. ps \in Seq(Pkgs) /\ IsInjective(ps) /\ ToSet(ps) = ToSet(plan) \cap S
  BY <1>3, RemainingOf
<1> HIDE DEF ps
<1>6. ASSUME NEW p \in ToSet(plan), p \notin ToSet(ps)
      PROVE  Reconfigured(p) = Held(p)
  <2>1. CASE Dropped(col.bm, p)
    BY <2>1 DEF Held, Reconfigured, Fetched
  <2>2. CASE ~Dropped(col.bm, p)
    <3> DEFINE x == Reconfigured(p)
               h == HoldPackage(before, p)
               v == HoldVersion(before, p)
               s == Held(p)
    <3>1. /\ Proper(p, x) /\ x.hold = before[p].hold /\ x.holdVersion = before[p].holdVersion
      BY <1>3, <2>2, ReconfiguredOf
    <3>2. HoldPackage(selected, p) = selected[p].hold /\ HoldVersion(selected, p) = selected[p].holdVersion
      BY <1>5, <1>6, <2>2
    <3>3. h = HoldPackage(selected, p) /\ v = HoldVersion(selected, p)
      BY <1>3, <3>1 DEF HoldPackage, HoldVersion
    <3>4. h = x.hold /\ v = x.holdVersion
      BY <1>3, <3>2, <3>3
    <3>5. s = [x EXCEPT !.hold = h, !.holdVersion = v]
      BY <2>2, Zenon DEF Held
    <3>6. Config!IsPackage(x)
      BY <3>1 DEF Proper
    <3> HIDE DEF s, x, h, v
    <3>7. s = [state |-> x.state, version |-> x.version, hold |-> h,
               holdVersion |-> v, prereqs |-> x.prereqs]
      BY <3>5, <3>6, HeldIs, Zenon
    <3>8. x = [state |-> x.state, version |-> x.version, hold |-> x.hold,
               holdVersion |-> x.holdVersion, prereqs |-> x.prereqs]
      BY <3>6, FieldsOf
    <3>9. x = s
      BY <3>4, <3>7, <3>8, Zenon
    <3> QED
      BY <3>9 DEF x, s
  <2> QED
    BY <2>1, <2>2
<1>7. /\ ToSet(ps) \subseteq ToSet(plan)
      /\ \A p \in ToSet(ps) : ~Dropped(col.bm, p)
  BY <1>5
<1> HIDE DEF S
<1>8. ASSUME NEW p \in ToSet(plan)
      PROVE  /\ selected[p] = IF p \in ToSet(ps) THEN Reconfigured(p) ELSE Held(p)
             /\ p \in ToSet(ps) => ~Dropped(col.bm, p)
  BY <1>3, <1>6, <1>7
<1> QED
  BY <1>1, <1>2, <1>4, <1>5, <1>7, <1>8, ProceedKeeps

---------------------------------------------------------------------------
(* What a command leaves.                                                   *)
\* A plan that has been executed leaves what has been simulated.
LEMMA AsSimulated ==
    ASSUME Inv, phase = "hold", todo = <<>>
    PROVE  selected = Simulated(before)
<1>1. /\ phase \in Stages /\ "hold" \in Stages
  BY DEF Stages
<1>2. /\ \A p \in Pkgs \ ToSet(plan) : selected[p] = before[p]
      /\ \A p \in ToSet(plan) : InPlan(p) /\ selected[p] = Held(p)
  BY <1>1, OverOf
<1>3. /\ Configuration(world, selected) /\ Configuration(world, before) /\ req.kind = "build"
  BY <1>1, StageOf
<1>4. col.unsat = <<>>
  BY <1>1, <1>3 DEF Inv, Simulating
<1>5. \A p, d : ~IgnoredBy(col, p, d)
  BY <1>4 DEF IgnoredBy, ToSet
<1>6. ASSUME NEW p \in ToSet(plan)
      PROVE  selected[p] = Planned(before, p)
  <2>1. CASE Dropped(col.bm, p)
    BY <1>2, <2>1 DEF Held, Planned
  <2>2. CASE ~Dropped(col.bm, p)
    <3> DEFINE s == Held(p)
               t == Target(before, p)
               h == HoldPackage(before, p)
               v == HoldVersion(before, p)
               on == Unconstrained(before, p)
    <3>1. /\ Proper(p, s) /\ s.state = "configured" /\ s.version = t
          /\ s.hold = h /\ s.holdVersion = v
          /\ Configures(before, p) => s.prereqs = Resolved(p, t)
          /\ ~Configures(before, p) => /\ before[p].state = "configured"
                                       /\ s.version = before[p].version
                                       /\ s.prereqs = before[p].prereqs
      BY <1>1, <2>2, HeldOf
    <3>2. on = Resolved(p, t)
      <4> DEFINE f == [d \in DependsOn(world, p, t) |-> Resolved(p, t)[d]]
      <4>1. on = f
        BY <1>5 DEF Unconstrained
      <4>2. f = Resolved(p, t)
        BY DEF Resolved
      <4> QED
        BY <4>1, <4>2
    <3>3. s = [state |-> s.state, version |-> s.version, hold |-> s.hold,
               holdVersion |-> s.holdVersion, prereqs |-> s.prereqs]
      BY <3>1, FieldsOf DEF Proper
    <3>4. Planned(before, p) =
             [state |-> IF Configures(before, p) THEN "configured" ELSE before[p].state,
              version |-> IF Configures(before, p) THEN t ELSE before[p].version,
              hold |-> h, holdVersion |-> v,
              prereqs |-> IF Configures(before, p) THEN on ELSE before[p].prereqs]
      BY <2>2 DEF Planned
    <3> HIDE DEF s, t, h, v, on
    <3>5. s = Planned(before, p)
      <4>1. CASE Configures(before, p)
        BY <3>1, <3>2, <3>3, <3>4, <4>1
      <4>2. CASE ~Configures(before, p)
        BY <3>1, <3>3, <3>4, <4>2
      <4> QED
        BY <4>1, <4>2
    <3> QED
      BY <1>2, <3>5 DEF s
  <2> QED
    BY <2>1, <2>2
<1>7. \A p \in Pkgs : selected[p] = IF p \in ToSet(plan) THEN Planned(before, p) ELSE before[p]
  BY <1>2, <1>6
<1>8. selected = [p \in Pkgs |-> selected[p]]
  BY <1>3 DEF Configuration
<1> QED
  BY <1>7, <1>8 DEF Simulated

\* What pkg-build leaves is all used.
LEMMA NothingUnused ==
    ASSUME Inv, phase = "hold", todo = <<>>, ~req.keep
    PROVE  Unused(selected) = {}
<1>1. selected = Simulated(before)
  BY AsSimulated
<1>2. Refinements(Simulated(before)) = <<>>
  <2>1. phase \in Stages
    BY DEF Stages
  <2>2. req.kind = "build"
    BY <2>1, StageOf
  <2> QED
    BY <2>1, <2>2 DEF Inv, Simulating
<1> DEFINE asked == {p \in Pkgs : /\ selected[p].state = "configured"
                                  /\ Evaluate(selected, p) # {}
                                  /\ req.keep => 0 \notin Evaluate(selected, p)}
           ps == Listed(asked)
<1>3. ps \in Seq(Pkgs) /\ ToSet(ps) = Pkgs \cap asked
  BY ListedOf
<1>4. ps = <<>>
  <2> DEFINE n == Len(ps)
             g(i) == [name |-> ps[i], version |-> CHOOSE v \in Evaluate(selected, ps[i]) : TRUE]
             f == [i \in 1..n |-> g(i)]
  <2>1. n \in Nat /\ DOMAIN ps = 1..n
    BY <1>3, SetOf
  <2>2. Refinements(selected) = f
    BY <2>1 DEF Refinements
  <2> HIDE DEF g
  <2>3. DOMAIN f = 1..n
    OBVIOUS
  <2>4. f = <<>>
    <3>1. Refinements(selected) = <<>>
      BY <1>1, <1>2
    <3> QED
      BY <2>2, <3>1
  <2>5. DOMAIN f = {}
    <3> HIDE DEF f
    <3>1. DOMAIN f = 1..Len(f) /\ Len(f) = 0
      BY <2>4
    <3> QED
      BY <3>1
  <2>6. n = 0
    <3> HIDE DEF f, n
    <3> QED
      BY <2>1, <2>3, <2>5
  <2> QED
    BY <1>3, <2>6, EmptySeq
<1>5. asked = {}
  <2>1. ToSet(ps) = {}
    BY <1>4 DEF ToSet
  <2> QED
    BY <1>3, <2>1
<1>6. ASSUME NEW p \in Unused(selected)
      PROVE  FALSE
  <2>1. /\ p \in Pkgs /\ selected[p].state = "configured" /\ ~selected[p].hold
        /\ ConfiguredDependents(selected, p) = {}
    BY <1>6 DEF Unused
  <2>2. Evaluate(selected, p) = {0}
    BY <2>1 DEF Evaluate
  <2> QED
    BY <1>5, <2>1, <2>2
<1> QED
  BY <1>6

\* pkg-drop leaves nothing unused that was used.
LEMMA NoneLeft ==
    ASSUME Inv, phase = "purge", todo = <<>>, ~req.keep
    PROVE  Unused(selected) \subseteq Unused(before)
<1>1. phase \in Stages /\ "purge" \in Stages
  BY DEF Stages
<1>2. /\ ToSet(plan) \subseteq Pkgs
      /\ \A p \in Pkgs \ ToSet(plan) : selected[p] = before[p]
      /\ \A p \in ToSet(plan) : selected[p] = None
  BY <1>1, OverOf
<1>3. req.kind = "drop" /\ phase # "idle"
  BY <1>1, StageOf
<1>4. \A q \in DOMAIN col.bm : q \in ToSet(plan)
  BY <1>1, <1>3 DEF Inv, Ordering, Planning, ToPlan
<1>5. ToSet(plan) \subseteq DOMAIN col.bm
  BY <1>1 DEF Inv, Ordering, Planning, Acted
<1>6. \A r \in DOMAIN col.bm : \A p \in Unheld(before, r) :
         p \in DOMAIN col.bm \/ ConfiguredDependents(before, p) \ DOMAIN col.bm # {}
  BY <1>3 DEF Inv, Dropping
<1> SUFFICES ASSUME NEW p \in Unused(selected)
             PROVE  p \in Unused(before)
  OBVIOUS
<1>7. /\ p \in Pkgs /\ selected[p].state = "configured" /\ ~selected[p].hold
      /\ ConfiguredDependents(selected, p) = {}
  BY DEF Unused
<1>8. p \notin ToSet(plan) /\ selected[p] = before[p]
  BY <1>2, <1>7, NoneOf
<1>9. \A q \in ConfiguredDependents(before, p) : q \in DOMAIN col.bm
  <2> SUFFICES ASSUME NEW q \in ConfiguredDependents(before, p), q \notin DOMAIN col.bm
               PROVE  FALSE
    OBVIOUS
  <2>1. selected[q] = before[q] /\ q \in Pkgs
    BY <1>2, <1>5 DEF ConfiguredDependents
  <2>2. q \in ConfiguredDependents(selected, p)
    BY <2>1 DEF ConfiguredDependents
  <2> QED
    BY <1>7, <2>2
<1>10. ASSUME NEW q \in ConfiguredDependents(before, p)
       PROVE  FALSE
  <2>1. q \in DOMAIN col.bm /\ p \in DOMAIN before[q].prereqs
    BY <1>9, <1>10 DEF ConfiguredDependents
  <2>2. p \in Unheld(before, q)
    BY <1>7, <1>8, <2>1 DEF Unheld
  <2> QED
    BY <1>4, <1>6, <1>8, <1>9, <2>1, <2>2
<1> QED
  BY <1>7, <1>8, <1>10 DEF Unused

\* What pkg-build has asked for is there.
LEMMA AskedIsBuilt ==
    ASSUME Inv, phase = "hold", todo = <<>>, NEW p \in DOMAIN req.hold
    PROVE  /\ selected[p].state = "configured" /\ selected[p].hold
           /\ selected[p].version \in req.hold[p].allowed
           /\ selected[p].holdVersion = req.hold[p].pinned
<1>1. /\ phase \in Stages /\ "hold" \in Stages /\ phase \in Planning
  BY DEF Stages, Planning
<1>2. AtWork /\ req \in Requests /\ req.kind = "build"
  BY <1>1, StageOf
<1>3. Requested(world, before, req, line)
  BY <1>2 DEF AtWork
<1>4. /\ p \in DOMAIN line.hold /\ line.hold[p] \in HoldSpecs
      /\ line.hold[p].allowed \subseteq req.hold[p].allowed
      /\ line.hold[p].pinned = req.hold[p].pinned
  BY <1>2, <1>3, LineHas
<1>5. p \in ToSet(plan) /\ AsAsked(line, col, p)
  BY <1>1, <1>2, <1>4, PlannedOf
<1>6. ~Dropped(col.bm, p) /\ Target(before, p) = col.bm[p].version
  BY <1>5 DEF AsAsked, Dropped, Target
<1>7. selected[p] = Held(p)
  BY <1>1, <1>5, OverOf
<1>8. /\ Held(p).state = "configured" /\ Held(p).version = Target(before, p)
      /\ Held(p).hold = HoldPackage(before, p)
      /\ Held(p).holdVersion = HoldVersion(before, p)
  BY <1>1, <1>5, <1>6, HeldOf
<1>9. HoldPackage(before, p) = TRUE
  <2>1. HoldPackage(before, p)
    BY <1>5 DEF AsAsked, HoldPackage
  <2>2. HoldPackage(before, p) \in BOOLEAN
    BY <1>1, <1>5, HoldsOf
  <2> QED
    BY <2>1, <2>2
<1>10. HoldVersion(before, p) = line.hold[p].pinned
  <2>1. line.hold[p].pinned \in BOOLEAN
    BY <1>4 DEF HoldSpecs
  <2>2. col.bm[p].holdVersion = IF line.hold[p].pinned THEN 2 ELSE 1
    BY <1>4, <1>5 DEF AsAsked, Wanted
  <2>3. HoldVersion(before, p) = (col.bm[p].holdVersion = 2)
    BY <2>2 DEF HoldVersion
  <2>4. CASE line.hold[p].pinned = TRUE
    BY <2>2, <2>3, <2>4
  <2>5. CASE line.hold[p].pinned = FALSE
    <3>1. col.bm[p].holdVersion = 1
      BY <2>2, <2>5
    <3>2. (col.bm[p].holdVersion = 2) = FALSE
      BY <3>1
    <3> QED
      BY <2>3, <2>5, <3>2
  <2> QED
    BY <2>1, <2>4, <2>5
<1>11. selected[p].version \in req.hold[p].allowed
  BY <1>4, <1>5, <1>6, <1>7, <1>8 DEF AsAsked
<1> QED
  BY <1>4, <1>7, <1>8, <1>9, <1>10, <1>11

\* So is what has been expected of a dependency that is used.
LEMMA ExpectedIsMet ==
    ASSUME Inv, phase = "hold", todo = <<>>, NEW p \in DOMAIN req.expect,
           selected[p].state = "configured", ConfiguredDependents(selected, p) # {}
    PROVE  selected[p].version \in req.expect[p].allowed
<1>1. /\ phase \in Stages /\ "hold" \in Stages /\ phase \in Planning
  BY DEF Stages, Planning
<1>2. AtWork /\ req \in Requests /\ req.kind = "build" /\ Configuration(world, selected)
      /\ world \in Worlds
  BY <1>1, StageOf
<1>3. Requested(world, before, req, line)
  BY <1>2 DEF AtWork
<1>4. /\ p \in DOMAIN line.expect /\ p \in Pkgs
      /\ line.expect[p].allowed \subseteq req.expect[p].allowed
      /\ p \notin DOMAIN line.hold
  BY <1>2, <1>3, LineHas
<1>5. selected = Simulated(before)
  BY AsSimulated
<1>6. Unmet(selected) = {}
  BY <1>1, <1>2, <1>5 DEF Inv, Simulating
<1>7. ~before[p].hold
  BY <1>3 DEF Requested
<1>8. ~selected[p].hold
  <2>1. CASE p \in ToSet(plan)
    <3>1. p \in DOMAIN col.bm /\ Enterable(world, before, line, p, col.bm[p])
      BY <1>1, <1>2, <2>1, PlannedOf
    <3>2. ~HoldPackage(before, p)
      BY <1>4, <1>7, <3>1 DEF Enterable, HoldPackage
    <3>3. selected[p] = Held(p)
      BY <1>1, <2>1, OverOf
    <3>4. ~Dropped(col.bm, p)
      BY <3>3, NoneOf DEF Held
    <3>5. Held(p).hold = HoldPackage(before, p)
      BY <1>1, <2>1, <3>4, HeldOf
    <3> QED
      BY <3>2, <3>3, <3>5
  <2>2. CASE p \notin ToSet(plan)
    BY <1>1, <1>4, <1>7, <2>2, OverOf
  <2> QED
    BY <2>1, <2>2
<1>9. line.expect[p].allowed # AnyVersion => selected[p].version \in line.expect[p].allowed
  <2> SUFFICES ASSUME line.expect[p].allowed # AnyVersion,
                      selected[p].version \notin line.expect[p].allowed
               PROVE  FALSE
    OBVIOUS
  <2>1. Unexpected(selected, p)
    BY <1>4 DEF Unexpected
  <2>2. p \in Unmet(selected)
    BY <1>4, <1>8, <2>1 DEF Unmet
  <2> QED
    BY <1>6, <2>2
<1>10. selected[p].version \in AnyVersion
  <2>1. selected[p].version \in world.available[p]
    BY <1>2, <1>4 DEF Configuration
  <2>2. world.available[p] \subseteq Versions
    BY <1>2, <1>4, WorldsAssumption
  <2> QED
    BY <2>1, <2>2 DEF AnyVersion
<1> QED
  BY <1>4, <1>9, <1>10

\* The packages that were held stay, and all are put back together.
LEMMA HeldStay ==
    ASSUME Inv, phase = "hold", todo = <<>>, NEW p \in Pkgs
    PROVE  /\ before[p].hold /\ before[p].state = "configured" =>
                 selected[p].hold /\ selected[p].state = "configured"
           /\ before[p].state \in {"none", "configured"} =>
                 selected[p].state \in {"none", "configured"}
<1>1. /\ phase \in Stages /\ "hold" \in Stages /\ phase \in Planning
  BY DEF Stages, Planning
<1>2. AtWork
  BY <1>1, StageOf
<1>3. CASE p \notin ToSet(plan)
  BY <1>1, <1>3, OverOf
<1>4. CASE p \in ToSet(plan)
  <2>1. selected[p] = Held(p)
    BY <1>1, <1>4, OverOf
  <2>2. CASE Dropped(col.bm, p)
    <3>1. p \in DOMAIN col.bm /\ Enterable(world, before, line, p, col.bm[p])
      BY <1>1, <1>2, <1>4, PlannedOf
    <3>2. ~before[p].hold
      BY <2>2, <3>1 DEF Enterable, Dropped, Droppable
    <3>3. selected[p] = None
      BY <2>1, <2>2 DEF Held
    <3> QED
      BY <3>2, <3>3, NoneOf
  <2>3. CASE ~Dropped(col.bm, p)
    <3>1. Held(p).state = "configured" /\ Held(p).hold = HoldPackage(before, p)
      BY <1>1, <1>4, <2>3, HeldOf
    <3>2. before[p].hold => HoldPackage(before, p)
      BY DEF HoldPackage
    <3> QED
      BY <2>1, <3>1, <3>2
  <2> QED
    BY <2>2, <2>3
<1> QED
  BY <1>3, <1>4

\* The command is done.
LEMMA DoneKeeps ==
    ASSUME Inv, Done
    PROVE  Inv'
<1>1. /\ phase \in {"hold", "purge"} /\ todo = <<>> /\ Finish("ok")
      /\ UNCHANGED <<world, selected, req, before, commands, faults>>
  BY DEF Done, Ends
<1>2. phase \in Stages /\ phase # "idle"
  BY <1>1 DEF Stages
<1>3. Configuration(world, selected')
  BY <1>1, <1>2, StageOf DEF Configuration
<1>4. Config!PrerequisitesHeld'
  BY <1>1, <1>2, StageOf DEF Config!PrerequisitesHeld, Config!Configured, Config!Satisfied
<1>5. phase = "hold" => req.kind = "build"
  BY <1>2, StageOf
<1>6. phase = "purge" => req.kind = "drop"
  BY <1>2, StageOf
<1>7. \A p : ConfiguredDependents(selected, p)' = ConfiguredDependents(selected, p)
  BY <1>1 DEF ConfiguredDependents
<1>8. UnusedDropped'
  <2>1. Unused(selected)' = Unused(selected) /\ Unused(before)' = Unused(before)
    <3>1. \A p : ConfiguredDependents(before, p)' = ConfiguredDependents(before, p)
      BY <1>1 DEF ConfiguredDependents
    <3> QED
      BY <1>1, <1>7, <3>1 DEF Unused
  <2>2. Ended("build")' /\ ~req'.keep => Unused(selected) = {}
    BY <1>1, <1>6, NothingUnused DEF Ended
  <2>3. Ended("drop")' /\ ~req'.keep => Unused(selected) \subseteq Unused(before)
    BY <1>1, <1>5, NoneLeft DEF Ended
  <2> QED
    BY <2>1, <2>2, <2>3 DEF UnusedDropped
<1>9. RequestMet'
  <2> SUFFICES ASSUME Ended("build")'
               PROVE  RequestMet'
    BY DEF RequestMet
  <2>1. phase = "hold"
    BY <1>1, <1>6 DEF Ended
  <2>2. \A p \in DOMAIN req.hold :
           /\ selected[p].state = "configured" /\ selected[p].hold
           /\ selected[p].version \in req.hold[p].allowed
           /\ selected[p].holdVersion = req.hold[p].pinned
    BY <1>1, <2>1, AskedIsBuilt
  <2>3. \A p \in DOMAIN req.expect :
           selected[p].state = "configured" /\ ConfiguredDependents(selected, p) # {} =>
              selected[p].version \in req.expect[p].allowed
    BY <1>1, <2>1, ExpectedIsMet
  <2>4. \A p \in Pkgs :
           /\ before[p].hold /\ before[p].state = "configured" =>
                 selected[p].hold /\ selected[p].state = "configured"
           /\ before[p].state \in {"none", "configured"} =>
                 selected[p].state \in {"none", "configured"}
    BY <1>1, <2>1, HeldStay
  <2> QED
    BY <1>1, <1>7, <2>2, <2>3, <2>4 DEF RequestMet
<1> QED
  BY <1>1, <1>2, <1>3, <1>4, <1>8, <1>9, FinishedOf DEF Kept

---------------------------------------------------------------------------
(* Faults, and between commands.                                            *)
\* A command is killed.
LEMMA InterruptKeeps ==
    ASSUME Inv, Interrupt
    PROVE  Inv'
<1>1. /\ phase \in Stages /\ Finish("interrupted") /\ Kept /\ UNCHANGED selected
      /\ phase # "idle"
  BY DEF Interrupt, Executing, Stages, Fault
<1>2. Configuration(world, selected')
  BY <1>1, StageOf DEF Configuration
<1>3. Config!PrerequisitesHeld'
  BY <1>1, StageOf DEF Config!PrerequisitesHeld, Config!Configured, Config!Satisfied
<1> QED
  BY <1>1, <1>2, <1>3, FinishedOf

\* The build system fails, and a package is left not configured.
LEMMA FailedKeeps ==
    ASSUME Inv, NEW st \in Stages, Stage(st), NEW t \in {"unpacked", "broken"},
           selected' = Unconfigured(Head(todo), t), Fault("failed"),
           selected[Head(todo)].state # "none",
           \/ selected[Head(todo)].state # "configured"
           \/ ConfiguredDependents(selected, Head(todo)) = {}
    PROVE  Inv' /\ Config!TakeApart(Head(todo)) /\ Head(todo) \in Pkgs
<1> DEFINE p == Head(todo)
           s == TakenApart(selected[p], t)
<1>1. /\ phase \in Stages /\ p \in Pkgs /\ Proper(p, selected[p])
      /\ Configuration(world, selected) /\ Config!PrerequisitesHeld
  BY NextOf
<1>2. selected' = Package(p, s)
  BY Zenon DEF Unconfigured, TakenApart
<1>3. /\ Config!IsPackage(s) /\ s.state = t /\ s.version = selected[p].version
      /\ DOMAIN s.prereqs = {}
  <2>1. Config!IsPackage(selected[p]) /\ t \in Config!States
    BY <1>1 DEF Proper, Config!States
  <2> HIDE DEF p
  <2> QED
    BY <2>1, TakenApartOf
<1>4. s.state # "none" /\ s.state # "configured" /\ s.version \in world.available[p]
  BY <1>1, <1>3 DEF Proper
<1>5. selected[p].state # "configured" \/ ConfiguredDependents(selected, p) = {}
  OBVIOUS
<1> HIDE DEF s
<1>6. Configuration(world, selected') /\ Config!PrerequisitesHeld' /\ Config!TakeApart(p)
  BY <1>1, <1>2, <1>3, <1>4, <1>5, ApartOf
<1>7. Finish("failed") /\ Kept /\ phase # "idle"
  BY <1>1 DEF Fault, Stages
<1>8. Inv'
  BY <1>6, <1>7, FinishedOf
<1> QED
  BY <1>1, <1>6, <1>8

\* pkg_disfigure() fails: the package is broken.
LEMMA FailDisfigureStep ==
    ASSUME Inv, FailDisfigure
    PROVE  Inv' /\ Config!TakeApart(Head(todo)) /\ Head(todo) \in Pkgs
<1>1. /\ Stage("disfigure") /\ ConfiguredDependents(selected, Head(todo)) = {}
      /\ selected' = Unconfigured(Head(todo), "broken") /\ Fault("failed")
      /\ "disfigure" \in Stages
  BY DEF FailDisfigure, Stages
<1>2. selected[Head(todo)].state # "none"
  <2>1. /\ selected[Head(todo)] = before[Head(todo)] /\ Disfiguring(Head(todo))
        /\ InPlan(Head(todo))
    BY <1>1, NextOf
  <2> QED
    BY <2>1 DEF InPlan
<1> QED
  BY <1>1, <1>2, FailedKeeps

\* pkg_configure() fails.
LEMMA FailConfigureStep ==
    ASSUME Inv, FailConfigure
    PROVE  Inv' /\ Config!TakeApart(Head(todo)) /\ Head(todo) \in Pkgs
<1>1. /\ Stage("configure") /\ Fault("failed") /\ "configure" \in Stages
  BY DEF FailConfigure, Stages
<1>2. PICK t \in {"unpacked", "broken"} : selected' = Unconfigured(Head(todo), t)
  BY DEF FailConfigure
<1>3. /\ phase \in Stages /\ Head(todo) \in ToSet(plan) /\ ~Dropped(col.bm, Head(todo))
      /\ selected[Head(todo)] = Fetched(Head(todo)) /\ Fetched(Head(todo)).state # "configured"
  BY <1>1, NextOf
<1>4. selected[Head(todo)].state = "unpacked"
  BY <1>3, FetchedOf
<1> QED
  BY <1>1, <1>2, <1>4, FailedKeeps

\* Between commands.
LEMMA IdleKeeps ==
    ASSUME Inv, phase = "idle", UNCHANGED <<world, phase, command, before>>,
           Configuration(world, selected'), Config!PrerequisitesHeld',
           UnusedDropped', RequestMet'
    PROVE  Inv'
<1>1. UNCHANGED <<world, phase, before, line, deps, col, tasks, search, plan>>
  BY DEF command
<1>2. Undisturbed'
  <2>1. Configuration(world, before)' /\ Configuration(world, selected)'
    BY <1>1 DEF Inv, Undisturbed, Configuration
  <2> QED
    BY <1>1, <2>1 DEF Inv, Undisturbed, OfBuild, BuildPhases, Stages
<1>3. Collecting'
  BY <1>1 DEF Inv, Collecting, Commanded
<1>4. Tasking'
  <2>1. tasks = <<>>
    BY DEF Inv, Undisturbed
  <2>2. ToSet(<<>>) = {}
    BY DEF ToSet
  <2> QED
    BY <1>1, <2>1, <2>2 DEF Inv, Tasking
<1>5. Ordering' /\ Simulating' /\ Progressing' /\ Dropping'
  BY <1>1 DEF Ordering, Simulating, Progressing, Dropping, Planning, Stages
<1>6. Judging'
  BY <1>1 DEF Judging, Commanded, AdjustmentsNeeded
<1> QED
  BY <1>2, <1>3, <1>4, <1>5, <1>6 DEF Inv

\* A broken package is purged.
LEMMA PurgeBrokenStep ==
    ASSUME Inv, NEW p \in Pkgs, PurgeBroken(p)
    PROVE  Inv' /\ Config!TakeApart(p)
<1>1. /\ phase = "idle" /\ selected[p].state = "broken" /\ selected' = Package(p, None)
      /\ outcome' = "none" /\ UNCHANGED <<world, phase, command, before>>
  BY DEF PurgeBroken
<1>2. Configuration(world, selected) /\ Config!PrerequisitesHeld
  BY DEF Inv, Undisturbed
<1> DEFINE s == None
<1>3. Config!IsPackage(s) /\ s.state = "none" /\ DOMAIN s.prereqs = {} /\ s = None
  BY NoneOf
<1>4. selected' = Package(p, s)
  BY <1>1
<1> HIDE DEF s
<1>5. Configuration(world, selected') /\ Config!PrerequisitesHeld' /\ Config!TakeApart(p)
  BY <1>1, <1>2, <1>3, <1>4, ApartOf
<1>6. UnusedDropped' /\ RequestMet'
  BY <1>1 DEF UnusedDropped, RequestMet, Ended
<1>7. Inv'
  BY <1>1, <1>5, <1>6, IdleKeeps
<1> QED
  BY <1>5, <1>7

---------------------------------------------------------------------------
(* Nothing happens, and the first state.                                    *)
\* Nothing happens.
LEMMA StutterKeeps ==
    ASSUME Inv, UNCHANGED vars
    PROVE  Inv'
<1>1. /\ UNCHANGED <<world, selected, phase, command, todo, before, outcome>>
      /\ UNCHANGED <<req, line, judged, col, tasks, search, deps, plan>>
  BY DEF vars, command
<1>2. Configuration(world, selected')
  BY <1>1 DEF Inv, Undisturbed, Configuration
<1>3. Config!PrerequisitesHeld'
  BY <1>1 DEF Inv, Undisturbed, Config!PrerequisitesHeld, Config!Configured, Config!Satisfied
<1>4. UnusedDropped' /\ RequestMet'
  <2>1. \A p : /\ ConfiguredDependents(selected, p)' = ConfiguredDependents(selected, p)
               /\ ConfiguredDependents(before, p)' = ConfiguredDependents(before, p)
    BY <1>1 DEF ConfiguredDependents
  <2>2. Unused(selected)' = Unused(selected) /\ Unused(before)' = Unused(before)
    BY <1>1, <2>1 DEF Unused
  <2>3. \A kind : Ended(kind)' <=> Ended(kind)
    BY <1>1 DEF Ended
  <2>4. UnusedDropped'
    BY <1>1, <2>2, <2>3 DEF Inv, UnusedDropped
  <2>5. RequestMet'
    BY <1>1, <2>1, <2>3 DEF Inv, RequestMet
  <2> QED
    BY <2>4, <2>5
<1>5. CASE phase = "idle"
  BY <1>1, <1>2, <1>3, <1>4, <1>5, IdleKeeps
<1>6. /\ Simulating'
      /\ Progressing'
  <2>1. Simulating'
    <3>1. /\ Refinements(Simulated(before))' = Refinements(Simulated(before))
          /\ Unmet(Simulated(before))' = Unmet(Simulated(before))
          /\ DisfiguresOther(before)' <=> DisfiguresOther(before)
      BY <1>1, SimulatedStays
    <3> QED
      BY <1>1, <3>1 DEF Inv, Simulating
  <2>2. Progressing'
    <3> SUFFICES ASSUME phase' \in Stages
                 PROVE  Progressing'
      BY DEF Progressing
    <3>1. phase \in Stages
      BY <1>1
    <3>2. \A p : /\ Disfiguring(p)' <=> Disfiguring(p)
                 /\ Disfigured(p)' = Disfigured(p)
                 /\ Obtained(p, "fetched")' = Obtained(p, "fetched")
                 /\ Fetched(p)' = Fetched(p) /\ Reconfigured(p)' = Reconfigured(p)
                 /\ Held(p)' = Held(p)
      BY <1>1, SameStages
    <3>3. \A p, x, y : Progress(p, x, y) => selected'[p] = IF p \in ToSet(todo') THEN x ELSE y
      BY <1>1 DEF Progress
    <3>4. \A q : /\ todo' \in Seq(Pkgs) /\ IsInjective(todo') /\ ToSet(todo') \subseteq ToSet(plan')
                 /\ q \in Pkgs \ ToSet(plan') => selected'[q] = before'[q]
      BY <1>1, <3>1 DEF Inv, Progressing
    <3>5. ASSUME NEW p \in ToSet(plan')
          PROVE  CASE phase' = "disfigure" ->
                        /\ Progress(p, before[p], Disfigured(p))'
                        /\ p \in ToSet(todo') => Disfiguring(p)'
                   [] phase' = "fetch" ->
                        \/ Progress(p, Disfigured(p), Fetched(p))'
                        \/ /\ todo' # <<>> /\ p = Head(todo') /\ col'.bm[p].action = "build"
                           /\ before'[p].version # col'.bm[p].version
                           /\ selected'[p] = Obtained(p, "fetched")'
                   [] phase' = "configure" ->
                        /\ Progress(p, Fetched(p), Reconfigured(p))'
                        /\ p \in ToSet(todo') => /\ ~Dropped(col'.bm, p)
                                                 /\ Fetched(p)'.state # "configured"
                   [] phase' = "hold" ->
                        /\ Progress(p, Reconfigured(p), Held(p))'
                        /\ p \in ToSet(todo') => ~Dropped(col'.bm, p)
                   [] phase' = "purge" -> Progress(p, Disfigured(p), None)'
      <4>1. p \in ToSet(plan)
        BY <1>1
      <4>2. CASE phase = "disfigure"
        BY <1>1, <3>1, <3>2, <4>1, <4>2 DEF Inv, Progressing, Progress
      <4>3. CASE phase = "fetch"
        BY <1>1, <3>1, <3>2, <4>1, <4>3 DEF Inv, Progressing, Progress
      <4>4. CASE phase = "configure"
        BY <1>1, <3>1, <3>2, <4>1, <4>4 DEF Inv, Progressing, Progress
      <4>5. CASE phase = "hold"
        BY <1>1, <3>1, <3>2, <4>1, <4>5 DEF Inv, Progressing, Progress
      <4>6. CASE phase = "purge"
        BY <1>1, <3>1, <3>2, <4>1, <4>6 DEF Inv, Progressing, Progress
      <4> QED
        BY <3>1, <4>2, <4>3, <4>4, <4>5, <4>6 DEF Stages
    <3> QED
      BY <3>4, <3>5 DEF Progressing
  <2> QED
    BY <2>1, <2>2
<1>7. CASE phase \in Stages
  <2>1. /\ phase \in OfBuild => req.kind = "build"
        /\ phase = "purge" => req.kind = "drop"
    BY <1>7, StageOf DEF Inv, Undisturbed
  <2> QED
    BY <1>1, <1>2, <1>3, <1>6, <1>7, <2>1, ExecutesOn
<1>8. CASE phase \notin Stages \cup {"idle"}
  <2>1. Undisturbed'
    BY <1>1, <1>8, UndisturbedStays DEF Inv, Undisturbed
  <2>2. Collecting'
    BY <1>1 DEF Inv, Collecting, Commanded
  <2>3. Tasking'
    BY <1>1 DEF Inv, Tasking
  <2>4. Ordering'
    BY <1>1 DEF Inv, Ordering, ToPlan, Awaited
  <2>5. Judging'
    <3>1. AdjustmentsNeeded'
      BY <1>1, <1>8 DEF AdjustmentsNeeded, Stages
    <3> QED
      BY <1>1, <3>1 DEF Inv, Judging, Commanded
  <2>6. Dropping'
    BY <1>1 DEF Inv, Dropping
  <2> QED
    BY <1>4, <1>6, <2>1, <2>2, <2>3, <2>4, <2>5, <2>6 DEF Inv
<1> QED
  BY <1>5, <1>7, <1>8

\* The invariant holds at first.
LEMMA InitInv ==
    ASSUME Init
    PROVE  Inv
<1>1. /\ world \in Worlds /\ selected = [p \in Pkgs |-> None] /\ before = selected
      /\ phase = "idle" /\ outcome = "none" /\ line = NoLine /\ deps = <<>>
      /\ tasks = <<>> /\ search = NoSearch /\ plan = <<>>
  BY DEF Init
<1>2. Undisturbed
  <2>1. \A p \in Pkgs : selected[p] = None
    BY <1>1
  <2>2. Configuration(world, selected)
    BY <1>1, <2>1, NoneOf DEF Configuration
  <2>3. Config!PrerequisitesHeld
    BY <2>1, NoneOf DEF Config!PrerequisitesHeld, Config!Configured
  <2> QED
    BY <1>1, <2>2, <2>3 DEF Undisturbed, OfBuild, BuildPhases, Stages
<1>3. Collecting
  BY <1>1 DEF Collecting, Commanded
<1>4. Tasking
  <2>1. ToSet(<<>>) = {} /\ <<>> \in Seq(TaskRecords)
    BY EmptySeqOf DEF ToSet
  <2>2. NoSearch \in Searches
    BY EmptySeqOf DEF NoSearch, Searches
  <2> QED
    BY <1>1, <2>1, <2>2 DEF Tasking
<1>5. Ordering /\ Simulating /\ Progressing /\ Dropping
  BY <1>1 DEF Ordering, Simulating, Progressing, Dropping, Planning, Stages
<1>6. Judging
  BY <1>1 DEF Judging, Commanded, AdjustmentsNeeded
<1>7. UnusedDropped /\ RequestMet
  BY <1>1 DEF UnusedDropped, RequestMet, Ended
<1> QED
  BY <1>2, <1>3, <1>4, <1>5, <1>6, <1>7 DEF Inv

---------------------------------------------------------------------------
(* The steps of ConfiguredPackages, whoever takes them.                     *)
\* The objects of a configuration, and what is true of them.
Objects ==
    /\ selected = [p \in Pkgs |-> selected[p]]
    /\ \A p \in Pkgs : Config!IsPackage(selected[p])

\* A step of a configuration changes one package.
LEMMA BecomesOf ==
    ASSUME Objects, NEW p \in Pkgs, NEW s, Config!Becomes(p, s)
    PROVE  /\ Objects' /\ selected'[p] = s
           /\ \A q \in Pkgs : q # p => selected'[q] = selected[q]
<1>1. Config!IsPackage(s) /\ selected' = [selected EXCEPT ![p] = s]
  BY DEF Config!Becomes
<1>2. selected'[p] = s /\ \A q \in Pkgs : q # p => selected'[q] = selected[q]
  BY <1>1 DEF Objects
<1>3. selected' = [q \in Pkgs |-> selected'[q]]
  BY <1>1 DEF Objects
<1> QED
  BY <1>1, <1>2, <1>3 DEF Objects

\* Whatever is done to a configuration, in steps that take apart what nothing depends on
\* and configure over what is configured, prerequisites stay configured and satisfied.
THEOREM PrerequisitesStay == Config!Spec => []Config!PrerequisitesHeld
<1> DEFINE I == Objects /\ Config!PrerequisitesHeld
<1>1. Config!Init => I
  <2> SUFFICES ASSUME Config!Init
               PROVE  I
    OBVIOUS
  <2>1. Config!IsPackage(Config!NoPackage) /\ DOMAIN Config!NoPackage.prereqs = {}
        /\ Config!NoPackage.state = "none"
    <3>1. DOMAIN [d \in {} |-> {}] = {} /\ [d \in {} |-> {}] \in [{} -> SUBSET Versions]
      OBVIOUS
    <3> QED
      BY <3>1 DEF Config!NoPackage, Config!IsPackage, Config!States
  <2>2. selected = [p \in Pkgs |-> Config!NoPackage]
    BY DEF Config!Init
  <2> HIDE DEF Config!NoPackage
  <2> QED
    BY <2>1, <2>2 DEF Objects, Config!PrerequisitesHeld, Config!Configured
<1>2. I /\ [Config!Next]_selected => I'
  <2> SUFFICES ASSUME I, [Config!Next]_selected
               PROVE  I'
    OBVIOUS
  <2>1. \A q \in Pkgs : DOMAIN selected[q].prereqs \subseteq Pkgs
    BY FieldsOf DEF Objects
  <2>2. ASSUME NEW p \in Pkgs, Config!TakeApart(p)
        PROVE  I'
    <3>1. /\ Config!Dependents(p) = {} /\ Config!Becomes(p, selected'[p])
          /\ selected'[p].state # "configured" /\ DOMAIN selected'[p].prereqs = {}
      BY <2>2 DEF Config!TakeApart
    <3>2. Objects' /\ \A q \in Pkgs : q # p => selected'[q] = selected[q]
      BY <3>1, BecomesOf
    <3>3. ASSUME NEW q \in Pkgs, q # p, selected[q].state = "configured"
          PROVE  \A d \in DOMAIN selected[q].prereqs :
                    /\ selected'[d].state = "configured"
                    /\ selected'[d].version \in selected[q].prereqs[d]
      <4>1. p \notin DOMAIN selected[q].prereqs
        BY <3>1, <3>3 DEF Config!Dependents, Config!Configured
      <4>2. \A d \in DOMAIN selected[q].prereqs :
               /\ selected[d].state = "configured"
               /\ selected[d].version \in selected[q].prereqs[d]
        BY <3>3 DEF Config!PrerequisitesHeld, Config!Configured, Config!Satisfied
      <4> QED
        BY <2>1, <3>2, <4>1, <4>2
    <3> QED
      BY <3>1, <3>2, <3>3 DEF Config!PrerequisitesHeld, Config!Configured, Config!Satisfied
  <2>3. ASSUME NEW p \in Pkgs, Config!Configure(p)
        PROVE  I'
    <3> DEFINE ds == selected'[p].prereqs
               s == [selected[p] EXCEPT !.state = "configured", !.prereqs = ds]
    <3>1. /\ selected[p].state = "unpacked" /\ Config!Becomes(p, s)
          /\ Config!Satisfied(ds)
      BY <2>3 DEF Config!Configure
    <3>2. Objects' /\ selected'[p] = s /\ \A q \in Pkgs : q # p => selected'[q] = selected[q]
      BY <3>1, BecomesOf
    <3>3. selected'[p].state = "configured" /\ DOMAIN ds \subseteq Pkgs
      <4>1. Config!IsPackage(selected'[p])
        BY <3>2 DEF Objects
      <4>2. Config!IsPackage(selected[p])
        BY DEF Objects
      <4>3. s.state = "configured"
        BY <4>2, FieldsOf
      <4> QED
        BY <3>2, <4>1, <4>3, FieldsOf
    <3>4. \A d \in Pkgs : selected[d].state = "configured" => selected'[d] = selected[d]
      BY <3>1, <3>2
    <3>5. \A d \in DOMAIN ds : selected'[d].state = "configured" /\ selected'[d].version \in ds[d]
      BY <3>1, <3>3, <3>4 DEF Config!Satisfied, Config!Configured
    <3>6. ASSUME NEW q \in Pkgs, q # p, selected[q].state = "configured"
          PROVE  \A d \in DOMAIN selected[q].prereqs :
                    /\ selected'[d].state = "configured"
                    /\ selected'[d].version \in selected[q].prereqs[d]
      <4>1. \A d \in DOMAIN selected[q].prereqs :
               /\ selected[d].state = "configured"
               /\ selected[d].version \in selected[q].prereqs[d]
        BY <3>6 DEF Config!PrerequisitesHeld, Config!Configured, Config!Satisfied
      <4> QED
        BY <2>1, <3>4, <4>1
    <3> QED
      BY <3>2, <3>3, <3>5, <3>6 DEF Config!PrerequisitesHeld, Config!Configured, Config!Satisfied
  <2>4. ASSUME NEW p \in Pkgs, Config!Hold(p)
        PROVE  I'
    <3> DEFINE h == selected'[p].hold
               v == selected'[p].holdVersion
               s == [selected[p] EXCEPT !.hold = h, !.holdVersion = v]
    <3>1. Config!Becomes(p, s)
      BY <2>4 DEF Config!Hold
    <3>2. Objects' /\ selected'[p] = s /\ \A q \in Pkgs : q # p => selected'[q] = selected[q]
      BY <3>1, BecomesOf
    <3>3. Config!IsPackage(selected[p])
      BY DEF Objects
    <3> HIDE DEF h, v
    <3>4. /\ s.state = selected[p].state /\ s.version = selected[p].version
          /\ s.prereqs = selected[p].prereqs
      BY <3>3, FieldsOf
    <3> HIDE DEF s
    <3>5. \A q \in Pkgs : /\ selected'[q].state = selected[q].state
                          /\ selected'[q].version = selected[q].version
                          /\ selected'[q].prereqs = selected[q].prereqs
      BY <3>2, <3>4
    <3> QED
      BY <2>1, <3>2, <3>5 DEF Config!PrerequisitesHeld, Config!Configured, Config!Satisfied
  <2>5. CASE UNCHANGED selected
    BY <2>5 DEF Objects, Config!PrerequisitesHeld, Config!Configured, Config!Satisfied
  <2> QED
    BY <2>2, <2>3, <2>4, <2>5 DEF Config!Next
<1> QED
  BY <1>1, <1>2, PTL DEF Config!Spec

---------------------------------------------------------------------------
(* The theorems.                                                            *)
\* Up to its execution a command commits nothing.
LEMMA CollectStays == ASSUME Collect PROVE UNCHANGED selected
<1>1. CASE CollectHold
  BY <1>1 DEF CollectHold, Collected, Staying
<1>2. CASE CollectPrerequisites
  BY <1>2 DEF CollectPrerequisites, Collected, Staying, FailAssertion, Ends
<1>3. CASE CollectDependency
  BY <1>3 DEF CollectDependency, Collected, Staying, Fail, Ends
<1>4. CASE CollectReplaced
  BY <1>4 DEF CollectReplaced, Collected, Staying
<1>5. CASE FinishCollection
  BY <1>5 DEF FinishCollection, Visit, Staying
<1>6. CASE VisitDependency \/ VisitDependent
  BY <1>6 DEF VisitDependency, VisitDependent, Staying
<1>7. CASE Settle
  BY <1>7 DEF Settle
<1>8. CASE Order
  BY <1>8 DEF Order, Staying, Fail, FailAssertion, Ends
<1>9. CASE InsertPackage
  BY <1>9 DEF InsertPackage, Staying
<1> QED
  BY <1>1, <1>2, <1>3, <1>4, <1>5, <1>6, <1>7, <1>8, <1>9 DEF Collect

\* Nor while the command line is adjusted.
LEMMA AdjustStays == ASSUME AdjustCommandLine PROVE UNCHANGED selected
<1>1. CASE Refine
  BY <1>1 DEF Refine, Again, Staying, Fail, FailAssertion, Ends
<1>2. CASE Adjust
  BY <1>2 DEF Adjust, Visit, Staying
<1>3. CASE StartSearch
  BY <1>3 DEF StartSearch, Staying, FailAssertion, Ends
<1>4. CASE TryReplace
  BY <1>4 DEF TryReplace, Searching, Staying, FailAssertion, Ends
<1>5. CASE ConsiderVersion
  BY <1>5 DEF ConsiderVersion, Recollect, Staying, FailAssertion, Ends
<1>6. CASE NothingOffered \/ TryOthers
  BY <1>6 DEF NothingOffered, TryOthers, Searching, Staying
<1>7. CASE TryDependents
  BY <1>7 DEF TryDependents, Searching, Staying, FailAssertion, Ends
<1>8. CASE GiveUp
  BY <1>8 DEF GiveUp, Cycle, Recollect, Staying, Fail, Ends
<1>9. CASE KeepAdjustment
  BY <1>9 DEF KeepAdjustment, Without1st, Recollect, Staying, FailAssertion, Ends
<1>10. CASE DropAdjustment
  BY <1>10 DEF DropAdjustment, ExecutePlan, Without1st, Recollect, Staying, FailAssertion, Ends
<1> QED
  BY <1>1, <1>2, <1>3, <1>4, <1>5, <1>6, <1>7, <1>8, <1>9, <1>10 DEF AdjustCommandLine

\* A step of the execution keeps the invariant and is one of the configuration.
LEMMA ExecuteKeeps ==
    ASSUME Inv, Execute
    PROVE  Inv' /\ (Config!Next \/ UNCHANGED selected)
<1>1. ASSUME Refused
      PROVE  phase \in Stages => Inv' /\ UNCHANGED selected
  <2>1. phase \in Stages => phase # "idle"
    BY DEF Stages
  <2>2. UNCHANGED selected
    BY <1>1 DEF Refused, Ends
  <2> QED
    BY <1>1, <2>1, <2>2, FailsOf
<1>2. CASE Disfigure
  <2>1. phase \in Stages
    BY <1>2 DEF Disfigure, Stage, Stages
  <2>2. Refused \/ (Inv' /\ Config!TakeApart(Head(todo)) /\ Head(todo) \in Pkgs)
    BY <1>2, DisfigureStep
  <2> QED
    BY <1>1, <2>1, <2>2 DEF Config!Next
<1>3. CASE PurgeDropped
  BY <1>3, PurgeDroppedStep DEF Config!Next
<1>4. CASE FetchPackage
  BY <1>4, FetchPackageStep DEF Config!Next
<1>5. CASE Unpack
  BY <1>5, UnpackStep DEF Config!Next
<1>6. CASE Configure
  <2>1. phase \in Stages
    BY <1>6 DEF Configure, Stage, Stages
  <2>2. Refused \/ (Inv' /\ Config!Configure(Head(todo)) /\ Head(todo) \in Pkgs)
    BY <1>6, ConfigureStep
  <2> QED
    BY <1>1, <2>1, <2>2 DEF Config!Next
<1>7. CASE Hold
  BY <1>7, HoldStep DEF Config!Next
<1>8. CASE Purge
  BY <1>8, PurgeOfDropStep DEF Config!Next
<1>9. CASE Fetch \/ Configuring \/ Holding \/ Purging
  <2>1. UNCHANGED selected
    BY <1>9 DEF Fetch, Configuring, Holding, Purging, Proceed
  <2> QED
    BY <1>9, <2>1, FetchKeeps, ConfiguringKeeps, HoldingKeeps, PurgingKeeps
<1>10. CASE Done
  <2>1. UNCHANGED selected
    BY <1>10 DEF Done, Ends
  <2> QED
    BY <1>10, <2>1, DoneKeeps
<1> QED
  BY <1>2, <1>3, <1>4, <1>5, <1>6, <1>7, <1>8, <1>9, <1>10 DEF Execute

\* So is every step.
LEMMA NextKeeps ==
    ASSUME Inv, [Next]_vars
    PROVE  Inv' /\ (Config!Next \/ UNCHANGED selected)
<1>1. CASE Rest \/ UNCHANGED vars
  <2>1. UNCHANGED vars /\ UNCHANGED selected
    BY <1>1 DEF Rest, vars
  <2> QED
    BY <2>1, StutterKeeps
<1>2. CASE RequestBuild
  <2>1. UNCHANGED selected
    BY <1>2 DEF RequestBuild
  <2> QED
    BY <1>2, <2>1, RequestBuildKeeps
<1>3. CASE RequestDrop
  <2>1. UNCHANGED selected
    BY <1>3 DEF RequestDrop
  <2> QED
    BY <1>3, <2>1, RequestDropKeeps
<1>4. CASE Collect
  <2>1. Inv'
    BY <1>4, CollectHoldKeeps, CollectPrerequisitesKeeps, CollectDependencyKeeps,
       CollectReplacedKeeps, FinishCollectionKeeps, VisitDependencyKeeps,
       VisitDependentKeeps, SettleKeeps, OrderKeeps, InsertPackageKeeps DEF Collect
  <2> QED
    BY <1>4, <2>1, CollectStays
<1>5. CASE AdjustCommandLine
  <2>1. Inv'
    BY <1>5, RefineKeeps, AdjustKeeps, StartSearchKeeps, TryReplaceKeeps,
       ConsiderVersionKeeps, NothingOfferedKeeps, TryOthersKeeps, TryDependentsKeeps,
       GiveUpKeeps, KeepAdjustmentKeeps, DropAdjustmentKeeps DEF AdjustCommandLine
  <2> QED
    BY <1>5, <2>1, AdjustStays
<1>6. CASE Drop
  <2>1. Inv'
    BY <1>6, FilterKeeps, FilterPrerequisiteKeeps, ExecuteDropKeeps DEF Drop
  <2>2. UNCHANGED selected
    BY <1>6 DEF Drop, Filter, FilterPrerequisite, ExecuteDrop, Staying
  <2> QED
    BY <2>1, <2>2
<1>7. CASE Execute
  BY <1>7, ExecuteKeeps
<1>8. CASE Interrupt
  <2>1. UNCHANGED selected
    BY <1>8 DEF Interrupt
  <2> QED
    BY <1>8, <2>1, InterruptKeeps
<1>9. CASE FailDisfigure
  BY <1>9, FailDisfigureStep DEF Config!Next
<1>10. CASE FailConfigure
  BY <1>10, FailConfigureStep DEF Config!Next
<1>11. CASE \E p \in Pkgs : PurgeBroken(p)
  <2>1. PICK p \in Pkgs : PurgeBroken(p)
    BY <1>11
  <2> QED
    BY <2>1, PurgeBrokenStep DEF Config!Next
<1> QED
  BY <1>1, <1>2, <1>3, <1>4, <1>5, <1>6, <1>7, <1>8, <1>9, <1>10, <1>11 DEF Next

\* What holds throughout a command is kept by every step.
THEOREM Invariance == Spec => []Inv
<1>1. Init => Inv
  BY InitInv
<1>2. Inv /\ [Next]_vars => Inv'
  BY NextKeeps
<1> QED
  BY <1>1, <1>2, PTL DEF Spec

\* pkg-build leaves no dependency that nothing uses and pkg-drop none that was used
\* before: the plan has been refined until its simulation has none, and execute_plan()
\* leaves what has been simulated.
THEOREM NoUnusedLeft == Spec => []UnusedDropped
<1>1. Inv => UnusedDropped
  BY DEF Inv
<1> QED
  BY <1>1, Invariance, PTL

\* Whatever versions are replaced and whatever adjustments are made and dropped, what
\* the user has asked pkg-build for is configured and held, in a version asked for.
THEOREM RequestAlwaysMet == Spec => []RequestMet
<1>1. Inv => RequestMet
  BY DEF Inv
<1> QED
  BY <1>1, Invariance, PTL

\* pkg-build does not execute its plan with an adjustment of the command line that it
\* has found it can do without.
THEOREM AdjustmentsAlwaysNeeded == Spec => []AdjustmentsNeeded
<1>1. Inv => AdjustmentsNeeded
  BY DEF Inv, Judging
<1> QED
  BY <1>1, Invariance, PTL

\* Every transaction of pkg-build and pkg-drop, and whatever a failure makes of it,
\* is a step of ConfiguredPackages; no other action changes a package.
THEOREM KeepsConfiguration == Spec => ConfigurationKept
<1>1. Init => Config!Init
  BY DEF Init, Config!Init, None
<1>2. Inv /\ [Next]_vars => [Config!Next]_selected
  BY NextKeeps
<1> QED
  BY <1>1, <1>2, Invariance, PTL DEF Spec, ConfigurationKept, Config!Spec

\* So the prerequisites of what is configured stay configured, at versions allowed,
\* after every transaction and whatever fails.
THEOREM PrerequisitesAlwaysHeld == Spec => []Config!PrerequisitesHeld
  BY KeepsConfiguration, PrerequisitesStay, PTL DEF ConfigurationKept

---------------------------------------------------------------------------
(* What precedes what in a sequence.                                        *)
\* Each is an element.
LEMMA PrecedesIn ==
    ASSUME NEW T, NEW s \in Seq(T), NEW x, NEW y, Precedes(s, x, y)
    PROVE  x \in ToSet(s) /\ y \in ToSet(s)
<1>1. /\ DOMAIN s = 1..Len(s)
      /\ \A z : z \in ToSet(s) <=> \E i \in 1..Len(s) : s[i] = z
  BY SetOf
<1> QED
  BY <1>1 DEF Precedes

\* Where no element is twice it is an order.
LEMMA PrecedesOrders ==
    ASSUME NEW T, NEW s \in Seq(T), IsInjective(s)
    PROVE  /\ \A i, j \in DOMAIN s : Precedes(s, s[i], s[j]) <=> i < j
           /\ \A x : ~Precedes(s, x, x)
           /\ \A x, y, z : Precedes(s, x, y) /\ Precedes(s, y, z) => Precedes(s, x, z)
<1>1. /\ Len(s) \in Nat /\ DOMAIN s = 1..Len(s)
  BY SetOf
<1>2. \A i, j \in DOMAIN s : s[i] = s[j] => i = j
  BY DEF IsInjective
<1>3. \A i, j \in DOMAIN s : Precedes(s, s[i], s[j]) <=> i < j
  BY <1>2 DEF Precedes
<1>4. \A x : ~Precedes(s, x, x)
  BY <1>1, <1>2 DEF Precedes
<1>5. ASSUME NEW x, NEW y, NEW z, Precedes(s, x, y), Precedes(s, y, z)
      PROVE  Precedes(s, x, z)
  <2>1. PICK i, j \in DOMAIN s : i < j /\ s[i] = x /\ s[j] = y
    BY <1>5 DEF Precedes
  <2>2. PICK k, l \in DOMAIN s : k < l /\ s[k] = y /\ s[l] = z
    BY <1>5 DEF Precedes
  <2>3. j = k
    BY <1>2, <2>1, <2>2
  <2>4. i < l
    BY <1>1, <2>1, <2>2, <2>3
  <2> QED
    BY <2>1, <2>2, <2>4 DEF Precedes
<1> QED
  BY <1>3, <1>4, <1>5

\* What an element more comes after.
LEMMA AppendPrecedes ==
    ASSUME NEW T, NEW s \in Seq(T), NEW e \in T, NEW x, NEW y
    PROVE  Precedes(Append(s, e), x, y) <=> Precedes(s, x, y) \/ (x \in ToSet(s) /\ y = e)
<1> DEFINE a == Append(s, e)
           n == Len(s)
<1>1. /\ a \in Seq(T) /\ Len(a) = n + 1 /\ a[n + 1] = e
      /\ \A i \in 1..n : a[i] = s[i]
  BY AppendSet
<1>2. n \in Nat /\ DOMAIN s = 1..n /\ \A z : z \in ToSet(s) <=> \E i \in 1..n : s[i] = z
  BY SetOf
<1>3. DOMAIN a = 1..n + 1
  BY <1>1, SetOf
<1> HIDE DEF a, n
<1>4. ASSUME Precedes(a, x, y)
      PROVE  Precedes(s, x, y) \/ (x \in ToSet(s) /\ y = e)
  <2>1. PICK i, j \in 1..n + 1 : i < j /\ a[i] = x /\ a[j] = y
    BY <1>3, <1>4 DEF Precedes
  <2>2. i \in 1..n /\ s[i] = x
    BY <1>1, <1>2, <2>1
  <2>3. CASE j = n + 1
    BY <1>1, <1>2, <2>1, <2>2, <2>3
  <2>4. CASE j # n + 1
    <3>1. j \in 1..n /\ s[j] = y
      BY <1>1, <1>2, <2>1, <2>4
    <3> QED
      BY <1>2, <2>1, <2>2, <3>1 DEF Precedes
  <2> QED
    BY <2>3, <2>4
<1>5. ASSUME Precedes(s, x, y)
      PROVE  Precedes(a, x, y)
  <2>1. PICK i, j \in 1..n : i < j /\ s[i] = x /\ s[j] = y
    BY <1>2, <1>5 DEF Precedes
  <2>2. i \in 1..n + 1 /\ j \in 1..n + 1
    BY <1>2
  <2> QED
    BY <1>1, <1>3, <2>1, <2>2 DEF Precedes
<1>6. ASSUME x \in ToSet(s), y = e
      PROVE  Precedes(a, x, y)
  <2>1. PICK i \in 1..n : s[i] = x
    BY <1>2, <1>6
  <2>2. i \in 1..n + 1 /\ n + 1 \in 1..n + 1 /\ i < n + 1
    BY <1>2
  <2> QED
    BY <1>1, <1>3, <1>6, <2>1, <2>2 DEF Precedes
<1> QED
  BY <1>4, <1>5, <1>6 DEF a

\* Those of a sequence that are in a set are in its order.
LEMMA ThosePrecedes ==
    ASSUME NEW T, NEW s \in Seq(T), NEW S
    PROVE  \A x, y : Precedes(Those(s, S), x, y) <=> x \in S /\ y \in S /\ Precedes(s, x, y)
<1>1. Len(s) \in Nat /\ DOMAIN s = 1..Len(s) /\ s \in [1..Len(s) -> T]
  BY LenProperties
<1> DEFINE f == CHOOSE g : Filters(g, s, S, Len(s))
<1>2. Those(s, S) = f[Len(s)]
  BY DEF Those, Filters
<1>3. Filters(f, s, S, Len(s))
  BY <1>1, FilterExists
<1> HIDE DEF f
<1>4. f[0] = <<>>
  BY <1>1, <1>3 DEF Filters
<1>5. ASSUME NEW n \in 0..Len(s), n # 0
      PROVE  f[n] = IF s[n] \in S THEN Append(f[n - 1], s[n]) ELSE f[n - 1]
  BY <1>1, <1>3, <1>5 DEF Filters
<1> DEFINE Upto(n) == {s[i] : i \in 1..n}
           Before(n, x, y) == \E i, j \in 1..n : i < j /\ s[i] = x /\ s[j] = y
           Good(n) == /\ f[n] \in Seq(T)
                      /\ ToSet(f[n]) = Upto(n) \cap S
                      /\ \A x, y : Precedes(f[n], x, y) <=> x \in S /\ y \in S /\ Before(n, x, y)
           N == {n \in Nat : n <= Len(s) => Good(n)}
<1>6. 0 \in N
  <2>1. <<>> \in Seq(T) /\ ToSet(<<>>) = {}
    BY EmptySeq, SetOf
  <2>2. Upto(0) = {} /\ \A x, y : ~Before(0, x, y)
    OBVIOUS
  <2>3. \A x, y : ~Precedes(<<>>, x, y)
    BY DEF Precedes
  <2> QED
    BY <1>4, <2>1, <2>2, <2>3
<1>7. ASSUME NEW n \in Nat, n \in N
      PROVE  n + 1 \in N
  <2> SUFFICES ASSUME n + 1 <= Len(s)
               PROVE  Good(n + 1)
    OBVIOUS
  <2>1. Good(n)
    BY <1>1, <1>7
  <2>2. n + 1 \in 0..Len(s) /\ n + 1 # 0 /\ (n + 1) - 1 = n /\ n + 1 \in 1..Len(s)
    BY <1>1
  <2>3. f[n + 1] = IF s[n + 1] \in S THEN Append(f[n], s[n + 1]) ELSE f[n]
    BY <1>5, <2>2
  <2>4. Upto(n + 1) = Upto(n) \cup {s[n + 1]}
    <3>1. 1..n + 1 = (1..n) \cup {n + 1}
      OBVIOUS
    <3> QED
      BY <3>1
  <2>5. s[n + 1] \in T
    BY <1>1, <2>2
  <2>6. \A x, y : Before(n + 1, x, y) <=> Before(n, x, y) \/ (x \in Upto(n) /\ y = s[n + 1])
    <3> TAKE x, y
    <3>1. ASSUME Before(n + 1, x, y)
          PROVE  Before(n, x, y) \/ (x \in Upto(n) /\ y = s[n + 1])
      <4>1. PICK i, j \in 1..n + 1 : i < j /\ s[i] = x /\ s[j] = y
        BY <3>1
      <4>2. i \in 1..n /\ (j = n + 1 \/ j \in 1..n)
        BY <4>1
      <4> QED
        BY <4>1, <4>2
    <3>2. ASSUME Before(n, x, y)
          PROVE  Before(n + 1, x, y)
      <4>1. \A i \in 1..n : i \in 1..n + 1
        OBVIOUS
      <4> QED
        BY <3>2, <4>1
    <3>3. ASSUME x \in Upto(n), y = s[n + 1]
          PROVE  Before(n + 1, x, y)
      <4>1. PICK i \in 1..n : s[i] = x
        BY <3>3
      <4>2. i \in 1..n + 1 /\ n + 1 \in 1..n + 1 /\ i < n + 1
        OBVIOUS
      <4> QED
        BY <3>3, <4>1, <4>2
    <3> QED
      BY <3>1, <3>2, <3>3
  <2> HIDE DEF Upto, Before
  <2>7. CASE s[n + 1] \in S
    <3>1. /\ Append(f[n], s[n + 1]) \in Seq(T)
          /\ ToSet(Append(f[n], s[n + 1])) = ToSet(f[n]) \cup {s[n + 1]}
      BY <2>1, <2>5, AppendSet
    <3>2. \A x, y : Precedes(Append(f[n], s[n + 1]), x, y) <=>
                       Precedes(f[n], x, y) \/ (x \in ToSet(f[n]) /\ y = s[n + 1])
      BY <2>1, <2>5, AppendPrecedes
    <3> QED
      BY <2>1, <2>3, <2>4, <2>6, <2>7, <3>1, <3>2
  <2>8. CASE s[n + 1] \notin S
    BY <2>1, <2>3, <2>4, <2>6, <2>8
  <2> QED
    BY <2>7, <2>8
<1>8. Nat \subseteq N
  <2> HIDE DEF N
  <2> QED
    BY <1>6, <1>7, SetInduction
<1>9. Good(Len(s))
  <2> HIDE DEF Good
  <2>1. Len(s) <= Len(s)
    BY <1>1
  <2> QED
    BY <1>1, <1>8, <2>1
<1>10. \A x, y : Before(Len(s), x, y) <=> Precedes(s, x, y)
  BY <1>1 DEF Precedes
<1>11. \A x, y : Precedes(f[Len(s)], x, y) <=> x \in S /\ y \in S /\ Before(Len(s), x, y)
  BY <1>9
<1> HIDE DEF Before
<1> QED
  BY <1>2, <1>10, <1>11

\* Reversed, what follows precedes.
LEMMA ReversePrecedes ==
    ASSUME NEW T, NEW s \in Seq(T)
    PROVE  \A x, y : Precedes(Reverse(s), x, y) <=> Precedes(s, y, x)
<1> DEFINE r == Reverse(s)
           n == Len(s)
<1>1. n \in Nat /\ DOMAIN s = 1..n /\ s \in [1..n -> T]
  BY LenProperties
<1>2. DOMAIN r = 1..n /\ \A i \in 1..n : r[i] = s[(n - i) + 1]
  BY <1>1 DEF Reverse
<1> HIDE DEF r, n
<1>3. \A i \in 1..n : (n - i) + 1 \in 1..n /\ (n - ((n - i) + 1)) + 1 = i
  BY <1>1
<1>4. \A i, j \in 1..n : i < j => (n - j) + 1 < (n - i) + 1
  BY <1>1
<1>5. \A i \in 1..n : s[i] = r[(n - i) + 1]
  BY <1>2, <1>3
<1> SUFFICES ASSUME NEW x, NEW y PROVE Precedes(r, x, y) <=> Precedes(s, y, x)
  BY DEF r
<1>6. ASSUME Precedes(r, x, y)
      PROVE  Precedes(s, y, x)
  <2>1. PICK i, j \in 1..n : i < j /\ r[i] = x /\ r[j] = y
    BY <1>2, <1>6 DEF Precedes
  <2> QED
    BY <1>1, <1>2, <1>3, <1>4, <2>1 DEF Precedes
<1>7. ASSUME Precedes(s, y, x)
      PROVE  Precedes(r, x, y)
  <2>1. PICK i, j \in 1..n : i < j /\ s[i] = y /\ s[j] = x
    BY <1>1, <1>7 DEF Precedes
  <2> QED
    BY <1>2, <1>3, <1>4, <1>5, <2>1 DEF Precedes
<1> QED
  BY <1>6, <1>7

\* Where p is put: before the earliest of qs, or at the end.
LEMMA InsertAtOf ==
    ASSUME NEW s \in Seq(Pkgs), NEW p \in Pkgs, NEW qs
    PROVE  \E k \in 1..Len(s) + 1 :
              /\ Insert(s, p, qs) \in Seq(Pkgs) /\ Len(Insert(s, p, qs)) = Len(s) + 1
              /\ \A i \in 1..Len(s) + 1 :
                    Insert(s, p, qs)[i] = IF i < k THEN s[i] ELSE IF i = k THEN p ELSE s[i - 1]
              /\ \A i \in 1..k - 1 : s[i] \notin ToSet(qs)
              /\ k <= Len(s) => s[k] \in ToSet(qs)
<1> DEFINE first == {i \in DOMAIN s : \A j \in 1..i : s[j] \notin ToSet(qs)}
           k == Cardinality(first) + 1
           n == Len(s)
           u == Insert(s, p, qs)
<1>1. n \in Nat /\ DOMAIN s = 1..n /\ \A i \in 1..n : s[i] \in Pkgs
  BY SetOf
<1>2. k \in 1..n + 1 /\ first = 1..k - 1
  <2>1. ASSUME NEW m \in Nat
        PROVE  IsFiniteSet(1..m) /\ Cardinality(1..m) = m
    <3>1. 1 \in Int /\ m \in Int /\ (1 > m => m = 0)
      OBVIOUS
    <3>2. IsFiniteSet(1..m) /\ Cardinality(1..m) = IF 1 > m THEN 0 ELSE m - 1 + 1
      BY <3>1, FS_Interval
    <3> QED
      BY <3>1, <3>2
  <2>2. first \subseteq 1..n
    BY <1>1
  <2>3. ASSUME NEW i \in first
        PROVE  1..i \subseteq first
    BY <1>1
  <2> DEFINE c == Cardinality(first)
  <2> HIDE DEF first, n
  <2>4. IsFiniteSet(first) /\ c <= n
    <3>1. IsFiniteSet(1..n) /\ Cardinality(1..n) = n
      BY <1>1, <2>1
    <3>2. IsFiniteSet(first) /\ Cardinality(first) <= Cardinality(1..n)
      BY <2>2, <3>1, FS_Subset
    <3> QED
      BY <3>1, <3>2
  <2>5. c \in Nat
    BY <2>4, FS_CardinalityType
  <2>6. first \subseteq 1..c
    <3> SUFFICES ASSUME NEW i \in first PROVE i \in 1..c
      OBVIOUS
    <3>1. i \in Nat /\ i >= 1 /\ 1..i \subseteq first
      BY <1>1, <2>2, <2>3
    <3>2. Cardinality(1..i) <= c /\ Cardinality(1..i) = i
      BY <2>1, <2>4, <3>1, FS_Subset
    <3> QED
      BY <2>5, <3>1, <3>2
  <2>7. IsFiniteSet(1..c) /\ Cardinality(1..c) = c
    BY <2>1, <2>5
  <2>8. first = 1..c
    BY <2>6, <2>7, FS_Subset
  <2>9. k = c + 1
    OBVIOUS
  <2> HIDE DEF c, k
  <2> QED
    BY <1>1, <2>4, <2>5, <2>8, <2>9
<1>3. u = SubSeq(s, 1, k - 1) \o <<p>> \o SubSeq(s, k, n)
  BY DEF Insert, InsertAt
<1>4. /\ \A i \in 1..k - 1 : s[i] \notin ToSet(qs)
      /\ k <= n => s[k] \in ToSet(qs)
  <2>1. \A i \in first : s[i] \notin ToSet(qs)
    BY <1>1
  <2>2. ASSUME k <= n, s[k] \notin ToSet(qs)
        PROVE  FALSE
    <3>1. k \in 1..n /\ \A j \in 1..k : j = k \/ j \in 1..k - 1
      <4> HIDE DEF first, k
      <4> QED
        BY <1>1, <1>2, <2>2
    <3>2. \A j \in 1..k : s[j] \notin ToSet(qs)
      <4> HIDE DEF first, k
      <4> QED
        BY <1>2, <2>1, <2>2, <3>1
    <3>3. k \in first
      <4>1. \A i \in 1..n : (\A j \in 1..i : s[j] \notin ToSet(qs)) => i \in first
        BY <1>1
      <4> HIDE DEF first, k
      <4> QED
        BY <3>1, <3>2, <4>1
    <3>4. k \notin 1..k - 1
      <4> HIDE DEF k
      <4> QED
        BY <1>1, <1>2
    <3> HIDE DEF first, k
    <3> QED
      BY <1>2, <3>3, <3>4
  <2> HIDE DEF first, k
  <2> QED
    BY <1>2, <2>1, <2>2
<1> HIDE DEF k, u, first
<1>5. /\ SubSeq(s, 1, k - 1) \in Seq(Pkgs) /\ SubSeq(s, k, n) \in Seq(Pkgs)
      /\ Len(SubSeq(s, 1, k - 1)) = k - 1 /\ Len(SubSeq(s, k, n)) = n - k + 1
      /\ \A i \in 1..k - 1 : SubSeq(s, 1, k - 1)[i] = s[i]
      /\ \A i \in 1..n - k + 1 : SubSeq(s, k, n)[i] = s[k + i - 1]
  BY <1>1, <1>2
<1>6. /\ u \in Seq(Pkgs) /\ Len(u) = n + 1
      /\ \A i \in 1..n + 1 : u[i] = IF i < k THEN s[i] ELSE IF i = k THEN p ELSE s[i - 1]
  <2> DEFINE a == SubSeq(s, 1, k - 1)
             b == SubSeq(s, k, n)
             c == a \o <<p>>
  <2>1. /\ a \in Seq(Pkgs) /\ b \in Seq(Pkgs) /\ Len(a) = k - 1 /\ Len(b) = n - k + 1
        /\ \A i \in 1..k - 1 : a[i] = s[i]
        /\ \A i \in 1..n - k + 1 : b[i] = s[k + i - 1]
    BY <1>5
  <2>2. <<p>> \in Seq(Pkgs) /\ Len(<<p>>) = 1 /\ <<p>>[1] = p
    BY PairOf
  <2>3. u = c \o b
    BY <1>3
  <2> HIDE DEF a, b
  <2>4. /\ c \in Seq(Pkgs) /\ Len(c) = Len(a) + Len(<<p>>)
        /\ \A i \in 1..Len(a) + Len(<<p>>) :
              c[i] = IF i <= Len(a) THEN a[i] ELSE <<p>>[i - Len(a)]
    BY <2>1, <2>2, ConcatProperties
  <2> HIDE DEF c
  <2>5. /\ c \in Seq(Pkgs) /\ Len(c) = k
        /\ \A i \in 1..k : c[i] = IF i < k THEN s[i] ELSE p
    <3>1. Len(c) = k
      BY <1>1, <1>2, <2>1, <2>2, <2>4
    <3> SUFFICES ASSUME NEW i \in 1..k PROVE c[i] = IF i < k THEN s[i] ELSE p
      BY <2>4, <3>1
    <3>2. CASE i < k
      <4>1. i \in 1..k - 1 /\ i \in 1..Len(a) + Len(<<p>>) /\ i <= Len(a)
        BY <1>1, <1>2, <2>1, <2>2, <3>2
      <4> QED
        BY <2>1, <2>4, <3>2, <4>1
    <3>3. CASE ~(i < k)
      <4>1. i - Len(a) = 1 /\ i \in 1..Len(a) + Len(<<p>>) /\ ~(i <= Len(a))
        BY <1>1, <1>2, <2>1, <2>2, <3>3
      <4> QED
        BY <2>2, <2>4, <3>3, <4>1
    <3> QED
      BY <3>2, <3>3
  <2>6. /\ u \in Seq(Pkgs) /\ Len(u) = Len(c) + Len(b)
        /\ \A i \in 1..Len(c) + Len(b) :
              u[i] = IF i <= Len(c) THEN c[i] ELSE b[i - Len(c)]
    BY <2>1, <2>3, <2>5, ConcatProperties
  <2>7. Len(c) + Len(b) = n + 1
    BY <1>1, <1>2, <2>1, <2>5
  <2>8. ASSUME NEW i \in 1..n + 1
        PROVE  u[i] = IF i < k THEN s[i] ELSE IF i = k THEN p ELSE s[i - 1]
    <3>1. CASE i <= k
      <4>1. i \in 1..k
        BY <1>1, <1>2, <3>1
      <4>2. u[i] = c[i] /\ c[i] = IF i < k THEN s[i] ELSE p
        BY <2>5, <2>6, <2>7, <3>1, <4>1
      <4> QED
        BY <1>1, <1>2, <3>1, <4>2
    <3>2. CASE ~(i <= k)
      <4>1. i - k \in 1..n - k + 1 /\ k + (i - k) - 1 = i - 1 /\ ~(i < k) /\ i # k
        BY <1>1, <1>2, <3>2
      <4>2. u[i] = b[i - k]
        BY <2>5, <2>6, <2>7, <3>2
      <4>3. b[i - k] = s[k + (i - k) - 1]
        BY <2>1, <4>1
      <4> QED
        BY <4>1, <4>2, <4>3
    <3> QED
      BY <3>1, <3>2
  <2> QED
    BY <2>6, <2>7, <2>8
<1> QED
  BY <1>2, <1>4, <1>6 DEF u, n

\* The others stay in their order, p precedes what it is put before, and what
\* precedes all that precedes p.
LEMMA InsertPrecedes ==
    ASSUME NEW s \in Seq(Pkgs), NEW p \in Pkgs, IsInjective(s), NEW qs
    PROVE  /\ \A x, y : Precedes(s, x, y) => Precedes(Insert(s, p, qs), x, y)
           /\ \A q \in ToSet(qs) : q \in ToSet(s) => Precedes(Insert(s, p, qs), p, q)
           /\ \A x \in ToSet(s) :
                 (\A q \in ToSet(qs) : Precedes(s, x, q)) => Precedes(Insert(s, p, qs), x, p)
<1> DEFINE n == Len(s)
           u == Insert(s, p, qs)
<1>1. /\ n \in Nat /\ DOMAIN s = 1..n
      /\ \A x : x \in ToSet(s) <=> \E i \in 1..n : s[i] = x
  BY SetOf
<1>2. PICK k \in 1..n + 1 :
         /\ u \in Seq(Pkgs) /\ Len(u) = n + 1
         /\ \A i \in 1..n + 1 : u[i] = IF i < k THEN s[i] ELSE IF i = k THEN p ELSE s[i - 1]
         /\ \A i \in 1..k - 1 : s[i] \notin ToSet(qs)
         /\ k <= n => s[k] \in ToSet(qs)
  BY InsertAtOf
<1> HIDE DEF n, u
<1>3. DOMAIN u = 1..n + 1
  BY <1>2, SetOf
<1>4. \A i \in 1..n : /\ i < k => i \in 1..n + 1 /\ u[i] = s[i]
                      /\ ~(i < k) => i + 1 \in 1..n + 1 /\ k < i + 1 /\ u[i + 1] = s[i]
  <2> SUFFICES ASSUME NEW i \in 1..n
               PROVE  /\ i < k => i \in 1..n + 1 /\ u[i] = s[i]
                      /\ ~(i < k) => i + 1 \in 1..n + 1 /\ k < i + 1 /\ u[i + 1] = s[i]
    OBVIOUS
  <2>1. /\ i \in 1..n + 1 /\ i + 1 \in 1..n + 1 /\ (i + 1) - 1 = i
        /\ ~(i < k) => k < i + 1 /\ ~(i + 1 < k) /\ i + 1 # k
    BY <1>1
  <2> QED
    BY <1>2, <2>1
<1>5. k \in 1..n + 1 /\ u[k] = p
  BY <1>1, <1>2
<1>6. ASSUME NEW x, NEW y, Precedes(s, x, y)
      PROVE  Precedes(u, x, y)
  <2>1. PICK i, j \in 1..n : i < j /\ s[i] = x /\ s[j] = y
    BY <1>1, <1>6 DEF Precedes
  <2>2. CASE i < k /\ j < k
    BY <1>3, <1>4, <2>1, <2>2 DEF Precedes
  <2>3. CASE i < k /\ ~(j < k)
    <3>1. i < j + 1
      BY <1>1, <2>1
    <3> QED
      BY <1>3, <1>4, <2>1, <2>3, <3>1 DEF Precedes
  <2>4. CASE ~(i < k)
    <3>1. i + 1 < j + 1 /\ ~(j < k)
      BY <1>1, <2>1, <2>4
    <3> QED
      BY <1>3, <1>4, <2>1, <2>4, <3>1 DEF Precedes
  <2> QED
    BY <2>2, <2>3, <2>4
<1>7. ASSUME NEW q \in ToSet(qs), q \in ToSet(s)
      PROVE  Precedes(u, p, q)
  <2>1. PICK i \in 1..n : s[i] = q
    BY <1>1, <1>7
  <2>2. ~(i < k)
    <3>1. i < k => i \in 1..k - 1
      BY <1>1
    <3> QED
      BY <1>2, <1>7, <2>1, <3>1
  <2> QED
    BY <1>3, <1>4, <1>5, <2>1, <2>2 DEF Precedes
<1>8. ASSUME NEW x \in ToSet(s), \A q \in ToSet(qs) : Precedes(s, x, q)
      PROVE  Precedes(u, x, p)
  <2>1. PICK i \in 1..n : s[i] = x /\ i < k
    <3>1. CASE k <= n
      <4>1. Precedes(s, x, s[k])
        BY <1>2, <1>8, <3>1
      <4>2. k \in 1..n
        BY <1>1, <3>1
      <4>3. PICK i, j \in 1..n : i < j /\ s[i] = x /\ s[j] = s[k]
        BY <1>1, <4>1 DEF Precedes
      <4>4. j = k
        BY <1>1, <4>2, <4>3 DEF IsInjective
      <4> QED
        BY <4>3, <4>4
    <3>2. CASE ~(k <= n)
      <4>1. \A i \in 1..n : i < k
        BY <1>1, <3>2
      <4> QED
        BY <1>1, <4>1
    <3> QED
      BY <3>1, <3>2
  <2> QED
    BY <1>3, <1>4, <1>5, <2>1 DEF Precedes
<1> QED
  BY <1>6, <1>7, <1>8 DEF u

---------------------------------------------------------------------------
(* Every package is put before all that has to be after it.                 *)
\* What has to be after a package is given by the map.
LEMMA SameAfter ==
    ASSUME UNCHANGED <<world, before, col>>
    PROVE  \A p : After(p)' = After(p)
BY DEF After

\* The next plan and tasks, with the same map.
LEMMA ArrangingTo ==
    ASSUME UNCHANGED <<world, before, col>>, Placed(plan', ToSet(tasks')),
           Prepared(ToSet(plan'), tasks')
    PROVE  Arranging'
<1>1. \A p : After(p)' = After(p)
  BY SameAfter
<1>2. Placed(plan, ToSet(tasks))'
  BY <1>1 DEF Placed
<1>3. Prepared(ToSet(plan), tasks)'
  <2>1. \A i : After(tasks[i].name)' = After(tasks'[i].name)
    BY <1>1 DEF After
  <2> QED
    BY <2>1 DEF Prepared
<1> QED
  BY <1>2, <1>3 DEF Arranging

\* Without tasks that insert all is in its place.
LEMMA ArrangedOf ==
    ASSUME Arranging, phase \in Planning, \A t \in ToSet(tasks) : t.op # "insert"
    PROVE  \A x \in ToSet(plan) : \A y \in After(x) : Precedes(plan, x, y)
BY DoOf DEF Arranging, Placed

\* Before a package is moved there are none.
LEMMA MovesAlone ==
    ASSUME tasks \in Seq(TaskRecords), tasks # <<>>, Head(tasks).op = "reorder", Arranging,
           phase \in Planning
    PROVE  \A t \in ToSet(tasks) : t.op # "insert"
<1>1. /\ DOMAIN tasks = 1..Len(tasks) /\ Head(tasks) = tasks[1] /\ Len(tasks) \in Nat
      /\ \A t \in ToSet(tasks) : \E i \in 1..Len(tasks) : tasks[i] = t
  BY SetOf, TailSet
<1> SUFFICES ASSUME NEW i \in 1..Len(tasks), tasks[i].op = "insert" PROVE FALSE
  BY <1>1
<1>2. \A j \in 1..(i - 1) : tasks[j].op # "reorder"
  BY <1>1 DEF Arranging, Prepared
<1>3. i # 1
  BY <1>1
<1>4. 1 \in 1..(i - 1)
  BY <1>1, <1>3
<1> QED
  BY <1>1, <1>2, <1>4

\* The tasks that remain come as they did.
LEMMA TailArranges ==
    ASSUME Arranging, phase \in Planning, tasks \in Seq(TaskRecords), tasks # <<>>,
           NEW r, r = Tail(tasks),
           NEW ps, ToSet(plan) \subseteq ps, Head(tasks).name \in ps
    PROVE  Prepared(ps, r)
<1> DEFINE n == Len(tasks)
<1>1. /\ n \in Nat /\ n > 0 /\ DOMAIN tasks = 1..n /\ Head(tasks) = tasks[1]
      /\ r \in Seq(TaskRecords) /\ Len(r) = n - 1
      /\ \A i \in 1..n - 1 : r[i] = tasks[i + 1]
  BY SetOf, TailSet
<1>2. DOMAIN r = 1..n - 1
  BY <1>1, SetOf
<1>3. \A i \in 1..n : tasks[i].op = "insert" =>
         /\ \A y \in After(tasks[i].name) : y \in ToSet(plan) \/ \E j \in 1..(i - 1) : tasks[j].name = y
         /\ \A j \in 1..(i - 1) : tasks[j].op # "reorder"
  BY <1>1 DEF Arranging, Prepared
<1> HIDE DEF n
<1> SUFFICES ASSUME NEW i \in 1..n - 1, r[i].op = "insert"
             PROVE  /\ \A y \in After(r[i].name) :
                          y \in ps \/ \E j \in 1..(i - 1) : r[j].name = y
                    /\ \A j \in 1..(i - 1) : r[j].op # "reorder"
  BY <1>2 DEF Prepared
<1>5. i + 1 \in 1..n /\ r[i] = tasks[i + 1] /\ (i + 1) - 1 = i
  BY <1>1
<1>6. ASSUME NEW y \in After(r[i].name), y \notin ps
      PROVE  \E j \in 1..(i - 1) : r[j].name = y
  <2>1. \E j \in 1..((i + 1) - 1) : tasks[j].name = y
    BY <1>3, <1>5, <1>6
  <2>2. PICK j \in 1..i : tasks[j].name = y
    BY <1>5, <2>1
  <2>3. j # 1
    BY <1>1, <1>6, <2>2
  <2>4. j - 1 \in 1..i - 1 /\ j - 1 \in 1..n - 1 /\ (j - 1) + 1 = j
    BY <1>1, <2>3
  <2>5. r[j - 1] = tasks[j]
    BY <1>1, <2>4
  <2> QED
    BY <2>2, <2>4, <2>5
<1>7. ASSUME NEW j \in 1..(i - 1)
      PROVE  r[j].op # "reorder"
  <2>1. j + 1 \in 1..i /\ j \in 1..n - 1
    BY <1>1
  <2> QED
    BY <1>1, <1>3, <1>5, <2>1
<1> QED
  BY <1>6, <1>7

\* What is ordered anew leaves the rest in its place.
LEMMA OrderPlans ==
    ASSUME Arranging, phase \in Planning, plan \in Seq(Pkgs), IsInjective(plan),
           tasks \in Seq(TaskRecords), tasks # <<>>,
           NEW p \in Pkgs, Head(tasks).op \in {"order", "reorder"},
           p \in ToSet(plan) => Head(tasks).op = "reorder",
           NEW after, after = Those(plan, Pkgs \ {p}),
           NEW ts, Do("insert", p) \in ts, ToSet(Tail(tasks)) \subseteq ts
    PROVE  Placed(after, ts)
<1>1. \A x, y : Precedes(after, x, y) <=> x # p /\ y # p /\ Precedes(plan, x, y)
  <2>1. \A x, y : Precedes(plan, x, y) => x \in Pkgs /\ y \in Pkgs
    BY PrecedesIn, SetOf
  <2> QED
    BY <2>1, ThosePrecedes
<1>2. \A x \in ToSet(after) : x \in ToSet(plan) /\ x # p
  BY ThoseOf
<1>3. /\ \A x : ~Precedes(plan, x, x)
      /\ \A x, y, z : Precedes(plan, x, y) /\ Precedes(plan, y, z) => Precedes(plan, x, z)
  BY PrecedesOrders
<1>4. ToSet(tasks) = {Head(tasks)} \cup ToSet(Tail(tasks))
  BY TailSet
<1> SUFFICES ASSUME NEW x \in ToSet(after), NEW y \in After(x)
             PROVE  \/ Precedes(after, x, y)
                    \/ Do("insert", y) \in ts /\ \A z \in After(y) : Precedes(after, x, z)
  BY DEF Placed
<1>5. \/ Precedes(plan, x, y)
      \/ Do("insert", y) \in ToSet(tasks) /\ \A z \in After(y) : Precedes(plan, x, z)
  BY <1>2 DEF Arranging, Placed
<1>6. CASE Precedes(plan, x, y) /\ y # p
  BY <1>1, <1>2, <1>6
<1>7. CASE Precedes(plan, x, y) /\ y = p
  <2>1. p \in ToSet(plan)
    BY <1>7, PrecedesIn
  <2>2. \A t \in ToSet(tasks) : t.op # "insert"
    BY <2>1, MovesAlone
  <2>3. \A z \in After(p) : Precedes(plan, p, z)
    BY <2>1, <2>2, ArrangedOf
  <2>4. \A z \in After(p) : Precedes(plan, x, z) /\ z # p
    BY <1>3, <1>7, <2>3
  <2> QED
    BY <1>1, <1>2, <1>7, <2>4
<1>8. CASE Do("insert", y) \in ToSet(tasks) /\ \A z \in After(y) : Precedes(plan, x, z)
  <2>1. ~\A t \in ToSet(tasks) : t.op # "insert"
    BY <1>8, DoOf
  <2>2. Head(tasks).op = "order"
    BY <2>1, MovesAlone
  <2>3. p \notin ToSet(plan)
    BY <2>2
  <2>4. \A z \in After(y) : z # p
    BY <1>8, <2>3, PrecedesIn
  <2>5. Do("insert", y) \in ToSet(Tail(tasks))
    BY <1>4, <1>8, <2>2, DoOf
  <2> QED
    BY <1>1, <1>2, <1>8, <2>4, <2>5
<1> QED
  BY <1>5, <1>6, <1>7, <1>8

\* The packages it has to be before are ordered first.
LEMMA OrderTasks ==
    ASSUME Arranging, phase \in Planning, tasks \in Seq(TaskRecords), tasks # <<>>,
           NEW p \in Pkgs, Head(tasks).name = p,
           NEW os \in Seq(Pkgs), ToSet(os) = After(p),
           NEW ps, ToSet(plan) \subseteq ps \cup {p},
           NEW ts, ts = (Tasks("order", os) \o <<Do("insert", p)>>) \o Tail(tasks)
    PROVE  Prepared(ps, ts)
<1> DEFINE m == Len(os)
           n == Len(tasks)
           first == Tasks("order", os)
           insert == Do("insert", p)
           rest == Tail(tasks)
<1>1. /\ n \in Nat /\ n > 0 /\ DOMAIN tasks = 1..n /\ Head(tasks) = tasks[1]
      /\ rest \in Seq(TaskRecords) /\ Len(rest) = n - 1
      /\ \A i \in 1..n - 1 : rest[i] = tasks[i + 1]
  BY SetOf, TailSet
<1>2. /\ m \in Nat /\ DOMAIN os = 1..m
      /\ \A y \in After(p) : \E i \in 1..m : os[i] = y
  BY SetOf
<1>3. /\ first \in Seq(TaskRecords) /\ Len(first) = m
      /\ \A i \in 1..m : first[i].op = "order" /\ first[i].name = os[i]
  <2>1. first \in Seq(TaskRecords)
    BY TasksOf
  <2>2. DOMAIN first = 1..m /\ \A i \in 1..m : first[i] = Do("order", os[i])
    BY <1>2 DEF Tasks
  <2>3. DOMAIN first = 1..Len(first) /\ Len(first) \in Nat
    BY <2>1, SetOf
  <2> HIDE DEF first, m
  <2>4. Len(first) = m
    BY <1>2, <2>2, <2>3
  <2> QED
    BY <2>1, <2>2, <2>4, DoOf
<1>4. insert \in TaskRecords /\ insert.op = "insert" /\ insert.name = p
  BY InsertTask
<1> HIDE DEF first, insert, rest
<1>5. /\ ts \in Seq(TaskRecords) /\ Len(ts) = m + 1 + (n - 1)
      /\ \A i \in 1..m : ts[i] = first[i]
      /\ ts[m + 1] = insert
      /\ \A i \in 1..n - 1 : ts[m + 1 + i] = rest[i]
  <2>1. ts = (first \o <<insert>>) \o rest
    BY DEF first, insert, rest
  <2> DEFINE last == <<insert>>
  <2>2. last \in Seq(TaskRecords) /\ Len(last) = 1 /\ last[1] = insert
    BY <1>4
  <2> DEFINE b == first \o last
             r == n - 1
  <2>3. Len(first) = m /\ Len(rest) = r /\ m \in Nat /\ r \in Nat
    BY <1>1, <1>2, <1>3
  <2>4. ts = b \o rest
    BY <2>1
  <2> HIDE DEF last, m, r
  <2>5. /\ b \in Seq(TaskRecords) /\ Len(b) = m + Len(last)
        /\ \A i \in 1..m + Len(last) : b[i] = IF i <= m THEN first[i] ELSE last[i - m]
    <3>1. /\ b \in Seq(TaskRecords) /\ Len(b) = Len(first) + Len(last)
          /\ \A i \in 1..Len(first) + Len(last) :
                b[i] = IF i <= Len(first) THEN first[i] ELSE last[i - Len(first)]
      BY <1>3, <2>2, ConcatProperties
    <3> QED
      BY ONLY <2>3, <3>1
  <2> HIDE DEF b
  <2>6. Len(b) = m + 1 /\ (\A i \in 1..m : b[i] = first[i]) /\ b[m + 1] = insert
    <3>1. \A i \in 1..m : i \in 1..m + 1 /\ i <= m
      BY <2>3
    <3>2. m + 1 \in 1..m + 1 /\ ~(m + 1 <= m) /\ (m + 1) - m = 1
      BY <2>3
    <3> QED
      BY <2>2, <2>5, <3>1, <3>2
  <2>7. /\ ts \in Seq(TaskRecords) /\ Len(ts) = Len(b) + r
        /\ \A i \in 1..Len(b) + r : ts[i] = IF i <= Len(b) THEN b[i] ELSE rest[i - Len(b)]
    <3> DEFINE u == b \o rest
    <3>1. /\ u \in Seq(TaskRecords) /\ Len(u) = Len(b) + Len(rest)
          /\ \A i \in 1..Len(b) + Len(rest) :
                u[i] = IF i <= Len(b) THEN b[i] ELSE rest[i - Len(b)]
      BY <1>1, <2>5, ConcatProperties
    <3>2. ts = u
      BY <2>4
    <3> HIDE DEF u
    <3> QED
      BY ONLY <2>3, <3>1, <3>2
  <2>8. \A i \in 1..m : i \in 1..m + 1 + r /\ i <= m + 1
    BY <2>3
  <2>9. m + 1 \in 1..m + 1 + r /\ m + 1 <= m + 1
    BY <2>3
  <2>10. \A i \in 1..r : /\ m + 1 + i \in 1..m + 1 + r /\ ~(m + 1 + i <= m + 1)
                         /\ (m + 1 + i) - (m + 1) = i
    BY <2>3
  <2>11. \A i \in 1..m + 1 + r : ts[i] = IF i <= m + 1 THEN b[i] ELSE rest[i - (m + 1)]
    BY <2>6, <2>7
  <2>12. \A i \in 1..m : ts[i] = first[i]
    BY <2>6, <2>8, <2>11
  <2>13. ts[m + 1] = insert
    BY <2>6, <2>9, <2>11
  <2>14. \A i \in 1..r : ts[m + 1 + i] = rest[i]
    BY <2>10, <2>11
  <2>15. ts \in Seq(TaskRecords) /\ Len(ts) = m + 1 + r
    BY <2>6, <2>7
  <2> QED
    BY <2>12, <2>13, <2>14, <2>15 DEF r
<1>6. DOMAIN ts = 1..m + n
  <2>1. DOMAIN ts = 1..Len(ts)
    BY <1>5, SetOf
  <2>2. m + 1 + (n - 1) = m + n
    BY <1>1, <1>2
  <2> QED
    BY <1>5, <2>1, <2>2
<1>7. \A i \in 1..n : tasks[i].op = "insert" =>
         /\ \A y \in After(tasks[i].name) :
               y \in ToSet(plan) \/ \E j \in 1..(i - 1) : tasks[j].name = y
         /\ \A j \in 1..(i - 1) : tasks[j].op # "reorder"
  BY <1>1 DEF Arranging, Prepared
<1> HIDE DEF m, n
<1>8. \A i \in 1..m + n : \/ i \in 1..m
                          \/ i = m + 1
                          \/ \E k \in 2..n : i = m + k
  <2> SUFFICES ASSUME NEW i \in 1..m + n, i \notin 1..m, i # m + 1
               PROVE  \E k \in 2..n : i = m + k
    OBVIOUS
  <2>1. i - m \in 2..n /\ i = m + (i - m)
    BY <1>1, <1>2
  <2> QED
    BY <2>1
<1>9. \A k \in 2..n : ts[m + k] = tasks[k]
  <2> SUFFICES ASSUME NEW k \in 2..n PROVE ts[m + k] = tasks[k]
    OBVIOUS
  <2>1. k - 1 \in 1..n - 1 /\ m + 1 + (k - 1) = m + k /\ (k - 1) + 1 = k
    BY <1>1, <1>2
  <2>2. ts[m + 1 + (k - 1)] = rest[k - 1]
    BY <1>5, <2>1
  <2>3. rest[k - 1] = tasks[(k - 1) + 1]
    BY <1>1, <2>1
  <2> QED
    BY <2>1, <2>2, <2>3
<1>10. \A i \in 1..m : ts[i].op = "order" /\ ts[i].name = os[i]
  BY <1>3, <1>5
<1>11. ts[m + 1].op = "insert" /\ ts[m + 1].name = p
  BY <1>4, <1>5
<1> SUFFICES ASSUME NEW i \in 1..m + n, ts[i].op = "insert"
             PROVE  /\ \A y \in After(ts[i].name) : y \in ps \/ \E j \in 1..(i - 1) : ts[j].name = y
                    /\ \A j \in 1..(i - 1) : ts[j].op # "reorder"
  BY <1>6 DEF Prepared
<1>12. CASE i \in 1..m
  BY <1>10, <1>12
<1>13. CASE i = m + 1
  <2>1. i - 1 = m
    BY <1>2, <1>13
  <2>2. ASSUME NEW y \in After(p)
        PROVE  \E j \in 1..m : ts[j].name = y
    <3>1. PICK j \in 1..m : os[j] = y
      BY <1>2
    <3>2. ts[j].name = os[j]
      BY <1>10
    <3> QED
      BY <3>1, <3>2
  <2>3. \A j \in 1..m : ts[j].op # "reorder"
    BY <1>10
  <2>4. ts[i].name = p
    BY <1>11, <1>13
  <2> QED
    BY <2>1, <2>2, <2>3, <2>4
<1>14. ASSUME NEW k \in 2..n, i = m + k
       PROVE  /\ \A y \in After(ts[i].name) : y \in ps \/ \E j \in 1..(i - 1) : ts[j].name = y
              /\ \A j \in 1..(i - 1) : ts[j].op # "reorder"
  <2>1. ts[i] = tasks[k] /\ k \in 1..n
    <3>1. k \in 1..n
      BY <1>1
    <3>2. ts[m + k] = tasks[k]
      BY <1>9
    <3> QED
      BY <1>14, <3>1, <3>2
  <2>2. /\ \A y \in After(ts[i].name) :
              y \in ToSet(plan) \/ \E j \in 1..(k - 1) : tasks[j].name = y
        /\ \A j \in 1..(k - 1) : tasks[j].op # "reorder"
    BY <1>7, <2>1
  <2>3. m + 1 \in 1..(i - 1)
    BY <1>1, <1>2, <1>14
  <2>4. ASSUME NEW y \in After(ts[i].name), y \notin ps
        PROVE  \E j \in 1..(i - 1) : ts[j].name = y
    <3>1. CASE y = p
      BY <1>11, <2>3, <3>1
    <3>2. CASE y # p
      <4>1. PICK j \in 1..(k - 1) : tasks[j].name = y
        BY <2>2, <2>4, <3>2
      <4>2. j # 1
        BY <1>1, <3>2, <4>1
      <4>3. j \in 2..n /\ m + j \in 1..(i - 1)
        BY <1>1, <1>2, <1>14, <4>2
      <4> QED
        BY <1>9, <4>1, <4>3
    <3> QED
      BY <3>1, <3>2
  <2>5. ASSUME NEW j \in 1..(i - 1)
        PROVE  ts[j].op # "reorder"
    <3>1. j \in 1..m + n
      BY <1>1, <1>2
    <3>2. CASE \E l \in 2..n : j = m + l
      <4>1. PICK l \in 2..n : j = m + l
        BY <3>2
      <4>2. l \in 1..(k - 1)
        BY <1>1, <1>2, <1>14, <4>1
      <4> QED
        BY <1>9, <2>2, <4>1, <4>2
    <3> QED
      BY <1>8, <1>10, <1>11, <3>1, <3>2
  <2> QED
    BY <2>4, <2>5
<1> QED
  BY <1>8, <1>12, <1>13, <1>14

\* A package is ordered: once what it has to be before is.
LEMMA OrderArranges ==
    ASSUME Inv, Arranging, Order
    PROVE  Arranging'
<1> DEFINE p == Head(tasks).name
           os == Ordered(world, selected, col.bm, p)
           insert == Do("insert", p)
           more == Tasks("order", os) \o <<insert>>
<1>1. PICK op \in {"order", "reorder"} : Task(op)
  BY DEF Order
<1>2. /\ phase # "idle" /\ tasks # <<>> /\ Head(tasks) \in TaskRecords
      /\ Head(tasks).op = op /\ op \in Ops(phase)
  BY <1>1, HeadOf
<1>3. phase = "order" /\ phase \in Planning
  BY <1>2 DEF Ops, Planning
<1>4. p \in Pkgs
  BY <1>2, TaskOf
<1>5. /\ tasks \in Seq(TaskRecords) /\ selected = before
      /\ plan \in Seq(Pkgs) /\ IsInjective(plan)
      /\ Once(tasks, Inserts)
      /\ \A q \in Acted(col.bm) : Ordered(world, selected, col.bm, q) \in Seq(Pkgs)
  BY <1>3, OrderWork
<1>6. CASE FailAssertion \/ Fail
  <2>1. phase' = "idle"
    BY <1>6 DEF FailAssertion, Fail, Ends, Finish
  <2> QED
    BY <2>1 DEF Arranging, Planning, Stages
<1>7. CASE /\ p \in ToSet(plan) /\ More(<<>>)
           /\ UNCHANGED <<phase, line, judged, col, search, deps, initial, iterations, plan>>
           /\ Staying
  <2>1. tasks' = Tail(tasks) /\ ToSet(tasks) = {Head(tasks)} \cup ToSet(tasks')
    BY <1>2, <1>5, <1>7, TailTasks
  <2>2. CASE op = "order"
    <3> DEFINE r == Tail(tasks)
    <3>1. Prepared(ToSet(plan), r)
      BY <1>2, <1>3, <1>5, <1>7, TailArranges
    <3>2. tasks' = r
      BY <2>1
    <3> HIDE DEF r
    <3>3. Placed(plan, ToSet(tasks'))
      <4>1. \A y : Do("insert", y) \in ToSet(tasks) => Do("insert", y) \in ToSet(tasks')
        BY <1>2, <2>1, <2>2, DoOf
      <4> QED
        BY <1>3, <4>1 DEF Arranging, Placed
    <3>4. plan' = plan /\ UNCHANGED <<world, before, col>>
      BY <1>7 DEF Staying
    <3> QED
      BY <3>1, <3>2, <3>3, <3>4, ArrangingTo
  <2>3. CASE op = "reorder"
    <3>1. \A t \in ToSet(tasks) : t.op # "insert"
      BY <1>2, <1>3, <1>5, <2>3, MovesAlone
    <3>2. \A x \in ToSet(plan) : \A y \in After(x) : Precedes(plan, x, y)
      BY <1>3, <3>1, ArrangedOf
    <3>3. \A t \in ToSet(tasks') : t.op # "insert"
      BY <2>1, <3>1
    <3>4. \A i \in DOMAIN tasks' : tasks'[i].op # "insert"
      BY <3>3 DEF ToSet
    <3>5. plan' = plan /\ UNCHANGED <<world, before, col>>
      BY <1>7 DEF Staying
    <3> QED
      BY <3>2, <3>4, <3>5, ArrangingTo DEF Placed, Prepared
  <2> QED
    BY <2>2, <2>3
<1>8. CASE /\ p \in Acted(col.bm) /\ More(more) /\ plan' = Those(plan, Pkgs \ {p})
           /\ p \in ToSet(plan) => ~Task("order")
           /\ UNCHANGED <<phase, line, judged, col, search, deps, initial, iterations>>
           /\ Staying
  <2>1. UNCHANGED <<world, before, col>> /\ tasks' = more \o Tail(tasks)
    BY <1>8 DEF Staying, More
  <2>2. os \in Seq(Pkgs) /\ ToSet(os) = After(p)
    BY <1>5, <1>8 DEF After
  <2>3. Head(tasks).op \in {"order", "reorder"} /\ (p \in ToSet(plan) => Head(tasks).op = "reorder")
    BY <1>1, <1>2, <1>8 DEF Task
  <2> DEFINE ps == ToSet(plan')
             ts == tasks'
             pl == plan'
             tset == ToSet(tasks')
  <2>4. ToSet(plan) \subseteq ps \cup {p}
    <3>1. ToSet(Those(plan, Pkgs \ {p})) = ToSet(plan) \cap (Pkgs \ {p})
      BY <1>5, ThoseOf
    <3>2. ToSet(plan) \subseteq Pkgs
      BY <1>5, SetOf
    <3> QED
      BY <1>8, <3>1, <3>2
  <2>5. Prepared(ps, ts)
    <3>1. Head(tasks).name = p
      OBVIOUS
    <3>2. ts = (Tasks("order", os) \o <<Do("insert", p)>>) \o Tail(tasks)
      BY <2>1
    <3>3. /\ phase \in Planning /\ tasks \in Seq(TaskRecords) /\ tasks # <<>> /\ p \in Pkgs
          /\ os \in Seq(Pkgs) /\ ToSet(os) = After(p)
      BY <1>2, <1>3, <1>4, <1>5, <2>2
    <3> HIDE DEF ts, ps, os, p
    <3> QED
      BY <2>4, <3>1, <3>2, <3>3, OrderTasks
  <2>6. Do("insert", p) \in tset /\ ToSet(Tail(tasks)) \subseteq tset
    <3>1. Tail(tasks) \in Seq(TaskRecords)
      BY <1>2, <1>5, TailSet
    <3>2. Tasks("order", os) \in Seq(TaskRecords)
      BY <2>2, TasksOf
    <3> DEFINE first == Tasks("order", os)
               last == <<insert>>
    <3>3. last \in Seq(TaskRecords) /\ ToSet(last) = {insert}
      <4>1. insert \in TaskRecords
        BY <1>4, InsertTask
      <4> HIDE DEF insert
      <4> QED
        BY <4>1, PairOf, PairSet
    <3>a. more = first \o last
      OBVIOUS
    <3> HIDE DEF insert, os, p, last, first, more
    <3>4. more \in Seq(TaskRecords) /\ insert \in ToSet(more)
      BY <3>2, <3>3, <3>a, ConcatSet DEF first
    <3>5. ToSet(more \o Tail(tasks)) = ToSet(more) \cup ToSet(Tail(tasks))
      BY <3>1, <3>4, ConcatSet
    <3> QED
      BY <2>1, <3>4, <3>5 DEF insert
  <2>7. Placed(pl, tset)
    <3>1. pl = Those(plan, Pkgs \ {p})
      BY <1>8
    <3> HIDE DEF pl, tset, p
    <3> QED
      BY <1>2, <1>3, <1>4, <1>5, <2>3, <2>6, <3>1, OrderPlans
  <2> QED
    BY <2>1, <2>5, <2>7, ArrangingTo
<1> QED
  BY <1>6, <1>7, <1>8 DEF Order

\* What has to be after the package that is inserted is in the plan.
LEMMA InsertPackageArranges ==
    ASSUME Inv, Arranging, InsertPackage
    PROVE  Arranging'
<1> DEFINE p == Head(tasks).name
           os == Ordered(world, selected, col.bm, p)
<1>1. /\ Task("insert") /\ plan' = Insert(plan, p, os) /\ More(<<>>)
      /\ UNCHANGED <<world, selected, req, before, phase, line, judged, col, search, deps>>
  BY DEF InsertPackage, Staying
<1>2. /\ phase # "idle" /\ tasks # <<>> /\ Head(tasks) \in TaskRecords
      /\ Head(tasks).op = "insert" /\ "insert" \in Ops(phase)
      /\ Head(tasks) \in ToSet(tasks)
  BY <1>1, HeadOf
<1>3. phase = "order" /\ phase \in Planning
  BY <1>2 DEF Ops, Planning
<1>4. p \in Pkgs
  BY <1>2, TaskOf
<1>5. /\ tasks \in Seq(TaskRecords) /\ selected = before
      /\ \A t \in ToSet(tasks) : Tasked("order", world, before, line, col, ToSet(plan), t)
      /\ plan \in Seq(Pkgs) /\ IsInjective(plan) /\ Once(tasks, Inserts)
  BY <1>3, OrderWork
<1>6. p \notin ToSet(plan)
  BY <1>2, <1>5 DEF Tasked
<1>7. ToSet(plan') = ToSet(plan) \cup {p}
  BY <1>1, <1>4, <1>5, <1>6, InsertOf
<1>8. tasks' = Tail(tasks) /\ ToSet(tasks) = {Head(tasks)} \cup ToSet(tasks')
  BY <1>1, <1>2, <1>5, TailTasks
<1>9. ToSet(os) = After(p)
  BY <1>5 DEF After
<1>10. \A y \in After(p) : y \in ToSet(plan)
  <2>1. 1 \in DOMAIN tasks /\ tasks[1] = Head(tasks)
    BY <1>2, <1>5, SetOf, TailSet
  <2>2. \A y \in After(tasks[1].name) :
           y \in ToSet(plan) \/ \E j \in 1..(1 - 1) : tasks[j].name = y
    BY <1>2, <1>3, <2>1 DEF Arranging, Prepared
  <2>3. 1..(1 - 1) = {}
    OBVIOUS
  <2> QED
    BY <2>1, <2>2, <2>3
<1>11. Head(tasks) = Do("insert", p)
  BY <1>2, <1>4, InsertTask
<1> DEFINE pl == plan'
           ps == ToSet(plan')
           r == Tail(tasks)
<1>12. /\ \A x, y : Precedes(plan, x, y) => Precedes(pl, x, y)
       /\ \A q \in After(p) : Precedes(pl, p, q)
       /\ \A x \in ToSet(plan) : (\A q \in After(p) : Precedes(plan, x, q)) => Precedes(pl, x, p)
  <2>1. pl = Insert(plan, p, os)
    BY <1>1
  <2> HIDE DEF pl, os, p
  <2> QED
    BY <1>4, <1>5, <1>9, <1>10, <2>1, InsertPrecedes
<1>13. Prepared(ps, r)
  <2>1. ToSet(plan) \subseteq ps /\ Head(tasks).name \in ps
    BY <1>7
  <2> HIDE DEF ps
  <2> QED
    BY <1>2, <1>3, <1>5, <2>1, TailArranges
<1>14. Placed(pl, ToSet(tasks'))
  <2> SUFFICES ASSUME NEW x \in ToSet(pl), NEW y \in After(x)
               PROVE  \/ Precedes(pl, x, y)
                      \/ /\ Do("insert", y) \in ToSet(tasks')
                         /\ \A z \in After(y) : Precedes(pl, x, z)
    BY DEF Placed
  <2>1. x \in ToSet(plan) \cup {p}
    BY <1>7
  <2> HIDE DEF pl, p, os
  <2>2. CASE x = p
    BY <1>12, <2>2
  <2>3. CASE x \in ToSet(plan)
    <3>1. \/ Precedes(plan, x, y)
          \/ /\ Do("insert", y) \in ToSet(tasks)
             /\ \A z \in After(y) : Precedes(plan, x, z)
      BY <1>3, <2>3 DEF Arranging, Placed
    <3>2. CASE Precedes(plan, x, y)
      BY <1>12, <3>2
    <3>3. CASE Do("insert", y) \in ToSet(tasks) /\ \A z \in After(y) : Precedes(plan, x, z)
      <4>1. CASE y = p
        BY <1>12, <2>3, <3>3, <4>1
      <4>2. CASE y # p
        <5>1. Do("insert", y) # Head(tasks)
          BY <1>11, <4>2, DoOf
        <5> QED
          BY <1>8, <1>12, <3>3, <5>1
      <4> QED
        BY <4>1, <4>2
    <3> QED
      BY <3>1, <3>2, <3>3
  <2> QED
    BY <2>1, <2>2, <2>3
<1>15. UNCHANGED <<world, before, col>>
  BY <1>1
<1>16. tasks' = r
  BY <1>8
<1> HIDE DEF r
<1> QED
  BY <1>13, <1>14, <1>15, <1>16, ArrangingTo

\* As the order begins.
LEMMA ArrangingBegins ==
    ASSUME plan' = <<>>, \A t \in ToSet(tasks') : t.op # "insert"
    PROVE  Arranging'
<1>1. ToSet(plan') = {}
  BY DEF ToSet
<1>2. \A i \in DOMAIN tasks' : tasks'[i].op # "insert"
  BY DEF ToSet
<1> QED
  BY <1>1, <1>2 DEF Arranging, Placed, Prepared

\* Where nothing is inserted and what is in the plan stays in its place.
LEMMA ArrangedAlone ==
    ASSUME UNCHANGED <<world, before, col, plan>>, Arranging, phase \in Planning,
           \A t \in ToSet(tasks) : t.op # "insert", \A t \in ToSet(tasks') : t.op # "insert"
    PROVE  Arranging'
<1>1. \A x \in ToSet(plan) : \A y \in After(x) : Precedes(plan, x, y)
  BY ArrangedOf
<1>2. \A i \in DOMAIN tasks' : tasks'[i].op # "insert"
  BY DEF ToSet
<1> QED
  BY <1>1, <1>2, ArrangingTo DEF Placed, Prepared

\* Where there is no plan.
LEMMA OrderlyElsewhere ==
    ASSUME Undisturbed', phase' \notin Planning
    PROVE  Orderly'
<1>1. phase' \notin {"idle", "adjust", "order", "filter"} \cup Stages => phase' \in OfBuild
  BY DEF Undisturbed, OfBuild, BuildPhases
<1>2. phase' \notin {"order", "adjust", "filter", "disfigure", "fetch", "configure", "hold", "purge"}
  BY DEF Planning, Stages
<1>3. phase' # "idle" => req'.kind = "build"
  BY <1>1, <1>2 DEF Undisturbed, Stages
<1> QED
  BY <1>2, <1>3 DEF Orderly, Arranging, Filtering, Accepted, Disfigurable, Configurable, Planning

\* The packages that depend on one are given by the state before.
LEMMA SameDepending ==
    ASSUME UNCHANGED before
    PROVE  \A p : Depending(p)' = Depending(p)
BY DEF Depending, ConfiguredDependents

\* While the plan is ordered.
LEMMA OrderlyOrder ==
    ASSUME phase' = "order", Arranging',
           req'.kind = "drop" =>
              \A p \in DOMAIN col'.bm :
                 col'.bm[p].user => \A q \in Depending(p)' : q \in DOMAIN col'.bm /\ col'.bm[q].user
    PROVE  Orderly'
<1>1. phase' \notin {"filter"} \cup Stages
  BY DEF Stages
<1>2. Filtering'
  BY <1>1 DEF Filtering
<1> QED
  BY <1>2 DEF Orderly, Accepted, Disfigurable, Configurable

\* Everything is collected and settled, and nothing is in the plan yet.
LEMMA SettleOrders == ASSUME Inv, Settle, Inv' PROVE Orderly'
<1>1. phase = "dependents" /\ tasks = <<>> /\ UNCHANGED req
  BY DEF Settle
<1>2. AtWork /\ plan = <<>>
  BY <1>1, WorkOf DEF OfBuild, BuildPhases, Inv, Undisturbed
<1>3. CASE phase' = "collect"
  BY <1>3, OrderlyElsewhere DEF Planning, Stages, Inv
<1>4. CASE phase' = "order" /\ tasks' = ToOrder /\ plan' = plan
  <2>1. \A t \in ToSet(ToOrder) : t.op \in {"order", "reorder"}
    BY <1>2, ToOrderOf DEF AtWork
  <2>2. \A t \in ToSet(tasks') : t.op # "insert"
    BY <1>4, <2>1
  <2>3. Arranging'
    BY <1>2, <1>4, <2>2, ArrangingBegins
  <2>4. req'.kind = "build"
    BY <1>1, <1>2 DEF AtWork
  <2> QED
    BY <1>4, <2>3, <2>4, OrderlyOrder
<1> QED
  BY <1>3, <1>4 DEF Settle, Iterate

\* The steps of order().
LEMMA OrderOrders == ASSUME Inv, Orderly, Order, Inv' PROVE Orderly'
<1>1. Arranging'
  BY OrderArranges DEF Orderly
<1>2. phase = "order"
  <2>1. PICK op \in {"order", "reorder"} : Task(op)
    BY DEF Order
  <2>2. op \in Ops(phase)
    BY <2>1, HeadOf
  <2> QED
    BY <2>2 DEF Ops
<1>3. CASE phase' = "idle"
  BY <1>3, OrderlyElsewhere DEF Planning, Stages, Inv
<1>4. CASE phase' = phase /\ UNCHANGED <<req, col, before>>
  <2>1. \A p : Depending(p)' = Depending(p)
    BY <1>4, SameDepending
  <2>2. req.kind = "drop" =>
           \A p \in DOMAIN col.bm :
              col.bm[p].user => \A q \in Depending(p) : q \in DOMAIN col.bm /\ col.bm[q].user
    BY <1>2 DEF Orderly, Filtering
  <2> QED
    BY <1>1, <1>2, <1>4, <2>1, <2>2, OrderlyOrder
<1> QED
  BY <1>3, <1>4 DEF Order, Fail, FailAssertion, Ends, Finish, Staying

\* Of which the last puts the package in the plan.
LEMMA InsertPackageOrders == ASSUME Inv, Orderly, InsertPackage, Inv' PROVE Orderly'
<1>1. Arranging'
  BY InsertPackageArranges DEF Orderly
<1>2. phase = "order"
  <2>1. Task("insert")
    BY DEF InsertPackage
  <2>2. "insert" \in Ops(phase)
    BY <2>1, HeadOf
  <2> QED
    BY <2>2 DEF Ops
<1>3. phase' = phase /\ UNCHANGED <<req, col, before>>
  BY DEF InsertPackage, Staying
<1>4. \A p : Depending(p)' = Depending(p)
  BY <1>3, SameDepending
<1>5. req.kind = "drop" =>
         \A p \in DOMAIN col.bm :
            col.bm[p].user => \A q \in Depending(p) : q \in DOMAIN col.bm /\ col.bm[q].user
  BY <1>2 DEF Orderly, Filtering
<1> QED
  BY <1>1, <1>2, <1>3, <1>4, <1>5, OrderlyOrder

\* The dependents of what is dropped are dropped.
LEMMA RequestDropOrders == ASSUME Inv, RequestDrop, Inv' PROVE Orderly'
<1>1. PICK r \in Requests :
         LET asked == WithDependents(r.names)
             all == WithPrerequisites(asked)
         IN  /\ col' = [NoCollection EXCEPT
                           !.bm = [p \in all |-> [DropPackage EXCEPT !.user = p \in asked]]]
             /\ tasks' = Tasks("order", Listed(r.names) \o Listed(asked \ r.names)
                                        \o Listed(all \ asked))
  BY DEF RequestDrop
<1> DEFINE asked == WithDependents(r.names)
           all == WithPrerequisites(asked)
           bm == [p \in all |-> [DropPackage EXCEPT !.user = p \in asked]]
<1>2. /\ phase = "idle" /\ phase' = "order" /\ before' = selected /\ plan' = <<>>
      /\ Configuration(world, selected) /\ Config!PrerequisitesHeld
  BY DEF RequestDrop, Inv, Undisturbed
<1>3. \A t \in ToSet(tasks') : t.op # "insert"
  <2> DEFINE ps == Listed(r.names) \o Listed(asked \ r.names) \o Listed(all \ asked)
  <2>1. tasks' = Tasks("order", ps)
    BY <1>1
  <2> HIDE DEF ps
  <2> QED
    BY <2>1, DoOf DEF Tasks, ToSet
<1>4. Arranging'
  BY <1>2, <1>3, ArrangingBegins
<1>5. col'.bm = bm
  <2>1. col' = [NoCollection EXCEPT !.bm = bm]
    BY <1>1
  <2> HIDE DEF bm
  <2> QED
    BY <2>1 DEF NoCollection
<1>6. asked \subseteq all
  <2>1. asked \subseteq Pkgs
    BY DEF WithDependents, Closure
  <2> HIDE DEF asked
  <2> QED
    BY <2>1 DEF WithPrerequisites, Closure
<1>7. DOMAIN bm = all /\ \A p \in all : bm[p].user <=> p \in asked
  <2>1. DropPackage.user \in BOOLEAN /\ DropPackage \in Entries
    BY DropPackageOf DEF Entries
  <2> HIDE DEF asked, all, DropPackage
  <2> QED
    BY <2>1 DEF Entries
<1>8. ASSUME NEW p \in asked, NEW q \in ConfiguredDependents(selected, p)
      PROVE  q \in asked
  <2> DEFINE next == [x \in Pkgs |-> IF selected[x].state = "configured"
                                     THEN ConfiguredDependents(selected, x) ELSE {}]
  <2>1. asked = Closure(r.names, next)
    BY DEF WithDependents
  <2>2. p \in Pkgs
    BY DEF WithDependents, Closure
  <2>3. q \in Pkgs /\ selected[q].state = "configured" /\ p \in DOMAIN selected[q].prereqs
    BY <1>8 DEF ConfiguredDependents
  <2>4. selected[p].state = "configured"
    BY <1>2, <2>3 DEF Config!PrerequisitesHeld, Config!Configured, Config!Satisfied
  <2>5. q \in next[p]
    BY <1>8, <2>2, <2>4
  <2> HIDE DEF asked, next
  <2> QED
    BY <2>1, <2>3, <2>5, ClosureOf
<1>9. \A p : Depending(p)' = ConfiguredDependents(selected, p)
  BY <1>2 DEF Depending, ConfiguredDependents
<1> HIDE DEF asked, all, bm
<1>10. \A p \in DOMAIN col'.bm :
          col'.bm[p].user => \A q \in Depending(p)' : q \in DOMAIN col'.bm /\ col'.bm[q].user
  BY <1>5, <1>6, <1>7, <1>8, <1>9
<1> QED
  BY <1>2, <1>4, <1>10, OrderlyOrder

---------------------------------------------------------------------------
(* What pkg-drop leaves out of the plan.                                    *)
\* pkg-drop orders a package before those of what it depends on that go.
LEMMA AfterDrop ==
    ASSUME NEW w, NEW sel, NEW bm,
           DOMAIN bm \subseteq Pkgs, \A q \in DOMAIN bm : bm[q].action = "drop",
           NEW p \in DOMAIN bm
    PROVE  ToSet(Ordered(w, sel, bm, p)) =
              {q \in DOMAIN sel[p].prereqs \cap DOMAIN bm : sel[p].state = "configured"}
<1> DEFINE S == {q \in DOMAIN sel[p].prereqs \cap Acted(bm) :
                    /\ sel[p].state = "configured" /\ Disfigures(sel, bm, p)
                    /\ Disfigures(sel, bm, q)}
           last == Listed(S)
<1>1. Acted(bm) = DOMAIN bm
  BY DEF Acted
<1>2. S = {q \in DOMAIN sel[p].prereqs \cap DOMAIN bm : sel[p].state = "configured"}
  BY <1>1 DEF Disfigures
<1>3. S \subseteq Pkgs
  BY <1>2
<1>4. Ordered(w, sel, bm, p) = <<>> \o last
  BY DEF Ordered, CurrentDisfigured
<1> HIDE DEF S
<1>5. last \in Seq(Pkgs) /\ ToSet(last) = S
  BY <1>3, ListedOf
<1> HIDE DEF last
<1>6. <<>> \in Seq(Pkgs) /\ ToSet(<<>>) = {}
  BY EmptySeqOf DEF ToSet
<1>7. ToSet(<<>> \o last) = S
  BY <1>5, <1>6, ConcatSet
<1> QED
  BY <1>2, <1>4, <1>7

\* What is ordered are the drops that may be filtered.
LEMMA FilterOrders == ASSUME Inv, Orderly, Filter, Inv' PROVE Orderly'
<1>1. /\ phase = "order" /\ tasks = <<>> /\ req.kind = "drop"
      /\ phase' = "filter" /\ tasks' = Tasks("filter", plan)
      /\ UNCHANGED <<world, selected, req, before, col, plan>>
  BY DEF Filter, Staying
<1>2. plan \in Seq(Pkgs) /\ IsInjective(plan)
  BY <1>1, OrderWork
<1>3. /\ DOMAIN plan = 1..Len(plan)
      /\ \A p : p \in ToSet(plan) <=> \E i \in 1..Len(plan) : plan[i] = p
  BY <1>2, SetOf
<1>4. /\ tasks' \in Seq(TaskRecords) /\ ToSet(tasks') = {Do("filter", p) : p \in ToSet(plan)}
      /\ Len(tasks') = Len(plan) /\ \A i \in 1..Len(plan) : tasks'[i] = Do("filter", plan[i])
  BY <1>1, <1>2, TasksOf
<1>5. DOMAIN tasks' = 1..Len(plan) /\ \A i \in 1..Len(plan) : tasks'[i].name = plan[i]
  <2> DEFINE ts == tasks'
  <2>1. ts \in Seq(TaskRecords) /\ Len(ts) = Len(plan)
    BY <1>4
  <2> HIDE DEF ts
  <2>2. DOMAIN ts = 1..Len(plan)
    BY <2>1, SetOf
  <2> QED
    BY <1>4, <2>2, DoOf DEF ts
<1>6. Arranging'
  <2>1. \A t \in ToSet(tasks) : t.op # "insert"
    BY <1>1 DEF ToSet
  <2>2. \A t \in ToSet(tasks') : t.op # "insert"
    BY <1>4, DoOf
  <2> QED
    BY <1>1, <2>1, <2>2, ArrangedAlone DEF Orderly, Planning
<1>7. Filtering'
  <2>1. \A p : Depending(p)' = Depending(p)
    BY <1>1, SameDepending
  <2>2. \A p \in DOMAIN col.bm :
           col.bm[p].user => \A q \in Depending(p) : q \in DOMAIN col.bm /\ col.bm[q].user
    BY <1>1 DEF Orderly, Filtering
  <2>3. \A p \in ToSet(plan) : Awaited(p)'
    <3>1. \A p \in ToSet(plan) : Do("filter", p) \in ToSet(tasks')
      BY <1>4
    <3> QED
      BY <3>1, DoOf DEF Awaited
  <2>4. \A i, k \in 1..Len(plan) : Precedes(plan, plan[i], plan[k]) => i < k
    BY <1>2, <1>3, PrecedesOrders
  <2> QED
    BY <1>1, <1>5, <2>1, <2>2, <2>3, <2>4 DEF Filtering
<1> QED
  BY <1>1, <1>6, <1>7 DEF Orderly, Accepted, Disfigurable, Configurable

\* What stays is what the dependents of nothing that goes are.
LEMMA FilterPrerequisiteOrders ==
    ASSUME Inv, Orderly, FilterPrerequisite, Inv'
    PROVE  Orderly'
<1> DEFINE h == Head(tasks).name
           less == Without(col.bm, h)
<1>1. /\ Task("filter") /\ More(<<>>)
      /\ UNCHANGED <<world, selected, req, before, phase>>
      /\ \/ /\ ~col.bm[h].user
            /\ col' = [col EXCEPT !.bm = less] /\ plan' = Those(plan, Pkgs \ {h})
         \/ /\ col.bm[h].user \/ Depending(h) \subseteq DOMAIN col.bm
            /\ col' = col /\ plan' = plan
  <2>1. phase = "filter"
    <3>1. Task("filter")
      BY DEF FilterPrerequisite
    <3>2. "filter" \in Ops(phase)
      BY <3>1, HeadOf
    <3> QED
      BY <3>2 DEF Ops
  <2>2. selected = before
    BY <2>1 DEF Inv, Undisturbed, Stages
  <2> QED
    BY <2>2 DEF FilterPrerequisite, Staying, Depending
<1>2. /\ tasks # <<>> /\ Head(tasks) \in TaskRecords /\ "filter" \in Ops(phase)
  BY <1>1, HeadOf
<1>3. phase = "filter" /\ h \in Pkgs
  BY <1>2, TaskOf DEF Ops
<1>4. /\ req.kind = "drop" /\ tasks \in Seq(TaskRecords)
      /\ \A t \in ToSet(tasks) : t.op = "filter"
      /\ plan \in Seq(Pkgs) /\ IsInjective(plan) /\ ToSet(plan) \subseteq DOMAIN col.bm
      /\ Once(tasks, Inserts) /\ \A q \in DOMAIN col.bm : q \in ToSet(plan)
      /\ IsCollection(col) /\ DOMAIN col.bm \subseteq Pkgs
      /\ \A q \in DOMAIN col.bm : col.bm[q].action = "drop"
  BY <1>3 DEF Inv, Undisturbed, Tasking, Tasked, Ops, Ordering, Planning,
              ToPlan, Dropping, Stages, Acted
<1>5. /\ tasks' = Tail(tasks) /\ tasks' \in Seq(TaskRecords)
      /\ ToSet(tasks) = {Head(tasks)} \cup ToSet(tasks')
  BY <1>1, <1>2, <1>4, TailTasks
<1>6. /\ Len(tasks) \in Nat /\ DOMAIN tasks = 1..Len(tasks) /\ tasks[1].name = h
      /\ Len(tasks) > 0 /\ DOMAIN tasks' = 1..Len(tasks) - 1
      /\ \A i \in 1..Len(tasks) - 1 : tasks'[i] = tasks[i + 1]
  <2>1. /\ Len(tasks) \in Nat /\ DOMAIN tasks = 1..Len(tasks) /\ Head(tasks) = tasks[1]
        /\ Tail(tasks) \in Seq(TaskRecords) /\ Len(Tail(tasks)) = Len(tasks) - 1
        /\ Len(tasks) > 0 /\ \A i \in 1..Len(tasks) - 1 : Tail(tasks)[i] = tasks[i + 1]
    BY <1>2, <1>4, SetOf, TailSet
  <2>2. DOMAIN Tail(tasks) = 1..Len(tasks) - 1
    BY <2>1, SetOf
  <2> QED
    BY <1>5, <2>1, <2>2
<1>7. /\ \A p \in DOMAIN col.bm :
            col.bm[p].user => \A q \in Depending(p) : q \in DOMAIN col.bm /\ col.bm[q].user
      /\ \A p \in ToSet(plan) : Awaited(p) \/ Depending(p) \subseteq DOMAIN col.bm
      /\ \A i \in 1..Len(tasks) : \A p \in ToSet(plan) :
            Precedes(plan, tasks[i].name, p) => Awaited(p)
      /\ \A i, k \in 1..Len(tasks) :
            Precedes(plan, tasks[i].name, tasks[k].name) => i < k
  BY <1>3, <1>4, <1>6 DEF Orderly, Filtering
<1>8. \A p : p # h /\ Awaited(p) => Awaited(p)'
  BY <1>5 DEF Awaited
<1>9. \A p : Depending(p)' = Depending(p)
  BY <1>1, SameDepending
<1>10. \A x \in ToSet(plan) : \A y \in After(x) : Precedes(plan, x, y)
  <2>1. \A t \in ToSet(tasks) : t.op # "insert"
    BY <1>4
  <2> QED
    BY <1>3, <2>1, ArrangedOf DEF Orderly, Planning
<1>11. \A i \in DOMAIN tasks' : tasks'[i].op # "insert"
  <2>1. \A t \in ToSet(tasks') : t.op # "insert"
    BY <1>4, <1>5
  <2> QED
    BY <2>1 DEF ToSet
<1>12. \A i \in 1..Len(tasks) - 1 : i + 1 \in 1..Len(tasks) /\ tasks'[i] = tasks[i + 1]
  BY <1>6
<1>13. ASSUME NEW i \in 1..Len(tasks) - 1, NEW p \in ToSet(plan),
              Precedes(plan, tasks'[i].name, p)
       PROVE  Awaited(p) /\ p # h
  <2>1. i + 1 \in 1..Len(tasks) /\ tasks'[i] = tasks[i + 1] /\ 1 \in 1..Len(tasks)
    BY <1>6
  <2>2. Awaited(p)
    BY <1>7, <1>13, <2>1
  <2>3. p = h => i + 1 < 1
    BY <1>6, <1>7, <1>13, <2>1
  <2> QED
    BY <2>2, <2>3
<1>14. ASSUME NEW i \in 1..Len(tasks) - 1, NEW k \in 1..Len(tasks) - 1,
              Precedes(plan, tasks'[i].name, tasks'[k].name)
       PROVE  i < k
  <2>1. i + 1 < k + 1
    BY <1>7, <1>12, <1>14
  <2> QED
    BY <2>1
<1>15. CASE /\ col.bm[h].user \/ Depending(h) \subseteq DOMAIN col.bm
            /\ col' = col /\ plan' = plan
  <2>1. Arranging'
    <3>1. UNCHANGED <<world, before, col, plan>>
      BY <1>1, <1>15
    <3> QED
      BY <1>10, <1>11, <3>1, ArrangingTo DEF Placed, Prepared
  <2>2. \A p \in ToSet(plan) : Awaited(p)' \/ Depending(p) \subseteq DOMAIN col.bm
    BY <1>4, <1>7, <1>8, <1>15
  <2>3. Filtering'
    BY <1>1, <1>6, <1>7, <1>8, <1>9, <1>13, <1>14, <1>15, <2>2 DEF Filtering
  <2> QED
    BY <1>1, <1>3, <2>1, <2>3 DEF Orderly, Accepted, Disfigurable, Configurable
<1>16. CASE /\ ~col.bm[h].user
            /\ col' = [col EXCEPT !.bm = less] /\ plan' = Those(plan, Pkgs \ {h})
  <2>1. DOMAIN less = DOMAIN col.bm \ {h} /\ \A q \in DOMAIN less : less[q] = col.bm[q]
    BY DEF Without
  <2> HIDE DEF less
  <2>2. col'.bm = less
    <3> DEFINE c == col
    <3>1. c = [bm |-> c.bm, replaced |-> c.replaced, unsat |-> c.unsat,
               scratch |-> c.scratch, taken |-> c.taken]
      BY <1>4 DEF IsCollection
    <3>2. col' = [bm |-> less, replaced |-> c.replaced, unsat |-> c.unsat,
                  scratch |-> c.scratch, taken |-> c.taken]
      BY <1>16, <3>1
    <3> QED
      BY <3>2
  <2>3. /\ \A p : p \in ToSet(plan') <=> p \in ToSet(plan) /\ p # h
        /\ \A x, y : Precedes(plan', x, y) <=> x # h /\ y # h /\ Precedes(plan, x, y)
    <3> DEFINE S == Pkgs \ {h}
    <3>1. /\ ToSet(Those(plan, S)) = ToSet(plan) \cap S
          /\ \A x, y : Precedes(Those(plan, S), x, y) <=>
                          x \in S /\ y \in S /\ Precedes(plan, x, y)
      BY <1>4, ThoseOf, ThosePrecedes
    <3>2. ToSet(plan) \subseteq Pkgs
      BY <1>4, SetOf
    <3>3. \A x, y : Precedes(plan, x, y) => x \in Pkgs /\ y \in Pkgs
      BY <1>4, <3>2, PrecedesIn
    <3>4. plan' = Those(plan, S)
      BY <1>16
    <3> QED
      BY ONLY <3>1, <3>2, <3>3, <3>4
  <2>4. \A p \in DOMAIN less : After(p)' \subseteq After(p) \ {h}
    <3>1. \A p \in DOMAIN col.bm :
             After(p) = {q \in DOMAIN before[p].prereqs \cap DOMAIN col.bm :
                            before[p].state = "configured"}
      BY <1>4, AfterDrop DEF After
    <3>2. \A p \in DOMAIN less :
             After(p)' = {q \in DOMAIN before[p].prereqs \cap DOMAIN less :
                             before[p].state = "configured"}
      <4>1. \A q \in DOMAIN less : less[q].action = "drop"
        BY <1>4, <2>1
      <4>2. DOMAIN less \subseteq Pkgs
        BY <1>4, <2>1
      <4>3. \A p : After(p)' = ToSet(Ordered(world, before, less, p))
        BY <1>1, <2>2 DEF After
      <4> QED
        BY <4>1, <4>2, <4>3, AfterDrop
    <3> QED
      BY <2>1, <3>1, <3>2
  <2>5. Arranging'
    <3>1. \A x \in ToSet(plan') : \A y \in After(x)' : Precedes(plan', x, y)
      BY <1>4, <1>10, <2>1, <2>3, <2>4
    <3> QED
      BY <1>11, <3>1 DEF Arranging, Placed, Prepared
  <2>6. ASSUME NEW p \in ToSet(plan'), ~Awaited(p)'
        PROVE  Depending(p) \subseteq DOMAIN less
    <3>1. p \in ToSet(plan) /\ p # h /\ ~Awaited(p)
      BY <1>8, <2>3, <2>6
    <3>2. Depending(p) \subseteq DOMAIN col.bm
      BY <1>7, <3>1
    <3>3. ASSUME h \in Depending(p)
          PROVE  FALSE
      <4>1. h \in DOMAIN col.bm /\ p \in DOMAIN col.bm
        BY <1>4, <3>1, <3>2, <3>3
      <4>2. before[h].state = "configured" /\ p \in DOMAIN before[h].prereqs
        BY <3>3 DEF Depending, ConfiguredDependents
      <4>3. p \in After(h)
        BY <1>4, <4>1, <4>2, AfterDrop DEF After
      <4>4. Precedes(plan, h, p)
        BY <1>4, <1>10, <4>1, <4>3
      <4>5. 1 \in 1..Len(tasks) /\ Precedes(plan, tasks[1].name, p)
        BY <1>6, <4>4
      <4> QED
        BY <1>7, <3>1, <4>5
    <3> QED
      BY <2>1, <3>2, <3>3
  <2>7. \A p \in DOMAIN less :
           less[p].user => \A q \in Depending(p) : q \in DOMAIN less /\ less[q].user
    BY <1>7, <1>16, <2>1
  <2>8. \A i \in 1..Len(tasks) - 1 : \A p \in ToSet(plan') :
           Precedes(plan', tasks'[i].name, p) => Awaited(p)'
    BY <1>8, <1>13, <2>3
  <2>9. \A i, k \in 1..Len(tasks) - 1 :
           Precedes(plan', tasks'[i].name, tasks'[k].name) => i < k
    BY <1>14, <2>3
  <2>10. Filtering'
    BY <1>6, <1>9, <2>2, <2>6, <2>7, <2>8, <2>9 DEF Filtering
  <2> QED
    BY <1>1, <1>3, <2>5, <2>10 DEF Orderly, Accepted, Disfigurable, Configurable
<1> QED
  BY <1>1, <1>15, <1>16

---------------------------------------------------------------------------
(* The execution keeps to the order of the plan.                            *)
\* The first elements of a sequence.
LEMMA FirstOf ==
    ASSUME NEW T, NEW s \in Seq(T), NEW n \in 0..Len(s)
    PROVE  \A y : y \in ToSet(SubSeq(s, 1, n)) <=> \E i \in 1..n : s[i] = y
<1> DEFINE u == SubSeq(s, 1, n)
<1>1. Len(s) \in Nat /\ DOMAIN s = 1..Len(s) /\ s \in [1..Len(s) -> T]
  BY LenProperties
<1>2. DOMAIN u = 1..n /\ \A i \in 1..n : u[i] = s[i]
  BY <1>1
<1> QED
  BY <1>2 DEF ToSet

\* Nothing precedes the first, and the rest keep their order without it.
LEMMA TailPrecedes ==
    ASSUME NEW T, NEW s \in Seq(T), s # <<>>, IsInjective(s)
    PROVE  /\ \A x : ~Precedes(s, x, Head(s))
           /\ \A x \in ToSet(Tail(s)) : \A y : Precedes(s, x, y) => Precedes(Tail(s), x, y)
<1> DEFINE n == Len(s)
           r == Tail(s)
<1>1. /\ n \in Nat /\ n > 0 /\ DOMAIN s = 1..n /\ Head(s) = s[1]
      /\ r \in Seq(T) /\ Len(r) = n - 1 /\ \A i \in 1..n - 1 : r[i] = s[i + 1]
      /\ Head(s) \notin ToSet(r)
  BY SetOf, TailSet
<1>2. DOMAIN r = 1..n - 1
  BY <1>1, SetOf
<1> HIDE DEF r, n
<1>3. \A x : ~Precedes(s, x, Head(s))
  BY <1>1 DEF Precedes, IsInjective
<1>4. ASSUME NEW x \in ToSet(r), NEW y, Precedes(s, x, y)
      PROVE  Precedes(r, x, y)
  <2>1. PICK i, j \in 1..n : i < j /\ s[i] = x /\ s[j] = y
    BY <1>1, <1>4 DEF Precedes
  <2>2. i # 1
    BY <1>1, <1>4, <2>1
  <2>3. /\ i - 1 \in 1..n - 1 /\ j - 1 \in 1..n - 1 /\ i - 1 < j - 1
        /\ (i - 1) + 1 = i /\ (j - 1) + 1 = j
    BY <1>1, <2>1, <2>2
  <2>4. r[i - 1] = x /\ r[j - 1] = y
    BY <1>1, <2>1, <2>3
  <2> QED
    BY <1>2, <2>3, <2>4 DEF Precedes
<1> QED
  BY <1>3, <1>4 DEF r

\* The simulation of what is not changed is refused as it was.
LEMMA SameRefuses ==
    ASSUME UNCHANGED <<world, before, col, plan>>
    PROVE  Refuses(before)' <=> Refuses(before)
<1>1. \A p : /\ Planned(before, p)' = Planned(before, p)
             /\ Configures(before, p)' <=> Configures(before, p)
             /\ Target(before, p)' = Target(before, p)
             /\ Unconstrained(before, p)' = Unconstrained(before, p)
             /\ ConfiguredDependents(before, p)' = ConfiguredDependents(before, p)
  BY DEF Planned, Configures, Target, Unconstrained, Resolved, HoldPackage, HoldVersion,
         ConfiguredDependents
<1>2. Simulated(before)' = Simulated(before)
  BY <1>1 DEF Simulated
<1>3. \A i : /\ plan[i]' = plan[i]
             /\ Configures(before, plan[i])' <=> Configures(before, plan[i])
             /\ Target(before, plan[i])' = Target(before, plan[i])
             /\ Unconstrained(before, plan[i])' = Unconstrained(before, plan[i])
             /\ ConfiguredDependents(before, plan[i])' = ConfiguredDependents(before, plan[i])
  BY <1>1
<1> QED
  BY <1>1, <1>2, <1>3 DEF Refuses

\* What the execution is given does not change.
LEMMA PlanStays ==
    ASSUME Orderly, UNCHANGED <<world, req, before>>, UNCHANGED command,
           phase \in Planning, phase' = phase \/ (phase \in Stages /\ phase' \in Stages)
    PROVE  Arranging' /\ Filtering'
<1>1. UNCHANGED <<world, before, col, plan, tasks, req>>
  BY DEF command
<1>2. phase' \in Planning /\ (phase' \in {"filter"} \cup Stages <=> phase \in {"filter"} \cup Stages)
  BY DEF Planning
<1>3. Arranging'
  BY <1>1, ArrangingTo DEF Orderly, Arranging
<1>4. \A p : Depending(p)' = Depending(p) /\ (Awaited(p)' <=> Awaited(p))
  BY <1>1, SameDepending DEF Awaited
<1>5. phase # "idle"
  BY DEF Planning, Stages
<1>6. Filtering'
  BY <1>1, <1>2, <1>4, <1>5 DEF Orderly, Filtering
<1> QED
  BY <1>3, <1>6

\* What is visited is visited in order.
LEMMA OrderlyStays ==
    ASSUME Orderly, UNCHANGED <<world, req, before, phase>>, UNCHANGED command,
           phase \in Planning,
           \/ todo' = todo
           \/ todo \in Seq(Pkgs) /\ IsInjective(todo) /\ todo # <<>> /\ todo' = Tail(todo)
    PROVE  Orderly'
<1>1. UNCHANGED <<world, before, col, plan, tasks, req, phase>>
  BY DEF command
<1>2. Arranging' /\ Filtering'
  BY PlanStays
<1>3. Accepted'
  BY <1>1, SameRefuses DEF Orderly, Accepted
<1>4. /\ ToSet(todo') \subseteq ToSet(todo)
      /\ \A x \in ToSet(todo') : \A y : Precedes(todo, x, y) => Precedes(todo', x, y)
  <2>1. CASE todo' = todo
    BY <2>1
  <2>2. CASE todo \in Seq(Pkgs) /\ IsInjective(todo) /\ todo # <<>> /\ todo' = Tail(todo)
    <3>1. /\ ToSet(Tail(todo)) \subseteq ToSet(todo)
          /\ \A x \in ToSet(Tail(todo)) : \A y :
                Precedes(todo, x, y) => Precedes(Tail(todo), x, y)
      BY <2>2, TailSet, TailPrecedes
    <3> QED
      BY <2>2, <3>1
  <2> QED
    BY <2>1, <2>2
<1>5. \A p : /\ Depending(p)' = Depending(p)
             /\ Disfiguring(p)' <=> Disfiguring(p)
             /\ Fetched(p)' = Fetched(p) /\ Reconfigured(p)' = Reconfigured(p)
  BY <1>1, SameDepending, SameStages
<1>6. \A p, v : Resolved(p, v)' = Resolved(p, v)
  BY <1>1 DEF Resolved
<1>7. \A p : Resolved(p, Fetched(p).version)' = Resolved(p, Fetched(p).version)
  BY <1>5, <1>6
<1>8. \A p : Eventual(p)' = Eventual(p)
  BY <1>1, <1>5 DEF Eventual
<1>9. Disfigurable'
  BY <1>1, <1>4, <1>5 DEF Orderly, Disfigurable
<1>10. Configurable'
  BY <1>1, <1>4, <1>7, <1>8 DEF Orderly, Configurable
<1> QED
  BY <1>2, <1>3, <1>9, <1>10 DEF Orderly

\* What is to be disfigured, in the order of the plan.
LEMMA ApartInOrder ==
    ASSUME UNCHANGED <<world, req, before, col, plan>>, plan \in Seq(Pkgs),
           NEW S, todo' = Those(plan, S),
           \A x \in ToSet(plan) : x \in S =>
              \A q \in Depending(x) : Disfiguring(q) /\ Precedes(plan, q, x)
    PROVE  Disfigurable'
<1>1. \A p : Depending(p)' = Depending(p) /\ (Disfiguring(p)' <=> Disfiguring(p))
  BY SameDepending, SameStages
<1>2. ToSet(Those(plan, S)) = ToSet(plan) \cap S
  BY ThoseOf
<1>3. \A x, y : Precedes(Those(plan, S), x, y) <=> x \in S /\ y \in S /\ Precedes(plan, x, y)
  BY ThosePrecedes
<1>4. \A x, y : Precedes(plan, x, y) => x \in ToSet(plan)
  BY PrecedesIn
<1> QED
  BY <1>1, <1>2, <1>3, <1>4 DEF Disfigurable

\* pkg-build executes a plan whose simulation was not refused.
LEMMA ExecutePlanOrders ==
    ASSUME Inv, Orderly, AtWork, phase = "adjust", NEW l, ExecutePlan(l)
    PROVE  Orderly'
<1>1. /\ phase' = "disfigure" /\ selected = before /\ req.kind = "build" /\ tasks = <<>>
      /\ todo' = Those(plan, {p \in ToSet(plan) : Disfigures(selected, col.bm, p)})
      /\ UNCHANGED <<world, selected, req, col, tasks, plan, before>>
  BY DEF ExecutePlan, Inv, Undisturbed, Stages, AtWork
<1>2. plan \in Seq(Pkgs) /\ IsInjective(plan)
  BY PlannedOf DEF Planning
<1>3. Arranging'
  <2>1. \A t \in ToSet(tasks) : t.op # "insert"
    BY <1>1 DEF ToSet
  <2> QED
    BY <1>1, <2>1, ArrangedAlone DEF Orderly, Planning
<1>4. ~Refuses(before) /\ ~Refuses(before)'
  BY <1>1, SameRefuses DEF Orderly, Accepted
<1> DEFINE S == {p \in ToSet(plan) : Disfigures(before, col.bm, p)}
<1>5. ASSUME NEW x \in ToSet(plan), x \in S, NEW q \in Depending(x)
      PROVE  Disfiguring(q) /\ Precedes(plan, q, x)
  <2>1. PICK a \in 1..Len(plan) : plan[a] = x
    BY <1>2, SetOf
  <2>2. Len(plan) \in Nat /\ DOMAIN plan = 1..Len(plan)
    BY <1>2, SetOf
  <2>3. q \in ToSet(SubSeq(plan, 1, a - 1)) /\ Disfigures(before, col.bm, q)
    BY <1>4, <1>5, <2>1, <2>2 DEF Refuses, Depending
  <2>4. a - 1 \in 0..Len(plan)
    BY <2>2
  <2>5. PICK b \in 1..a - 1 : plan[b] = q
    BY <1>2, <2>3, <2>4, FirstOf
  <2>6. b \in 1..Len(plan) /\ b < a
    BY <2>2
  <2> QED
    BY <1>1, <2>1, <2>2, <2>3, <2>5, <2>6 DEF Precedes, Disfiguring
<1>6. Disfigurable'
  <2>1. todo' = Those(plan, S)
    BY <1>1
  <2> HIDE DEF S
  <2> QED
    BY <1>1, <1>2, <1>5, <2>1, ApartInOrder
<1> QED
  BY <1>1, <1>3, <1>4, <1>6 DEF Orderly, Filtering, Accepted, Configurable

\* The adjustments are refined, or the plan is executed.
LEMMA DropAdjustmentOrders == ASSUME Inv, Orderly, DropAdjustment, Inv' PROVE Orderly'
<1>1. phase = "adjust"
  BY DEF DropAdjustment, Adjusting
<1>2. AtWork
  BY <1>1, WorkOf DEF OfBuild, BuildPhases
<1>3. CASE \E l : ExecutePlan(l)
  BY <1>1, <1>2, <1>3, ExecutePlanOrders
<1>4. CASE phase' \in {"idle", "collect"}
  BY <1>4, OrderlyElsewhere DEF Planning, Stages, Inv
<1>5. (\E l : ExecutePlan(l)) \/ phase' \in {"idle", "collect"}
  BY DEF DropAdjustment, FailAssertion, Ends, Finish, Without1st, Recollect, Iterate
<1> QED
  BY <1>3, <1>4, <1>5

\* A plan that is simulated and not refused.
LEMMA RefineOrders == ASSUME Inv, Orderly, Refine, Inv' PROVE Orderly'
<1>1. phase = "order" /\ tasks = <<>> /\ req.kind = "build"
  BY DEF Refine
<1>2. selected = before
  BY <1>1 DEF Inv, Undisturbed, Stages
<1>3. \/ phase' \in {"idle", "collect"}
      \/ /\ ~Refuses(selected) /\ phase' = "adjust"
         /\ UNCHANGED <<world, req, before, col, tasks, plan>>
  <2>1. Fail \/ FailAssertion \/ Ends("refused") => phase' = "idle"
    BY DEF Fail, FailAssertion, Ends, Finish
  <2>2. \A ds, b : Again(ds, b) => phase' = "collect"
    BY DEF Again, Iterate
  <2> QED
    BY <2>1, <2>2 DEF Refine, Staying
<1>4. CASE phase' \in {"idle", "collect"}
  BY <1>4, OrderlyElsewhere DEF Planning, Stages, Inv
<1>5. CASE /\ ~Refuses(selected) /\ phase' = "adjust"
           /\ UNCHANGED <<world, req, before, col, tasks, plan>>
  <2>1. Arranging'
    <3>1. \A t \in ToSet(tasks) : t.op # "insert"
      BY <1>1 DEF ToSet
    <3> QED
      BY <1>1, <1>5, <3>1, ArrangedAlone DEF Orderly, Planning
  <2>2. ~Refuses(before)'
    BY <1>2, <1>5, SameRefuses
  <2> QED
    BY <1>1, <1>5, <2>1, <2>2 DEF Orderly, Filtering, Accepted, Disfigurable, Configurable
<1> QED
  BY <1>3, <1>4, <1>5

\* pkg-drop executes its plan once it is filtered.
LEMMA ExecuteDropOrders == ASSUME Inv, Orderly, ExecuteDrop PROVE Orderly'
<1>1. /\ phase = "filter" /\ tasks = <<>> /\ phase' = "disfigure"
      /\ todo' = Those(plan, {p \in ToSet(plan) : selected[p].state = "configured"})
      /\ UNCHANGED <<world, selected, req, before, col, tasks, plan>>
  BY DEF ExecuteDrop, command
<1>2. /\ selected = before /\ req.kind = "drop"
      /\ plan \in Seq(Pkgs) /\ IsInjective(plan) /\ ToSet(plan) \subseteq DOMAIN col.bm
      /\ \A q \in DOMAIN col.bm : q \in ToSet(plan)
      /\ DOMAIN col.bm \subseteq Pkgs
      /\ \A q \in DOMAIN col.bm : col.bm[q].action = "drop"
  BY <1>1 DEF Inv, Undisturbed, Ordering, Planning, ToPlan, Dropping, Stages, Acted
<1>3. \A t \in ToSet(tasks) : t.op # "insert"
  BY <1>1 DEF ToSet
<1>4. \A x \in ToSet(plan) : \A y \in After(x) : Precedes(plan, x, y)
  BY <1>1, <1>3, ArrangedOf DEF Orderly, Planning
<1>5. Arranging'
  BY <1>1, <1>3, ArrangedAlone DEF Orderly, Planning
<1>6. \A p : ~Awaited(p) /\ ~Awaited(p)'
  BY <1>1 DEF Awaited, ToSet
<1>7. \A p \in ToSet(plan) : Depending(p) \subseteq DOMAIN col.bm
  BY <1>1, <1>2, <1>6 DEF Orderly, Filtering
<1>8. Filtering'
  <2>1. \A p : Depending(p)' = Depending(p)
    BY <1>1, SameDepending
  <2>2. DOMAIN tasks' = {}
    BY <1>1
  <2>3. \A p \in DOMAIN col.bm :
           col.bm[p].user => \A q \in Depending(p) : q \in DOMAIN col.bm /\ col.bm[q].user
    BY <1>1, <1>2 DEF Orderly, Filtering
  <2> QED
    BY <1>1, <1>2, <1>7, <2>1, <2>2, <2>3 DEF Filtering
<1> DEFINE S == {p \in ToSet(plan) : selected[p].state = "configured"}
<1>9. ASSUME NEW x \in ToSet(plan), x \in S, NEW q \in Depending(x)
      PROVE  Disfiguring(q) /\ Precedes(plan, q, x)
  <2>1. before[q].state = "configured" /\ x \in DOMAIN before[q].prereqs
    BY DEF Depending, ConfiguredDependents
  <2>2. q \in DOMAIN col.bm /\ x \in DOMAIN col.bm /\ q \in ToSet(plan)
    BY <1>2, <1>7
  <2>3. x \in After(q)
    BY <1>2, <2>1, <2>2, AfterDrop DEF After
  <2> QED
    BY <1>2, <1>4, <2>1, <2>2, <2>3 DEF Disfiguring
<1>10. Disfigurable'
  <2>1. todo' = Those(plan, S)
    BY <1>1
  <2> HIDE DEF S
  <2> QED
    BY <1>1, <1>2, <1>9, <2>1, ApartInOrder
<1> QED
  BY <1>1, <1>2, <1>5, <1>8, <1>10 DEF Orderly, Accepted, Configurable

---------------------------------------------------------------------------
(* No step of the execution is refused.                                     *)
\* What is disfigured has no dependents left.
LEMMA Undepended ==
    ASSUME Inv, Orderly, Stage("disfigure")
    PROVE  ConfiguredDependents(selected, Head(todo)) = {}
<1> DEFINE p == Head(todo)
<1>1. "disfigure" \in Stages
  BY DEF Stages
<1>2. phase = "disfigure" /\ phase \in Stages /\ todo # <<>> /\ p \in ToSet(todo)
  BY <1>1, NextOf
<1>3. todo \in Seq(Pkgs) /\ IsInjective(todo)
  BY <1>2, StageOf
<1>4. /\ \A q \in Pkgs \ ToSet(plan) : selected[q] = before[q]
      /\ \A q \in ToSet(plan) : Progress(q, before[q], Disfigured(q))
  BY <1>2 DEF Inv, Progressing
<1>5. \A q : ~Precedes(todo, q, p)
  BY <1>2, <1>3, TailPrecedes
<1>6. \A q \in Depending(p) : q \in ToSet(plan) /\ Disfiguring(q) /\ q \notin ToSet(todo)
  BY <1>2, <1>5 DEF Orderly, Disfigurable
<1> SUFFICES ASSUME NEW q \in ConfiguredDependents(selected, p) PROVE FALSE
  OBVIOUS
<1>7. q \in Pkgs /\ selected[q].state = "configured" /\ p \in DOMAIN selected[q].prereqs
  BY DEF ConfiguredDependents
<1>8. selected[q] = before[q] => q \in Depending(p)
  BY <1>7 DEF Depending, ConfiguredDependents
<1>9. q \in ToSet(plan) /\ q \notin ToSet(todo)
  BY <1>4, <1>6, <1>7, <1>8 DEF Progress
<1>10. selected[q] = Disfigured(q)
  BY <1>4, <1>9 DEF Progress
<1>11. ~Disfiguring(q) /\ selected[q] = before[q]
  BY <1>2, <1>7, <1>9, <1>10, DisfiguredOf
<1> QED
  BY <1>6, <1>8, <1>11

\* What a package of the simulation is configured with, if no constraint is ignored.
LEMMA NotIgnored ==
    ASSUME col.unsat = <<>>
    PROVE  \A sel, p : Unconstrained(sel, p) = Resolved(p, Target(sel, p))
<1>1. \A p, d : ~IgnoredBy(col, p, d)
  BY DEF IgnoredBy, ToSet
<1> SUFFICES ASSUME NEW sel, NEW p
             PROVE  Unconstrained(sel, p) = Resolved(p, Target(sel, p))
  OBVIOUS
<1> DEFINE f == [d \in DependsOn(world, p, Target(sel, p)) |-> Resolved(p, Target(sel, p))[d]]
<1>2. Unconstrained(sel, p) = f
  BY <1>1 DEF Unconstrained
<1>3. f = Resolved(p, Target(sel, p))
  BY DEF Resolved
<1> QED
  BY <1>2, <1>3

\* What is simulated is what becomes of a package.
LEMMA EventualOf ==
    ASSUME Inv, phase \in Stages, req.kind = "build", NEW d \in Pkgs,
           Simulated(before)[d].state = "configured"
    PROVE  /\ Eventual(d).state = "configured"
           /\ Eventual(d).version = Simulated(before)[d].version
<1>1. CASE d \notin ToSet(plan)
  BY <1>1 DEF Simulated, Eventual
<1>2. CASE d \in ToSet(plan)
  <2>1. Simulated(before)[d] = Planned(before, d) /\ Eventual(d) = Reconfigured(d)
    BY <1>2 DEF Simulated, Eventual
  <2>2. ~Dropped(col.bm, d)
    <3>1. Dropped(col.bm, d) => Planned(before, d) = None
      BY DEF Planned
    <3>2. None.state # "configured"
      BY DEF None, Config!NoPackage
    <3> QED
      BY <2>1, <3>1, <3>2
  <2>3. /\ Reconfigured(d).version = Target(before, d) /\ Reconfigured(d).state = "configured"
        /\ ~Configures(before, d) => Reconfigured(d) = before[d]
    BY <1>2, <2>2, ReconfiguredOf
  <2>4. Planned(before, d).version = IF Configures(before, d) THEN Target(before, d)
                                     ELSE before[d].version
    BY <2>2 DEF Planned
  <2> QED
    BY <2>1, <2>3, <2>4
<1> QED
  BY <1>1, <1>2

\* What is to be configured, in the reverse order of the plan.
LEMMA ConfiguringOrders == ASSUME Inv, Orderly, Configuring PROVE Orderly'
<1> DEFINE S == {p \in ToSet(plan) : ~Dropped(col.bm, p) /\ selected[p].state # "configured"}
           ps == Remaining(S)
<1>1. /\ phase = "fetch" /\ todo = <<>> /\ phase' = "configure" /\ todo' = ps
      /\ UNCHANGED <<world, req, before>> /\ UNCHANGED command
      /\ phase \in Stages /\ phase' \in Stages /\ "fetch" \in Stages
  BY DEF Configuring, Proceed, Kept, Stages
<1>2. UNCHANGED <<world, req, before, col, plan>>
  BY <1>1 DEF command
<1>3. Arranging' /\ Filtering'
  BY <1>1, PlanStays DEF Planning
<1>4. /\ plan \in Seq(Pkgs) /\ IsInjective(plan) /\ ToSet(plan) \subseteq Pkgs
      /\ \A p \in ToSet(plan) : InPlan(p) /\ selected[p] = Fetched(p)
  BY <1>1, OverOf
<1>5. req.kind = "build" /\ world \in Worlds /\ Configuration(world, before)
  BY <1>1, StageOf
<1>6. ~Refuses(before) /\ col.unsat = <<>>
  BY <1>1, <1>5 DEF Orderly, Accepted, Inv, Simulating
<1>7. /\ ToSet(ps) = S
      /\ \A x, y : Precedes(ps, x, y) <=> x \in S /\ y \in S /\ Precedes(plan, y, x)
  <2>1. Reverse(plan) \in Seq(Pkgs)
    BY <1>4, ReverseSet
  <2>2. \A x, y : Precedes(Reverse(plan), x, y) <=> Precedes(plan, y, x)
    BY <1>4, ReversePrecedes
  <2>3. ToSet(ps) = ToSet(plan) \cap S
    BY <1>4, RemainingOf
  <2> HIDE DEF S
  <2>4. \A x, y : Precedes(ps, x, y) <=> x \in S /\ y \in S /\ Precedes(Reverse(plan), x, y)
    BY <2>1, ThosePrecedes DEF Remaining
  <2> QED
    BY <2>2, <2>3, <2>4 DEF S
<1>8. Len(plan) \in Nat /\ DOMAIN plan = 1..Len(plan)
  BY <1>4, SetOf
<1>9. \A x \in S : /\ Configures(before, x) /\ Fetched(x).version = Target(before, x)
                   /\ x \in Pkgs /\ Target(before, x) \in world.available[x]
  <2> SUFFICES ASSUME NEW x \in S
               PROVE  /\ Configures(before, x) /\ Fetched(x).version = Target(before, x)
                      /\ x \in Pkgs /\ Target(before, x) \in world.available[x]
    OBVIOUS
  <2>1. /\ Fetched(x).version = Target(before, x)
        /\ ~Configures(before, x) => Fetched(x) = before[x] /\ before[x].state = "configured"
    BY <1>1, FetchedOf
  <2>2. Target(before, x) \in world.available[x]
    BY <1>4, <1>5, TargetOf
  <2> QED
    BY <1>4, <2>1, <2>2
<1> HIDE DEF S, ps
<1>10. ASSUME NEW x \in S, NEW d \in DOMAIN Resolved(x, Fetched(x).version)
       PROVE  /\ Eventual(d).state = "configured"
              /\ Eventual(d).version \in Resolved(x, Fetched(x).version)[d]
              /\ d \in S => Precedes(ps, d, x)
  <2> DEFINE t == Target(before, x)
  <2>1. Fetched(x).version = t /\ t \in world.available[x] /\ x \in Pkgs /\ Configures(before, x)
    BY <1>9
  <2>2. d \in DependsOn(world, x, t) /\ d \in Pkgs
    <3>1. DOMAIN Resolved(x, t) \subseteq Pkgs
      BY <1>5, <2>1, ResolvedOf
    <3>2. DOMAIN Resolved(x, t) = DependsOn(world, x, t)
      BY DEF Resolved
    <3> QED
      BY <1>10, <2>1, <3>1, <3>2
  <2>3. PICK a \in 1..Len(plan) : plan[a] = x
    <3>1. x \in ToSet(plan)
      BY DEF S
    <3> QED
      BY <1>4, <3>1, SetOf
  <2>4. /\ Simulated(before)[d].state = "configured"
        /\ ~(d \in ToSet(SubSeq(plan, 1, a)) /\ Configures(before, d))
        /\ Simulated(before)[d].version \in Unconstrained(before, x)[d]
    BY <1>6, <1>8, <2>1, <2>2, <2>3 DEF Refuses
  <2>5. Unconstrained(before, x) = Resolved(x, t)
    BY <1>6, NotIgnored
  <2>6. Eventual(d).state = "configured" /\ Eventual(d).version = Simulated(before)[d].version
    BY <1>1, <1>5, <2>2, <2>4, EventualOf
  <2>7. ASSUME d \in S
        PROVE  Precedes(ps, d, x)
    <3>1. d \in ToSet(plan) /\ Configures(before, d)
      BY <1>9, <2>7 DEF S
    <3>2. PICK b \in 1..Len(plan) : plan[b] = d
      BY <1>4, <3>1, SetOf
    <3>3. \A y : y \in ToSet(SubSeq(plan, 1, a)) <=> \E i \in 1..a : plan[i] = y
      BY <1>4, <1>8, FirstOf
    <3>4. b \notin 1..a
      BY <2>4, <3>1, <3>2, <3>3
    <3>5. a < b
      BY <1>8, <3>4
    <3>6. Precedes(plan, x, d)
      BY <1>8, <2>3, <3>2, <3>5 DEF Precedes
    <3> QED
      BY <1>7, <2>7, <3>6
  <2> QED
    BY <2>1, <2>4, <2>5, <2>6, <2>7
<1>11. Configurable'
  <2>1. \A p : Fetched(p)' = Fetched(p) /\ Reconfigured(p)' = Reconfigured(p)
    BY <1>2, SameStages
  <2>2. \A p, v : Resolved(p, v)' = Resolved(p, v)
    BY <1>2 DEF Resolved
  <2>3. \A p : Resolved(p, Fetched(p).version)' = Resolved(p, Fetched(p).version)
    BY <2>1, <2>2
  <2>4. \A p : Eventual(p)' = Eventual(p)
    BY <1>2, <2>1 DEF Eventual
  <2> QED
    BY <1>1, <1>7, <1>10, <2>3, <2>4 DEF Configurable
<1> QED
  BY <1>1, <1>3, <1>11 DEF Orderly, Accepted, Disfigurable

\* What is configured finds its prerequisites.
LEMMA PrerequisitesReady ==
    ASSUME Inv, Orderly, Stage("configure"),
           NEW d \in DOMAIN Resolved(Head(todo), selected[Head(todo)].version)
    PROVE  /\ selected[d].state = "configured"
           /\ selected[d].version \in Resolved(Head(todo), selected[Head(todo)].version)[d]
<1> DEFINE p == Head(todo)
           v == Fetched(p).version
<1>1. "configure" \in Stages
  BY DEF Stages
<1>2. /\ phase = "configure" /\ phase \in Stages /\ todo # <<>> /\ p \in ToSet(todo)
      /\ p \in ToSet(plan) /\ p \in Pkgs /\ InPlan(p)
      /\ selected[p] = Fetched(p) /\ ~Dropped(col.bm, p)
  BY <1>1, NextOf
<1>3. /\ todo \in Seq(Pkgs) /\ IsInjective(todo) /\ world \in Worlds
      /\ Configuration(world, before)
  BY <1>2, StageOf
<1>4. /\ \A q \in Pkgs \ ToSet(plan) : selected[q] = before[q]
      /\ \A q \in ToSet(plan) : Progress(q, Fetched(q), Reconfigured(q))
  BY <1>2 DEF Inv, Progressing
<1>5. ~Precedes(todo, d, p)
  BY <1>2, <1>3, TailPrecedes
<1>6. v \in world.available[p]
  BY <1>2, <1>3, FetchedOf, TargetOf
<1>7. d \in Pkgs /\ d \in DOMAIN Resolved(p, v)
  BY <1>2, <1>3, <1>6, ResolvedOf
<1>8. /\ Eventual(d).state = "configured" /\ Eventual(d).version \in Resolved(p, v)[d]
      /\ d \notin ToSet(todo)
  BY <1>2, <1>5, <1>7 DEF Orderly, Configurable
<1>9. selected[d] = Eventual(d)
  BY <1>4, <1>7, <1>8 DEF Progress, Eventual
<1> QED
  BY <1>2, <1>8, <1>9

\* Every step of the execution goes on to the next package, or the next stage.
LEMMA ExecuteOrders == ASSUME Inv, Orderly, Execute, Inv' PROVE Orderly'
<1>1. ASSUME phase' = "idle"
      PROVE  Orderly'
  BY <1>1, OrderlyElsewhere DEF Planning, Stages, Inv
<1>2. ASSUME NEW st \in Stages, Stage(st), Going, todo' = todo \/ Visited
      PROVE  Orderly'
  <2>1. phase = st /\ phase \in Stages /\ todo # <<>>
    BY <1>2 DEF Stage
  <2>2. todo \in Seq(Pkgs) /\ IsInjective(todo)
    BY <2>1, StageOf
  <2>3. UNCHANGED <<world, req, before>> /\ UNCHANGED command /\ phase' = phase
    BY <1>2, GoingOf
  <2> QED
    BY <1>2, <2>1, <2>2, <2>3, OrderlyStays DEF Visited, Planning
<1>3. CASE Disfigure
  <2>1. Stage("disfigure") /\ "disfigure" \in Stages
    BY <1>3 DEF Disfigure, Stages
  <2>2. ConfiguredDependents(selected, Head(todo)) = {}
    BY <2>1, Undepended
  <2> QED
    BY <1>2, <1>3, <2>1, <2>2 DEF Disfigure
<1>4. CASE PurgeDropped \/ FetchPackage \/ Unpack
  <2>1. /\ Stage("fetch") /\ "fetch" \in Stages /\ Going /\ (todo' = todo \/ Visited)
    BY <1>4 DEF PurgeDropped, FetchPackage, Unpack, Stages
  <2> QED
    BY <1>2, <2>1
<1>5. CASE Configure
  <2>1. Stage("configure") /\ "configure" \in Stages
    BY <1>5 DEF Configure, Stages
  <2>2. Going /\ Visited
    BY <1>5, <2>1, PrerequisitesReady DEF Configure
  <2> QED
    BY <1>2, <2>1, <2>2
<1>6. CASE Hold
  <2>1. Stage("hold") /\ "hold" \in Stages /\ Going /\ Visited
    BY <1>6 DEF Hold, Stages
  <2> QED
    BY <1>2, <2>1
<1>7. CASE Purge
  <2>1. Stage("purge") /\ "purge" \in Stages /\ Going /\ Visited
    BY <1>7 DEF Purge, Stages
  <2> QED
    BY <1>2, <2>1
<1>8. CASE Fetch \/ Holding \/ Purging
  <2>1. /\ phase \in Stages /\ phase' \in {"fetch", "hold", "purge"}
        /\ phase' = "fetch" => phase = "disfigure" /\ req.kind = "build"
        /\ UNCHANGED <<world, req, before>> /\ UNCHANGED command
    BY <1>8 DEF Fetch, Holding, Purging, Proceed, Kept, Stages
  <2>2. Arranging' /\ Filtering'
    BY <2>1, PlanStays DEF Planning, Stages
  <2>3. UNCHANGED <<world, before, col, plan>>
    BY <2>1 DEF command
  <2>4. Accepted'
    BY <2>1, <2>3, SameRefuses DEF Orderly, Accepted
  <2> QED
    BY <2>1, <2>2, <2>4 DEF Orderly, Disfigurable, Configurable
<1>9. CASE Configuring
  BY <1>9, ConfiguringOrders
<1>10. CASE Done
  <2>1. phase' = "idle"
    BY <1>10 DEF Done, Ends, Finish
  <2> QED
    BY <1>1, <2>1
<1> QED
  BY <1>3, <1>4, <1>5, <1>6, <1>7, <1>8, <1>9, <1>10 DEF Execute

---------------------------------------------------------------------------
(* How a command ends, and where it goes.                                   *)
\* The command goes on, or is over, not refused.
GoesOn == phase # "idle" /\ outcome' = outcome
IsOver == phase' = "idle" /\ outcome' \in {"ok", "failed", "asserted", "interrupted"}

\* A step of the collection goes on there, to the dependents, or to the order.
LEMMA CollectGoes ==
    ASSUME Inv, Collect
    PROVE  /\ GoesOn \/ IsOver
           /\ phase' \notin Planning \/ Settle \/ Order \/ InsertPackage
<1>1. Fail \/ FailAssertion => IsOver
  BY DEF IsOver, Fail, FailAssertion, Ends, Finish
<1>2. \A op : Task(op) => phase # "idle" /\ op \in Ops(phase)
  BY HeadOf
<1>3. IsOver => phase' \notin Planning
  BY DEF IsOver, Planning, Stages
<1>4. phase' \in {"collect", "dependents", "kept"} => phase' \notin Planning
  BY DEF Planning, Stages
<1>5. \A c, more : Collected(c, more) => phase' \in {phase, "collect"} /\ outcome' = outcome
  BY DEF Collected, Iterate, Staying
<1>6. CASE CollectHold \/ CollectPrerequisites \/ CollectDependency \/ CollectReplaced
  <2>1. Task("hold") \/ Task("prerequisites") \/ Task("depend") \/ Task("replaced")
    BY <1>6 DEF CollectHold, CollectPrerequisites, CollectDependency, CollectReplaced
  <2>2. phase = "collect"
    BY <1>2, <2>1 DEF Ops
  <2>3. Fail \/ FailAssertion \/ \E c, more : Collected(c, more)
    <3>1. CASE CollectHold
      BY <3>1, Zenon DEF CollectHold
    <3>2. CASE CollectPrerequisites
      BY <3>2, Zenon DEF CollectPrerequisites
    <3>3. CASE CollectDependency
      BY <3>3, Zenon DEF CollectDependency
    <3>4. CASE CollectReplaced
      BY <3>4, Zenon DEF CollectReplaced
    <3> QED
      BY <1>6, <3>1, <3>2, <3>3, <3>4
  <2> QED
    BY <1>1, <1>3, <1>4, <1>5, <2>2, <2>3 DEF GoesOn
<1>7. CASE FinishCollection
  BY <1>4, <1>7 DEF FinishCollection, Visit, Staying, GoesOn
<1>8. CASE VisitDependency \/ VisitDependent
  <2>1. Task("visit") \/ Task("dependent")
    BY <1>8 DEF VisitDependency, VisitDependent
  <2>2. phase \in {"dependents", "kept"}
    BY <1>2, <2>1 DEF Ops
  <2>3. UNCHANGED <<phase, outcome>>
    BY <1>8 DEF VisitDependency, VisitDependent, Staying
  <2> QED
    BY <1>4, <2>2, <2>3 DEF GoesOn
<1>9. CASE Settle
  BY <1>9 DEF Settle, GoesOn
<1>10. CASE Order
  <2>1. Task("order") \/ Task("reorder")
    BY <1>10 DEF Order
  <2>2. phase # "idle"
    BY <1>2, <2>1
  <2>3. Fail \/ FailAssertion \/ UNCHANGED outcome
    BY <1>10 DEF Order, Staying
  <2> QED
    BY <1>1, <1>10, <2>2, <2>3 DEF GoesOn
<1>11. CASE InsertPackage
  <2>1. phase # "idle"
    BY <1>2, <1>11 DEF InsertPackage
  <2> QED
    BY <1>11, <2>1 DEF InsertPackage, Staying, GoesOn
<1> QED
  BY <1>6, <1>7, <1>8, <1>9, <1>10, <1>11 DEF Collect

\* The simulation is refused.
Rejected == Refine /\ Ends("refused") /\ Refuses(selected)

\* A step of the adjustment of the command line goes on there, or back to the
\* collection, if it does not execute the plan.
LEMMA AdjustGoes ==
    ASSUME Inv, AdjustCommandLine
    PROVE  /\ GoesOn \/ IsOver \/ Rejected
           /\ phase' \notin Planning \/ Refine \/ DropAdjustment
<1>1. Fail \/ FailAssertion => IsOver
  BY DEF IsOver, Fail, FailAssertion, Ends, Finish
<1>2. \A op : Task(op) => op \in Ops(phase)
  BY HeadOf
<1>3. IsOver => phase' \notin Planning
  BY DEF IsOver, Planning, Stages
<1>4. phase' \in {"collect", "kept", "search"} => phase' \notin Planning
  BY DEF Planning, Stages
<1>5. \A l : Recollect(l) => phase' = "collect" /\ outcome' = outcome
  BY DEF Recollect, Iterate, Staying
<1>6. \A more, s : Searching(more, s) => phase' = phase /\ outcome' = outcome
  BY DEF Searching, Staying
<1>7. CASE Refine
  <2>1. phase # "idle"
    BY <1>7 DEF Refine
  <2>2. \A ds, b : Again(ds, b) => outcome' = outcome
    BY DEF Again, Staying
  <2>3. \/ Fail \/ FailAssertion \/ (Ends("refused") /\ Refuses(selected))
        \/ outcome' = outcome
    BY <1>7, <2>2 DEF Refine, Staying
  <2> QED
    BY <1>1, <1>7, <2>1, <2>3 DEF GoesOn, Rejected
<1>8. CASE Adjust
  BY <1>4, <1>8 DEF Adjust, Adjusting, Visit, Staying, GoesOn
<1>9. CASE StartSearch
  <2>1. phase # "idle" /\ (FailAssertion \/ (phase' = "search" /\ outcome' = outcome))
    BY <1>9 DEF StartSearch, Staying
  <2> QED
    BY <1>1, <1>3, <1>4, <2>1 DEF GoesOn
<1>10. CASE TryReplace \/ NothingOffered \/ TryOthers \/ TryDependents
  <2>1. Task("replace") \/ Task("consider") \/ Task("others") \/ Task("dependents")
    BY <1>10 DEF TryReplace, NothingOffered, TryOthers, TryDependents
  <2>2. phase = "search"
    BY <1>2, <2>1 DEF Ops
  <2>3. FailAssertion \/ \E more, s : Searching(more, s)
    <3>1. CASE TryReplace
      BY <3>1, Zenon DEF TryReplace
    <3>2. CASE NothingOffered
      BY <3>2, Zenon DEF NothingOffered
    <3>3. CASE TryOthers
      BY <3>3, Zenon DEF TryOthers
    <3>4. CASE TryDependents
      BY <3>4, Zenon DEF TryDependents
    <3> QED
      BY <1>10, <3>1, <3>2, <3>3, <3>4
  <2> QED
    BY <1>1, <1>3, <1>4, <1>6, <2>2, <2>3 DEF GoesOn
<1>11. CASE ConsiderVersion
  <2>1. phase = "search"
    BY <1>2, <1>11 DEF ConsiderVersion, Ops
  <2>2. FailAssertion \/ (\E l : Recollect(l)) \/ UNCHANGED <<phase, outcome>>
    BY <1>11 DEF ConsiderVersion, Staying
  <2> QED
    BY <1>1, <1>3, <1>4, <1>5, <2>1, <2>2 DEF GoesOn
<1>12. CASE GiveUp
  <2>1. phase = "search" /\ (Fail \/ \E l : Recollect(l))
    BY <1>12 DEF GiveUp, Cycle
  <2> QED
    BY <1>1, <1>3, <1>4, <1>5, <2>1 DEF GoesOn
<1>13. CASE KeepAdjustment
  <2>1. phase = "adjust" /\ (FailAssertion \/ \E l : Recollect(l))
    BY <1>13 DEF KeepAdjustment, Adjusting, Without1st
  <2> QED
    BY <1>1, <1>3, <1>4, <1>5, <2>1 DEF GoesOn
<1>14. CASE DropAdjustment
  <2>1. phase = "adjust"
    BY <1>14 DEF DropAdjustment, Adjusting
  <2>2. \A l : ExecutePlan(l) => outcome' = outcome
    BY DEF ExecutePlan
  <2>3. FailAssertion \/ (\E l : Recollect(l)) \/ \E l : ExecutePlan(l)
    BY <1>14 DEF DropAdjustment, Without1st
  <2> QED
    BY <1>1, <1>5, <1>14, <2>1, <2>2, <2>3 DEF GoesOn
<1> QED
  BY <1>7, <1>8, <1>9, <1>10, <1>11, <1>12, <1>13, <1>14 DEF AdjustCommandLine

\* No step of the execution is refused.
LEMMA ExecuteGoes ==
    ASSUME Inv, Orderly, Execute
    PROVE  GoesOn \/ IsOver
<1>1. phase # "idle"
  BY DEF Execute, Disfigure, Fetch, PurgeDropped, FetchPackage, Unpack, Configuring, Configure,
         Holding, Hold, Purging, Purge, Done, Stage, Proceed
<1>2. Going => outcome' = outcome
  BY DEF Going
<1>3. CASE Disfigure
  <2>1. Stage("disfigure")
    BY <1>3 DEF Disfigure
  <2>2. ConfiguredDependents(selected, Head(todo)) = {}
    BY <2>1, Undepended
  <2> QED
    BY <1>1, <1>2, <1>3, <2>2 DEF Disfigure, GoesOn
<1>4. CASE Configure
  <2>1. Stage("configure")
    BY <1>4 DEF Configure
  <2>2. Going
    BY <1>4, <2>1, PrerequisitesReady DEF Configure
  <2> QED
    BY <1>1, <1>2, <2>2 DEF GoesOn
<1>5. CASE Done
  BY <1>5 DEF Done, Ends, Finish, IsOver
<1>6. CASE PurgeDropped \/ FetchPackage \/ Unpack \/ Hold \/ Purge
  BY <1>1, <1>2, <1>6 DEF PurgeDropped, FetchPackage, Unpack, Hold, Purge, GoesOn
<1>7. CASE Fetch \/ Configuring \/ Holding \/ Purging
  BY <1>1, <1>7 DEF Fetch, Configuring, Holding, Purging, Proceed, GoesOn
<1> QED
  BY <1>3, <1>4, <1>5, <1>6, <1>7 DEF Execute

---------------------------------------------------------------------------
(* The theorems on the order.                                               *)
\* Initially there is no plan.
LEMMA InitOrderly == Init => Orderly /\ Telling
<1> SUFFICES ASSUME Init PROVE Orderly /\ Telling
  OBVIOUS
<1>1. phase = "idle" /\ outcome = "none"
  BY DEF Init
<1>2. phase \notin Planning /\ phase # "adjust"
  BY <1>1 DEF Planning, Stages
<1> QED
  BY <1>1, <1>2 DEF Orderly, Arranging, Filtering, Accepted, Disfigurable, Configurable,
                    Telling, RefusedUnchanged

\* Every step keeps the order.
LEMMA NextOrders ==
    ASSUME Inv, Orderly, [Next]_vars
    PROVE  Orderly'
<1>1. Inv'
  BY NextKeeps
<1>2. ASSUME phase' \notin Planning
      PROVE  Orderly'
  BY <1>1, <1>2, OrderlyElsewhere DEF Inv
<1>3. CASE UNCHANGED vars
  <2>1. UNCHANGED <<world, req, before, phase, todo>> /\ UNCHANGED command
    BY <1>3 DEF vars, command
  <2>2. CASE phase \in Planning
    BY <2>1, <2>2, OrderlyStays
  <2>3. CASE phase \notin Planning
    BY <1>2, <2>1, <2>3
  <2> QED
    BY <2>2, <2>3
<1>4. CASE RequestDrop
  BY <1>1, <1>4, RequestDropOrders
<1>5. CASE Collect
  BY <1>1, <1>2, <1>5, CollectGoes, SettleOrders, OrderOrders, InsertPackageOrders
<1>6. CASE AdjustCommandLine
  BY <1>1, <1>2, <1>6, AdjustGoes, RefineOrders, DropAdjustmentOrders
<1>7. CASE Drop
  BY <1>1, <1>7, FilterOrders, FilterPrerequisiteOrders, ExecuteDropOrders DEF Drop
<1>8. CASE Execute
  BY <1>1, <1>8, ExecuteOrders
<1>9. CASE RequestBuild \/ Interrupt \/ FailDisfigure \/ FailConfigure
           \/ \E p \in Pkgs : PurgeBroken(p)
  <2>1. phase' \in {"idle", "collect"}
    BY <1>9 DEF RequestBuild, Iterate, Interrupt, FailDisfigure, FailConfigure, Fault, Finish,
                PurgeBroken
  <2>2. phase' \notin Planning
    BY <2>1 DEF Planning, Stages
  <2> QED
    BY <1>2, <2>2
<1> QED
  BY <1>3, <1>4, <1>5, <1>6, <1>7, <1>8, <1>9 DEF Next, Rest

\* Every step either leaves the outcome as it is or sets it, and is only refused by
\* the simulation.
LEMMA NextTells ==
    ASSUME Inv, Orderly, Telling, [Next]_vars
    PROVE  Telling' /\ (outcome' = "refused" /\ outcome # "refused" => SimulationRefused)
<1>1. ASSUME GoesOn \/ IsOver
      PROVE  Telling' /\ outcome' # "refused"
  BY <1>1 DEF GoesOn, IsOver, Telling, RefusedUnchanged
<1>2. CASE UNCHANGED vars
  BY <1>2 DEF vars, command, Telling, RefusedUnchanged
<1>3. CASE outcome' = "none"
  BY <1>3 DEF Telling, RefusedUnchanged
<1>4. CASE Rejected
  <2>1. phase = "order" /\ tasks = <<>> /\ req.kind = "build" /\ Refuses(selected)
    BY <1>4 DEF Rejected, Refine
  <2>2. selected = before
    BY <2>1 DEF Inv, Undisturbed, Stages
  <2>3. phase' = "idle" /\ UNCHANGED <<selected, before, req>>
    BY <1>4 DEF Rejected, Ends, Finish
  <2> QED
    BY <2>1, <2>2, <2>3 DEF Telling, RefusedUnchanged, SimulationRefused
<1>5. CASE RequestBuild \/ RequestDrop \/ \E p \in Pkgs : PurgeBroken(p)
  BY <1>3, <1>5 DEF RequestBuild, RequestDrop, PurgeBroken
<1>6. CASE Collect
  BY <1>1, <1>6, CollectGoes
<1>7. CASE AdjustCommandLine
  BY <1>1, <1>4, <1>7, AdjustGoes
<1>8. CASE Drop
  <2>1. Task("filter") => phase # "idle"
    BY HeadOf
  <2>2. GoesOn
    BY <1>8, <2>1 DEF Drop, Filter, FilterPrerequisite, ExecuteDrop, Staying, GoesOn
  <2> QED
    BY <1>1, <2>2
<1>9. CASE Execute
  BY <1>1, <1>9, ExecuteGoes
<1>10. CASE Interrupt \/ FailDisfigure \/ FailConfigure
  <2>1. IsOver
    BY <1>10 DEF Interrupt, FailDisfigure, FailConfigure, Fault, Finish, IsOver
  <2> QED
    BY <1>1, <2>1
<1> QED
  BY <1>2, <1>5, <1>6, <1>7, <1>8, <1>9, <1>10 DEF Next, Rest

\* order() and filter_prerequisites() keep the plan in order, and the execution keeps
\* to it.
THEOREM OrderlyInvariance == Spec => [](Inv /\ Orderly /\ Telling)
<1>1. Init => Inv /\ Orderly /\ Telling
  BY InitInv, InitOrderly
<1>2. Inv /\ Orderly /\ Telling /\ [Next]_vars => (Inv /\ Orderly /\ Telling)'
  <2>1. Inv /\ [Next]_vars => Inv'
    BY NextKeeps
  <2>2. Inv /\ Orderly /\ [Next]_vars => Orderly'
    BY NextOrders
  <2>3. Inv /\ Orderly /\ Telling /\ [Next]_vars => Telling'
    BY NextTells
  <2> QED
    BY <2>1, <2>2, <2>3
<1> QED
  BY <1>1, <1>2, PTL DEF Spec

\* Once order() is through every package is in the plan before all that it has to be
\* configured after or disfigured before, whichever way it was reached, moved or
\* ordered anew.
THEOREM PlanAlwaysOrdered == Spec => []PlanOrdered
<1>1. Orderly => PlanOrdered
  <2>1. tasks = <<>> => \A t \in ToSet(tasks) : t.op # "insert"
    BY DEF ToSet
  <2> QED
    BY <2>1, ArrangedOf DEF Orderly, PlanOrdered
<1> QED
  BY <1>1, OrderlyInvariance, PTL

\* execute_plan() never refuses to disfigure a package because of its dependents, nor
\* to configure one because of its prerequisites, unless it does so in the simulation:
\* when nothing is changed. pkg-drop, which does not simulate, is never refused.
THEOREM OnlyRefusedUnchanged == Spec => []RefusedUnchanged
<1>1. Telling => RefusedUnchanged
  BY DEF Telling
<1> QED
  BY <1>1, OrderlyInvariance, PTL

\* So a command is only refused by the simulation of a plan.
THEOREM RefusedBySimulation == Spec => RefusedOnlySimulated
<1>1. Inv /\ Orderly /\ Telling /\ [Next]_vars =>
         [outcome' = "refused" /\ outcome # "refused" => SimulationRefused]_vars
  BY NextTells
<1> QED
  BY <1>1, OrderlyInvariance, PTL DEF Spec, RefusedOnlySimulated

---------------------------------------------------------------------------
(* What the order is made from.                                             *)
\* A package depends, if it is configured, on what its manifest names.
AsManifest(p, s) == s.state = "configured" => DOMAIN s.prereqs = DependsOn(world, p, s.version)

\* What each stage makes of a package does.
LEMMA StagesAsManifest ==
    ASSUME Inv, phase \in Stages, NEW p \in ToSet(plan), AsManifest(p, before[p])
    PROVE  /\ AsManifest(p, Disfigured(p)) /\ AsManifest(p, Fetched(p))
           /\ AsManifest(p, Reconfigured(p)) /\ AsManifest(p, Held(p)) /\ AsManifest(p, None)
<1>1. AsManifest(p, None)
  BY NoneOf DEF AsManifest
<1>2. AsManifest(p, Disfigured(p))
  BY DisfiguredOf DEF AsManifest
<1>3. CASE Dropped(col.bm, p)
  <2>1. Fetched(p) = None /\ Held(p) = None /\ Reconfigured(p) = None
    BY <1>3 DEF Fetched, Held, Reconfigured
  <2> QED
    BY <1>1, <1>2, <2>1
<1>4. CASE ~Dropped(col.bm, p)
  <2>1. AsManifest(p, Fetched(p))
    BY <1>4, FetchedOf DEF AsManifest
  <2>2. AsManifest(p, Reconfigured(p))
    BY <1>4, ReconfiguredOf DEF AsManifest, Resolved
  <2>3. AsManifest(p, Held(p))
    BY <1>4, HeldOf DEF AsManifest, Resolved
  <2> QED
    BY <1>1, <1>2, <2>1, <2>2, <2>3
<1> QED
  BY <1>3, <1>4

\* At every stage of the execution all configured packages do.
LEMMA StagesManifested ==
    ASSUME Inv, phase \in Stages, Manifested(before)
    PROVE  Manifested(selected)
<1> SUFFICES ASSUME NEW p \in Pkgs PROVE AsManifest(p, selected[p])
  BY DEF Manifested, AsManifest
<1>1. AsManifest(p, before[p])
  BY DEF Manifested, AsManifest
<1>2. CASE p \notin ToSet(plan)
  BY <1>1, <1>2 DEF Inv, Progressing
<1>3. CASE p \in ToSet(plan)
  <2>1. /\ AsManifest(p, Disfigured(p)) /\ AsManifest(p, Fetched(p))
        /\ AsManifest(p, Reconfigured(p)) /\ AsManifest(p, Held(p)) /\ AsManifest(p, None)
    BY <1>1, <1>3, StagesAsManifest
  <2>2. \/ selected[p] \in {before[p], Disfigured(p), Fetched(p), Reconfigured(p), Held(p), None}
        \/ col.bm[p].action = "build" /\ selected[p] = Obtained(p, "fetched")
    BY <1>3, Zenon DEF Inv, Progressing, Progress, Stages
  <2>3. col.bm[p].action = "build" => Obtained(p, "fetched").state = "fetched"
    <3>1. "fetched" \in Config!States /\ "fetched" # "none"
      BY DEF Config!States
    <3> QED
      BY <1>3, <3>1, ObtainedOf
  <2> QED
    BY <1>1, <2>1, <2>2, <2>3 DEF AsManifest
<1> QED
  BY <1>2, <1>3

LEMMA StagesManifestedNext ==
    Inv' /\ (phase \in Stages)' /\ Manifested(before)' => Manifested(selected)'
<1>1. Inv /\ phase \in Stages /\ Manifested(before) => Manifested(selected)
  BY StagesManifested
<1> QED
  BY <1>1, PTL

\* What is changed but for that is not configured.
LEMMA ManifestedApart ==
    ASSUME Manifested(selected), world' = world, Configuration(world, selected),
           NEW p \in Pkgs, NEW s, selected' = Package(p, s), s.state # "configured"
    PROVE  Manifested(selected)'
<1>1. selected'[p] = s /\ \A q \in Pkgs : q # p => selected'[q] = selected[q]
  BY PackageOf
<1> QED
  BY <1>1 DEF Manifested

\* A step changes packages in a stage, or by what is not configured.
LEMMA NextChanges ==
    ASSUME Inv, [Next]_vars, phase' \notin Stages
    PROVE  \/ UNCHANGED selected
           \/ \E p \in Pkgs : \E s : selected' = Package(p, s) /\ s.state # "configured"
<1>1. Configuration(world, selected)
  BY DEF Inv, Undisturbed
<1>2. \A p \in Pkgs, state \in {"unpacked", "broken"} :
         LET s == [selected[p] EXCEPT !.state = state, !.prereqs = None.prereqs]
         IN  Unconfigured(p, state) = Package(p, s) /\ s.state = state
  <2> SUFFICES ASSUME NEW p \in Pkgs, NEW state \in {"unpacked", "broken"}
               PROVE  LET s == [selected[p] EXCEPT !.state = state, !.prereqs = None.prereqs]
                      IN  Unconfigured(p, state) = Package(p, s) /\ s.state = state
    OBVIOUS
  <2>1. Config!IsPackage(selected[p])
    BY <1>1 DEF Configuration
  <2> QED
    BY <2>1 DEF Unconfigured, Config!IsPackage
<1>3. todo # <<>> /\ phase \in Stages => Head(todo) \in Pkgs
  BY DEF Inv, Progressing
<1>4. CASE FailDisfigure
  BY <1>2, <1>3, <1>4 DEF FailDisfigure, Stage, Stages
<1>5. CASE FailConfigure
  BY <1>2, <1>3, <1>5 DEF FailConfigure, Stage, Stages
<1>6. CASE \E p \in Pkgs : PurgeBroken(p)
  BY <1>6, NoneOf DEF PurgeBroken
<1>7. CASE UNCHANGED vars \/ RequestBuild \/ RequestDrop \/ Interrupt \/ Drop
  BY <1>7 DEF vars, RequestBuild, RequestDrop, Interrupt, Drop, Filter, FilterPrerequisite,
              ExecuteDrop, Staying
<1>8. CASE Collect \/ AdjustCommandLine
  BY <1>8, CollectStays, AdjustStays
<1>9. CASE Execute
  <2>1. CASE Done
    BY <2>1 DEF Done, Ends
  <2>2. CASE Fetch \/ Configuring \/ Holding \/ Purging
    BY <2>2 DEF Fetch, Configuring, Holding, Purging, Proceed
  <2>3. ASSUME Going, phase \in Stages
        PROVE  FALSE
    BY <2>3 DEF Going
  <2>4. CASE Disfigure \/ Configure
    BY <2>3, <2>4 DEF Disfigure, Configure, Stage, Stages, Refused, Ends
  <2>5. CASE PurgeDropped \/ FetchPackage \/ Unpack \/ Hold \/ Purge
    BY <2>3, <2>5 DEF PurgeDropped, FetchPackage, Unpack, Hold, Purge, Stage, Stages
  <2> QED
    BY <1>9, <2>1, <2>2, <2>4, <2>5 DEF Execute
<1> QED
  BY <1>4, <1>5, <1>6, <1>7, <1>8, <1>9 DEF Next, Rest

\* What a command remembers of the packages is what it has found.
LEMMA NextBefore ==
    ASSUME [Next]_vars
    PROVE  world' = world /\ before' \in {before, selected}
<1>1. CASE Collect
  BY <1>1 DEF Collect, CollectHold, CollectPrerequisites, CollectDependency, CollectReplaced,
              Collected, FinishCollection, Visit, VisitDependency, VisitDependent, Settle, Order,
              InsertPackage, Staying, Fail, FailAssertion, Ends
<1>2. CASE AdjustCommandLine
  BY <1>2 DEF AdjustCommandLine, Refine, Again, Adjust, Visit, StartSearch, TryReplace,
              ConsiderVersion, NothingOffered, TryOthers, TryDependents, GiveUp, Cycle,
              Recollect, KeepAdjustment, Without1st, DropAdjustment, ExecutePlan, Searching,
              Staying, Fail, FailAssertion, Ends
<1>3. CASE Drop
  BY <1>3 DEF Drop, Filter, FilterPrerequisite, ExecuteDrop, Staying
<1>4. CASE Execute
  BY <1>4 DEF Execute, Disfigure, Fetch, PurgeDropped, FetchPackage, Unpack, Configuring,
              Configure, Holding, Hold, Purging, Purge, Done, Proceed, Refused, Ends, Going, Kept
<1>5. CASE UNCHANGED vars \/ RequestBuild \/ RequestDrop \/ Interrupt \/ FailDisfigure
           \/ FailConfigure \/ \E p \in Pkgs : PurgeBroken(p)
  BY <1>5 DEF vars, RequestBuild, RequestDrop, Interrupt, FailDisfigure, FailConfigure, Fault,
              Kept, PurgeBroken
<1> QED
  BY <1>1, <1>2, <1>3, <1>4, <1>5 DEF Next, Rest

\* Every step keeps to the manifests.
LEMMA NextManifests ==
    ASSUME Inv, Manifested(before), Manifested(selected), [Next]_vars
    PROVE  Manifested(before)' /\ Manifested(selected)'
<1>1. Inv'
  BY NextKeeps
<1>2. world' = world /\ before' \in {before, selected}
  BY NextBefore
<1>3. Manifested(before)'
  BY <1>2 DEF Manifested
<1>4. CASE phase' \in Stages
  BY <1>1, <1>3, <1>4, StagesManifestedNext
<1>5. CASE phase' \notin Stages
  <2>1. CASE UNCHANGED selected
    BY <1>2, <2>1 DEF Manifested
  <2>2. ASSUME NEW p \in Pkgs, NEW s, selected' = Package(p, s), s.state # "configured"
        PROVE  Manifested(selected)'
    BY <1>2, <2>2, ManifestedApart DEF Inv, Undisturbed
  <2> QED
    BY <1>3, <1>5, <2>1, <2>2, NextChanges
<1> QED
  BY <1>3, <1>4, <1>5

---------------------------------------------------------------------------
(* What is built has its prerequisites collected.                           *)
\* What is built of p in the map new was in the map bm, as far as prerequisites go.
AsBuilt(bm, new, p) ==
    p \in DOMAIN new /\ new[p].action = "build" =>
        /\ p \in DOMAIN bm /\ bm[p].action = "build" /\ new[p].version = bm[p].version
        /\ new[p].collected = bm[p].collected /\ new[p].recursive = bm[p].recursive

\* But for p, which may yet have to be collected.
BuiltApart(bm, new, p) ==
    \A q \in Pkgs : AsBuilt(bm, new, q) \/ (q = p /\ ~new[p].recursive)

\* It remains as it was, or to be done.
LEMMA GatheredStays ==
    ASSUME NEW bm, NEW new, NEW p, NEW ts, AsBuilt(bm, new, p), GatheredFor(bm, p, ts)
    PROVE  GatheredFor(new, p, ts)
BY DEF AsBuilt, GatheredFor, Pruned

\* A map with an entry put in.
LEMMA PutApart ==
    ASSUME NEW bm, NEW p \in Pkgs, NEW b \in Entries,
           \/ b.action # "build" \/ ~b.recursive
           \/ /\ p \in DOMAIN bm /\ bm[p].action = "build" /\ b.version = bm[p].version
              /\ b.collected = bm[p].collected /\ b.recursive = bm[p].recursive
    PROVE  BuiltApart(bm, Put(bm, p, b), p)
<1> DEFINE new == Put(bm, p, b)
<1>1. /\ DOMAIN new = DOMAIN bm \cup {p} /\ new[p] = b
      /\ \A q \in DOMAIN bm : q # p => new[q] = bm[q]
  BY DEF Put
<1> HIDE DEF new
<1>2. \A q \in Pkgs : q # p => AsBuilt(bm, new, q)
  BY <1>1 DEF AsBuilt
<1>3. AsBuilt(bm, new, p) \/ ~new[p].recursive
  BY <1>1 DEF AsBuilt
<1> QED
  BY <1>2, <1>3 DEF BuiltApart, new

\* Two entries merged are collected as the first one is.
LEMMA MergeCollected ==
    ASSUME NEW p \in Entries, NEW q
    PROVE  /\ Merge(p, q).action = p.action /\ Merge(p, q).version = p.version
           /\ Merge(p, q).collected = p.collected /\ Merge(p, q).recursive = p.recursive
<1> DEFINE ks == Extended(p.constraints, q.constraints)
<1> HIDE DEF ks
<1>1. Merge(p, q) =
        [p EXCEPT
            !.user = p.user \/ q.user,
            !.byDependents = p.byDependents \/ q.byDependents,
            !.constraints = ks,
            !.hold = p.hold \/ q.hold,
            !.holdVersion = IF q.holdVersion > p.holdVersion THEN q.holdVersion
                            ELSE p.holdVersion,
            !.reconfigure = p.reconfigure \/ q.reconfigure]
  BY DEF Merge, ks
<1> QED
  BY <1>1 DEF Entries

\* collect_drop() leaves what else is built.
LEMMA CollectDropApart ==
    ASSUME NEW c, Collection(c), NEW p \in Pkgs
    PROVE  LET x == CollectDrop(c, p)
           IN  x.scratch \/ \A q \in Pkgs : AsBuilt(c.bm, x.bm, q)
<1> DEFINE rep == IF ~Waits(c, p) THEN c.replaced
                  ELSE IF c.replaced[p].version # 0 THEN Without(c.replaced, p)
                  ELSE [c.replaced EXCEPT ![p].replaced = TRUE]
           d == [c EXCEPT !.replaced = rep]
           x == CollectDrop(c, p)
           put == Put(c.bm, p, DropPackage)
           rep2 == Put(rep, p, Replacement(0, 0))
<1>1. x = IF ~Has(c, p) THEN [d EXCEPT !.bm = put]
          ELSE IF c.bm[p].byDependents THEN d
          ELSE IF c.bm[p].action = "build"
               THEN [d EXCEPT !.replaced = rep2, !.scratch = TRUE]
          ELSE [d EXCEPT !.bm[p] = DropPackage]
  BY DEF CollectDrop
<1>2. IsCollection(c) /\ c.bm \in [DOMAIN c.bm -> Entries]
  BY DEF Collection, IsCollection
<1>3. \A q \in Pkgs : AsBuilt(c.bm, put, q) /\ AsBuilt(c.bm, c.bm, q)
  BY DropPackageOf DEF AsBuilt, Put
<1> HIDE DEF rep, rep2, put, x
<1>4. IsCollection(d) /\ d.bm = c.bm
  BY <1>2 DEF IsCollection
<1> HIDE DEF d
<1>5. CASE ~Has(c, p)
  <2>1. x.bm = put
    BY <1>1, <1>4, <1>5 DEF IsCollection
  <2> QED
    BY <1>3, <2>1 DEF x
<1>6. CASE Has(c, p) /\ c.bm[p].byDependents
  <2>1. x.bm = c.bm
    BY <1>1, <1>4, <1>6
  <2> QED
    BY <1>3, <2>1 DEF x
<1>7. CASE Has(c, p) /\ ~c.bm[p].byDependents /\ c.bm[p].action = "build"
  <2>1. x.scratch
    BY <1>1, <1>4, <1>7 DEF IsCollection
  <2> QED
    BY <2>1 DEF x
<1>8. CASE Has(c, p) /\ ~c.bm[p].byDependents /\ c.bm[p].action # "build"
  <2>1. x.bm = [c.bm EXCEPT ![p] = DropPackage]
    BY <1>1, <1>4, <1>8 DEF IsCollection
  <2>2. x.bm = put
    BY <1>2, <1>8, <2>1 DEF Has, put, Put
  <2> QED
    BY <1>3, <2>2 DEF x
<1> QED
  BY <1>5, <1>6, <1>7, <1>8

\* collect_build() leaves what else is built: p stays as it was, or is to be collected.
LEMMA CollectBuildApart ==
    ASSUME NEW c, Collection(c), NEW p \in Pkgs, NEW b0 \in Entries, ~b0.recursive
    PROVE  LET x == CollectBuild(c, p, b0)
           IN  x.scratch \/ BuiltApart(c.bm, x.bm, p)
<1> DEFINE applied == ApplyReplacement(c, p, b0)
           rep == IF applied THEN [c.replaced EXCEPT ![p].replaced = TRUE] ELSE c.replaced
           b == IF applied THEN [b0 EXCEPT !.version = c.replaced[p].version] ELSE b0
           old == c.bm[p]
           newRefuses == Against(old.version, b)
           oldRefuses == Against(b.version, old)
           differ == b.version # old.version
           both == differ /\ newRefuses # <<>> /\ oldRefuses # <<>>
           users == \E k \in ToSet(newRefuses) : k.by = CmdLine
           dependents == Those(newRefuses, {k \in ToSet(newRefuses) : k.by # CmdLine})
           newWins == IF both THEN users
                      ELSE IF ~differ \/ newRefuses = oldRefuses
                      THEN PreferNew(c, p, old, b)
                      ELSE newRefuses # <<>>
           pair(k, j) == IF PreferNew(c, p, old, b) THEN <<k, j>> ELSE <<j, k>>
           ignored == IF ~both THEN <<>>
                      ELSE IF users
                      THEN [i \in DOMAIN oldRefuses |->
                               Unsatisfied(oldRefuses[i].by, p,
                                           pair(newRefuses[1], oldRefuses[i]))]
                      ELSE [i \in DOMAIN dependents |->
                               Unsatisfied(dependents[i].by, p,
                                           pair(dependents[i], oldRefuses[1]))]
           d == [c EXCEPT !.replaced = rep, !.taken = TRUE]
           e == [d EXCEPT !.unsat = Noted(@, ignored)]
           x == CollectBuild(c, p, b0)
           dropping == Waits(c, p) /\ c.replaced[p].version = 0 /\ ~b0.byDependents
           c1 == [c EXCEPT !.replaced[p].replaced = TRUE]
<1>1. x = IF dropping THEN CollectDrop(c1, p)
          ELSE IF ~Has(c, p) \/ old.action = "drop" THEN [d EXCEPT !.bm = Put(c.bm, p, b)]
          ELSE IF old.action # "build" THEN [d EXCEPT !.bm[p] = Merge(b, old)]
          ELSE IF ~newWins THEN [e EXCEPT !.bm[p] = Merge(old, b), !.taken = FALSE]
          ELSE IF ~differ THEN [e EXCEPT !.bm[p] = Merge(b, old)]
          ELSE [e EXCEPT !.scratch = TRUE,
                         !.replaced = Put(rep, p, Replacement(b.version, old.version))]
  BY Zenon DEF CollectBuild
<1>2. /\ IsCollection(c) /\ c.bm \in [DOMAIN c.bm -> Entries] /\ DOMAIN c.bm \subseteq Pkgs
      /\ c.replaced \in [DOMAIN c.replaced -> Replacements]
  BY DEF Collection, IsCollection
<1>3. b \in Entries /\ ~b.recursive
  <2>1. CASE applied
    <3>1. c.replaced[p].version \in Versions \cup {0}
      BY <1>2, <2>1 DEF ApplyReplacement, Waits, Replacements
    <3> QED
      BY <2>1, <3>1 DEF Entries
  <2> QED
    BY <2>1
<1> HIDE DEF rep, b
<1> HIDE DEF newWins, differ, ignored, x, c1
<1>4. IsCollection(d) /\ d.bm = c.bm
  <2>1. d = [c EXCEPT !.replaced = rep, !.taken = TRUE]
    OBVIOUS
  <2> HIDE DEF d
  <2> QED
    BY <1>2, <2>1 DEF IsCollection
<1> HIDE DEF d
<1>5. IsCollection(e) /\ e.bm = c.bm
  BY <1>4 DEF IsCollection
<1> HIDE DEF e
<1>6. CASE dropping
  <2> DEFINE rs == [c.replaced EXCEPT ![p].replaced = TRUE]
  <2>1. p \in DOMAIN c.replaced
    BY <1>6 DEF Waits
  <2>2. rs \in [DOMAIN rs -> Replacements] /\ DOMAIN rs = DOMAIN c.replaced
    BY <1>2, <2>1 DEF Replacements
  <2>3. c1 = [c EXCEPT !.replaced = rs]
    BY <1>2 DEF IsCollection, c1
  <2> HIDE DEF rs
  <2>4. Collection(c1) /\ c1.bm = c.bm
    BY <1>2, <2>2, <2>3 DEF Collection, IsCollection
  <2>5. CollectDrop(c1, p).scratch \/ \A q \in Pkgs : AsBuilt(c1.bm, CollectDrop(c1, p).bm, q)
    BY <2>4, CollectDropApart
  <2>6. x = CollectDrop(c1, p)
    BY <1>1, <1>6
  <2>7. x.scratch \/ \A q \in Pkgs : AsBuilt(c.bm, x.bm, q)
    BY <2>4, <2>5, <2>6
  <2> QED
    BY <2>7 DEF BuiltApart, x
<1> HIDE DEF dropping
<1>7. CASE ~dropping /\ (~Has(c, p) \/ old.action = "drop")
  <2>1. x = [d EXCEPT !.bm = Put(c.bm, p, b)]
    BY <1>1, <1>7
  <2>2. x.bm = Put(c.bm, p, b)
    BY <1>4, <2>1 DEF IsCollection
  <2>3. BuiltApart(c.bm, x.bm, p)
    BY <1>3, <2>2, PutApart
  <2> QED
    BY <2>3 DEF x
<1>8. ASSUME Has(c, p), NEW q \in Entries
      PROVE  old \in Entries /\ [c.bm EXCEPT ![p] = q] = Put(c.bm, p, q)
  BY <1>2, <1>8 DEF Has, Put
<1>9. CASE ~dropping /\ Has(c, p) /\ old.action \notin {"drop", "build"}
  <2> DEFINE m == Merge(b, old)
  <2>1. x = [d EXCEPT !.bm[p] = m]
    BY <1>1, <1>9
  <2>2. m \in Entries /\ ~m.recursive
    <3>1. m \in Entries
      BY <1>3, <1>8, <1>9, MergeOf
    <3>2. m.recursive = b.recursive
      BY <1>3, MergeCollected
    <3> QED
      BY <1>3, <3>1, <3>2, Zenon
  <2> HIDE DEF m
  <2>3. x.bm = Put(c.bm, p, m)
    BY <1>4, <1>8, <1>9, <2>1, <2>2 DEF IsCollection
  <2>4. BuiltApart(c.bm, x.bm, p)
    BY <2>2, <2>3, PutApart
  <2> QED
    BY <2>4 DEF x
<1>10. CASE ~dropping /\ Has(c, p) /\ old.action = "build" /\ ~newWins
  <2> DEFINE m == Merge(old, b)
  <2>1. x = [e EXCEPT !.bm[p] = m, !.taken = FALSE]
    BY <1>1, <1>10
  <2>2. /\ m \in Entries /\ p \in DOMAIN c.bm /\ m.version = old.version
        /\ m.collected = old.collected /\ m.recursive = old.recursive
    BY <1>3, <1>8, <1>10, MergeCollected, MergeOf DEF Has
  <2> HIDE DEF m
  <2>3. x.bm = Put(c.bm, p, m)
    BY <1>5, <1>8, <1>10, <2>1, <2>2 DEF IsCollection
  <2>4. BuiltApart(c.bm, x.bm, p)
    BY <1>10, <2>2, <2>3, PutApart
  <2> QED
    BY <2>4 DEF x
<1>11. CASE ~dropping /\ Has(c, p) /\ old.action = "build" /\ newWins /\ ~differ
  <2> DEFINE m == Merge(b, old)
  <2>1. x = [e EXCEPT !.bm[p] = m]
    BY <1>1, <1>11
  <2>2. m \in Entries /\ ~m.recursive
    <3>1. m \in Entries
      BY <1>3, <1>8, <1>11, MergeOf
    <3>2. m.recursive = b.recursive
      BY <1>3, MergeCollected
    <3> QED
      BY <1>3, <3>1, <3>2, Zenon
  <2> HIDE DEF m
  <2>3. x.bm = Put(c.bm, p, m)
    BY <1>5, <1>8, <1>11, <2>1, <2>2 DEF IsCollection
  <2>4. BuiltApart(c.bm, x.bm, p)
    BY <2>2, <2>3, PutApart
  <2> QED
    BY <2>4 DEF x
<1>12. CASE ~dropping /\ Has(c, p) /\ old.action = "build" /\ newWins /\ differ
  <2>1. x = [e EXCEPT !.scratch = TRUE,
                      !.replaced = Put(rep, p, Replacement(b.version, old.version))]
    BY <1>1, <1>12
  <2>2. x.scratch
    BY <1>5, <2>1 DEF IsCollection
  <2> QED
    BY <2>2 DEF x
<1> QED
  BY <1>6, <1>7, <1>9, <1>10, <1>11, <1>12, Zenon

\* A map in which nothing is built.
LEMMA NothingBuilt ==
    ASSUME \A p \in Pkgs : ~(p \in DOMAIN col'.bm /\ col'.bm[p].action = "build")
    PROVE  Gathered'
BY DEF Gathered, GatheredFor

\* An iteration from scratch has nothing but what is expected of dependencies.
LEMMA IterateGathers ==
    ASSUME NEW l, NEW ds, NEW rs, NEW bm, Iterate(l, ds, rs, bm, TRUE)
    PROVE  Gathered'
<1>1. col'.bm = Entered(l)
  BY DEF Iterate
<1>2. \A p \in DOMAIN Entered(l) : Entered(l)[p].action = "enter"
  BY DEF Entered, BuildPackage
<1> QED
  BY <1>1, <1>2, NothingBuilt

\* When a map is collected, what else is built stays as it is.
LEMMA MapGathers ==
    ASSUME Gathered, phase # "idle", phase # "collect" \/ tasks = <<>>,
           UNCHANGED <<req, before>>,
           \A p \in Pkgs : AsBuilt(col.bm, col'.bm, p)
    PROVE  Gathered'
<1> SUFFICES ASSUME Commanded', NEW p \in Pkgs
             PROVE  GatheredFor(col.bm, p, IF phase = "collect" THEN ToSet(tasks) ELSE {})'
  BY DEF Gathered
<1>1. Commanded
  BY DEF Commanded
<1>2. phase = "collect" => ToSet(tasks) = {}
  BY DEF ToSet
<1>3. GatheredFor(col.bm, p, {})
  BY <1>1, <1>2 DEF Gathered
<1>4. AsBuilt(col.bm, col'.bm, p)
  OBVIOUS
<1>5. ASSUME p \in DOMAIN col'.bm, col'.bm[p].action = "build"
      PROVE  /\ col'.bm[p].recursive
             /\ col'.bm[p].collected \/ Pruned(before', col'.bm, p)
  BY <1>3, <1>4, <1>5 DEF AsBuilt, GatheredFor, Pruned
<1> QED
  BY <1>5 DEF GatheredFor

\* What is not built by a command does not matter.
LEMMA OthersGather ==
    ASSUME ~Commanded'
    PROVE  Gathered'
BY DEF Gathered

\* cancel_drop_prerequisites() takes nothing that is built away.
LEMMA CancelDropsApart ==
    \A p \in Pkgs : AsBuilt(col.bm, CancelDrops(col.bm), p)
<1>1. PICK gone : CancelDrops(col.bm) = [p \in DOMAIN col.bm \ gone |-> col.bm[p]]
  BY DEF CancelDrops
<1> QED
  BY <1>1 DEF AsBuilt

\* collect_dependents() marks what is built and enters what is only adjusted.
LEMMA CollectDependentApart ==
    ASSUME NEW sel, NEW c, Collection(c), NEW p, NEW q \in Pkgs
    PROVE  LET x == CollectDependent(sel, c, p, q)
           IN  \A r \in Pkgs : AsBuilt(c.bm, x.bm, r)
<1> DEFINE known == Has(c, q)
           collected == known /\ c.bm[q].collected
           constraint == [by |-> q, allowed |-> sel[q].prereqs[p]]
           refused == /\ c.bm[p].action = "build" /\ c.bm[p].version # sel[p].version
                      /\ ~collected /\ c.bm[p].version \notin constraint.allowed
           adjustment == [BuildPackage("adjust", 0) EXCEPT !.reconfigure = TRUE]
           adjusted == IF ~known THEN adjustment
                       ELSE IF c.bm[q].action = "build"
                       THEN [c.bm[q] EXCEPT !.reconfigure = TRUE]
                       ELSE Merge(adjustment, c.bm[q])
           unsat == IF refused THEN Noted(c.unsat, <<Unsatisfied(q, p, <<>>)>>) ELSE c.unsat
           bm == Put(c.bm, q, adjusted)
           d == [c EXCEPT !.bm = bm, !.unsat = unsat]
           x == CollectDependent(sel, c, p, q)
<1>1. x = IF collected THEN d
          ELSE [d EXCEPT !.bm[p].constraints = Extended(@, <<constraint>>)]
  <2>1. d = [c EXCEPT !.bm = Put(@, q, adjusted),
                      !.unsat = IF refused THEN Noted(@, <<Unsatisfied(q, p, <<>>)>>) ELSE @]
    BY DEF Collection, IsCollection
  <2> HIDE DEF d
  <2> QED
    BY <2>1, Zenon DEF CollectDependent
<1>2. IsCollection(c) /\ c.bm \in [DOMAIN c.bm -> Entries]
  BY DEF Collection, IsCollection
<1>3. adjustment \in Entries /\ adjustment.action = "adjust"
  <2>1. PICK b \in Entries : b = BuildPackage("adjust", 0) /\ b.action = "adjust"
    BY BuildPackageOf
  <2>2. adjustment = [b EXCEPT !.reconfigure = TRUE]
    BY <2>1
  <2> HIDE DEF adjustment
  <2> QED
    BY <2>1, <2>2 DEF Entries
<1> HIDE DEF adjustment
<1>4. /\ adjusted \in Entries
      /\ known /\ c.bm[q].action = "build" =>
            /\ adjusted.action = "build" /\ adjusted.version = c.bm[q].version
            /\ adjusted.collected = c.bm[q].collected /\ adjusted.recursive = c.bm[q].recursive
  <2>1. CASE ~known
    BY <1>3, <2>1
  <2>2. CASE known /\ c.bm[q].action = "build"
    <3>1. PICK b \in Entries : b = c.bm[q]
      BY <1>2, <2>2 DEF Has
    <3>2. adjusted = [b EXCEPT !.reconfigure = TRUE]
      BY <2>2, <3>1
    <3> HIDE DEF adjusted
    <3> QED
      BY <3>1, <3>2 DEF Entries
  <2>3. CASE known /\ c.bm[q].action # "build"
    BY <1>2, <1>3, <2>3, MergeOf DEF Has
  <2> QED
    BY <2>1, <2>2, <2>3
<1>5. ~known \/ c.bm[q].action # "build" => adjusted.action # "build"
  BY <1>3, MergeCollected
<1> HIDE DEF adjusted
<1>6. (\A r \in Pkgs : AsBuilt(c.bm, bm, r)) /\ bm \in [DOMAIN bm -> Entries]
  <2>1. /\ DOMAIN bm = DOMAIN c.bm \cup {q} /\ bm[q] = adjusted
        /\ \A r \in DOMAIN c.bm : r # q => bm[r] = c.bm[r]
    BY DEF Put
  <2>2. bm \in [DOMAIN c.bm \cup {q} -> Entries]
    BY <1>2, <1>4, PutIn
  <2> HIDE DEF bm
  <2>3. \A r \in Pkgs : AsBuilt(c.bm, bm, r)
    BY <1>4, <1>5, <2>1 DEF AsBuilt, Has
  <2> QED
    BY <2>1, <2>2, <2>3
<1> HIDE DEF bm, unsat, x
<1>7. IsCollection(d) /\ d.bm = bm
  <2>1. d = [c EXCEPT !.bm = bm, !.unsat = unsat]
    OBVIOUS
  <2> HIDE DEF d
  <2> QED
    BY <1>2, <2>1 DEF IsCollection
<1> HIDE DEF d, collected
<1>8. CASE collected
  BY <1>1, <1>6, <1>7, <1>8 DEF x
<1>9. CASE ~collected
  <2>1. x = [d EXCEPT !.bm = [d.bm EXCEPT ![p] =
               [d.bm[p] EXCEPT !.constraints = Extended(d.bm[p].constraints, <<constraint>>)]]]
    BY <1>1, <1>7, <1>9 DEF IsCollection
  <2>2. x.bm = [bm EXCEPT ![p] =
                  [bm[p] EXCEPT !.constraints = Extended(bm[p].constraints, <<constraint>>)]]
    BY <1>7, <2>1 DEF IsCollection
  <2>3. /\ DOMAIN x.bm = DOMAIN bm /\ \A r \in DOMAIN bm : r # p => x.bm[r] = bm[r]
        /\ p \in DOMAIN bm =>
              /\ x.bm[p].action = bm[p].action /\ x.bm[p].version = bm[p].version
              /\ x.bm[p].collected = bm[p].collected /\ x.bm[p].recursive = bm[p].recursive
    BY <1>6, <2>2 DEF Entries
  <2> QED
    BY <1>6, <2>3 DEF AsBuilt, x
<1> QED
  BY <1>8, <1>9

\* What is collected stays so, or is left to be done: for all but the task at hand.
LEMMA HeadGathers ==
    ASSUME Inv, Gathered, phase = "collect", tasks # <<>>, NEW q \in Pkgs,
           Do("prerequisites", q) # Head(tasks)
    PROVE  GatheredFor(col.bm, q, ToSet(Tail(tasks)))
<1>1. Commanded
  BY DEF Inv, Undisturbed, Commanded, OfBuild, BuildPhases
<1>2. GatheredFor(col.bm, q, ToSet(tasks))
  BY <1>1 DEF Gathered
<1>3. ToSet(tasks) = {Head(tasks)} \cup ToSet(Tail(tasks))
  BY TailSet DEF Inv, Tasking
<1> QED
  BY <1>2, <1>3 DEF GatheredFor

\* A step of the collection.
LEMMA CollectedGathers ==
    ASSUME Inv, phase = "collect", tasks # <<>>, NEW c, NEW more \in Seq(TaskRecords),
           Collected(c, more),
           c.scratch \/ \A q \in Pkgs :
                            GatheredFor(c.bm, q, ToSet(more) \cup ToSet(Tail(tasks)))
    PROVE  Gathered'
<1>1. CASE c.scratch
  BY <1>1, IterateGathers DEF Collected
<1>2. CASE ~c.scratch
  <2>1. /\ col' = c /\ tasks' = more \o Tail(tasks)
        /\ UNCHANGED <<phase, before>>
    BY <1>2 DEF Collected, More, Staying
  <2>2. ToSet(tasks') = ToSet(more) \cup ToSet(Tail(tasks))
    <3>1. Tail(tasks) \in Seq(TaskRecords)
      BY TailSet DEF Inv, Tasking
    <3> QED
      BY <2>1, <3>1, ConcatSet
  <2> SUFFICES ASSUME NEW q \in Pkgs
               PROVE  GatheredFor(col.bm, q, ToSet(tasks))'
    BY <2>1 DEF Gathered
  <2> QED
    BY <1>2, <2>1, <2>2 DEF GatheredFor, Pruned
<1> QED
  BY <1>1, <1>2

\* And one that leaves all but one package as it is.
LEMMA ApartGathers ==
    ASSUME Inv, Gathered, phase = "collect", tasks # <<>>, NEW c, NEW more \in Seq(TaskRecords),
           Collected(c, more), NEW p \in Pkgs,
           \A q \in Pkgs : Do("prerequisites", q) # Head(tasks),
           \/ c.scratch
           \/ /\ BuiltApart(col.bm, c.bm, p)
              /\ \/ c.bm[p].action # "build" \/ c.bm[p].recursive
                 \/ Do("prerequisites", p) \in ToSet(more) \cup ToSet(Tail(tasks))
    PROVE  Gathered'
<1> DEFINE ts == ToSet(more) \cup ToSet(Tail(tasks))
<1>1. ASSUME ~c.scratch, NEW q \in Pkgs
      PROVE  GatheredFor(c.bm, q, ts)
  <2>1. GatheredFor(col.bm, q, ToSet(Tail(tasks)))
    BY HeadGathers
  <2>2. GatheredFor(col.bm, q, ts)
    BY <2>1 DEF GatheredFor
  <2>3. CASE AsBuilt(col.bm, c.bm, q)
    BY <2>2, <2>3, GatheredStays
  <2>4. CASE q = p /\ ~c.bm[p].recursive
    BY <1>1, <2>4 DEF GatheredFor
  <2> QED
    BY <1>1, <2>3, <2>4 DEF BuiltApart
<1> QED
  BY <1>1, CollectedGathers

\* The user's packages, whose prerequisites are to be collected afterwards.
LEMMA CollectHoldGathers ==
    ASSUME Inv, Gathered, Announced, CollectHold
    PROVE  Gathered'
<1> DEFINE p == Head(tasks).name
           b == HoldBuild(p)
           c == CollectBuild(col, p, b)
<1>1. Task("hold") /\ Collected(c, <<>>)
  BY DEF CollectHold
<1>2. /\ tasks # <<>> /\ Head(tasks) \in TaskRecords
      /\ Head(tasks).op = "hold" /\ "hold" \in Ops(phase)
      /\ Tasked(phase, world, before, line, col, ToSet(plan), Head(tasks))
  BY <1>1, HeadOf
<1>3. phase = "collect"
  BY <1>2 DEF Ops
<1>4. AtWork
  BY <1>3, WorkOf DEF OfBuild, BuildPhases
<1>5. p \in Pkgs /\ p \in DOMAIN line.hold
  BY <1>2, TaskOf DEF Tasked
<1>6. b \in Entries /\ ~b.recursive
  <2>1. Entering(world, before, line, p, b)
    BY <1>4, <1>5, HoldBuildOf DEF AtWork
  <2> QED
    BY <2>1 DEF Entering, HoldBuild, BuildPackage
<1>7. c.scratch \/ BuiltApart(col.bm, c.bm, p)
  <2> HIDE DEF b, p
  <2> QED
    BY <1>4, <1>5, <1>6, CollectBuildApart DEF AtWork, Collects
<1>8. \A q : Do("prerequisites", q) # Head(tasks)
  BY <1>2 DEF Do
<1>9. Do("prerequisites", p) \in ToSet(Tail(tasks))
  <2>1. ToSet(tasks) = {Head(tasks)} \cup ToSet(Tail(tasks))
    BY <1>2, TailSet DEF Inv, Tasking
  <2>2. 1 \in DOMAIN tasks /\ tasks[1] = Head(tasks)
    BY <1>2 DEF Inv, Tasking
  <2>3. Do("prerequisites", p) \in ToSet(tasks)
    BY <1>2, <1>3, <2>2 DEF Announced
  <2> QED
    BY <1>8, <2>1, <2>3
<1> HIDE DEF c, b
<1> QED
  BY <1>1, <1>2, <1>3, <1>5, <1>7, <1>8, <1>9, NothingMore, ApartGathers

\* A version decided for a dependency.
LEMMA CollectReplacedGathers ==
    ASSUME Inv, Gathered, CollectReplaced
    PROVE  Gathered'
<1> DEFINE p == Head(tasks).name
           v == Head(tasks).version
           b == [BuildPackage("build", v) EXCEPT !.user = TRUE]
           c == IF v = 0 THEN CollectDrop(col, p) ELSE CollectBuild(col, p, b)
           more == IF v = 0 \/ c.scratch \/ c.bm[p].action # "build" THEN <<>>
                   ELSE <<Do("prerequisites", p)>>
<1>1. Task("replaced") /\ Collected(c, more)
  BY DEF CollectReplaced
<1>2. /\ tasks # <<>> /\ Head(tasks) \in TaskRecords
      /\ Head(tasks).op = "replaced" /\ "replaced" \in Ops(phase)
      /\ Tasked(phase, world, before, line, col, ToSet(plan), Head(tasks))
  BY <1>1, HeadOf
<1>3. phase = "collect"
  BY <1>2 DEF Ops
<1>4. AtWork /\ Collection(col)
  BY <1>3, WorkOf DEF OfBuild, BuildPhases, AtWork, Collects
<1>5. p \in Pkgs /\ v \in Versions \cup {0}
  BY <1>2, TaskOf
<1>6. \A q : Do("prerequisites", q) # Head(tasks)
  BY <1>2 DEF Do
<1>7. CASE v = 0
  <2>1. CollectDrop(col, p).scratch \/ \A q \in Pkgs : AsBuilt(col.bm, CollectDrop(col, p).bm, q)
    BY <1>4, <1>5, CollectDropApart
  <2>2. c.scratch \/ \A q \in Pkgs : GatheredFor(c.bm, q, ToSet(<<>>) \cup ToSet(Tail(tasks)))
    <3> SUFFICES ASSUME ~c.scratch, NEW q \in Pkgs
                 PROVE  GatheredFor(c.bm, q, ToSet(<<>>) \cup ToSet(Tail(tasks)))
      OBVIOUS
    <3>1. AsBuilt(col.bm, c.bm, q)
      BY <1>7, <2>1
    <3>2. GatheredFor(col.bm, q, ToSet(Tail(tasks)))
      BY <1>2, <1>3, <1>6, HeadGathers
    <3>3. GatheredFor(col.bm, q, ToSet(<<>>) \cup ToSet(Tail(tasks)))
      BY <3>2 DEF GatheredFor
    <3> HIDE DEF c
    <3> QED
      BY <3>1, <3>3, GatheredStays
  <2>3. Collected(c, <<>>)
    BY <1>1, <1>7
  <2> HIDE DEF c
  <2> QED
    BY <1>2, <1>3, <2>2, <2>3, NothingMore, CollectedGathers
<1>8. CASE v # 0
  <2>1. b \in Entries /\ ~b.recursive
    <3>1. PICK x \in Entries : x = BuildPackage("build", v) /\ ~x.recursive
      BY <1>5, BuildPackageOf DEF BuildPackage
    <3>2. b = [x EXCEPT !.user = TRUE]
      BY <3>1
    <3> HIDE DEF b
    <3> QED
      BY <3>1, <3>2 DEF Entries
  <2>2. c.scratch \/ BuiltApart(col.bm, c.bm, p)
    <3>1. c = CollectBuild(col, p, b)
      BY <1>8
    <3> HIDE DEF b, p, c
    <3> QED
      BY <1>4, <1>5, <2>1, <3>1, CollectBuildApart
  <2>3. more \in Seq(TaskRecords)
    <3>1. Do("prerequisites", p) \in TaskRecords
      BY <1>5 DEF Do, TaskRecords
    <3> QED
      BY <3>1, PairOf, NothingMore
  <2>4. c.scratch \/ c.bm[p].action # "build" \/ Do("prerequisites", p) \in ToSet(more)
    BY <1>8, PairSet
  <2> HIDE DEF c, more
  <2> QED
    BY <1>1, <1>2, <1>3, <1>5, <1>6, <2>2, <2>3, <2>4, ApartGathers
<1> QED
  BY <1>7, <1>8

\* The prerequisites of a package are collected, unless it stays as it is.
LEMMA CollectPrerequisitesGathers ==
    ASSUME Inv, Gathered, CollectPrerequisites
    PROVE  Gathered'
<1> DEFINE p == Head(tasks).name
           pruned == col.bm[p].collected \/ Pruned(selected, col.bm, p)
           c == [col EXCEPT !.bm[p].recursive = TRUE, !.bm[p].collected = @ \/ ~pruned]
           more == IF pruned THEN <<>> ELSE <<Dependency(p, 1)>>
<1>1. /\ Task("prerequisites")
      /\ IF ~Has(col, p) \/ col.bm[p].action # "build" THEN FailAssertion
         ELSE Collected(c, more)
  BY DEF CollectPrerequisites
<1>2. /\ phase # "idle" /\ tasks # <<>> /\ Head(tasks) \in TaskRecords
      /\ Head(tasks).op = "prerequisites" /\ "prerequisites" \in Ops(phase)
  BY <1>1, HeadOf
<1>3. phase = "collect"
  BY <1>2 DEF Ops
<1>4. AtWork /\ selected = before
  BY <1>3, WorkOf DEF OfBuild, BuildPhases, Inv, Undisturbed, Stages
<1>5. p \in Pkgs
  BY <1>2, TaskOf
<1>6. CASE FailAssertion
  BY <1>6, OthersGather DEF FailAssertion, Ends, Finish, Commanded
<1>7. CASE ~FailAssertion
  <2>1. Collected(c, more) /\ p \in DOMAIN col.bm /\ col.bm[p].action = "build"
    BY <1>1, <1>7 DEF Has
  <2>2. PICK b \in Entries : b = col.bm[p]
    BY <1>4, <2>1 DEF AtWork, Maps
  <2> DEFINE collected == b.collected \/ ~pruned
             new == [b EXCEPT !.recursive = TRUE, !.collected = collected]
  <2>3. /\ new.version = b.version /\ new.recursive = TRUE /\ new.collected = collected
        /\ new.action = b.action
    <3>1. PICK x \in BOOLEAN : x = collected
      OBVIOUS
    <3>2. PICK y \in BOOLEAN : y = TRUE
      OBVIOUS
    <3>3. new = [b EXCEPT !.recursive = y, !.collected = x]
      BY <3>1, <3>2
    <3> HIDE DEF new, collected
    <3>4. /\ new.version = b.version /\ new.recursive = y /\ new.collected = x
          /\ new.action = b.action
      BY <2>2, <3>3 DEF Entries
    <3> QED
      BY <3>1, <3>2, <3>4
  <2>4. c.bm = [col.bm EXCEPT ![p] = new]
    <3>1. IsCollection(col)
      BY <1>4, CollectsIff DEF AtWork
    <3> DEFINE m == [col.bm EXCEPT ![p] = new]
    <3>2. c = [col EXCEPT !.bm = m]
      BY <2>1, <2>2, <3>1 DEF IsCollection
    <3> HIDE DEF c, m
    <3>3. c.bm = m
      BY <3>1, <3>2 DEF IsCollection
    <3> QED
      BY <3>3 DEF m
  <2> HIDE DEF c, new
  <2>5. c.bm[p] = new /\ DOMAIN c.bm = DOMAIN col.bm
        /\ \A q \in DOMAIN col.bm : q # p => c.bm[q] = col.bm[q]
    BY <2>1, <2>4
  <2>6. more \in Seq(TaskRecords)
    <3>1. Dependency(p, 1) \in TaskRecords
      BY <1>5, DependencyOf
    <3> QED
      BY <3>1, PairOf, NothingMore
  <2> DEFINE ts == ToSet(more) \cup ToSet(Tail(tasks))
  <2> HIDE DEF ts
  <2>7. ASSUME NEW q \in Pkgs, q # p
        PROVE  GatheredFor(c.bm, q, ts)
    <3>1. Do("prerequisites", q) # Head(tasks)
      BY <2>7 DEF Do
    <3>2. GatheredFor(col.bm, q, ToSet(Tail(tasks)))
      BY <1>2, <1>3, <3>1, HeadGathers
    <3>3. GatheredFor(col.bm, q, ts)
      BY <3>2 DEF GatheredFor, ts
    <3>4. AsBuilt(col.bm, c.bm, q)
      BY <2>5, <2>7 DEF AsBuilt
    <3> QED
      BY <3>3, <3>4, GatheredStays
  <2>8. GatheredFor(c.bm, p, ts)
    <3>1. c.bm[p].recursive /\ c.bm[p].version = col.bm[p].version
      BY <2>2, <2>3, <2>5
    <3>2. c.bm[p].collected <=> (col.bm[p].collected \/ ~pruned)
      BY <2>2, <2>3, <2>5
    <3>3. c.bm[p].collected \/ Pruned(before, c.bm, p)
      BY <1>4, <3>1, <3>2 DEF Pruned
    <3> QED
      BY <3>1, <3>3 DEF GatheredFor
  <2> HIDE DEF more
  <2> QED
    BY <1>2, <1>3, <2>1, <2>6, <2>7, <2>8, CollectedGathers DEF ts
<1> QED
  BY <1>6, <1>7

\* A dependency, whose own prerequisites are collected next, unless they have been.
LEMMA CollectDependencyGathers ==
    ASSUME Inv, Gathered, CollectDependency
    PROVE  Gathered'
<1> DEFINE p == Head(tasks).name
           i == Head(tasks).at
           ds == Depends(world, p, col.bm[p].version)
           d == ds[i]
           entered == d.name \in DOMAIN col.bm /\ col.bm[d.name].action = "enter"
           user == IF entered THEN col.bm[d.name].constraints ELSE <<>>
           allowed == IF user # <<>> THEN user[1].allowed ELSE d.allowed
           imposed == [by |-> p, allowed |-> d.allowed]
           vs == Candidates(world, selected, d.name, allowed)
           b == [BuildPackage("build", CHOOSE v \in vs : TRUE) EXCEPT
                    !.byDependents = TRUE,
                    !.constraints = Append(user, imposed)]
           ignored == IF allowed \subseteq d.allowed THEN <<>>
                      ELSE <<Unsatisfied(p, d.name, <<imposed>>)>>
           col1 == [col EXCEPT !.unsat = Noted(@, ignored)]
           c == CollectBuild(col1, d.name, b)
           next == Dependency(p, i + 1)
           more == IF c.scratch \/ c.bm[d.name].recursive THEN <<next>>
                   ELSE <<Do("prerequisites", d.name), next>>
<1>1. /\ Task("depend")
      /\ \/ i > Len(ds) /\ Collected(col, <<>>)
         \/ Fail
         \/ /\ ~(i > Len(ds)) /\ selected[d.name].state # "broken" /\ vs # {}
            /\ Collected(c, more)
  BY DEF CollectDependency
<1>2. /\ phase # "idle" /\ tasks # <<>> /\ Head(tasks) \in TaskRecords
      /\ Head(tasks).op = "depend" /\ "depend" \in Ops(phase)
  BY <1>1, HeadOf
<1>3. phase = "collect"
  BY <1>2 DEF Ops
<1>4. \A q : Do("prerequisites", q) # Head(tasks)
  BY <1>2 DEF Do
<1>5. p \in Pkgs /\ i \in Nat \ {0}
  BY <1>2, TaskOf
<1>6. CASE Fail
  BY <1>6, OthersGather DEF Fail, Ends, Finish, Commanded
<1>7. CASE i > Len(ds) /\ Collected(col, <<>>)
  <2>1. \A q \in Pkgs : GatheredFor(col.bm, q, ToSet(<<>>) \cup ToSet(Tail(tasks)))
    BY <1>2, <1>3, <1>4, HeadGathers DEF GatheredFor
  <2> QED
    BY <1>2, <1>3, <1>7, <2>1, NothingMore, CollectedGathers
<1>8. CASE ~(i > Len(ds)) /\ selected[d.name].state # "broken" /\ vs # {} /\ Collected(c, more)
  <2> DEFINE q == d.name
  <2>1. /\ q \in Pkgs /\ Entering(world, before, line, q, b)
        /\ Collects(world, before, line, col1) /\ col1.bm = col.bm
    BY <1>1, <1>8, DependencyEntered
  <2>2. ~b.recursive
    <3> DEFINE v == CHOOSE x \in vs : TRUE
               ks == Append(user, imposed)
    <3>1. b = [BuildPackage("build", v) EXCEPT !.byDependents = TRUE, !.constraints = ks]
      OBVIOUS
    <3> HIDE DEF v, ks, b
    <3> QED
      BY <3>1 DEF BuildPackage
  <2> HIDE DEF entered, user, allowed, imposed, ignored, col1, b
  <2>3. c.scratch \/ BuiltApart(col.bm, c.bm, q)
    <3>1. c = CollectBuild(col1, q, b)
      OBVIOUS
    <3>2. b \in Entries /\ Collection(col1)
      BY <2>1 DEF Entering, Collects
    <3> HIDE DEF c, q
    <3>3. LET x == CollectBuild(col1, q, b) IN x.scratch \/ BuiltApart(col1.bm, x.bm, q)
      BY <2>1, <2>2, <3>2, CollectBuildApart
    <3> QED
      BY <2>1, <3>1, <3>3
  <2> HIDE DEF c
  <2>4. Do("prerequisites", q) \in TaskRecords /\ next \in TaskRecords
    <3>1. i + 1 \in Nat \ {0}
      BY <1>5
    <3>2. next \in TaskRecords
      BY <1>5, <3>1, DependencyOf
    <3>3. Do("prerequisites", q) \in TaskRecords
      BY <2>1 DEF Do, TaskRecords
    <3> QED
      BY <3>2, <3>3
  <2> DEFINE prerequisites == Do("prerequisites", q)
  <2> HIDE DEF next, prerequisites
  <2>5. more \in Seq(TaskRecords)
    BY <2>4, PairOf DEF prerequisites
  <2>6. c.scratch \/ c.bm[q].recursive \/ prerequisites \in ToSet(more)
    <3>1. more = IF c.scratch \/ c.bm[q].recursive THEN <<next>> ELSE <<prerequisites, next>>
      BY DEF prerequisites
    <3> HIDE DEF more, q
    <3>2. prerequisites \in ToSet(<<prerequisites, next>>)
      <4>1. ToSet(<<prerequisites, next>>) = {prerequisites, next}
        BY PairSet, Zenon
      <4> QED
        BY <4>1
    <3>3. CASE c.scratch \/ c.bm[q].recursive
      BY <3>3
    <3>4. CASE ~(c.scratch \/ c.bm[q].recursive)
      BY <3>1, <3>2, <3>4
    <3> QED
      BY <3>3, <3>4
  <2>7. Collected(c, more)
    BY <1>8
  <2> HIDE DEF more, q
  <2> QED
    BY <1>2, <1>3, <1>4, <2>1, <2>3, <2>5, <2>6, <2>7, ApartGathers DEF prerequisites
<1> QED
  BY <1>1, <1>6, <1>7, <1>8

\* What leaves the map alone.
LEMMA SameMapGathers ==
    ASSUME Gathered, phase # "idle", phase # "collect" \/ tasks = <<>>,
           UNCHANGED <<req, before>>, col'.bm = col.bm
    PROVE  Gathered'
<1>1. \A p \in Pkgs : AsBuilt(col.bm, col'.bm, p)
  BY DEF AsBuilt
<1> QED
  BY <1>1, MapGathers

\* A command that is over.
LEMMA OverGathers ==
    ASSUME IsOver \/ phase' = "idle"
    PROVE  Gathered'
BY OthersGather DEF IsOver, Commanded

\* What begins to be collected anew.
LEMMA RecollectGathers ==
    ASSUME NEW l, Recollect(l)
    PROVE  Gathered'
BY IterateGathers DEF Recollect

\* The steps of the collection.
LEMMA CollectGathers ==
    ASSUME Inv, Gathered, Announced, Collect
    PROVE  Gathered'
<1>1. \A op : Task(op) => op \in Ops(phase) /\ phase # "idle"
  BY HeadOf
<1>2. CASE FinishCollection
  <2>1. /\ phase = "collect" /\ tasks = <<>> /\ UNCHANGED <<req, before>>
        /\ col' = [col EXCEPT !.bm = CancelDrops(@)]
    BY <1>2 DEF FinishCollection, Visit, Staying
  <2>2. IsCollection(col)
    BY <2>1, WorkOf, CollectsIff DEF AtWork, OfBuild, BuildPhases
  <2>3. col'.bm = CancelDrops(col.bm)
    BY <2>1, <2>2 DEF IsCollection
  <2> QED
    BY <2>1, <2>3, CancelDropsApart, MapGathers
<1>3. CASE VisitDependency
  <2>1. phase \notin {"idle", "collect"}
    BY <1>1, <1>3 DEF VisitDependency, Ops
  <2> QED
    BY <1>3, <2>1, SameMapGathers DEF VisitDependency, Staying
<1>4. CASE VisitDependent
  <2>1. Task("dependent")
    BY <1>4 DEF VisitDependent
  <2>2. /\ phase \in {"dependents", "kept"} /\ Head(tasks) \in TaskRecords
    BY <2>1, HeadOf DEF Ops
  <2>3. /\ UNCHANGED <<req, before>>
        /\ col' = CollectDependent(selected, col, Head(tasks).of, Head(tasks).name)
    BY <1>4 DEF VisitDependent, Staying
  <2>4. Head(tasks).name \in Pkgs
    BY <2>2, TaskOf
  <2>5. Collection(col)
    BY <2>2, WorkOf DEF AtWork, OfBuild, BuildPhases, Collects
  <2>6. \A p \in Pkgs : AsBuilt(col.bm, col'.bm, p)
    BY <2>3, <2>4, <2>5, CollectDependentApart
  <2> QED
    BY <2>2, <2>3, <2>6, MapGathers
<1>5. CASE Settle
  <2>1. \/ \E rs : Iterate(line, deps, rs, NoMap, TRUE)
        \/ col' = col
    BY <1>5 DEF Settle
  <2>2. phase = "dependents" /\ UNCHANGED <<req, before>>
    BY <1>5 DEF Settle
  <2>3. CASE col' = col
    BY <2>2, <2>3, SameMapGathers
  <2> QED
    BY <2>1, <2>3, IterateGathers
<1>6. CASE Order \/ InsertPackage
  <2>1. phase \notin {"idle", "collect"}
    BY <1>1, <1>6 DEF Order, InsertPackage, Ops
  <2>2. phase' = "idle" \/ UNCHANGED <<col, req, before>>
    BY <1>6 DEF Order, InsertPackage, Staying, Fail, FailAssertion, Ends, Finish
  <2> QED
    BY <2>1, <2>2, OverGathers, SameMapGathers
<1> QED
  BY <1>2, <1>3, <1>4, <1>5, <1>6, CollectHoldGathers, CollectPrerequisitesGathers,
     CollectDependencyGathers, CollectReplacedGathers DEF Collect

\* The steps of the adjustment of the command line.
LEMMA AdjustGathers ==
    ASSUME Inv, Gathered, AdjustCommandLine
    PROVE  Gathered'
<1>1. Fail \/ FailAssertion \/ Ends("refused") => phase' = "idle"
  BY DEF Fail, FailAssertion, Ends, Finish
<1>2. \A op : Task(op) => op \in Ops(phase)
  BY HeadOf
<1>3. \A l : Recollect(l) => Gathered'
  BY RecollectGathers
<1>4. \A more, s : Searching(more, s) => UNCHANGED <<req, before, col>>
  BY DEF Searching, Staying
<1>5. ASSUME phase \notin {"idle", "collect"}, UNCHANGED <<req, before>>, col'.bm = col.bm
      PROVE  Gathered'
  BY <1>5, SameMapGathers
<1>6. CASE Refine
  <2>1. phase = "order"
    BY <1>6 DEF Refine
  <2>2. \/ phase' = "idle" \/ UNCHANGED <<req, before, col>>
        \/ \E ds, b : Again(ds, b)
    BY <1>1, <1>6 DEF Refine, Staying
  <2>3. ASSUME NEW ds, NEW b, Again(ds, b)
        PROVE  Gathered'
    <3>1. CASE b
      BY <2>3, <3>1, IterateGathers DEF Again
    <3>2. CASE ~b
      <4>1. Iterate(line, ds, col.replaced, col.bm, FALSE) /\ UNCHANGED <<req, before>>
        BY <2>3, <3>2 DEF Again, Staying
      <4>2. col'.bm = col.bm
        BY <4>1 DEF Iterate
      <4> QED
        BY <1>5, <2>1, <4>1, <4>2
    <3> QED
      BY <3>1, <3>2
  <2> QED
    BY <1>5, <2>1, <2>2, <2>3, OverGathers
<1>7. CASE Adjust
  BY <1>5, <1>7 DEF Adjust, Adjusting, Visit, Staying
<1>8. CASE StartSearch
  BY <1>1, <1>5, <1>8, OverGathers DEF StartSearch, Staying
<1>9. CASE TryReplace \/ NothingOffered \/ TryOthers \/ TryDependents
  <2>1. Task("replace") \/ Task("consider") \/ Task("others") \/ Task("dependents")
    BY <1>9 DEF TryReplace, NothingOffered, TryOthers, TryDependents
  <2>2. phase = "search"
    BY <1>2, <2>1 DEF Ops
  <2>3. FailAssertion \/ \E more, s : Searching(more, s)
    <3>1. CASE TryReplace
      BY <3>1, Zenon DEF TryReplace
    <3>2. CASE NothingOffered
      BY <3>2, Zenon DEF NothingOffered
    <3>3. CASE TryOthers
      BY <3>3, Zenon DEF TryOthers
    <3>4. CASE TryDependents
      BY <3>4, Zenon DEF TryDependents
    <3> QED
      BY <1>9, <3>1, <3>2, <3>3, <3>4
  <2> QED
    BY <1>1, <1>4, <1>5, <2>2, <2>3, OverGathers
<1>10. CASE ConsiderVersion
  <2>1. phase = "search"
    BY <1>2, <1>10 DEF ConsiderVersion, Ops
  <2>2. FailAssertion \/ (\E l : Recollect(l)) \/ UNCHANGED <<req, before, col>>
    BY <1>10 DEF ConsiderVersion, Staying
  <2> QED
    BY <1>1, <1>3, <1>5, <2>1, <2>2, OverGathers
<1>11. CASE GiveUp
  BY <1>1, <1>3, <1>11, OverGathers DEF GiveUp, Cycle
<1>12. CASE KeepAdjustment
  BY <1>1, <1>3, <1>12, OverGathers DEF KeepAdjustment, Without1st
<1>13. CASE DropAdjustment
  <2>1. phase = "adjust"
    BY <1>13 DEF DropAdjustment, Adjusting
  <2>2. \A l : ExecutePlan(l) => UNCHANGED <<req, before, col>>
    BY DEF ExecutePlan
  <2>3. FailAssertion \/ (\E l : Recollect(l)) \/ \E l : ExecutePlan(l)
    BY <1>13 DEF DropAdjustment, Without1st
  <2> QED
    BY <1>1, <1>3, <1>5, <2>1, <2>2, <2>3, OverGathers
<1> QED
  BY <1>6, <1>7, <1>8, <1>9, <1>10, <1>11, <1>12, <1>13 DEF AdjustCommandLine

\* Every step gathers.
LEMMA NextGathers ==
    ASSUME Inv, Gathered, Announced, [Next]_vars
    PROVE  Gathered'
<1>1. CASE UNCHANGED vars
  BY <1>1 DEF vars, command, Gathered, Commanded, GatheredFor, Pruned
<1>2. CASE RequestBuild
  BY <1>2, IterateGathers DEF RequestBuild
<1>3. CASE RequestDrop
  BY <1>3, OthersGather DEF RequestDrop, Commanded
<1>4. CASE Drop
  <2>1. req.kind = "drop"
    <3>1. Task("filter") => phase = "filter"
      BY HeadOf DEF Ops
    <3>2. phase = "filter" \/ req.kind = "drop"
      BY <1>4, <3>1 DEF Drop, Filter, FilterPrerequisite, ExecuteDrop
    <3> QED
      BY <3>2 DEF Inv, Undisturbed
  <2>2. req' = req
    BY <1>4 DEF Drop, Filter, FilterPrerequisite, ExecuteDrop, command, Staying
  <2> QED
    BY <2>1, <2>2, OthersGather DEF Commanded
<1>5. CASE Execute
  <2>1. phase \notin {"idle", "collect"}
    BY <1>5 DEF Execute, Disfigure, Fetch, PurgeDropped, FetchPackage, Unpack, Configuring,
                Configure, Holding, Hold, Purging, Purge, Done, Stage, Proceed
  <2>2. phase' = "idle" \/ UNCHANGED <<col, req, before>>
    BY <1>5 DEF Execute, Disfigure, Fetch, PurgeDropped, FetchPackage, Unpack, Configuring,
                Configure, Holding, Hold, Purging, Purge, Done, Proceed, Refused, Ends, Finish,
                Going, Kept, command
  <2> QED
    BY <2>1, <2>2, OverGathers, SameMapGathers
<1>6. CASE Interrupt \/ FailDisfigure \/ FailConfigure \/ \E p \in Pkgs : PurgeBroken(p)
  <2>1. phase' = "idle"
    BY <1>6 DEF Interrupt, FailDisfigure, FailConfigure, Fault, Finish, PurgeBroken
  <2> QED
    BY <2>1, OverGathers
<1> QED
  BY <1>1, <1>2, <1>3, <1>4, <1>5, <1>6, CollectGathers, AdjustGathers DEF Next, Rest

---------------------------------------------------------------------------
(* The user's packages are entered before their prerequisites are collected. *)
\* Without packages of the user's left to enter nothing is to be announced.
LEMMA NoneAnnounced ==
    ASSUME tasks' \in Seq(TaskRecords), \A t \in ToSet(tasks') : t.op # "hold"
    PROVE  Announced'
<1>1. \A i \in DOMAIN tasks' : tasks'[i] \in ToSet(tasks')
  BY DEF ToSet
<1> QED
  BY <1>1 DEF Announced

\* An iteration begins with the user's packages, and their prerequisites follow.
LEMMA IterateAnnounces ==
    ASSUME Inv', NEW l, NEW ds, NEW rs, NEW bm, NEW scratch \in BOOLEAN,
           Iterate(l, ds, rs, bm, scratch)
    PROVE  Announced'
<1> DEFINE H == Tasks("hold", l.order)
           P == Tasks("prerequisites", l.order)
           D == Decided(ds)
<1>1. /\ tasks' = (IF scratch THEN H \o P ELSE <<>>) \o D
      /\ line' = l /\ deps' = ds /\ phase' = "collect"
  BY DEF Iterate
<1>2. l.order \in Seq(Pkgs) /\ ds \in Seq(Decisions)
  <2>1. Commanded'
    BY <1>1 DEF Inv, Undisturbed, Commanded, OfBuild, BuildPhases
  <2> QED
    BY <1>1, <2>1 DEF Inv, Collecting, Requested, Lines
<1> DEFINE n == Len(l.order)
<1>3. /\ n \in Nat /\ H \in Seq(TaskRecords) /\ Len(H) = n
      /\ \A i \in 1..n : H[i] = Do("hold", l.order[i])
      /\ P \in Seq(TaskRecords) /\ Len(P) = n
      /\ \A i \in 1..n : P[i] = Do("prerequisites", l.order[i])
  BY <1>2, SetOf, TasksOf
<1>4. D \in Seq(TaskRecords) /\ \A t \in ToSet(D) : t.op # "hold"
  BY <1>2, DecidedOf
<1> HIDE DEF H, P, D, n
<1>5. \A i \in 1..Len(D) : D[i].op # "hold"
  BY <1>4, SetOf
<1>6. CASE ~scratch
  <2>1. tasks' = D
    BY <1>1, <1>4, <1>6
  <2> QED
    BY <1>4, <2>1, NoneAnnounced
<1>7. CASE scratch
  <2>1. tasks' = (H \o P) \o D
    BY <1>1, <1>7
  <2> DEFINE s == (H \o P) \o D
  <2>2. /\ s \in Seq(TaskRecords) /\ Len(s) = n + n + Len(D) /\ Len(D) \in Nat
        /\ DOMAIN s = 1..(n + n + Len(D))
    BY <1>3, <1>4
  <2>3. \A i \in 1..n : s[i] = H[i] /\ s[n + i] = P[i]
    BY <1>3, <1>4
  <2>4. \A i \in DOMAIN s : i > n => s[i].op # "hold"
    <3> SUFFICES ASSUME NEW i \in DOMAIN s, i > n PROVE s[i].op # "hold"
      OBVIOUS
    <3>0. i \in Nat /\ n \in Nat
      <4> HIDE DEF s
      <4> QED
        BY <1>3, <2>2
    <3>1. CASE i <= n + n
      <4>1. i - n \in 1..n /\ n + (i - n) = i
        BY <1>3, <2>2, <3>1
      <4>2. s[i] = P[i - n]
        BY <2>3, <4>1
      <4> QED
        BY <1>3, <4>1, <4>2, DoOf
    <3>2. CASE i > n + n
      <4>1. i - (n + n) \in 1..Len(D)
        BY <1>3, <2>2, <3>2
      <4>2. s[i] = D[i - (n + n)]
        BY <1>3, <1>4, <2>2, <3>2
      <4> QED
        BY <1>5, <4>1, <4>2
    <3> HIDE DEF s
    <3> QED
      BY <3>0, <3>1, <3>2
  <2>5. ASSUME NEW i \in DOMAIN s, s[i].op = "hold"
        PROVE  /\ \A j \in 1..i : s[j].op = "hold"
               /\ Do("prerequisites", s[i].name) \in ToSet(s)
    <3>1. i \in 1..n
      BY <1>3, <2>2, <2>4, <2>5
    <3>2. \A j \in 1..i : s[j].op = "hold"
      BY <1>3, <2>3, <3>1, DoOf
    <3>3. s[n + i] = Do("prerequisites", s[i].name) /\ n + i \in DOMAIN s
      <4>1. n + i \in DOMAIN s
        BY <1>3, <2>2, <3>1
      <4> QED
        BY <1>3, <2>3, <3>1, <4>1, DoOf
    <3> HIDE DEF s
    <3> QED
      BY <3>2, <3>3 DEF ToSet
  <2> HIDE DEF s
  <2>6. tasks' = s
    BY <2>1 DEF s
  <2> QED
    BY <2>5, <2>6 DEF Announced
<1> QED
  BY <1>6, <1>7

\* A step of the collection, which adds no package of the user's.
LEMMA CollectedAnnounces ==
    ASSUME Inv, Inv', Announced, phase = "collect", tasks # <<>>, NEW c,
           NEW more \in Seq(TaskRecords), Collected(c, more),
           \A t \in ToSet(more) : t.op # "hold",
           Head(tasks).op = "hold" => more = <<>>
    PROVE  Announced'
<1>1. CASE c.scratch
  BY <1>1, IterateAnnounces DEF Collected
<1>2. CASE ~c.scratch
  <2> DEFINE s == Tail(tasks)
  <2>1. tasks' = more \o s
    BY <1>2 DEF Collected, More
  <2>2. /\ tasks \in Seq(TaskRecords) /\ Len(tasks) \in Nat /\ DOMAIN tasks = 1..Len(tasks)
        /\ s \in Seq(TaskRecords) /\ ToSet(tasks) = {Head(tasks)} \cup ToSet(s)
        /\ 1 \in DOMAIN tasks /\ tasks[1] = Head(tasks)
    BY TailSet DEF Inv, Tasking
  <2>3. /\ DOMAIN s = 1..(Len(tasks) - 1)
        /\ \A i \in DOMAIN s : s[i] = tasks[i + 1] /\ i + 1 \in DOMAIN tasks
    BY <2>2
  <2>4. \A i \in DOMAIN tasks :
            tasks[i].op = "hold" => /\ \A j \in 1..i : tasks[j].op = "hold"
                                    /\ Do("prerequisites", tasks[i].name) \in ToSet(tasks)
    BY DEF Announced
  <2> HIDE DEF s
  <2>5. CASE Head(tasks).op # "hold"
    <3>1. \A i \in DOMAIN tasks : tasks[i].op # "hold"
      <4> SUFFICES ASSUME NEW i \in DOMAIN tasks, tasks[i].op = "hold" PROVE FALSE
        OBVIOUS
      <4>1. 1 \in 1..i
        BY <2>2
      <4> QED
        BY <2>2, <2>4, <2>5, <4>1
    <3>2. \A t \in ToSet(s) : t.op # "hold"
      BY <2>3, <3>1 DEF ToSet
    <3>3. tasks' \in Seq(TaskRecords) /\ ToSet(tasks') = ToSet(more) \cup ToSet(s)
      BY <2>1, <2>2, ConcatSet
    <3> QED
      BY <3>2, <3>3, NoneAnnounced
  <2>6. CASE Head(tasks).op = "hold"
    <3>1. tasks' = s
      BY <2>1, <2>2, <2>6
    <3>2. ASSUME NEW i \in DOMAIN s, s[i].op = "hold"
          PROVE  /\ \A j \in 1..i : s[j].op = "hold"
                 /\ Do("prerequisites", s[i].name) \in ToSet(s)
      <4>1. s[i] = tasks[i + 1] /\ i + 1 \in DOMAIN tasks /\ i \in 1..(Len(tasks) - 1)
        BY <2>3
      <4>2. /\ \A j \in 1..(i + 1) : tasks[j].op = "hold"
            /\ Do("prerequisites", s[i].name) \in ToSet(tasks)
        BY <2>4, <3>2, <4>1
      <4>3. \A j \in 1..i : s[j].op = "hold"
        <5> SUFFICES ASSUME NEW j \in 1..i PROVE s[j].op = "hold"
          OBVIOUS
        <5>1. j \in DOMAIN s /\ j + 1 \in 1..(i + 1)
          BY <2>2, <2>3, <4>1
        <5> QED
          BY <2>3, <4>2, <5>1
      <4>4. Do("prerequisites", s[i].name) # Head(tasks)
        BY <2>6, DoOf
      <4> QED
        BY <2>2, <4>2, <4>3, <4>4
    <3> QED
      BY <3>1, <3>2 DEF Announced
  <2> QED
    BY <2>5, <2>6
<1> QED
  BY <1>1, <1>2

\* Every step announces.
LEMMA NextAnnounces ==
    ASSUME Inv, Announced, [Next]_vars
    PROVE  Announced'
<1>1. Inv'
  BY NextKeeps
<1>2. ASSUME phase' # "collect"
      PROVE  Announced'
  BY <1>2 DEF Announced
<1>3. \A l, ds, rs, bm, b : b \in BOOLEAN /\ Iterate(l, ds, rs, bm, b) => Announced'
  BY <1>1, IterateAnnounces
<1>4. \A l : Recollect(l) => Announced'
  BY <1>3 DEF Recollect
<1>5. Fail \/ FailAssertion \/ Ends("refused") => phase' # "collect"
  BY DEF Fail, FailAssertion, Ends, Finish
<1>6. \A op : Task(op) => tasks # <<>> /\ Head(tasks).op = op /\ op \in Ops(phase)
                          /\ Head(tasks) \in TaskRecords
  BY HeadOf
<1>7. ASSUME phase = "collect", tasks # <<>>, NEW c, NEW more \in Seq(TaskRecords),
             Collected(c, more), \A t \in ToSet(more) : t.op # "hold",
             Head(tasks).op = "hold" => more = <<>>
      PROVE  Announced'
  BY <1>1, <1>7, CollectedAnnounces
<1>8. ASSUME NEW p \in Pkgs, NEW i \in Nat \ {0}
      PROVE  LET t == Do("prerequisites", p)
                 d == Dependency(p, i)
             IN  /\ t \in TaskRecords /\ t.op # "hold"
                 /\ d \in TaskRecords /\ d.op # "hold"
  BY <1>8, DependencyOf, DoOf DEF Do, TaskRecords
<1>9. ASSUME NEW t \in TaskRecords, t.op # "hold"
      PROVE  /\ <<t>> \in Seq(TaskRecords) /\ \A x \in ToSet(<<t>>) : x.op # "hold"
             /\ \A u \in TaskRecords :
                   u.op # "hold" => /\ <<t, u>> \in Seq(TaskRecords)
                                    /\ \A x \in ToSet(<<t, u>>) : x.op # "hold"
  <2>1. ToSet(<<t>>) = {t} /\ \A u : ToSet(<<t, u>>) = {t, u}
    BY PairSet, Zenon
  <2> QED
    BY <1>9, <2>1
<1>10. <<>> \in Seq(TaskRecords) /\ \A t \in ToSet(<<>>) : t.op # "hold"
  BY NothingMore
<1>11. CASE CollectHold
  <2>1. Task("hold") /\ \E c : Collected(c, <<>>)
    BY <1>11 DEF CollectHold
  <2>2. phase = "collect"
    BY <1>6, <2>1 DEF Ops
  <2> QED
    BY <1>6, <1>7, <1>10, <2>1, <2>2
<1>12. CASE CollectPrerequisites
  <2> DEFINE p == Head(tasks).name
  <2>1. /\ Task("prerequisites")
        /\ FailAssertion \/ \E c : Collected(c, <<>>) \/ Collected(c, <<Dependency(p, 1)>>)
    BY <1>12, Zenon DEF CollectPrerequisites
  <2>2. phase = "collect" /\ p \in Pkgs
    BY <1>6, <2>1, TaskOf DEF Ops
  <2> DEFINE next == Dependency(p, 1)
  <2>3. next \in TaskRecords /\ next.op # "hold"
    BY <1>8, <2>2
  <2>4. tasks # <<>> /\ Head(tasks).op # "hold"
    BY <1>6, <2>1
  <2>5. FailAssertion \/ \E c : Collected(c, <<>>) \/ Collected(c, <<next>>)
    BY <2>1
  <2> HIDE DEF p, next
  <2> QED
    BY <1>2, <1>5, <1>7, <1>9, <1>10, <2>2, <2>3, <2>4, <2>5
<1>13. CASE CollectDependency
  <2> DEFINE p == Head(tasks).name
             i == Head(tasks).at
             q == Depends(world, p, col.bm[p].version)[i].name
             ds == Depends(world, p, col.bm[p].version)
             next == Dependency(p, i + 1)
             pre == Do("prerequisites", q)
  <2>1. /\ Task("depend")
        /\ \/ \E c : Collected(c, <<>>)
           \/ Fail
           \/ \E c : Collected(c, <<next>>)
           \/ /\ ~(i > Len(ds)) /\ \E c : Collected(c, <<pre, next>>)
    BY <1>13, Zenon DEF CollectDependency
  <2>2. phase = "collect" /\ p \in Pkgs /\ i \in Nat \ {0} /\ i + 1 \in Nat \ {0}
    BY <1>6, <2>1, TaskOf DEF Ops
  <2>3. ~(i > Len(ds)) => q \in Pkgs
    <3>1. AtWork /\ world \in Worlds
      BY <2>2, WorkOf DEF OfBuild, BuildPhases, Inv, Undisturbed
    <3>2. Building(col, p)
      BY <2>1, HeadOf DEF Tasked
    <3>3. col.bm[p].version \in world.available[p]
      BY <3>1, <3>2 DEF AtWork, Maps, Building, Enterable, Buildable
    <3>4. ds \in Seq([name : Pkgs, allowed : SUBSET Versions])
      BY <2>2, <3>1, <3>3, DependsOf
    <3> DEFINE T == [name : Pkgs, allowed : SUBSET Versions]
    <3>5. \A x \in T : x.name \in Pkgs
      OBVIOUS
    <3>6. ds \in Seq(T) /\ i \in Nat \ {0}
      BY <2>2, <3>4
    <3> HIDE DEF ds, T, i
    <3>7. ~(i > Len(ds)) => ds[i] \in T
      <4>1. Len(ds) \in Nat /\ \A k \in 1..Len(ds) : ds[k] \in T
        BY <3>6
      <4> QED
        BY <3>6, <4>1
    <3> QED
      BY <3>5, <3>7 DEF ds, i
  <2>4. next \in TaskRecords /\ next.op # "hold"
    BY <1>8, <2>2
  <2>5. ~(i > Len(ds)) => pre \in TaskRecords /\ pre.op # "hold"
    BY <1>8, <2>3
  <2>6. tasks # <<>> /\ Head(tasks).op = "depend"
    BY <1>6, <2>1
  <2> HIDE DEF p, i, ds, next, pre
  <2> QED
    BY <1>2, <1>5, <1>7, <1>9, <1>10, <2>1, <2>2, <2>4, <2>5, <2>6
<1>14. CASE CollectReplaced
  <2> DEFINE p == Head(tasks).name
             pre == Do("prerequisites", p)
  <2>1. Task("replaced") /\ \E c : Collected(c, <<>>) \/ Collected(c, <<pre>>)
    BY <1>14, Zenon DEF CollectReplaced
  <2>2. phase = "collect" /\ p \in Pkgs
    BY <1>6, <2>1, TaskOf DEF Ops
  <2>3. pre \in TaskRecords /\ pre.op # "hold"
    BY <1>8, <2>2
  <2>4. tasks # <<>> /\ Head(tasks).op # "hold"
    BY <1>6, <2>1
  <2> HIDE DEF pre
  <2> QED
    BY <1>7, <1>9, <1>10, <2>1, <2>2, <2>3, <2>4
<1>15. CASE FinishCollection
  BY <1>2, <1>15 DEF FinishCollection
<1>16. CASE VisitDependency \/ VisitDependent
  <2>1. Task("visit") \/ Task("dependent")
    BY <1>16 DEF VisitDependency, VisitDependent
  <2>2. phase \in {"dependents", "kept"} /\ phase' = phase
    BY <1>6, <1>16, <2>1 DEF Ops, VisitDependency, VisitDependent
  <2> QED
    BY <1>2, <2>2
<1>17. CASE Settle
  BY <1>2, <1>3, <1>17 DEF Settle
<1>18. CASE Order \/ InsertPackage
  <2>1. phase = "order" /\ phase' \in {"order", "idle"}
    <3>1. phase = "order"
      BY <1>6, <1>18 DEF Order, InsertPackage, Ops
    <3> QED
      BY <3>1, <1>18 DEF Order, InsertPackage, Fail, FailAssertion, Ends, Finish
  <2> QED
    BY <1>2, <2>1
<1>19. CASE AdjustCommandLine
  <2>1. CASE Refine
    <3>1. phase = "order"
      BY <2>1 DEF Refine
    <3>2. \/ phase' # "collect" \/ \E ds, b : b \in BOOLEAN /\ Again(ds, b)
      <4>1. (col.unsat # <<>>) \in BOOLEAN
        OBVIOUS
      <4> QED
        BY <1>5, <2>1, <3>1, <4>1, Zenon DEF Refine
    <3> QED
      BY <1>2, <1>3, <3>2 DEF Again
  <2>2. CASE Adjust \/ StartSearch \/ DropAdjustment
    <3>1. \A l : ExecutePlan(l) => phase' # "collect"
      BY DEF ExecutePlan
    <3>2. phase' # "collect" \/ \E l : Recollect(l)
      BY <1>5, <2>2, <3>1 DEF Adjust, StartSearch, DropAdjustment, Without1st
    <3> QED
      BY <1>2, <1>4, <3>2
  <2>3. CASE TryReplace \/ NothingOffered \/ TryOthers \/ TryDependents \/ ConsiderVersion
    <3>1. Task("replace") \/ Task("consider") \/ Task("others") \/ Task("dependents")
      BY <2>3 DEF TryReplace, NothingOffered, TryOthers, TryDependents, ConsiderVersion
    <3>2. phase = "search"
      BY <1>6, <3>1 DEF Ops
    <3>3. \A more, s : Searching(more, s) => phase' = phase
      BY DEF Searching
    <3>4. FailAssertion \/ (\E l : Recollect(l)) \/ phase' = phase
      <4>1. CASE TryReplace
        BY <3>3, <4>1, Zenon DEF TryReplace
      <4>2. CASE NothingOffered
        BY <3>3, <4>2, Zenon DEF NothingOffered
      <4>3. CASE TryOthers
        BY <3>3, <4>3, Zenon DEF TryOthers
      <4>4. CASE TryDependents
        BY <3>3, <4>4, Zenon DEF TryDependents
      <4>5. CASE ConsiderVersion
        BY <4>5 DEF ConsiderVersion
      <4> QED
        BY <2>3, <4>1, <4>2, <4>3, <4>4, <4>5
    <3> QED
      BY <1>2, <1>4, <1>5, <3>2, <3>4
  <2>4. CASE GiveUp \/ KeepAdjustment
    <3>1. phase' # "collect" \/ \E l : Recollect(l)
      BY <1>5, <2>4 DEF GiveUp, Cycle, KeepAdjustment, Without1st
    <3> QED
      BY <1>2, <1>4, <3>1
  <2> QED
    BY <1>19, <2>1, <2>2, <2>3, <2>4 DEF AdjustCommandLine
<1>20. CASE RequestBuild
  BY <1>3, <1>20 DEF RequestBuild
<1>21. CASE Drop \/ RequestDrop \/ Interrupt \/ FailDisfigure \/ FailConfigure
            \/ \E p \in Pkgs : PurgeBroken(p)
  <2>1. Task("filter") => phase = "filter"
    BY <1>6 DEF Ops
  <2>2. phase' # "collect"
    BY <1>21, <2>1 DEF Drop, Filter, FilterPrerequisite, ExecuteDrop, RequestDrop, Interrupt,
                       FailDisfigure, FailConfigure, Fault, Finish, PurgeBroken
  <2> QED
    BY <1>2, <2>2
<1>22. CASE Execute
  <2>1. phase # "collect"
    BY <1>22 DEF Execute, Disfigure, Fetch, PurgeDropped, FetchPackage, Unpack, Configuring,
                Configure, Holding, Hold, Purging, Purge, Done, Stage, Proceed
  <2>2. phase' # "collect"
    BY <1>22, <2>1 DEF Execute, Disfigure, Fetch, PurgeDropped, FetchPackage, Unpack, Configuring,
                Configure, Holding, Hold, Purging, Purge, Done, Proceed, Refused, Ends, Finish,
                Going
  <2> QED
    BY <1>2, <2>2
<1>23. CASE UNCHANGED vars
  BY <1>23 DEF vars, command, Announced
<1>24. CASE Collect
  BY <1>11, <1>12, <1>13, <1>14, <1>15, <1>16, <1>17, <1>18, <1>24 DEF Collect
<1> QED
  BY <1>19, <1>20, <1>21, <1>22, <1>23, <1>24 DEF Next, Rest

---------------------------------------------------------------------------
(* For what a plan is refused.                                              *)
\* Initially nothing is built, and nothing configured.
LEMMA InitGrounded == Init => Grounded
<1> SUFFICES ASSUME Init PROVE Grounded
  OBVIOUS
<1>1. phase = "idle" /\ before = selected /\ \A p \in Pkgs : selected[p] = None
  BY DEF Init
<1>2. None.state # "configured"
  BY NoneOf
<1> QED
  BY <1>1, <1>2 DEF Grounded, Gathered, Commanded, Announced, Manifested

\* Every step keeps to what the order is made from.
LEMMA NextGrounded ==
    ASSUME Inv, Grounded, [Next]_vars
    PROVE  Grounded'
<1>1. Gathered /\ Announced /\ Manifested(before) /\ Manifested(selected)
  BY DEF Grounded
<1>2. Gathered' /\ Announced' /\ Manifested(before)' /\ Manifested(selected)'
  BY <1>1, NextGathers, NextAnnounces, NextManifests
<1> QED
  BY <1>2 DEF Grounded

\* What a package is ordered before.
LEMMA AfterBuild ==
    ASSUME AtWork, NEW p \in Pkgs, p \in Acted(col.bm), NEW q \in Acted(col.bm)
    PROVE  /\ col.bm[p].action = "build" /\ ~col.bm[p].collected /\ q \in DOMAIN before[p].prereqs
              => q \in After(p)
           /\ /\ col.bm[p].action = "build" /\ col.bm[p].collected
              /\ q \in DependsOn(world, p, col.bm[p].version)
              => q \in After(p)
           /\ /\ col.bm[p].action = "build" => col.bm[p].collected
              /\ q \in DOMAIN before[p].prereqs /\ before[p].state = "configured"
              /\ Disfigures(before, col.bm, p) /\ Disfigures(before, col.bm, q)
              => q \in After(p)
<1> DEFINE ds == Depends(world, p, col.bm[p].version)
           manifest == [i \in DOMAIN ds |-> ds[i].name]
           builds == col.bm[p].action = "build"
           current == CurrentDisfigured(before, col.bm, p)
           against == ConfiguredAgainst(before, col.bm, p)
           first == IF builds THEN Those(Reverse(manifest), Acted(col.bm)) ELSE <<>>
<1>1. /\ p \in DOMAIN col.bm /\ col.bm[p] \in Entries /\ q \in Pkgs
      /\ builds => col.bm[p].version \in world.available[p]
  <2>1. DOMAIN col.bm \subseteq Pkgs /\ \A r \in DOMAIN col.bm : col.bm[r] \in Entries
    BY DEF AtWork, Maps
  <2>2. p \in DOMAIN col.bm /\ q \in DOMAIN col.bm
    BY DEF Acted
  <2> QED
    BY <2>1, <2>2 DEF AtWork, Maps, Enterable, Buildable
<1>2. After(p) = IF builds /\ ~col.bm[p].collected THEN ToSet(against) ELSE ToSet(first \o current)
  BY DEF After, Ordered
<1>3. ToSet(against) = Pkgs \cap (DOMAIN before[p].prereqs \cap Acted(col.bm))
  BY ListedOf DEF ConfiguredAgainst
<1>4. /\ current \in Seq(Pkgs)
      /\ ToSet(current) =
           Pkgs \cap {r \in DOMAIN before[p].prereqs \cap Acted(col.bm) :
                         /\ before[p].state = "configured" /\ Disfigures(before, col.bm, p)
                         /\ Disfigures(before, col.bm, r)}
  BY ListedOf DEF CurrentDisfigured
<1>5. /\ first \in Seq(Pkgs)
      /\ builds /\ q \in DependsOn(world, p, col.bm[p].version) => q \in ToSet(first)
  <2>1. CASE ~builds
    BY <2>1, EmptySeqOf
  <2>2. CASE builds
    <3> DEFINE T == [name : Pkgs, allowed : SUBSET Versions]
               n == Len(ds)
    <3>1. ds \in Seq(T) /\ \A d \in T : d.name \in Pkgs
      BY <1>1, <2>2, DependsOf DEF AtWork
    <3>2. q \in DependsOn(world, p, col.bm[p].version) <=> \E d \in ToSet(ds) : q = d.name
      BY DEF DependsOn
    <3>a. manifest = [i \in DOMAIN ds |-> ds[i].name]
      OBVIOUS
    <3> HIDE DEF ds, T, manifest
    <3>3. /\ DOMAIN ds = 1..n /\ n \in Nat /\ \A i \in 1..n : ds[i] \in T
          /\ \A d : d \in ToSet(ds) <=> \E i \in 1..n : ds[i] = d
      BY <3>1, SetOf
    <3>4. manifest = [i \in 1..n |-> ds[i].name] /\ manifest \in [1..n -> Pkgs]
      BY <3>1, <3>3, <3>a
    <3> HIDE DEF n
    <3>5. manifest \in Seq(Pkgs) /\ Len(manifest) = n
      BY <3>3, <3>4, SeqIs
    <3>6. \A x : x \in ToSet(manifest) <=> \E i \in 1..n : manifest[i] = x
      BY <3>5, SetOf
    <3>7. q \in DependsOn(world, p, col.bm[p].version) => q \in ToSet(manifest)
      BY <3>2, <3>3, <3>4, <3>6
    <3>8. Reverse(manifest) \in Seq(Pkgs) /\ ToSet(Reverse(manifest)) = ToSet(manifest)
      BY <3>5, ReverseSet
    <3>9. LET f == Those(Reverse(manifest), Acted(col.bm))
          IN  f \in Seq(Pkgs) /\ ToSet(f) = ToSet(manifest) \cap Acted(col.bm)
      BY <3>8, ThoseOf
    <3> QED
      BY <2>2, <3>7, <3>9
  <2> QED
    BY <2>1, <2>2
<1> HIDE DEF first, current, against, ds, manifest
<1>6. ToSet(first \o current) = ToSet(first) \cup ToSet(current)
  BY <1>4, <1>5, ConcatSet
<1>7. CASE builds /\ ~col.bm[p].collected
  BY <1>1, <1>2, <1>3, <1>7
<1>8. CASE ~(builds /\ ~col.bm[p].collected)
  <2>1. After(p) = ToSet(first) \cup ToSet(current)
    BY <1>2, <1>6, <1>8
  <2> QED
    BY <1>1, <1>4, <1>5, <1>8, <2>1
<1> QED
  BY <1>7, <1>8

\* A plan that leaves nothing out is accepted: it is in order.
LEMMA CompleteAccepted ==
    ASSUME Inv, Orderly, Grounded, SimulationRefused
    PROVE  Incomplete
<1>1. phase = "order" /\ tasks = <<>> /\ req.kind = "build" /\ Refuses(before)
  BY DEF SimulationRefused
<1>2. phase \in Planning /\ phase \in BuildPhases /\ phase \notin Stages /\ phase # "idle"
  BY <1>1 DEF Planning, BuildPhases, Stages
<1>3. AtWork /\ Commanded /\ selected = before
  BY <1>1, <1>2, WorkOf DEF Inv, Undisturbed, Commanded
<1>4. plan \in Seq(Pkgs) /\ IsInjective(plan) /\ ToSet(plan) \subseteq Acted(col.bm)
  BY <1>2 DEF Inv, Ordering
<1>5. \A x \in ToSet(plan) : \A y \in After(x) : Precedes(plan, x, y)
  <2>1. \A t \in ToSet(tasks) : t.op # "insert"
    BY <1>1 DEF ToSet
  <2> QED
    BY <1>2, <2>1, ArrangedOf DEF Orderly
<1>6. /\ Len(plan) \in Nat /\ DOMAIN plan = 1..Len(plan) /\ ToSet(plan) \subseteq Pkgs
      /\ \A x : x \in ToSet(plan) <=> \E i \in 1..Len(plan) : plan[i] = x
  BY <1>4, SetOf
<1>7. \A i, j \in DOMAIN plan : Precedes(plan, plan[i], plan[j]) <=> i < j
  BY <1>4, PrecedesOrders
<1>8. PICK i \in DOMAIN plan :
        \/ /\ Disfigures(before, col.bm, plan[i])
           /\ \E q \in ConfiguredDependents(before, plan[i]) :
                 ~(q \in ToSet(SubSeq(plan, 1, i - 1)) /\ Disfigures(before, col.bm, q))
        \/ /\ Configures(before, plan[i])
           /\ \E d \in DependsOn(world, plan[i], Target(before, plan[i])) :
                 \/ Simulated(before)[d].state # "configured"
                 \/ d \in ToSet(SubSeq(plan, 1, i)) /\ Configures(before, d)
                 \/ Simulated(before)[d].version \notin Unconstrained(before, plan[i])[d]
  BY <1>1 DEF Refuses
<1> DEFINE x == plan[i]
<1>9. x \in ToSet(plan) /\ x \in Pkgs /\ x \in Acted(col.bm) /\ x \in DOMAIN col.bm
  BY <1>4, <1>6 DEF Acted
<1>10. /\ \A y : y \in ToSet(SubSeq(plan, 1, i - 1)) <=> \E j \in 1..(i - 1) : plan[j] = y
       /\ \A y : y \in ToSet(SubSeq(plan, 1, i)) <=> \E j \in 1..i : plan[j] = y
  <2>1. i - 1 \in 0..Len(plan) /\ i \in 0..Len(plan)
    BY <1>6
  <2> QED
    BY <1>4, <2>1, FirstOf
<1> SUFFICES ASSUME ~Incomplete PROVE FALSE
  OBVIOUS
<1>11. ASSUME Disfigures(before, col.bm, x), NEW q \in ConfiguredDependents(before, x),
              ~(q \in ToSet(SubSeq(plan, 1, i - 1)) /\ Disfigures(before, col.bm, q))
       PROVE  FALSE
  <2>1. q \in ToSet(plan) /\ Disfigures(before, col.bm, q)
    BY <1>9, <1>11 DEF Incomplete, Depending
  <2>2. q \in Pkgs /\ before[q].state = "configured" /\ x \in DOMAIN before[q].prereqs
    BY DEF ConfiguredDependents
  <2>3. x \in After(q)
    BY <1>3, <1>4, <1>9, <1>11, <2>1, <2>2, AfterBuild
  <2>4. Precedes(plan, q, x)
    BY <1>5, <2>1, <2>3
  <2>5. PICK j \in DOMAIN plan : plan[j] = q
    BY <1>6, <2>1
  <2>6. j < i
    BY <1>7, <2>4, <2>5
  <2>7. j \in 1..(i - 1)
    BY <1>6, <2>6
  <2> QED
    BY <1>10, <1>11, <2>1, <2>5, <2>7
<1>12. ASSUME Configures(before, x), NEW d \in DependsOn(world, x, Target(before, x)),
              \/ Simulated(before)[d].state # "configured"
              \/ d \in ToSet(SubSeq(plan, 1, i)) /\ Configures(before, d)
              \/ Simulated(before)[d].version \notin Unconstrained(before, x)[d]
       PROVE  FALSE
  <2>1. d \in ToSet(SubSeq(plan, 1, i)) /\ Configures(before, d)
    BY <1>9, <1>12 DEF Incomplete
  <2>2. PICK j \in 1..i : plan[j] = d
    BY <1>10, <2>1
  <2>3. j \in DOMAIN plan /\ d \in ToSet(plan) /\ d \in Acted(col.bm) /\ d \in Pkgs
    BY <1>4, <1>6, <2>2
  <2>4. col.bm[x] \in Entries /\ col.bm[x].action \in {"build", "adjust"}
    <3>1. col.bm[x] \in Entries
      BY <1>3, <1>9 DEF AtWork, Maps
    <3>2. col.bm[x].action # "enter" /\ col.bm[x].action # "drop"
      BY <1>9, <1>12 DEF Acted, Configures, Dropped
    <3> QED
      BY <3>1, <3>2 DEF Entries
  <2>5. d \in After(x)
    <3>1. CASE col.bm[x].action = "build" /\ col.bm[x].collected
      <4>1. Target(before, x) = col.bm[x].version
        BY <3>1 DEF Target
      <4> QED
        BY <1>3, <1>9, <1>12, <2>3, <3>1, <4>1, AfterBuild
    <3>2. CASE col.bm[x].action = "build" /\ ~col.bm[x].collected
      <4>1. GatheredFor(col.bm, x, {})
        BY <1>1, <1>3, <1>9 DEF Grounded, Gathered
      <4>2. Pruned(before, col.bm, x)
        BY <1>9, <3>2, <4>1 DEF GatheredFor
      <4>3. /\ Target(before, x) = before[x].version
            /\ DOMAIN before[x].prereqs = DependsOn(world, x, before[x].version)
        BY <1>9, <3>2, <4>2 DEF Pruned, Target, Grounded, Manifested
      <4> QED
        BY <1>3, <1>9, <1>12, <2>3, <3>2, <4>3, AfterBuild
    <3>3. CASE col.bm[x].action = "adjust"
      <4>1. before[x].state = "configured"
        BY <1>3, <1>9, <3>3 DEF AtWork, Maps, Enterable
      <4>2. Disfigures(before, col.bm, x)
        BY <1>12, <4>1 DEF Configures
      <4>3. /\ Target(before, x) = before[x].version
            /\ DOMAIN before[x].prereqs = DependsOn(world, x, before[x].version)
        BY <1>9, <3>3, <4>1 DEF Target, Grounded, Manifested
      <4>4. d \in DOMAIN before[x].prereqs
        BY <1>12, <4>3
      <4>5. before[d].state = "configured"
        BY <1>3, <1>9, <4>1, <4>4
           DEF AtWork, Config!PrerequisitesHeld, Config!Configured, Config!Satisfied
      <4>6. Disfigures(before, col.bm, d)
        BY <2>1, <4>5 DEF Configures
      <4> QED
        BY <1>3, <1>9, <2>3, <3>3, <4>1, <4>2, <4>4, <4>6, AfterBuild
    <3> QED
      BY <2>4, <3>1, <3>2, <3>3
  <2>6. Precedes(plan, x, d)
    BY <1>5, <1>9, <2>5
  <2>7. i < j
    BY <1>7, <2>2, <2>3, <2>6
  <2> QED
    BY <1>6, <2>2, <2>7
<1> QED
  BY <1>8, <1>11, <1>12

\* The plan of pkg-build is refused by its simulation only where it leaves out a
\* dependent of what it disfigures, or leaves what it configures without a prerequisite
\* or with one at a version refused; what the collection has brought in, pruned,
\* replaced and merged is all that order() needs, which never refuses a plan for the
\* order of its packages.
THEOREM NeverRefusedForItsOrder == Spec => []NotForItsOrder
<1>1. Init => Grounded
  BY InitGrounded
<1>2. Inv /\ Grounded /\ [Next]_vars => Grounded'
  BY NextGrounded
<1>3. Inv /\ Orderly /\ Grounded => NotForItsOrder
  BY CompleteAccepted DEF NotForItsOrder
<1> QED
  BY <1>1, <1>2, <1>3, OrderlyInvariance, PTL DEF Spec
=============================================================================
