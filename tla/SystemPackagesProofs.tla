------------------------- MODULE SystemPackagesProofs -------------------------
(***************************************************************************)
(* What holds of system packages for any host and distribution of either   *)
(* kind, any mappings and any number of names: what was found to be        *)
(* installed stays as it is, and what the code asserts may only fail if    *)
(* two names share a package.                                              *)
(***************************************************************************)
EXTENDS SystemPackages, SequenceTheorems, FiniteSetTheorems, TLAPS

---------------------------------------------------------------------------
(* Sequences. *)

IsSeq(s) == \E S : s \in Seq(S)

LEMMA SeqShape ==
  ASSUME NEW s, IsSeq(s)
  PROVE  /\ s \in Seq(ToSet(s))
         /\ Len(s) \in Nat /\ DOMAIN s = 1..Len(s)
         /\ s = <<>> <=> Len(s) = 0
<1>1. PICK S : s \in Seq(S)
  BY DEF IsSeq
<1>2. Len(s) \in Nat /\ DOMAIN s = 1..Len(s) /\ s \in [1..Len(s) -> S]
  BY <1>1, LenProperties
<1>3. s \in [1..Len(s) -> ToSet(s)]
  BY <1>2 DEF ToSet
<1>4. s \in Seq(ToSet(s))
  BY <1>2, <1>3, SeqDef
<1>5. s = <<>> <=> Len(s) = 0
  BY <1>1, <1>2, EmptySeq
<1> QED
  BY <1>2, <1>4, <1>5

LEMMA SeqMade ==
  ASSUME NEW s, NEW n \in Nat, NEW S, s \in [1..n -> S]
  PROVE  IsSeq(s) /\ Len(s) = n /\ DOMAIN s = 1..n
<1>1. s \in Seq(S)
  BY SeqDef
<1> QED
  BY <1>1, LenProperties DEF IsSeq

LEMMA SeqConcat ==
  ASSUME NEW s, NEW t, IsSeq(s), IsSeq(t)
  PROVE  /\ IsSeq(s \o t)
         /\ Len(s \o t) = Len(s) + Len(t)
         /\ ToSet(s \o t) = ToSet(s) \cup ToSet(t)
         /\ \A i \in 1..Len(s) : (s \o t)[i] = s[i]
         /\ \A i \in 1..Len(t) : (s \o t)[Len(s) + i] = t[i]
<1> DEFINE U == ToSet(s) \cup ToSet(t)
<1>1. /\ s \in Seq(ToSet(s)) /\ Len(s) \in Nat /\ DOMAIN s = 1..Len(s)
      /\ t \in Seq(ToSet(t)) /\ Len(t) \in Nat /\ DOMAIN t = 1..Len(t)
  BY SeqShape
<1>2. s \in Seq(U) /\ t \in Seq(U)
  <2>1. ToSet(s) \subseteq U /\ ToSet(t) \subseteq U
    OBVIOUS
  <2> QED
    BY <1>1, <2>1, SeqMonotonic
<1>3. /\ s \o t \in Seq(U) /\ Len(s \o t) = Len(s) + Len(t)
      /\ \A i \in 1..Len(s) + Len(t) :
            (s \o t)[i] = IF i <= Len(s) THEN s[i] ELSE t[i - Len(s)]
  <2> HIDE DEF U
  <2> QED
    BY <1>2, ConcatProperties
<1>4. DOMAIN (s \o t) = 1..Len(s) + Len(t)
  BY <1>3, LenProperties
<1>5. \A i \in 1..Len(s) : (s \o t)[i] = s[i]
  BY <1>1, <1>3
<1>6. \A i \in 1..Len(t) : (s \o t)[Len(s) + i] = t[i]
  BY <1>1, <1>3
<1>7. ToSet(s \o t) \subseteq U
  BY <1>1, <1>3, <1>4 DEF ToSet
<1>8. U \subseteq ToSet(s \o t)
  <2>1. ASSUME NEW i \in DOMAIN s PROVE s[i] \in ToSet(s \o t)
    BY <1>1, <1>4, <1>5 DEF ToSet
  <2>2. ASSUME NEW i \in DOMAIN t PROVE t[i] \in ToSet(s \o t)
    <3>1. Len(s) + i \in 1..Len(s) + Len(t)
      BY <1>1
    <3> QED
      BY <1>1, <1>4, <1>6, <3>1 DEF ToSet
  <2> QED
    BY <2>1, <2>2 DEF ToSet
<1> QED
  BY <1>3, <1>5, <1>6, <1>7, <1>8 DEF IsSeq

LEMMA SeqSingle ==
  ASSUME NEW x
  PROVE  IsSeq(<<x>>) /\ Len(<<x>>) = 1 /\ <<x>>[1] = x /\ ToSet(<<x>>) = {x}
<1>1. <<x>> \in Seq({x})
  OBVIOUS
<1>2. Len(<<x>>) = 1 /\ <<x>>[1] = x /\ DOMAIN <<x>> = {1}
  OBVIOUS
<1> QED
  BY <1>1, <1>2 DEF IsSeq, ToSet

\* A sequence without its first element, and without its second.
LEMMA SeqTail ==
  ASSUME NEW s, IsSeq(s), Len(s) >= 1
  PROVE  /\ IsSeq(Tail(s)) /\ ToSet(Tail(s)) \subseteq ToSet(s)
         /\ Len(Tail(s)) = Len(s) - 1
         /\ Len(s) >= 2 => Tail(s)[1] = s[2]
         /\ ToSet(s) = {s[1]} \cup ToSet(Tail(s))
<1>1. /\ s \in Seq(ToSet(s)) /\ Len(s) \in Nat /\ DOMAIN s = 1..Len(s)
      /\ s # <<>>
  BY SeqShape
<1>2. /\ Tail(s) \in Seq(ToSet(s)) /\ Len(Tail(s)) = Len(s) - 1
      /\ \A i \in 1..Len(Tail(s)) : Tail(s)[i] = s[i + 1]
  BY <1>1, HeadTailProperties
<1>3. DOMAIN Tail(s) = 1..Len(s) - 1
  BY <1>2, LenProperties
<1>4. ToSet(Tail(s)) \subseteq ToSet(s)
  BY <1>1, <1>2, <1>3 DEF ToSet
<1>5. ASSUME NEW i \in DOMAIN s PROVE s[i] = s[1] \/ s[i] \in ToSet(Tail(s))
  <2>1. CASE i = 1
    BY <2>1
  <2>2. CASE i # 1
    <3>1. i - 1 \in DOMAIN Tail(s) /\ Tail(s)[i - 1] = s[i]
      BY <1>1, <1>2, <1>3, <2>2
    <3> QED
      BY <3>1 DEF ToSet
  <2> QED
    BY <2>1, <2>2
<1>6. s[1] \in ToSet(s)
  BY <1>1 DEF ToSet
<1>7. ToSet(s) = {s[1]} \cup ToSet(Tail(s))
  BY <1>4, <1>5, <1>6 DEF ToSet
<1>8. IsSeq(Tail(s))
  BY <1>2 DEF IsSeq
<1>9. Len(s) >= 2 => Tail(s)[1] = s[2]
  BY <1>1, <1>2
<1> QED
  BY <1>2, <1>4, <1>7, <1>8, <1>9

LEMMA SeqDropSecond ==
  ASSUME NEW s, IsSeq(s), Len(s) >= 2
  PROVE  /\ IsSeq(RemoveAt(s, 2)) /\ ToSet(RemoveAt(s, 2)) \subseteq ToSet(s)
         /\ Len(RemoveAt(s, 2)) >= 1 /\ RemoveAt(s, 2)[1] = s[1]
<1> DEFINE a == SubSeq(s, 1, 1)  b == SubSeq(s, 3, Len(s))
<1>1. s \in Seq(ToSet(s)) /\ Len(s) \in Nat /\ DOMAIN s = 1..Len(s)
  BY SeqShape
<1>2. \A i \in 1..Len(s) : s[i] \in ToSet(s)
  BY <1>1 DEF ToSet
<1>3. /\ a \in Seq(ToSet(s)) /\ Len(a) = 1
      /\ \A i \in 1..1 : a[i] = s[i]
  <2>1. \A i \in 1..1 : s[i] \in ToSet(s)
    BY <1>1, <1>2
  <2>2. /\ a \in Seq(ToSet(s))
        /\ Len(a) = IF 1 <= 1 THEN 1 - 1 + 1 ELSE 0
        /\ \A i \in 1..1 - 1 + 1 : a[i] = s[1 + i - 1]
    BY <2>1, SubSeqProperties
  <2> QED
    BY <2>2
<1>4. b \in Seq(ToSet(s)) /\ Len(b) \in Nat
  <2>1. \A i \in 3..Len(s) : s[i] \in ToSet(s)
    BY <1>1, <1>2
  <2>2. b \in Seq(ToSet(s))
    BY <1>1, <2>1, SubSeqProperties
  <2> QED
    BY <2>2, LenProperties
<1>5. RemoveAt(s, 2) = a \o b
  <2>1. 2 - 1 = 1 /\ 2 + 1 = 3
    OBVIOUS
  <2>2. RemoveAt(s, 2) = SubSeq(s, 1, 2 - 1) \o SubSeq(s, 2 + 1, Len(s))
    BY Zenon DEF RemoveAt
  <2> QED
    BY <2>1, <2>2, Zenon
<1> HIDE DEF a, b
<1>6. /\ a \o b \in Seq(ToSet(s)) /\ Len(a \o b) = Len(a) + Len(b)
      /\ \A i \in 1..Len(a) + Len(b) :
            (a \o b)[i] = IF i <= Len(a) THEN a[i] ELSE b[i - Len(a)]
  BY <1>3, <1>4, ConcatProperties
<1>7. (a \o b)[1] = s[1]
  BY <1>3, <1>4, <1>6
<1>8. ToSet(a \o b) \subseteq ToSet(s)
  <2>1. a \o b \in [1..Len(a \o b) -> ToSet(s)]
    BY <1>6, LenProperties
  <2> QED
    BY <2>1 DEF ToSet
<1>9. IsSeq(a \o b) /\ Len(a \o b) >= 1
  BY <1>3, <1>4, <1>6 DEF IsSeq
<1> QED
  BY <1>5, <1>7, <1>8, <1>9, Zenon

---------------------------------------------------------------------------
(* What is known of a candidate: of each of its packages which version is        *)
(* installed and which could be.                                                 *)

Fields == {"main", "policies", "status", "size", "name", "version"}

\* The host's packages as they are.
AccurateFor(installed, s) ==
    /\ IsSeq(s.policies) /\ Len(s.policies) >= 1
    /\ \A x \in ToSet(s.policies) : x.installed = installed[x.name]

Accurate(s) == AccurateFor(sys.installed, s)

\* The index as it is.
CurrentFor(installed, index, s) ==
    \A x \in ToSet(s.policies) :
        x.candidate = IF index[x.name] = None THEN installed[x.name] ELSE index[x.name]

Current(s) == \A x \in ToSet(s.policies) : x.candidate = Latest(x.name)

Whole(s) == \A x \in ToSet(s.policies) : x.installed # None

\* What is known once a candidate was looked at,
Seen(s) == Fields \subseteq DOMAIN s /\ Accurate(s) /\ Current(s)

\* What is known of a package that is asked about.
Policy(n) == [name |-> n, installed |-> sys.installed[n], candidate |-> Latest(n)]

LEMMA PoliciesSeen ==
  ASSUME NEW ns, IsSeq(ns), NEW ps, ps = [i \in DOMAIN ns |-> Policy(ns[i])]
  PROVE  /\ IsSeq(ps) /\ Len(ps) = Len(ns)
         /\ \A x \in ToSet(ps) : /\ x.installed = sys.installed[x.name]
                                 /\ x.candidate = Latest(x.name)
<1>1. Len(ns) \in Nat /\ DOMAIN ns = 1..Len(ns)
  BY SeqShape
<1>2. IsSeq(ps) /\ Len(ps) = Len(ns)
  <2>1. ps \in [1..Len(ns) -> ToSet(ps)]
    BY <1>1 DEF ToSet
  <2> QED
    BY <1>1, <2>1, SeqMade
<1>3. ASSUME NEW x \in ToSet(ps)
      PROVE  x.installed = sys.installed[x.name] /\ x.candidate = Latest(x.name)
  <2>1. PICK n : x = Policy(n)
    BY DEF ToSet
  <2> QED
    BY <2>1 DEF Policy
<1> QED
  BY <1>2, <1>3

---------------------------------------------------------------------------
(* What is found on Debian. *)

LEMMA DebianPolicies ==
  ASSUME NEW ns
  PROVE  Debian!Policies(sys, ns) = [i \in DOMAIN ns |-> Policy(ns[i])]
BY DEF Debian!Policies, Debian!AptCachePolicy, Policy, Latest

LEMMA DebianStatus ==
  ASSUME NEW ps, NEW size
  PROVE  Debian!StatusOf(ps, size) = "installed" <=> \A x \in ToSet(ps) : x.installed # None
BY DEF Debian!StatusOf, ToSet

\* Guessing the main package adds it in front.
LEMMA DebianGuess ==
  ASSUME NEW s, NEW v, Seen(s)
  PROVE  /\ Seen(Debian!GuessMain(sys, s, v))
         /\ ToSet(s.policies) \subseteq ToSet(Debian!GuessMain(sys, s, v).policies)
<1> DEFINE g == Debian!GuessMain(sys, s, v)
           m == Debian!MainFromDev(sys, s.dev, v)
           p == Policy(m)
<1>1. CASE m = None
  <2>1. g = s
    BY <1>1 DEF Debian!GuessMain
  <2> QED
    BY <2>1
<1>2. CASE m # None
  <2>1. g = [s EXCEPT !.main = m, !.size = @ + 1, !.policies = <<p>> \o @]
    BY <1>2 DEF Debian!GuessMain, Debian!AptCachePolicy, Policy, Latest
  <2>2. Fields \subseteq DOMAIN s
    BY DEF Seen
  <2>3. DOMAIN g = DOMAIN s /\ g.policies = <<p>> \o s.policies
    BY <2>1, <2>2 DEF Fields
  <2>4. IsSeq(s.policies) /\ Len(s.policies) \in Nat /\ Len(s.policies) >= 1
    BY SeqShape DEF Seen, Accurate, AccurateFor
  <2>5. /\ p.installed = sys.installed[p.name]
        /\ p.candidate = Latest(p.name)
    BY DEF Policy
  <2>6. /\ IsSeq(<<p>> \o s.policies)
        /\ Len(<<p>> \o s.policies) = 1 + Len(s.policies)
        /\ ToSet(<<p>> \o s.policies) = {p} \cup ToSet(s.policies)
    BY <2>4, SeqSingle, SeqConcat
  <2>7. Accurate(g)
    BY <2>3, <2>4, <2>5, <2>6 DEF Seen, Accurate, AccurateFor
  <2>8. Current(g)
    BY <2>3, <2>5, <2>6 DEF Seen, Current
  <2> QED
    BY <2>2, <2>3, <2>6, <2>7, <2>8 DEF Seen
<1> QED
  BY <1>1, <1>2

LEMMA DebianStated ==
  ASSUME NEW s, NEW which, Seen(s)
  PROVE  LET r == Debian!Stated(s, which)
         IN  /\ Seen(r) /\ r.policies = s.policies
             /\ r.status = "installed" <=> Whole(r)
<1> DEFINE r == Debian!Stated(s, which)
<1>1. Fields \subseteq DOMAIN s
  BY DEF Seen
<1>2. /\ DOMAIN r = DOMAIN s /\ r.policies = s.policies
      /\ r.status = Debian!StatusOf(s.policies, s.size)
  BY <1>1 DEF Debian!Stated, Fields
<1>3. Seen(r)
  BY <1>1, <1>2 DEF Seen, Accurate, AccurateFor, Current
<1> QED
  BY <1>2, <1>3, DebianStatus DEF Whole

LEMMA DebianAsked ==
  ASSUME NEW c \in Debian!Candidate
  PROVE  Seen(Debian!Asked(sys, c)) /\ Debian!Asked(sys, c).main = c.main
<1> DEFINE main == Debian!Known(c.main) \o Debian!Known(c.dev)
           s == Debian!Asked(sys, c)
<1>1. /\ s.main = c.main /\ Fields \subseteq DOMAIN s
      /\ s.policies = Debian!Policies(sys, main \o c.extras)
  BY DEF Debian!Asked, Fields
<1>2. IsSeq(c.extras) /\ (c.main # None \/ c.dev # None)
  BY DEF Debian!Candidate, IsSeq
<1>3. ASSUME NEW n
      PROVE  IsSeq(Debian!Known(n)) /\ Len(Debian!Known(n)) = IF n = None THEN 0 ELSE 1
  <2>1. IsSeq(<<>>) /\ Len(<<>>) = 0
    BY EmptySeq DEF IsSeq
  <2> QED
    BY <2>1, SeqSingle DEF Debian!Known
<1>4. IsSeq(main) /\ Len(main) >= 1
  <2> DEFINE a == Debian!Known(c.main)  b == Debian!Known(c.dev)
  <2>1. /\ IsSeq(a) /\ Len(a) = IF c.main = None THEN 0 ELSE 1
        /\ IsSeq(b) /\ Len(b) = IF c.dev = None THEN 0 ELSE 1
    BY <1>3
  <2> HIDE DEF a, b
  <2>2. IsSeq(a \o b) /\ Len(a \o b) = Len(a) + Len(b)
    BY <2>1, SeqConcat
  <2>3. Len(a \o b) >= 1
    BY <1>2, <2>1, <2>2
  <2> QED
    BY <2>2, <2>3 DEF a, b
<1> HIDE DEF main
<1>5. /\ IsSeq(main \o c.extras)
      /\ Len(main \o c.extras) = Len(main) + Len(c.extras)
  BY <1>2, <1>4, SeqConcat
<1>6. Len(main) \in Nat /\ Len(c.extras) \in Nat
  BY <1>2, <1>4, SeqShape
<1>7. /\ IsSeq(s.policies) /\ Len(s.policies) >= 1
      /\ \A x \in ToSet(s.policies) : /\ x.installed = sys.installed[x.name]
                                      /\ x.candidate = Latest(x.name)
  <2> DEFINE ns == main \o c.extras
  <2> HIDE DEF ns
  <2>1. IsSeq(ns) /\ Len(ns) = Len(main) + Len(c.extras)
    BY <1>5 DEF ns
  <2>2. s.policies = [i \in DOMAIN ns |-> Policy(ns[i])]
    BY <1>1, DebianPolicies DEF ns, main
  <2>3. Len(ns) >= 1
    BY <1>4, <1>6, <2>1
  <2> QED
    BY <2>1, <2>2, <2>3, PoliciesSeen
<1> QED
  BY <1>1, <1>7 DEF Seen, Accurate, AccurateFor, Current

\* A candidate that is looked at is installed, or some package of it is not.
LEMMA DebianFindInstalled ==
  ASSUME NEW c \in Debian!Candidate
  PROVE  LET r == Debian!FindInstalled(sys, c)
         IN  Seen(r) /\ (r.status = "installed" <=> Whole(r))
<1> DEFINE s == Debian!Asked(sys, c)  r == Debian!FindInstalled(sys, c)
<1>1. Seen(s)
  BY DebianAsked
<1>2. CASE c.main # None
  <2>1. r = Debian!Stated(s, "installed")
    BY <1>2 DEF Debian!FindInstalled
  <2> QED
    BY <1>1, <2>1, DebianStated
<1>3. CASE c.main = None /\ s.policies[1].installed = None
  <2>1. r = s
    BY <1>3 DEF Debian!FindInstalled
  <2>2. s.status = "unknown"
    BY DEF Debian!Asked
  <2>3. s.policies[1] \in ToSet(s.policies)
    BY <1>1, SeqShape DEF Seen, Accurate, AccurateFor, ToSet
  <2>4. ~Whole(s)
    BY <1>3, <2>3 DEF Whole
  <2> QED
    BY <1>1, <2>1, <2>2, <2>4
<1>4. CASE c.main = None /\ s.policies[1].installed # None
  <2> DEFINE g == Debian!GuessMain(sys, s, s.policies[1].installed)
  <2>1. r = Debian!Stated(g, "installed")
    BY <1>4 DEF Debian!FindInstalled
  <2>2. Seen(g)
    BY <1>1, DebianGuess
  <2> QED
    BY <2>1, <2>2, DebianStated
<1> QED
  BY <1>2, <1>3, <1>4

\* The packages of a candidate that were looked at are asked about once more.
LEMMA DebianRequery ==
  ASSUME NEW s, Fields \subseteq DOMAIN s, Accurate(s)
  PROVE  LET names == [i \in DOMAIN s.policies |-> s.policies[i].name]
             r == [s EXCEPT !.policies = Debian!Policies(sys, names)]
         IN  Seen(r) /\ (Whole(r) <=> Whole(s))
<1> DEFINE names == [i \in DOMAIN s.policies |-> s.policies[i].name]
           ps == Debian!Policies(sys, names)
           r == [s EXCEPT !.policies = ps]
<1>1. /\ IsSeq(s.policies) /\ Len(s.policies) >= 1
      /\ Len(s.policies) \in Nat /\ DOMAIN s.policies = 1..Len(s.policies)
  BY SeqShape DEF Accurate, AccurateFor
<1>2. IsSeq(names) /\ Len(names) = Len(s.policies) /\ DOMAIN names = DOMAIN s.policies
  <2>1. names \in [1..Len(s.policies) -> ToSet(names)]
    BY <1>1 DEF ToSet
  <2> QED
    BY <1>1, <2>1, SeqMade
<1>3. ps = [i \in DOMAIN names |-> Policy(names[i])]
  BY DebianPolicies
<1>4. DOMAIN r = DOMAIN s /\ r.policies = ps
  BY DEF Fields
<1> HIDE DEF ps, r
<1>5. /\ IsSeq(ps) /\ Len(ps) = Len(names)
      /\ \A x \in ToSet(ps) : /\ x.installed = sys.installed[x.name]
                              /\ x.candidate = Latest(x.name)
  <2> HIDE DEF names
  <2> QED
    BY <1>2, <1>3, PoliciesSeen
<1>6. Seen(r)
  BY <1>1, <1>2, <1>4, <1>5 DEF Seen, Accurate, AccurateFor, Current
<1>7. ASSUME NEW i \in DOMAIN s.policies
      PROVE  ps[i].installed = s.policies[i].installed
  <2>1. s.policies[i] \in ToSet(s.policies)
    BY DEF ToSet
  <2>2. s.policies[i].installed = sys.installed[names[i]]
    BY <2>1 DEF Accurate, AccurateFor
  <2>3. ps[i] = Policy(names[i])
    BY <1>2, <1>3
  <2> QED
    BY <2>2, <2>3 DEF Policy
<1>8. Whole(r) <=> Whole(s)
  <2>1. DOMAIN ps = DOMAIN s.policies
    BY <1>2, <1>3
  <2>2. Whole(r) <=> \A i \in DOMAIN ps : ps[i].installed # None
    BY <1>4 DEF Whole, ToSet
  <2>3. Whole(s) <=> \A i \in DOMAIN s.policies : s.policies[i].installed # None
    BY DEF Whole, ToSet
  <2> QED
    BY <1>7, <2>1, <2>2, <2>3
<1> QED
  BY <1>6, <1>8 DEF ps, r

\* One of which some package is not installed is not taken to be, however it is
\* looked at next.
LEMMA DebianFindAvailable ==
  ASSUME NEW s0, Fields \subseteq DOMAIN s0, Accurate(s0), ~Whole(s0),
         NEW requery \in BOOLEAN, requery \/ Current(s0)
  PROVE  LET r == Debian!FindAvailable(sys, s0, requery)
         IN  Seen(r) /\ r.status # "installed"
<1> DEFINE names == [i \in DOMAIN s0.policies |-> s0.policies[i].name]
           s == IF requery THEN [s0 EXCEPT !.policies = Debian!Policies(sys, names)] ELSE s0
           g == Debian!GuessMain(sys, s, s.policies[1].candidate)
           r == Debian!FindAvailable(sys, s0, requery)
<1>1. r = IF s.main # None THEN Debian!Stated(s, "candidate")
          ELSE IF s.policies[1].candidate = None THEN [s EXCEPT !.status = "unavailable"]
          ELSE Debian!Stated(g, "candidate")
  BY DEF Debian!FindAvailable
<1>2. Seen(s) /\ ~Whole(s)
  BY DebianRequery DEF Seen
<1>3. Seen(g) /\ ~Whole(g)
  BY <1>2, DebianGuess DEF Whole
<1>4. LET u == [s EXCEPT !.status = "unavailable"]
      IN  Seen(u) /\ u.status # "installed"
  <2>1. Fields \subseteq DOMAIN s
    BY <1>2 DEF Seen
  <2> QED
    BY <1>2, <2>1 DEF Seen, Accurate, AccurateFor, Current, Fields
<1>5. ASSUME NEW x, Seen(x), ~Whole(x)
      PROVE  LET t == Debian!Stated(x, "candidate")
             IN  Seen(t) /\ t.status # "installed"
  <2>1. Whole(Debian!Stated(x, "candidate")) <=> Whole(x)
    BY <1>5, DebianStated DEF Whole
  <2> QED
    BY <1>5, <2>1, DebianStated
<1>6. CASE s.main # None
  <2>1. r = Debian!Stated(s, "candidate")
    BY <1>1, <1>6
  <2> QED
    BY <1>2, <1>5, <2>1
<1>7. CASE s.main = None /\ s.policies[1].candidate = None
  <2>1. r = [s EXCEPT !.status = "unavailable"]
    BY <1>1, <1>7
  <2> QED
    BY <1>4, <2>1
<1>8. CASE s.main = None /\ s.policies[1].candidate # None
  <2>1. r = Debian!Stated(g, "candidate")
    BY <1>1, <1>8
  <2> QED
    BY <1>3, <1>5, <2>1
<1> QED
  BY <1>6, <1>7, <1>8
---------------------------------------------------------------------------
(* What is found on Fedora. *)

\* Of a candidate that may have to fall back to another name neither is installed.
Paired(s) ==
    s.fallback # None =>
        /\ Len(s.policies) >= 2
        /\ s.policies[1].installed = None /\ s.policies[2].installed = None

MoreFields == Fields \cup {"fallback", "devel"}

SeenToo(s) == MoreFields \subseteq DOMAIN s /\ Seen(s)

LEMMA FedoraPolicies ==
  ASSUME NEW ns
  PROVE  Fedora!Infos(sys, ns) = [i \in DOMAIN ns |-> Policy(ns[i])]
BY DEF Fedora!Infos, Fedora!DnfList, Policy, Latest

LEMMA FedoraStatus ==
  ASSUME NEW ps, NEW size
  PROVE  Fedora!StatusOf(ps, size) = "installed" <=> \A x \in ToSet(ps) : x.installed # None
BY DEF Fedora!StatusOf, ToSet

LEMMA FedoraGuess ==
  ASSUME NEW s, NEW v, SeenToo(s)
  PROVE  LET g == Fedora!GuessMain(sys, s, v)
         IN  /\ SeenToo(g) /\ g.fallback = s.fallback
             /\ ToSet(s.policies) \subseteq ToSet(g.policies)
<1> DEFINE g == Fedora!GuessMain(sys, s, v)
           m == Fedora!MainFromDevel(sys, s.devel, v)
           p == Policy(m)
<1>1. CASE m = None
  <2>1. g = s
    BY <1>1 DEF Fedora!GuessMain
  <2> QED
    BY <2>1
<1>2. CASE m # None
  <2>1. g = [s EXCEPT !.main = m, !.size = @ + 1, !.policies = <<p>> \o @]
    BY <1>2 DEF Fedora!GuessMain, Fedora!DnfList, Policy, Latest
  <2>2. MoreFields \subseteq DOMAIN s
    BY DEF SeenToo
  <2>3. /\ DOMAIN g = DOMAIN s /\ g.policies = <<p>> \o s.policies
        /\ g.fallback = s.fallback
    BY <2>1, <2>2 DEF MoreFields, Fields
  <2>4. IsSeq(s.policies) /\ Len(s.policies) \in Nat /\ Len(s.policies) >= 1
    BY SeqShape DEF SeenToo, Seen, Accurate, AccurateFor
  <2>5. /\ p.installed = sys.installed[p.name]
        /\ p.candidate = Latest(p.name)
    BY DEF Policy
  <2>6. /\ IsSeq(<<p>> \o s.policies)
        /\ Len(<<p>> \o s.policies) = 1 + Len(s.policies)
        /\ ToSet(<<p>> \o s.policies) = {p} \cup ToSet(s.policies)
    BY <2>4, SeqSingle, SeqConcat
  <2>7. Accurate(g)
    BY <2>3, <2>4, <2>5, <2>6 DEF SeenToo, Seen, Accurate, AccurateFor
  <2>8. Current(g)
    BY <2>3, <2>5, <2>6 DEF SeenToo, Seen, Current
  <2>9. Fields \subseteq DOMAIN g /\ MoreFields \subseteq DOMAIN g
    BY <2>2, <2>3 DEF MoreFields
  <2> QED
    BY <2>3, <2>6, <2>7, <2>8, <2>9 DEF SeenToo, Seen
<1> QED
  BY <1>1, <1>2

LEMMA FedoraStated ==
  ASSUME NEW s, NEW which, SeenToo(s)
  PROVE  LET r == Fedora!Stated(s, which)
         IN  /\ SeenToo(r) /\ r.policies = s.policies /\ r.fallback = s.fallback
             /\ r.status = "installed" <=> Whole(r)
<1> DEFINE r == Fedora!Stated(s, which)
<1>1. MoreFields \subseteq DOMAIN s
  BY DEF SeenToo
<1>2. /\ DOMAIN r = DOMAIN s /\ r.policies = s.policies /\ r.fallback = s.fallback
      /\ r.status = Fedora!StatusOf(s.policies, s.size)
  BY <1>1 DEF Fedora!Stated, MoreFields, Fields
<1>3. SeenToo(r)
  BY <1>1, <1>2 DEF SeenToo, Seen, Accurate, AccurateFor, Current
<1> QED
  BY <1>2, <1>3, FedoraStatus DEF Whole

\* Either name is kept for what is installed, or available, and both are if
\* neither is.
LEMMA FedoraResolved ==
  ASSUME NEW s, NEW which, SeenToo(s), s.fallback # None, Len(s.policies) >= 2
  PROVE  LET r == Fedora!Resolved(s, which)
         IN  /\ SeenToo(r) /\ r.status = s.status
             /\ \/ r.fallback = None
                   /\ r.policies[1] \in {s.policies[1], s.policies[2]}
                \/ /\ r = s
                   /\ s.policies[1][which] = None /\ s.policies[2][which] = None
<1> DEFINE r == Fedora!Resolved(s, which)
<1>1. MoreFields \subseteq DOMAIN s
  BY DEF SeenToo
<1>2. IsSeq(s.policies) /\ Len(s.policies) \in Nat
  BY SeqShape DEF SeenToo, Seen, Accurate, AccurateFor
<1>3. ASSUME NEW t, DOMAIN t = DOMAIN s, IsSeq(t.policies), Len(t.policies) >= 1,
             ToSet(t.policies) \subseteq ToSet(s.policies)
      PROVE  SeenToo(t)
  BY <1>1, <1>3 DEF SeenToo, Seen, Accurate, AccurateFor, Current, MoreFields
<1>4. CASE s.policies[1][which] # None
  <2>1. r = [s EXCEPT !.fallback = None, !.policies = RemoveAt(@, 2), !.size = @ - 1]
    <3>1. RemoveAt(s.policies, 2) = Fedora!RemoveAt(s.policies, 2)
      BY DEF RemoveAt, Fedora!RemoveAt
    <3>2. r = [s EXCEPT !.fallback = None, !.policies = Fedora!RemoveAt(@, 2), !.size = @ - 1]
      BY <1>4 DEF Fedora!Resolved, Fedora!DropFallback
    <3> QED
      BY <3>1, <3>2
  <2>2. /\ DOMAIN r = DOMAIN s /\ r.fallback = None /\ r.status = s.status
        /\ r.policies = RemoveAt(s.policies, 2)
    BY <1>1, <2>1 DEF MoreFields, Fields
  <2>3. /\ IsSeq(RemoveAt(s.policies, 2))
        /\ ToSet(RemoveAt(s.policies, 2)) \subseteq ToSet(s.policies)
        /\ Len(RemoveAt(s.policies, 2)) >= 1
        /\ RemoveAt(s.policies, 2)[1] = s.policies[1]
    BY <1>2, SeqDropSecond
  <2>4. SeenToo(r)
    BY <1>3, <2>2, <2>3
  <2> QED
    BY <2>2, <2>3, <2>4
<1>5. CASE s.policies[1][which] = None /\ s.policies[2][which] # None
  <2> DEFINE u == IF s.main = None THEN [s EXCEPT !.devel = s.fallback]
                  ELSE [s EXCEPT !.main = s.fallback]
  <2>1. r = [u EXCEPT !.fallback = None, !.policies = Tail(@), !.size = @ - 1]
    BY <1>5 DEF Fedora!Resolved, Fedora!UseFallback
  <2>2. DOMAIN u = DOMAIN s /\ u.policies = s.policies /\ u.status = s.status
    BY <1>1 DEF MoreFields, Fields
  <2>3. /\ DOMAIN r = DOMAIN s /\ r.fallback = None /\ r.policies = Tail(s.policies)
        /\ r.status = s.status
    <3> HIDE DEF u
    <3> QED
      BY <1>1, <2>1, <2>2 DEF MoreFields, Fields
  <2>4. /\ IsSeq(Tail(s.policies)) /\ ToSet(Tail(s.policies)) \subseteq ToSet(s.policies)
        /\ Len(Tail(s.policies)) = Len(s.policies) - 1
        /\ Tail(s.policies)[1] = s.policies[2]
    BY <1>2, SeqTail
  <2>5. Len(Tail(s.policies)) >= 1
    BY <1>2, <2>4
  <2>6. SeenToo(r)
    BY <1>3, <2>3, <2>4, <2>5
  <2> QED
    BY <2>3, <2>4, <2>6
<1>6. CASE s.policies[1][which] = None /\ s.policies[2][which] = None
  <2>1. r = s
    BY <1>6 DEF Fedora!Resolved
  <2> QED
    BY <1>6, <2>1
<1> QED
  BY <1>4, <1>5, <1>6

LEMMA FirstIsThere ==
  ASSUME NEW s, Accurate(s)
  PROVE  /\ s.policies[1] \in ToSet(s.policies)
         /\ s.policies[1].installed = None => ~Whole(s)
<1>1. IsSeq(s.policies) /\ Len(s.policies) \in Nat /\ Len(s.policies) >= 1
      /\ DOMAIN s.policies = 1..Len(s.policies)
  BY SeqShape DEF Accurate, AccurateFor
<1>2. s.policies[1] \in ToSet(s.policies)
  BY <1>1 DEF ToSet
<1> QED
  BY <1>2 DEF Whole

LEMMA FedoraAsked ==
  ASSUME NEW c \in Fedora!Candidate, NEW s,
         LET main == Fedora!Known(c.main) \o Fedora!Known(c.devel)
                     \o Fedora!Known(c.fallback) \o Fedora!Known(c.static)
         IN  s = [main |-> c.main, devel |-> c.devel, fallback |-> c.fallback,
                  size |-> Len(main), policies |-> Fedora!Infos(sys, main \o c.extras),
                  status |-> "unknown", name |-> None, version |-> None]
  PROVE  SeenToo(s) /\ (s.fallback # None => Len(s.policies) >= 2)
<1> DEFINE a == Fedora!Known(c.main)  b == Fedora!Known(c.devel)
           d == Fedora!Known(c.fallback)  e == Fedora!Known(c.static)
           ns == a \o b \o d \o e \o c.extras
<1>1. /\ s.fallback = c.fallback /\ MoreFields \subseteq DOMAIN s
      /\ Fields \subseteq DOMAIN s /\ s.policies = Fedora!Infos(sys, ns)
  BY DEF MoreFields, Fields
<1>2. IsSeq(c.extras) /\ (c.main # None \/ c.devel # None)
  BY DEF Fedora!Candidate, IsSeq
<1>3. ASSUME NEW n
      PROVE  IsSeq(Fedora!Known(n)) /\ Len(Fedora!Known(n)) = IF n = None THEN 0 ELSE 1
  <2>1. IsSeq(<<>>) /\ Len(<<>>) = 0
    BY EmptySeq DEF IsSeq
  <2> QED
    BY <2>1, SeqSingle DEF Fedora!Known
<1>4. /\ IsSeq(a) /\ Len(a) = IF c.main = None THEN 0 ELSE 1
      /\ IsSeq(b) /\ Len(b) = IF c.devel = None THEN 0 ELSE 1
      /\ IsSeq(d) /\ Len(d) = IF c.fallback = None THEN 0 ELSE 1
      /\ IsSeq(e) /\ Len(e) \in Nat
  BY <1>3, SeqShape
<1>5. s.policies = [i \in DOMAIN ns |-> Policy(ns[i])]
  BY <1>1, FedoraPolicies
<1>6. IsSeq(ns) /\ Len(ns) = Len(a) + Len(b) + Len(d) + Len(e) + Len(c.extras)
  <2> DEFINE x == a \o b  y == x \o d  z == y \o e
  <2>1. IsSeq(x) /\ Len(x) = Len(a) + Len(b)
    BY <1>4, SeqConcat
  <2>2. IsSeq(y) /\ Len(y) = Len(x) + Len(d)
    <3> HIDE DEF x
    <3> QED
      BY <1>4, <2>1, SeqConcat
  <2>3. IsSeq(z) /\ Len(z) = Len(y) + Len(e)
    <3> HIDE DEF y
    <3> QED
      BY <1>4, <2>2, SeqConcat
  <2>4. IsSeq(ns) /\ Len(ns) = Len(z) + Len(c.extras)
    <3> HIDE DEF z
    <3>1. IsSeq(z \o c.extras) /\ Len(z \o c.extras) = Len(z) + Len(c.extras)
      BY <1>2, <2>3, SeqConcat
    <3> QED
      BY <3>1 DEF z
  <2> HIDE DEF x, y, z, ns
  <2> QED
    BY <2>1, <2>2, <2>3, <2>4
<1> HIDE DEF a, b, d, e, ns
<1>7. Len(c.extras) \in Nat
  BY <1>2, SeqShape
<1>8. Len(ns) >= 1 /\ (c.fallback # None => Len(ns) >= 2)
  <2>1. /\ Len(a) \in Nat /\ Len(b) \in Nat /\ Len(d) \in Nat /\ Len(e) \in Nat
    BY <1>4, SeqShape
  <2>2. Len(a) = 1 \/ Len(b) = 1
    BY <1>2, <1>4
  <2>3. c.fallback # None => Len(d) = 1
    BY <1>4
  <2>4. Len(ns) = Len(a) + Len(b) + Len(d) + Len(e) + Len(c.extras)
    BY <1>6
  <2> DEFINE la == Len(a)  lb == Len(b)  ld == Len(d)  le == Len(e)  lc == Len(c.extras)
  <2>5. Len(ns) >= 1 /\ (ld = 1 => Len(ns) >= 2)
    <3>1. /\ la \in Nat /\ lb \in Nat /\ ld \in Nat /\ le \in Nat /\ lc \in Nat
          /\ Len(ns) = la + lb + ld + le + lc /\ (la = 1 \/ lb = 1)
      BY <1>7, <2>1, <2>2, <2>4
    <3> HIDE DEF la, lb, ld, le, lc
    <3> QED
      BY <3>1
  <2> QED
    BY <2>3, <2>5
<1>9. /\ IsSeq(s.policies) /\ Len(s.policies) = Len(ns)
      /\ \A x \in ToSet(s.policies) : /\ x.installed = sys.installed[x.name]
                                      /\ x.candidate = Latest(x.name)
  BY <1>5, <1>6, PoliciesSeen
<1> QED
  BY <1>1, <1>8, <1>9 DEF SeenToo, Seen, Accurate, AccurateFor, Current

LEMMA FedoraFindInstalled ==
  ASSUME NEW c \in Fedora!Candidate
  PROVE  LET r == Fedora!FindInstalled(sys, c)
         IN  SeenToo(r) /\ Paired(r) /\ (r.status = "installed" <=> Whole(r))
<1> DEFINE main == Fedora!Known(c.main) \o Fedora!Known(c.devel)
                   \o Fedora!Known(c.fallback) \o Fedora!Known(c.static)
           s0 == [main |-> c.main, devel |-> c.devel, fallback |-> c.fallback,
                  size |-> Len(main), policies |-> Fedora!Infos(sys, main \o c.extras),
                  status |-> "unknown", name |-> None, version |-> None]
           s == Fedora!Resolved(s0, "installed")
           g == Fedora!GuessMain(sys, s, s.policies[1].installed)
           r == Fedora!FindInstalled(sys, c)
<1>1. SeenToo(s0) /\ (s0.fallback # None => Len(s0.policies) >= 2) /\ s0.status = "unknown"
  BY FedoraAsked
<1>2. r = IF s.fallback # None THEN s
          ELSE IF s.main # None THEN Fedora!Stated(s, "installed")
          ELSE IF s.policies[1].installed = None THEN s
          ELSE Fedora!Stated(g, "installed")
  BY DEF Fedora!FindInstalled
<1>3. /\ SeenToo(s) /\ s.status = "unknown"
      /\ \/ s.fallback = None
         \/ s = s0 /\ Len(s.policies) >= 2 /\ s.policies[1].installed = None
            /\ s.policies[2].installed = None
  <2>1. CASE s0.fallback = None
    <3>1. s = s0
      BY <2>1 DEF Fedora!Resolved
    <3> QED
      BY <1>1, <2>1, <3>1
  <2>2. CASE s0.fallback # None
    <3> HIDE DEF s0
    <3> QED
      BY <1>1, <2>2, FedoraResolved
  <2> QED
    BY <2>1, <2>2
<1> HIDE DEF s0, s, r
<1>5. CASE s.fallback # None
  <2>1. r = s /\ Paired(s)
    BY <1>2, <1>3, <1>5 DEF Paired
  <2>2. ~Whole(s)
    BY <1>3, <1>5, FirstIsThere DEF SeenToo, Seen
  <2> QED
    BY <1>3, <2>1, <2>2 DEF r
<1>6. CASE s.fallback = None /\ s.main # None
  <2>1. r = Fedora!Stated(s, "installed")
    BY <1>2, <1>6
  <2> QED
    BY <1>3, <1>6, <2>1, FedoraStated DEF Paired, r
<1>7. CASE s.fallback = None /\ s.main = None /\ s.policies[1].installed = None
  <2>1. r = s /\ Paired(s)
    BY <1>2, <1>7 DEF Paired
  <2>2. ~Whole(s)
    BY <1>3, <1>7, FirstIsThere DEF SeenToo, Seen
  <2> QED
    BY <1>3, <2>1, <2>2 DEF r
<1>8. CASE s.fallback = None /\ s.main = None /\ s.policies[1].installed # None
  <2>1. r = Fedora!Stated(g, "installed")
    BY <1>2, <1>8
  <2>2. SeenToo(g) /\ g.fallback = None
    BY <1>3, <1>8, FedoraGuess
  <2> QED
    BY <2>1, <2>2, FedoraStated DEF Paired, r
<1> QED
  BY <1>5, <1>6, <1>7, <1>8

LEMMA FedoraRequery ==
  ASSUME NEW s, MoreFields \subseteq DOMAIN s, Accurate(s), Paired(s)
  PROVE  LET names == [i \in DOMAIN s.policies |-> s.policies[i].name]
             r == [s EXCEPT !.policies = Fedora!Infos(sys, names)]
         IN  SeenToo(r) /\ Paired(r) /\ (Whole(r) <=> Whole(s))
<1> DEFINE names == [i \in DOMAIN s.policies |-> s.policies[i].name]
           ps == Fedora!Infos(sys, names)
           r == [s EXCEPT !.policies = ps]
<1>1. /\ IsSeq(s.policies) /\ Len(s.policies) >= 1
      /\ Len(s.policies) \in Nat /\ DOMAIN s.policies = 1..Len(s.policies)
  BY SeqShape DEF Accurate, AccurateFor
<1>2. IsSeq(names) /\ Len(names) = Len(s.policies) /\ DOMAIN names = DOMAIN s.policies
  <2>1. names \in [1..Len(s.policies) -> ToSet(names)]
    BY <1>1 DEF ToSet
  <2> QED
    BY <1>1, <2>1, SeqMade
<1>3. ps = [i \in DOMAIN names |-> Policy(names[i])]
  BY FedoraPolicies
<1>4. DOMAIN r = DOMAIN s /\ r.policies = ps /\ r.fallback = s.fallback
  BY DEF MoreFields, Fields
<1> HIDE DEF ps, r
<1>5. /\ IsSeq(ps) /\ Len(ps) = Len(names)
      /\ \A x \in ToSet(ps) : /\ x.installed = sys.installed[x.name]
                              /\ x.candidate = Latest(x.name)
  <2> HIDE DEF names
  <2> QED
    BY <1>2, <1>3, PoliciesSeen
<1>6. SeenToo(r)
  BY <1>1, <1>2, <1>4, <1>5 DEF SeenToo, Seen, Accurate, AccurateFor, Current, MoreFields
<1>7. ASSUME NEW i \in DOMAIN s.policies
      PROVE  ps[i].installed = s.policies[i].installed
  <2>1. s.policies[i] \in ToSet(s.policies)
    BY DEF ToSet
  <2>2. s.policies[i].installed = sys.installed[names[i]]
    BY <2>1 DEF Accurate, AccurateFor
  <2>3. ps[i] = Policy(names[i])
    BY <1>2, <1>3
  <2> QED
    BY <2>2, <2>3 DEF Policy
<1>8. Whole(r) <=> Whole(s)
  <2>1. DOMAIN ps = DOMAIN s.policies
    BY <1>2, <1>3
  <2>2. Whole(r) <=> \A i \in DOMAIN ps : ps[i].installed # None
    BY <1>4 DEF Whole, ToSet
  <2>3. Whole(s) <=> \A i \in DOMAIN s.policies : s.policies[i].installed # None
    BY DEF Whole, ToSet
  <2> QED
    BY <1>7, <2>1, <2>2, <2>3
<1>9. Paired(r)
  <2> SUFFICES ASSUME s.fallback # None
               PROVE  /\ Len(ps) >= 2
                      /\ ps[1].installed = None /\ ps[2].installed = None
    BY <1>4 DEF Paired
  <2>1. /\ Len(s.policies) >= 2
        /\ s.policies[1].installed = None /\ s.policies[2].installed = None
    BY DEF Paired
  <2>2. 1 \in DOMAIN s.policies /\ 2 \in DOMAIN s.policies
    BY <1>1, <2>1
  <2>3. ps[1].installed = None /\ ps[2].installed = None
    BY <1>7, <2>1, <2>2
  <2>4. Len(ps) >= 2
    BY <1>2, <1>5, <2>1
  <2> QED
    BY <2>3, <2>4
<1> QED
  BY <1>6, <1>8, <1>9 DEF ps, r

LEMMA FedoraFindAvailable ==
  ASSUME NEW s0, MoreFields \subseteq DOMAIN s0, Accurate(s0), Paired(s0), ~Whole(s0),
         NEW requery \in BOOLEAN, requery \/ Current(s0)
  PROVE  LET r == Fedora!FindAvailable(sys, s0, requery)
         IN  Seen(r) /\ r.status # "installed"
<1> DEFINE names == [i \in DOMAIN s0.policies |-> s0.policies[i].name]
           s1 == IF requery THEN [s0 EXCEPT !.policies = Fedora!Infos(sys, names)] ELSE s0
           s == Fedora!Resolved(s1, "candidate")
           g == Fedora!GuessMain(sys, s, s.policies[1].candidate)
           u == [s EXCEPT !.status = "unavailable"]
           r == Fedora!FindAvailable(sys, s0, requery)
<1>1. r = IF s.fallback # None THEN u
          ELSE IF s.main # None THEN Fedora!Stated(s, "candidate")
          ELSE IF s.policies[1].candidate = None THEN u
          ELSE Fedora!Stated(g, "candidate")
  BY DEF Fedora!FindAvailable
<1>2. SeenToo(s1) /\ Paired(s1) /\ ~Whole(s1)
  BY FedoraRequery DEF SeenToo, Seen, MoreFields
<1> HIDE DEF s1
<1>3. SeenToo(s) /\ ~Whole(s)
  <2>1. CASE s1.fallback = None
    <3>1. s = s1
      BY <2>1 DEF Fedora!Resolved
    <3> QED
      BY <1>2, <3>1
  <2>2. CASE s1.fallback # None
    <3>1. /\ Len(s1.policies) >= 2
          /\ s1.policies[1].installed = None /\ s1.policies[2].installed = None
      BY <1>2, <2>2 DEF Paired
    <3>2. /\ SeenToo(s)
          /\ s.policies[1] \in {s1.policies[1], s1.policies[2]} \/ s = s1
      BY <1>2, <2>2, <3>1, FedoraResolved
    <3>3. CASE s = s1
      BY <1>2, <3>3
    <3>4. CASE s # s1
      <4>1. s.policies[1].installed = None
        BY <3>1, <3>2, <3>4
      <4> QED
        BY <3>2, <4>1, FirstIsThere DEF SeenToo, Seen
    <3> QED
      BY <3>3, <3>4
  <2> QED
    BY <2>1, <2>2
<1> HIDE DEF s
<1>4. SeenToo(g) /\ ~Whole(g)
  BY <1>3, FedoraGuess DEF Whole
<1>5. Seen(u) /\ u.status # "installed"
  <2>1. Fields \subseteq DOMAIN s
    BY <1>3 DEF SeenToo, Seen
  <2> QED
    BY <1>3, <2>1 DEF SeenToo, Seen, Accurate, AccurateFor, Current, Fields
<1>6. ASSUME NEW x, SeenToo(x), ~Whole(x)
      PROVE  LET t == Fedora!Stated(x, "candidate")
             IN  Seen(t) /\ t.status # "installed"
  <2>1. Whole(Fedora!Stated(x, "candidate")) <=> Whole(x)
    BY <1>6, FedoraStated DEF Whole
  <2> QED
    BY <1>6, <2>1, FedoraStated DEF SeenToo
<1>7. r \in {u, Fedora!Stated(s, "candidate"), Fedora!Stated(g, "candidate")}
  BY <1>1
<1> HIDE DEF r, g, u
<1>8. Seen(r) /\ r.status # "installed"
  BY <1>3, <1>4, <1>5, <1>6, <1>7
<1> QED
  BY <1>8 DEF r

---------------------------------------------------------------------------
(* Either of them. *)

\* A candidate of which some package is not installed.
Wanting(debian, installed, s) ==
    /\ Fields \subseteq DOMAIN s /\ AccurateFor(installed, s) /\ ~Whole(s)
    /\ ~debian => MoreFields \subseteq DOMAIN s /\ Paired(s)

LEMMA LookedAt ==
  ASSUME world \in Worlds, NEW n \in Names, NEW i \in DOMAIN Looked(n)
  PROVE  LET c == Looked(n)[i]
         IN  /\ AccurateFor(sys.installed, c) /\ CurrentFor(sys.installed, sys.index, c)
             /\ c.status = "installed" => Whole(c)
             /\ c.status # "installed" => Wanting(OnDebian, sys.installed, c)
<1> DEFINE c == Looked(n)[i]
<1>1. Looked(n) = [j \in DOMAIN Candidates(n) |-> FindInstalled(Candidates(n)[j])]
  BY DEF Looked
<1>2. c = FindInstalled(Candidates(n)[i]) /\ i \in DOMAIN Candidates(n)
  BY <1>1
<1>3. n \in ToSet(world.request)
  BY DEF Names
<1>4. ASSUME Seen(c)
      PROVE  AccurateFor(sys.installed, c) /\ CurrentFor(sys.installed, sys.index, c)
  BY <1>4 DEF Seen, Accurate, Current, CurrentFor, Latest
<1>5. CASE OnDebian
  <2>1. Candidates(n) \in Seq(Debian!Candidate)
    BY <1>3, <1>5, WorldsAssumption DEF OnDebian, Candidates, Package
  <2>2. Candidates(n)[i] \in Debian!Candidate
    BY <1>2, <2>1, LenProperties, ElementOfSeq
  <2>3. c = Debian!FindInstalled(sys, Candidates(n)[i])
    BY <1>2, <1>5 DEF FindInstalled
  <2>4. Seen(c) /\ (c.status = "installed" <=> Whole(c))
    BY <2>2, <2>3, DebianFindInstalled
  <2> QED
    BY <1>4, <1>5, <2>4 DEF Wanting, Seen
<1>6. CASE ~OnDebian
  <2>1. Candidates(n) \in Seq(Fedora!Candidate)
    BY <1>3, <1>6, WorldsAssumption DEF OnDebian, Candidates, Package
  <2>2. Candidates(n)[i] \in Fedora!Candidate
    BY <1>2, <2>1, LenProperties, ElementOfSeq
  <2>3. c = Fedora!FindInstalled(sys, Candidates(n)[i])
    BY <1>2, <1>6 DEF FindInstalled
  <2>4. SeenToo(c) /\ Paired(c) /\ (c.status = "installed" <=> Whole(c))
    BY <2>2, <2>3, FedoraFindInstalled
  <2> QED
    BY <1>4, <1>6, <2>4 DEF Wanting, SeenToo, Seen
<1> QED
  BY <1>5, <1>6

\* Looking for what is available changes nothing about that.
LEMMA AvailableFrom ==
  ASSUME NEW s, Wanting(OnDebian, sys.installed, s), NEW requery \in BOOLEAN,
         requery \/ CurrentFor(sys.installed, sys.index, s)
  PROVE  LET r == FindAvailable(s, requery)
         IN  /\ AccurateFor(sys.installed, r) /\ CurrentFor(sys.installed, sys.index, r)
             /\ r.status # "installed"
<1> DEFINE r == FindAvailable(s, requery)
<1>1. /\ Fields \subseteq DOMAIN s /\ Accurate(s) /\ ~Whole(s)
      /\ ~OnDebian => MoreFields \subseteq DOMAIN s /\ Paired(s)
  BY DEF Wanting, Accurate
<1>2. requery \/ Current(s)
  BY DEF Current, CurrentFor, Latest
<1>3. Seen(r) /\ r.status # "installed"
  <2>1. CASE OnDebian
    <3>1. r = Debian!FindAvailable(sys, s, requery)
      BY <2>1 DEF FindAvailable
    <3> QED
      BY <1>1, <1>2, <3>1, DebianFindAvailable
  <2>2. CASE ~OnDebian
    <3>1. r = Fedora!FindAvailable(sys, s, requery)
      BY <2>2 DEF FindAvailable
    <3> QED
      BY <1>1, <1>2, <2>2, <3>1, FedoraFindAvailable
  <2> QED
    BY <2>1, <2>2
<1> QED
  BY <1>3 DEF Seen, Accurate, Current, CurrentFor, Latest

---------------------------------------------------------------------------
(* What is asked of apt-get and dnf. *)

\* What was found to be installed is asked for at the version that is installed.
LEMMA InstalledWanted ==
  ASSUME NEW i \in DOMAIN Statuses, Statuses[i].status = "installed", Whole(Statuses[i]),
         NEW x \in ToSet(Statuses[i].policies)
  PROVE  [name |-> x.name, version |-> x.installed] \in Specs
<1> DEFINE y == [name |-> x.name, version |-> x.installed]
<1>1. PICK j \in DOMAIN Statuses[i].policies : x = Statuses[i].policies[j]
  BY DEF ToSet
<1>2. y.version # None
  BY DEF Whole
<1> DEFINE k == <<i, j>>
<1>3. k[1] = i /\ k[2] = j
  OBVIOUS
<1>4. CASE OnDebian
  <2>1. k \in Debian!Places(Statuses)
    BY DEF Debian!Places
  <2>2. Debian!At(Statuses, k) = y
    BY <1>1, <1>3 DEF Debian!At, Debian!Wanted
  <2>3. y \in Debian!AllWanted(Statuses)
    <3> HIDE DEF y, k
    <3> QED
      BY <1>2, <2>1, <2>2 DEF Debian!AllWanted
  <2> QED
    BY <1>4, <2>3 DEF Specs, Debian!ToInstall
<1>5. CASE ~OnDebian
  <2>1. k \in Fedora!Places(Statuses)
    BY DEF Fedora!Places
  <2>2. Fedora!At(Statuses, k) = y
    BY <1>1, <1>3 DEF Fedora!At, Fedora!Wanted
  <2>3. y \in Fedora!ToInstall(Statuses)
    <3> HIDE DEF y, k
    <3> QED
      BY <2>1, <2>2 DEF Fedora!ToInstall
  <2> QED
    BY <1>5, <2>3 DEF Specs
<1> QED
  BY <1>4, <1>5

\* So it is what is installed afterwards.
LEMMA InstalledGranted ==
  ASSUME NEW i \in DOMAIN Statuses, Statuses[i].status = "installed", Whole(Statuses[i]),
         NEW x \in ToSet(Statuses[i].policies), NEW f \in Installs(Specs)
  PROVE  f[x.name] = x.installed
<1> DEFINE y == [name |-> x.name, version |-> x.installed]
<1>1. y \in Specs /\ y.name = x.name /\ y.version = x.installed
  BY InstalledWanted
<1>2. x.installed # None
  BY DEF Whole
<1>3. \A z \in Specs : f[z.name] = IF z.version = None THEN Latest(z.name) ELSE z.version
  BY DEF Installs
<1> QED
  BY <1>1, <1>2, <1>3

\* What is known of a status of the cache while nobody else changes the host.
Kept(installed, index, s, before) ==
    IF s.status = "installed" THEN AccurateFor(installed, s) /\ Whole(s)
    ELSE before => CurrentFor(installed, index, s)

\* So that only two names that share a package may want it at two versions, and of
\* these one was found to be fully installed and the other one was not.
Shared(s, t) ==
    /\ s.status = "installed" /\ t.status # "installed"
    /\ \E i \in DOMAIN s.policies, j \in DOMAIN t.policies :
          s.policies[i].name = t.policies[j].name

LEMMA ClashShared ==
  ASSUME Clash, \A i \in DOMAIN Statuses : Kept(sys.installed, sys.index, Statuses[i], TRUE)
  PROVE  \E i, j \in DOMAIN Statuses : Shared(Statuses[i], Statuses[j])
<1> DEFINE Status(k) == Statuses[k[1]]
           Pol(k) == Statuses[k[1]].policies[k[2]]
           Place(k) == k[1] \in DOMAIN Statuses /\ k[2] \in DOMAIN Status(k).policies
<1>1. ASSUME NEW k, Place(k), Status(k).status = "installed"
      PROVE  Pol(k).installed = sys.installed[Pol(k).name]
  <2>1. AccurateFor(sys.installed, Status(k))
    BY <1>1 DEF Kept
  <2>2. Pol(k) \in ToSet(Status(k).policies)
    BY <1>1 DEF ToSet
  <2> QED
    BY <2>1, <2>2 DEF AccurateFor
<1>2. ASSUME NEW k, NEW l, Place(k), Place(l), Pol(k).name = Pol(l).name,
             Status(k).status = "installed", Status(l).status # "installed"
      PROVE  \E i, j \in DOMAIN Statuses : Shared(Statuses[i], Statuses[j])
  BY <1>2 DEF Shared
<1>3. CASE OnDebian
  <2>1. PICK k \in Debian!Places(Statuses), l \in Debian!Places(Statuses) :
           LET first == Debian!At(Statuses, k)
               again == Debian!At(Statuses, l)
           IN  /\ first.name = again.name
               /\ first.version # None /\ first.version # again.version
    BY <1>3, Zenon DEF Clash, Debian!Clash
  <2>2. Place(k) /\ Place(l)
    BY DEF Debian!Places
  <2>3. ASSUME NEW m
        PROVE  /\ Debian!At(Statuses, m).name = Pol(m).name
               /\ Debian!At(Statuses, m).version =
                     IF Status(m).status = "installed" THEN Pol(m).installed ELSE None
    BY DEF Debian!At, Debian!Wanted
  <2> HIDE DEF Status, Pol, Place
  <2>4. Pol(k).name = Pol(l).name
    BY <2>1, <2>3
  <2>5. Status(k).status = "installed"
    BY <2>1, <2>3
  <2>6. Status(l).status # "installed"
    <3> SUFFICES ASSUME Status(l).status = "installed" PROVE FALSE
      OBVIOUS
    <3>1. Pol(k).installed = Pol(l).installed
      BY <1>1, <2>2, <2>4, <2>5
    <3> QED
      BY <2>1, <2>3, <2>5, <3>1
  <2> QED
    BY <1>2, <2>2, <2>4, <2>5, <2>6
<1>4. CASE ~OnDebian
  <2>1. PICK k \in Fedora!Places(Statuses), l \in Fedora!Places(Statuses) :
           LET x == Fedora!At(Statuses, k)
               y == Fedora!At(Statuses, l)
           IN  x.name = y.name /\ x.version # y.version
    <3>1. PICK x \in Fedora!ToInstall(Statuses), y \in Fedora!ToInstall(Statuses) :
             x.name = y.name /\ x.version # y.version
      BY <1>4, Zenon DEF Clash, Fedora!Clash
    <3> QED
      BY <3>1 DEF Fedora!ToInstall
  <2>2. Place(k) /\ Place(l)
    BY DEF Fedora!Places
  <2>3. ASSUME NEW m
        PROVE  /\ Fedora!At(Statuses, m).name = Pol(m).name
               /\ Fedora!At(Statuses, m).version =
                     IF Status(m).status = "installed" THEN Pol(m).installed
                     ELSE Pol(m).candidate
    BY DEF Fedora!At, Fedora!Wanted
  <2>4. ASSUME NEW m, Place(m), Status(m).status # "installed"
        PROVE  Pol(m).candidate = IF sys.index[Pol(m).name] = None
                                  THEN sys.installed[Pol(m).name] ELSE sys.index[Pol(m).name]
    <3>1. CurrentFor(sys.installed, sys.index, Status(m))
      BY <2>4 DEF Kept
    <3>2. Pol(m) \in ToSet(Status(m).policies)
      BY <2>4 DEF ToSet
    <3> QED
      BY <3>1, <3>2 DEF CurrentFor
  <2> HIDE DEF Status, Pol, Place
  <2>5. Pol(k).name = Pol(l).name
    BY <2>1, <2>3
  <2>6. ~(Status(k).status = "installed" /\ Status(l).status = "installed")
    BY <1>1, <2>1, <2>2, <2>3, <2>5
  <2>7. ~(Status(k).status # "installed" /\ Status(l).status # "installed")
    BY <2>1, <2>2, <2>3, <2>4, <2>5
  <2> QED
    BY <1>2, <2>2, <2>5, <2>6, <2>7
<1> QED
  BY <1>3, <1>4

---------------------------------------------------------------------------
(* The invariant. *)

Looking == {"fetch", "choose", "rechoose"}
Finding == Looking \cup {"find"}
Later == {"install", "mark", "verify"}

\* What was asked for has a status or is still to be asked for; and all of it is
\* to be installed then.
Progress ==
    /\ world \in Worlds /\ outside \in Nat
    /\ {"installed", "index"} \subseteq DOMAIN sys
    /\ todo \in Seq(Names) /\ fetched \in BOOLEAN
    /\ phase \in Finding \cup Later
    /\ phase \in Looking => todo # <<>>
    /\ phase \in Finding => Names = DOMAIN cache \cup ToSet(todo)
    /\ phase \in Later => DOMAIN cache = Names /\ ToSet(todo) = Names

\* The index is updated before anything is found that is not installed, or never.
ToFetch == world.fetch /\ ~world.offline /\ ~fetched

Updated ==
    /\ phase = "fetch" => ToFetch
    /\ phase \in {"choose", "rechoose"} => ~ToFetch
    /\ ToFetch /\ phase \in Finding =>
          \A n \in DOMAIN cache : cache[n].state.status = "installed"

\* Candidates none of which is installed.
Found ==
    outside = 0 /\ phase \in Looking =>
        \A i \in DOMAIN found :
            /\ Wanting(OnDebian, sys.installed, found[i])
            /\ phase = "choose" => CurrentFor(sys.installed, sys.index, found[i])

Promised ==
    outside = 0 =>
        \A n \in DOMAIN cache :
            Kept(sys.installed, sys.index, cache[n].state, phase \in Finding \cup {"install"})

HostInv == Progress /\ Updated /\ Found /\ Promised

LEMMA RequestFinite ==
  ASSUME world \in Worlds
  PROVE  IsFiniteSet(Names) /\ world.request \in Seq(Names) /\ ToSet(world.request) = Names
<1>1. world.request \in Seq(DOMAIN world.packages)
  BY WorldsAssumption
<1>2. Len(world.request) \in Nat /\ DOMAIN world.request = 1..Len(world.request)
      /\ world.request \in [1..Len(world.request) -> DOMAIN world.packages]
  BY <1>1, LenProperties
<1>3. world.request \in Surjection(1..Len(world.request), Names)
  BY <1>2 DEF Surjection, Names, ToSet
<1>4. IsFiniteSet(1..Len(world.request))
  BY <1>2, FS_Interval
<1>5. IsFiniteSet(Names)
  BY <1>3, <1>4, FS_Surjection
<1>6. world.request \in Seq(Names)
  BY <1>2, <1>3 DEF Surjection
<1> QED
  BY <1>5, <1>6 DEF Names

LEMMA Ordered ==
  ASSUME world \in Worlds, NEW o \in SetToSeqs(Names)
  PROVE  o \in Seq(Names) /\ ToSet(o) = Names
<1> DEFINE D == 1..Cardinality(Names)
<1>1. IsFiniteSet(Names) /\ Cardinality(Names) \in Nat
  BY RequestFinite, FS_CardinalityType
<1>2. o \in [D -> Names] /\ \A i, j \in D : i # j => o[i] # o[j]
  BY DEF SetToSeqs
<1>3. o \in Injection(D, Names)
  BY <1>2 DEF Injection, IsInjective
<1>4. Cardinality(D) = Cardinality(Names)
  BY <1>1, FS_Interval
<1>5. o \in Surjection(D, Names)
  BY <1>1, <1>3, <1>4, FS_Injection
<1>6. o \in Seq(Names)
  BY <1>1, <1>2
<1>7. ToSet(o) = Names
  BY <1>2, <1>5 DEF Surjection, ToSet
<1> QED
  BY <1>6, <1>7

\* The next one to be asked for.
LEMMA NextName ==
  ASSUME Progress, todo # <<>>
  PROVE  /\ Name \in Names /\ Name \in ToSet(todo) /\ Tail(todo) \in Seq(Names)
         /\ ToSet(todo) = {Name} \cup ToSet(Tail(todo))
<1>1. todo \in Seq(Names) /\ IsSeq(todo)
  BY DEF Progress, IsSeq
<1>2. Len(todo) \in Nat /\ Len(todo) >= 1 /\ DOMAIN todo = 1..Len(todo)
  BY <1>1, SeqShape
<1>3. Name = todo[1]
  BY <1>1 DEF Name
<1>4. ToSet(todo) = {todo[1]} \cup ToSet(Tail(todo))
  BY <1>1, <1>2, SeqTail
<1>5. Tail(todo) \in Seq(Names) /\ Head(todo) \in Names
  BY <1>1, HeadTailProperties
<1> QED
  BY <1>3, <1>4, <1>5 DEF Name

LEMMA HostInit == Init => HostInv
<1> SUFFICES ASSUME Init PROVE HostInv
  OBVIOUS
<1>1. /\ world \in Worlds /\ sys = world.host /\ fetched = FALSE /\ todo = world.request
      /\ cache = Empty /\ phase = "find" /\ outside = 0
  BY DEF Init
<1>2. DOMAIN cache = {}
  BY <1>1 DEF Empty
<1>3. DOMAIN sys = {"installed", "index", "requires", "cached"}
  BY <1>1, WorldsAssumption
<1>4. Progress
  BY <1>1, <1>2, <1>3, RequestFinite DEF Progress, Finding, Looking, Later
<1>5. Updated /\ Promised
  BY <1>1, <1>2 DEF Updated, Promised
<1>6. Found
  BY <1>1 DEF Found, Looking
<1> QED
  BY <1>4, <1>5, <1>6 DEF HostInv

\* A status that is remembered.
LEMMA Remembered ==
  ASSUME HostInv, NEW s, Remember(s), UNCHANGED fetched, todo # <<>>, phase \in Finding,
         sys'.installed = sys.installed, sys'.index = sys.index, DOMAIN sys' = DOMAIN sys,
         outside = 0 => Kept(sys.installed, sys.index, s, TRUE),
         ToFetch => s.status = "installed"
  PROVE  HostInv'
<1>1. /\ DOMAIN cache' = DOMAIN cache \cup {Name}
      /\ cache'[Name].state = s
      /\ \A n \in DOMAIN cache : n # Name => cache'[n] = cache[n]
      /\ todo' = Tail(todo) /\ phase' = "find" /\ UNCHANGED <<world, outside>>
  BY DEF Remember
<1>2. Progress
  BY DEF HostInv
<1>3. /\ Name \in Names /\ Name \in ToSet(todo) /\ Tail(todo) \in Seq(Names)
      /\ ToSet(todo) = {Name} \cup ToSet(Tail(todo))
  BY <1>2, NextName
<1>4. Names' = Names
  BY <1>1 DEF Names
<1>5. Progress'
  <2>1. Names = DOMAIN cache' \cup ToSet(todo')
    BY <1>1, <1>2, <1>3 DEF Progress
  <2> QED
    BY <1>1, <1>2, <1>3, <1>4, <2>1 DEF Progress, Finding, Looking, Later
<1>6. Updated'
  <2>1. ToFetch' => ToFetch
    BY <1>1 DEF ToFetch
  <2>2. ToFetch => \A n \in DOMAIN cache : cache[n].state.status = "installed"
    BY DEF HostInv, Updated
  <2>3. ToFetch' => \A n \in DOMAIN cache' : cache'[n].state.status = "installed"
    BY <1>1, <2>1, <2>2
  <2> QED
    BY <1>1, <2>3 DEF Updated, ToFetch
<1>7. Found'
  BY <1>1 DEF Found, Looking
<1>8. Promised'
  <2> SUFFICES ASSUME outside = 0, NEW n \in DOMAIN cache'
               PROVE  Kept(sys.installed, sys.index, cache'[n].state, TRUE)
    BY <1>1 DEF Promised, Finding, Kept
  <2>1. \A m \in DOMAIN cache : Kept(sys.installed, sys.index, cache[m].state, TRUE)
    BY DEF HostInv, Promised, Kept
  <2> QED
    BY <1>1, <2>1
<1> QED
  BY <1>5, <1>6, <1>7, <1>8 DEF HostInv

\* When pkg-build ends nothing else changes, and so it is when others do.
LEMMA HostSame ==
  ASSUME HostInv, UNCHANGED <<world, sys, todo, found, fetched, cache, phase, outside>>
  PROVE  HostInv'
<1>1. Names' = Names /\ OnDebian' = OnDebian /\ ToFetch' = ToFetch
  BY DEF Names, OnDebian, ToFetch
<1>2. Progress'
  BY <1>1 DEF HostInv, Progress
<1>3. Updated'
  BY <1>1 DEF HostInv, Updated
<1>4. Found'
  BY <1>1 DEF HostInv, Found
<1>5. Promised'
  BY DEF HostInv, Promised
<1> QED
  BY <1>2, <1>3, <1>4, <1>5 DEF HostInv

LEMMA AgainKeeps ==
  ASSUME HostInv, Again
  PROVE  HostInv'
<1>1. /\ phase = "find" /\ todo # <<>> /\ Name \in DOMAIN cache /\ todo' = Tail(todo)
      /\ UNCHANGED <<world, sys, found, fetched, cache, phase, outside>>
  BY DEF Again
<1>2. Progress /\ Updated /\ Found /\ Promised
  BY DEF HostInv
<1>3. /\ Tail(todo) \in Seq(Names) /\ ToSet(todo) = {Name} \cup ToSet(Tail(todo))
  BY <1>1, <1>2, NextName
<1>4. Names' = Names /\ OnDebian' = OnDebian /\ ToFetch' = ToFetch
  BY <1>1 DEF Names, OnDebian, ToFetch
<1>5. Progress'
  <2>1. Names = DOMAIN cache' \cup ToSet(todo')
    BY <1>1, <1>2, <1>3 DEF Progress, Finding
  <2> QED
    BY <1>1, <1>2, <1>3, <1>4, <2>1 DEF Progress, Finding, Looking, Later
<1>6. Updated' /\ Found' /\ Promised'
  BY <1>1, <1>2, <1>4 DEF Updated, Found, Promised, Looking
<1> QED
  BY <1>5, <1>6 DEF HostInv

LEMMA FindKeeps ==
  ASSUME HostInv, Find
  PROVE  HostInv'
<1> DEFINE cs == Looked(Name)
           installed == Having(cs, "installed")
<1>1. /\ phase = "find" /\ todo # <<>>
      /\ \/ Fails
         \/ /\ sys' = [sys EXCEPT !.cached = TRUE] /\ UNCHANGED fetched
            /\ \/ installed # {} /\ Remember(Only(cs, installed))
               \/ /\ installed = {} /\ found' = cs
                  /\ phase' = IF ToFetch THEN "fetch" ELSE "choose"
                  /\ UNCHANGED <<world, todo, cache, outside>>
  BY DEF Find, Asking, ToFetch
<1>2. Progress /\ Updated /\ Found /\ Promised
  BY DEF HostInv
<1>3. world \in Worlds /\ Name \in Names
  BY <1>1, <1>2, NextName DEF Progress
<1>4. ASSUME NEW i \in DOMAIN cs
      PROVE  /\ AccurateFor(sys.installed, cs[i])
             /\ CurrentFor(sys.installed, sys.index, cs[i])
             /\ cs[i].status = "installed" => Whole(cs[i])
             /\ cs[i].status # "installed" => Wanting(OnDebian, sys.installed, cs[i])
  BY <1>3, LookedAt
<1> HIDE DEF cs
<1>5. CASE Fails
  BY <1>5, HostSame DEF Fails, Ends
<1> DEFINE Looks == sys' = [sys EXCEPT !.cached = TRUE]
<1>6. Looks => /\ sys'.installed = sys.installed /\ sys'.index = sys.index
               /\ DOMAIN sys' = DOMAIN sys
  BY <1>2 DEF Progress
<1>7. CASE Looks /\ UNCHANGED fetched /\ installed # {} /\ Remember(Only(cs, installed))
  <2>1. PICK i \in DOMAIN cs : Only(cs, installed) = cs[i] /\ cs[i].status = "installed"
    BY <1>7 DEF Only, Having
  <2>2. Kept(sys.installed, sys.index, cs[i], TRUE)
    BY <1>4, <2>1 DEF Kept
  <2> QED
    BY <1>1, <1>6, <1>7, <2>1, <2>2, Remembered DEF Finding
<1>8. CASE /\ Looks /\ UNCHANGED fetched /\ installed = {} /\ found' = cs
           /\ phase' = IF ToFetch THEN "fetch" ELSE "choose"
           /\ UNCHANGED <<world, todo, cache, outside>>
  <2>1. Names' = Names /\ OnDebian' = OnDebian /\ ToFetch' = ToFetch
    BY <1>8 DEF Names, OnDebian, ToFetch
  <2>2. Progress'
    BY <1>1, <1>2, <1>6, <1>8, <2>1 DEF Progress, Finding, Looking, Later
  <2>3. Updated'
    BY <1>1, <1>2, <1>8, <2>1 DEF Updated, Finding, Looking
  <2>4. Found'
    <3>1. \A i \in DOMAIN cs : cs[i].status # "installed"
      BY <1>8 DEF Having
    <3> QED
      BY <1>4, <1>6, <1>8, <2>1, <3>1 DEF Found
  <2>5. Promised'
    BY <1>1, <1>2, <1>6, <1>8 DEF Promised, Finding, Looking, Kept
  <2> QED
    BY <2>2, <2>3, <2>4, <2>5 DEF HostInv
<1> QED
  BY <1>1, <1>5, <1>7, <1>8

LEMMA FetchKeeps ==
  ASSUME HostInv, Fetch
  PROVE  HostInv'
<1>1. /\ phase = "fetch" /\ sys' = [sys EXCEPT !.index = world.later]
      /\ fetched' = TRUE /\ phase' = "rechoose"
      /\ UNCHANGED <<world, todo, found, cache, outside>>
  BY DEF Fetch
<1>2. Progress /\ Updated /\ Found /\ Promised
  BY DEF HostInv
<1>3. sys'.installed = sys.installed /\ DOMAIN sys' = DOMAIN sys
  BY <1>1, <1>2 DEF Progress
<1>4. Names' = Names /\ OnDebian' = OnDebian /\ ~ToFetch'
  BY <1>1 DEF Names, OnDebian, ToFetch
<1>5. Progress'
  BY <1>1, <1>2, <1>3, <1>4 DEF Progress, Finding, Looking, Later
<1>6. Updated'
  BY <1>1, <1>4 DEF Updated
<1>7. Found'
  BY <1>1, <1>2, <1>3, <1>4 DEF Found, Looking
<1>8. Promised'
  <2>1. \A n \in DOMAIN cache : cache[n].state.status = "installed"
    BY <1>1, <1>2 DEF Updated, Finding, Looking
  <2> QED
    BY <1>1, <1>2, <1>3, <2>1 DEF Promised, Kept
<1> QED
  BY <1>5, <1>6, <1>7, <1>8 DEF HostInv

\* Whatever is chosen is not installed, unless others were at work.
LEMMA ChooseKeeps ==
  ASSUME HostInv, Choose
  PROVE  HostInv' /\ (outcome' = "asserted" => outside > 0)
<1> DEFINE cs == [i \in DOMAIN found |-> FindAvailable(found[i], phase = "rechoose")]
           partially == Having(cs, "partially_installed")
           not == Having(cs, "not_installed")
<1>1. /\ Running /\ phase \in {"choose", "rechoose"}
      /\ \/ Having(cs, "installed") # {} /\ Ends("asserted") /\ UNCHANGED sys
         \/ Fails
         \/ /\ UNCHANGED <<sys, fetched>>
            /\ \/ Cardinality(partially) = 1 /\ Remember(Only(cs, partially))
               \/ Cardinality(not) = 1 /\ Remember(Only(cs, not))
  BY DEF Choose
<1>2. Progress /\ Updated /\ Found /\ Promised
  BY DEF HostInv
<1>3. ASSUME outside = 0, NEW i \in DOMAIN cs
      PROVE  /\ AccurateFor(sys.installed, cs[i])
             /\ CurrentFor(sys.installed, sys.index, cs[i])
             /\ cs[i].status # "installed"
  <2>1. /\ Wanting(OnDebian, sys.installed, found[i])
        /\ phase = "choose" => CurrentFor(sys.installed, sys.index, found[i])
    BY <1>1, <1>2, <1>3 DEF Found, Looking
  <2>2. (phase = "rechoose") \in BOOLEAN
    OBVIOUS
  <2>3. cs[i] = FindAvailable(found[i], phase = "rechoose")
    BY <1>3
  <2> QED
    BY <1>1, <2>1, <2>2, <2>3, AvailableFrom
<1> HIDE DEF cs
<1>4. todo # <<>> /\ phase \in Finding /\ ~ToFetch
  BY <1>1, <1>2 DEF Progress, Updated, Finding, Looking
<1>5. outside \in Nat
  BY <1>2 DEF Progress
<1>6. CASE Having(cs, "installed") # {} /\ Ends("asserted") /\ UNCHANGED sys
  <2>1. HostInv'
    BY <1>6, HostSame DEF Ends
  <2>2. outside # 0
    BY <1>3, <1>6 DEF Having
  <2> QED
    BY <1>5, <2>1, <2>2
<1>7. CASE Fails
  <2>1. HostInv' /\ outcome' = "failed"
    BY <1>7, HostSame DEF Fails, Ends
  <2> QED
    BY <2>1
<1>8. ASSUME UNCHANGED <<sys, fetched>>, NEW status \in {"partially_installed", "not_installed"},
             Cardinality(Having(cs, status)) = 1, Remember(Only(cs, Having(cs, status)))
      PROVE  HostInv' /\ outcome' # "asserted"
  <2>1. Having(cs, status) # {}
    BY <1>8, FS_EmptySet
  <2>2. PICK i \in DOMAIN cs : Only(cs, Having(cs, status)) = cs[i] /\ cs[i].status = status
    BY <2>1 DEF Only, Having
  <2>3. outside = 0 => Kept(sys.installed, sys.index, cs[i], TRUE)
    BY <1>3, <1>8, <2>2 DEF Kept
  <2>4. HostInv'
    BY <1>4, <1>8, <2>2, <2>3, Remembered
  <2> QED
    BY <1>1, <1>8, <2>4 DEF Remember, Running
<1> QED
  BY <1>1, <1>6, <1>7, <1>8

LEMMA OutsideKeeps ==
  ASSUME HostInv, Outside
  PROVE  HostInv'
<1>1. /\ outside' = outside + 1 /\ \E f : sys' = [sys EXCEPT !.installed = f]
      /\ UNCHANGED <<world, todo, found, fetched, cache, phase>>
  BY DEF Outside
<1>2. Progress /\ Updated
  BY DEF HostInv
<1>3. outside' \in Nat /\ outside' # 0
  BY <1>1, <1>2 DEF Progress
<1>4. DOMAIN sys' = DOMAIN sys
  BY <1>1
<1>5. Names' = Names /\ ToFetch' = ToFetch
  BY <1>1 DEF Names, ToFetch
<1>6. Progress' /\ Updated'
  BY <1>1, <1>2, <1>3, <1>4, <1>5 DEF Progress, Updated
<1> QED
  BY <1>3, <1>6 DEF HostInv, Found, Promised

LEMMA ExecuteKeeps ==
  ASSUME HostInv, Execute
  PROVE  HostInv'
<1>1. /\ phase = "find" /\ todo = <<>>
      /\ \/ Ends("done") /\ UNCHANGED sys
         \/ /\ phase' = "install" /\ todo' \in SetToSeqs(Names)
            /\ UNCHANGED <<world, sys, found, fetched, cache, outside>>
  BY DEF Execute
<1>2. Progress /\ Updated /\ Found /\ Promised
  BY DEF HostInv
<1>3. CASE Ends("done") /\ UNCHANGED sys
  BY <1>3, HostSame DEF Ends
<1>4. CASE /\ phase' = "install" /\ todo' \in SetToSeqs(Names)
           /\ UNCHANGED <<world, sys, found, fetched, cache, outside>>
  <2>1. Names' = Names /\ OnDebian' = OnDebian /\ ToFetch' = ToFetch
    BY <1>4 DEF Names, OnDebian, ToFetch
  <2>2. todo' \in Seq(Names) /\ ToSet(todo') = Names
    <3>1. world \in Worlds
      BY <1>2 DEF Progress
    <3>2. \A o \in SetToSeqs(Names) : o \in Seq(Names) /\ ToSet(o) = Names
      BY <3>1, Ordered
    <3> QED
      BY <1>4, <3>2
  <2>3. DOMAIN cache = Names
    <3>1. ToSet(todo) = {}
      BY <1>1 DEF ToSet
    <3> QED
      BY <1>1, <1>2, <3>1 DEF Progress, Finding
  <2>4. Progress'
    BY <1>2, <1>4, <2>1, <2>2, <2>3 DEF Progress, Finding, Looking, Later
  <2>5. Updated' /\ Found'
    BY <1>4 DEF Updated, Found, Finding, Looking
  <2>6. Promised'
    BY <1>1, <1>2, <1>4 DEF Promised, Finding, Looking, Kept
  <2> QED
    BY <2>4, <2>5, <2>6 DEF HostInv
<1> QED
  BY <1>1, <1>3, <1>4

\* apt-get and dnf leave what was found to be installed as it is.
LEMMA InstallKeeps ==
  ASSUME HostInv, Install
  PROVE  HostInv'
<1>1. /\ phase = "install" /\ phase' \in {"verify", "mark"}
      /\ \/ UNCHANGED sys
         \/ \E f \in Installs(Specs) : \E index :
               \/ sys' = [sys EXCEPT !.installed = f]
               \/ sys' = [sys EXCEPT !.installed = f, !.index = index]
      /\ UNCHANGED <<world, todo, found, fetched, cache, outside>>
  BY DEF Install, Installing, AptGetInstall, DnfInstall
<1>2. Progress /\ Updated /\ Found /\ Promised
  BY DEF HostInv
<1>3. Names' = Names
  BY <1>1 DEF Names
<1>4. /\ DOMAIN sys' = DOMAIN sys
      /\ sys'.installed = sys.installed \/ sys'.installed \in Installs(Specs)
  BY <1>1, <1>2 DEF Progress
<1>5. Progress'
  BY <1>1, <1>2, <1>3, <1>4 DEF Progress, Finding, Looking, Later
<1>6. Updated' /\ Found'
  BY <1>1 DEF Updated, Found, Finding, Looking
<1>7. Promised'
  <2> SUFFICES ASSUME outside = 0, NEW n \in DOMAIN cache, cache[n].state.status = "installed"
               PROVE  AccurateFor(sys'.installed, cache[n].state) /\ Whole(cache[n].state)
    BY <1>1 DEF Promised, Finding, Looking, Kept
  <2> DEFINE s == cache[n].state
  <2>1. AccurateFor(sys.installed, s) /\ Whole(s)
    BY <1>2 DEF Promised, Kept
  <2>2. PICK i \in DOMAIN todo : todo[i] = n
    <3>1. n \in ToSet(todo)
      BY <1>1, <1>2 DEF Progress, Later
    <3> QED
      BY <3>1 DEF ToSet
  <2>3. i \in DOMAIN Statuses /\ Statuses[i] = s
    BY <2>2 DEF Statuses
  <2>4. ASSUME NEW x \in ToSet(s.policies)
        PROVE  x.installed = sys'.installed[x.name]
    <3>1. CASE sys'.installed = sys.installed
      BY <2>1, <3>1 DEF AccurateFor
    <3>2. CASE sys'.installed \in Installs(Specs)
      <4>1. \A f \in Installs(Specs) : f[x.name] = x.installed
        BY <2>1, <2>3, InstalledGranted
      <4> QED
        BY <3>2, <4>1
    <3> QED
      BY <1>4, <3>1, <3>2
  <2> QED
    BY <2>1, <2>4 DEF AccurateFor
<1> QED
  BY <1>5, <1>6, <1>7 DEF HostInv

LEMMA DnfMarkKeeps ==
  ASSUME HostInv, DnfMark
  PROVE  HostInv'
<1>1. /\ phase = "mark"
      /\ \/ \E how : Ends(how) /\ UNCHANGED sys
         \/ /\ phase' = "verify"
            /\ UNCHANGED <<world, sys, todo, found, fetched, cache, outside>>
  BY DEF DnfMark, Fails
<1>2. Progress /\ Updated /\ Found /\ Promised
  BY DEF HostInv
<1>3. CASE \E how : Ends(how) /\ UNCHANGED sys
  BY <1>3, HostSame DEF Ends
<1>4. CASE /\ phase' = "verify"
           /\ UNCHANGED <<world, sys, todo, found, fetched, cache, outside>>
  <2>1. Names' = Names
    BY <1>4 DEF Names
  <2>2. Progress'
    BY <1>1, <1>2, <1>4, <2>1 DEF Progress, Finding, Looking, Later
  <2>3. Updated' /\ Found'
    BY <1>4 DEF Updated, Found, Finding, Looking
  <2>4. Promised'
    BY <1>1, <1>2, <1>4 DEF Promised, Finding, Looking, Kept
  <2> QED
    BY <2>2, <2>3, <2>4 DEF HostInv
<1> QED
  BY <1>1, <1>3, <1>4

LEMMA HostStep ==
  ASSUME HostInv, [Next]_vars
  PROVE  HostInv'
<1>1. ASSUME UNCHANGED vars
      PROVE  HostInv'
  BY <1>1, HostSame DEF vars
<1>2. ASSUME Refuse \/ FetchFail \/ InstallAsserted \/ InstallFail \/ Verify \/ Ended
      PROVE  HostInv'
  <2>1. CASE Ended
    BY <1>1, <2>1 DEF Ended
  <2>2. CASE Verify
    BY <2>2, HostSame DEF Verify, Fails, Ends
  <2>3. CASE Refuse \/ FetchFail \/ InstallAsserted \/ InstallFail
    BY <2>3, HostSame DEF Refuse, FetchFail, InstallAsserted, InstallFail, Fails, Ends
  <2> QED
    BY <1>2, <2>1, <2>2, <2>3
<1> QED
  BY <1>1, <1>2, AgainKeeps, FindKeeps, FetchKeeps, ChooseKeeps, OutsideKeeps, ExecuteKeeps,
     InstallKeeps, DnfMarkKeeps DEF Next

---------------------------------------------------------------------------
(* The theorems. *)

(* For all worlds: unless others are at work, what status() finds to be fully
   installed stays installed at the version it has, through the update of the index,
   the statuses of the other names and apt-get install or dnf install, whether it
   succeeds or not: install() names it with that version. *)
THEOREM NeverForced == Spec => []NotForced
<1>1. Init => HostInv
  BY HostInit
<1>2. HostInv /\ [Next]_vars => HostInv'
  BY HostStep
<1>3. HostInv => NotForced
  <2> SUFFICES ASSUME HostInv, outside = 0, NEW n \in DOMAIN cache,
                      cache[n].state.status = "installed",
                      NEW x \in ToSet(cache[n].state.policies)
               PROVE  There(x.name, x.installed)
    BY DEF NotForced
  <2>1. AccurateFor(sys.installed, cache[n].state)
    BY DEF HostInv, Promised, Kept
  <2> QED
    BY <2>1 DEF AccurateFor, There
<1> QED
  BY <1>1, <1>2, <1>3, PTL DEF Spec

(* For all worlds: what status() and install() assert, that nothing has become
   installed since it was looked at and that no package is wanted at two versions,
   holds unless others are at work or a name that is fully installed and one that is
   not share a package. *)
THEOREM AssertedOnlyWhenShared == Spec => []AssertedOnlyIfShared
<1> DEFINE Inv == HostInv /\ AssertedOnlyIfShared
<1>1. Init => Inv
  <2>1. Init => AssertedOnlyIfShared
    BY DEF Init, AssertedOnlyIfShared
  <2> QED
    BY <2>1, HostInit
<1>2. Inv /\ [Next]_vars => Inv'
  <2> SUFFICES ASSUME HostInv, AssertedOnlyIfShared, [Next]_vars
               PROVE  AssertedOnlyIfShared'
    BY HostStep
  <2>1. outside \in Nat
    BY DEF HostInv, Progress
  <2>2. CASE outcome' # "asserted"
    BY <2>2 DEF AssertedOnlyIfShared
  <2>3. CASE UNCHANGED vars
    BY <2>3 DEF vars, AssertedOnlyIfShared
  <2>4. CASE Choose
    <3>1. outside' = outside
      BY <2>4 DEF Choose, Ends, Fails, Remember
    <3>2. outcome' = "asserted" => outside > 0
      BY <2>4, ChooseKeeps
    <3> QED
      BY <3>1, <3>2 DEF AssertedOnlyIfShared
  <2>5. CASE InstallAsserted
    <3>1. Installing /\ Clash /\ UNCHANGED <<cache, outside>>
      BY <2>5 DEF InstallAsserted, Ends
    <3> SUFFICES ASSUME outside = 0
                 PROVE  \E m, n \in DOMAIN cache : Shared(cache[m].state, cache[n].state)
      BY <2>1, <3>1 DEF AssertedOnlyIfShared, Shared
    <3>2. \A i \in DOMAIN todo : todo[i] \in DOMAIN cache
      <4>1. ToSet(todo) = DOMAIN cache
        BY <3>1 DEF HostInv, Progress, Later, Installing
      <4> QED
        BY <4>1 DEF ToSet
    <3>3. \A i \in DOMAIN Statuses : Kept(sys.installed, sys.index, Statuses[i], TRUE)
      BY <3>1, <3>2 DEF HostInv, Promised, Statuses, Installing
    <3>4. PICK i, j \in DOMAIN Statuses : Shared(Statuses[i], Statuses[j])
      BY <3>1, <3>3, ClashShared
    <3> QED
      BY <3>2, <3>4 DEF Statuses
  <2>6. ASSUME Again \/ Refuse \/ Find \/ Fetch \/ FetchFail \/ Outside \/ Execute
                \/ Install \/ InstallFail \/ DnfMark \/ Verify
        PROVE  outcome' # "asserted"
    BY <2>6 DEF Again, Asking, Refuse, Find, Remember, Fetch, FetchFail, Outside, Execute, Install,
                Installing, InstallFail, DnfMark, Verify, Fails, Ends, Running
  <2> QED
    BY <2>2, <2>3, <2>4, <2>5, <2>6 DEF Next, Ended
<1>3. Inv => AssertedOnlyIfShared
  OBVIOUS
<1> QED
  BY <1>1, <1>2, <1>3, PTL DEF Spec
=============================================================================
