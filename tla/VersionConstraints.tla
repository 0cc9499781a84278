------------------------- MODULE VersionConstraints -------------------------
(***************************************************************************)
(* Versions of packages and the constraints on them.  The same question,   *)
(* whether a version is within a constraint, is answered in two places: by *)
(* the query that looks packages up in the database (query_available(),    *)
(* package-query.cxx, with the comparisons of package-common.hxx) and by   *)
(* satisfies() (satisfaction.cxx), which also tells whether a constraint   *)
(* is stricter than another.  They compare versions differently.           *)
(***************************************************************************)
EXTENDS Integers

CONSTANT
    Version     \* those considered; the epoch is part of the upstream version

Absent == -1   \* no revision
LastRevision == 65535  \* the largest one, uint16_t (~0)
Earliest == 0  \* the empty release, "1-"
Final == 9     \* the absent release, with pre-releases in between

ASSUME VersionAssumption ==
    Version \subseteq
        [upstream: Nat, release: Nat, revision: Absent..LastRevision, iteration: Nat]

\* The version of a package is never that of its earliest release.
PackageVersion == {v \in Version : v.release # Earliest}

Wildcard == [upstream |-> 0, release |-> Final, revision |-> Absent, iteration |-> 0]

\* A range, either end of which may be missing. The ends of a range of one
\* version are closed; of the earliest release there is no revision.
Constraint ==
    {c \in [from: {"any", "open", "closed"}, min: Version,
            to: {"any", "open", "closed"}, max: Version] :
        /\ {c.from, c.to} # {"any"}
        /\ c.from # "any" /\ c.to # "any" /\ c.min = c.max => {c.from, c.to} = {"closed"}
        /\ c.min.release = Earliest => c.min.revision = Absent
        /\ c.max.release = Earliest => c.max.revision = Absent}

EffectiveRevision(v) == IF v.revision = Absent THEN 0 ELSE v.revision

\* As stored in the database.
Canonical(v) == [v EXCEPT !.revision = EffectiveRevision(v)]
-----------------------------------------------------------------------------
\* The comparisons in queries: rev and iter tell what is taken into account.

SameRelease(x, y) == x.upstream = y.upstream /\ x.release = y.release
SameRevision(x, y) == SameRelease(x, y) /\ x.revision = y.revision

Eq(x, y, rev, iter) ==
    /\ SameRelease(x, y)
    /\ rev => x.revision = y.revision
    /\ rev /\ iter => x.iteration = y.iteration

Lt(x, y, rev, iter) ==
    \/ x.upstream < y.upstream
    \/ x.upstream = y.upstream /\ x.release < y.release
    \/ rev /\ SameRelease(x, y) /\ x.revision < y.revision
    \/ rev /\ iter /\ SameRevision(x, y) /\ x.iteration < y.iteration

Le(x, y, rev, iter) ==
    \/ x.upstream < y.upstream
    \/ x.upstream = y.upstream /\ x.release < y.release
    \/ ~rev /\ SameRelease(x, y)
    \/ rev /\ ~iter /\ SameRelease(x, y) /\ x.revision <= y.revision
    \/ rev /\ iter /\ SameRelease(x, y) /\ x.revision < y.revision
    \/ rev /\ iter /\ SameRevision(x, y) /\ x.iteration <= y.iteration

Gt(x, y, rev, iter) ==
    \/ x.upstream > y.upstream
    \/ x.upstream = y.upstream /\ x.release > y.release
    \/ rev /\ SameRelease(x, y) /\ x.revision > y.revision
    \/ rev /\ iter /\ SameRevision(x, y) /\ x.iteration > y.iteration

Ge(x, y, rev, iter) ==
    \/ x.upstream > y.upstream
    \/ x.upstream = y.upstream /\ x.release > y.release
    \/ ~rev /\ SameRelease(x, y)
    \/ rev /\ ~iter /\ SameRelease(x, y) /\ x.revision >= y.revision
    \/ rev /\ iter /\ SameRelease(x, y) /\ x.revision > y.revision
    \/ rev /\ iter /\ SameRevision(x, y) /\ x.iteration >= y.iteration

\* A stub is within every constraint, whatever its revision.
Stub(v) == Eq(Canonical(v), Canonical(Wildcard), FALSE, FALSE)

\* With a fault: a revision matters at both ends if it does at one.
Revisions(c, end, exact) == exact \/ c.min.revision # Absent \/ c.max.revision # Absent

\* Whether the revision of an end of the range matters.
WithRevision(c, end, exact) == exact \/ end.revision # Absent

InRange(v, c, exact) ==
    LET min == Canonical(c.min)
        max == Canonical(c.max)
        minRev == WithRevision(c, c.min, exact)
        maxRev == WithRevision(c, c.max, exact)
    IN  IF c.from # "any" /\ c.to # "any" /\ c.min = c.max THEN Eq(v, min, minRev, exact)
        ELSE /\ c.from = "open" => Gt(v, min, minRev, exact)
             /\ c.from = "closed" => Ge(v, min, minRev, exact)
             /\ c.to = "open" => Lt(v, max, maxRev, exact)
             /\ c.to = "closed" => Le(v, max, maxRev, exact)

\* What query_available() finds.
Queried(v, c, exact) == InRange(Canonical(v), c, exact) \/ Stub(v)
-----------------------------------------------------------------------------
\* version::compare (), ignoring the iteration: an absent revision is before
\* any.
Before(x, y, rev) ==
    \/ x.upstream < y.upstream
    \/ x.upstream = y.upstream /\ x.release < y.release
    \/ rev /\ SameRelease(x, y) /\ x.revision < y.revision

\* satisfies () of a version.
Satisfies(v, c) ==
    \/ v = Wildcard
    \/ LET ev == Canonical(v)
           minRev == c.min.revision # Absent
           maxRev == c.max.revision # Absent
       IN  /\ c.from = "open" => Before(c.min, ev, minRev)
           /\ c.from = "closed" => ~Before(ev, c.min, minRev)
           /\ c.to = "open" => Before(ev, c.max, maxRev)
           /\ c.to = "closed" => ~Before(c.max, ev, maxRev)

\* With a fault: the revision that is absent is that of the smallest version.
NormalizedLow(v, low) ==
    IF v.revision # Absent \/ v.release = Earliest THEN v ELSE [v EXCEPT !.revision = 0]

\* The end of a range with the revision that it stands for: the first one
\* (if low) or the last one.
Normalized(v, low) ==
    IF v.revision # Absent \/ v.release = Earliest THEN v
    ELSE [v EXCEPT !.revision = IF low THEN 0 ELSE LastRevision]

NormalizedMin(c) == Normalized(c.min, c.from = "closed")
NormalizedMax(c) == Normalized(c.max, c.to = "open")

\* The range l begins within r.
BeginsIn(l, r) ==
    CASE r.from = "any" -> TRUE
      [] r.from # "any" /\ l.from = "any" -> FALSE
      [] l.from = "closed" /\ r.from = "open" ->
            Before(NormalizedMin(r), NormalizedMin(l), TRUE)
      [] OTHER -> ~Before(NormalizedMin(l), NormalizedMin(r), TRUE)

\* It ends within r.
EndsIn(l, r) ==
    CASE r.to = "any" -> TRUE
      [] r.to # "any" /\ l.to = "any" -> FALSE
      [] l.to = "closed" /\ r.to = "open" ->
            Before(NormalizedMax(l), NormalizedMax(r), TRUE)
      [] OTHER -> ~Before(NormalizedMax(r), NormalizedMax(l), TRUE)

\* satisfies () of a constraint: l is at least as strict as r.
Stricter(l, r) == BeginsIn(l, r) /\ EndsIn(l, r)
-----------------------------------------------------------------------------
\* The query finds what satisfies() accepts, and stubs, so that what is found for
\* a constraint is not turned down later.
QueryAgrees(v, c) == Queried(v, c, FALSE) <=> Satisfies(v, c) \/ Stub(v)

\* Whatever is within a constraint that satisfies another is within the other,
\* too, which is what lets one dependent's constraint stand for another's.
StricterImplies(v, l, r) == Stricter(l, r) /\ Satisfies(v, l) => Satisfies(v, r)

\* The ways to compare versions agree, whichever ends of a range are open and
\* whichever revisions are there.
ConstraintsAgree ==
    \A c \in Constraint, v \in PackageVersion :
        /\ QueryAgrees(v, c)
        /\ \A r \in Constraint : StricterImplies(v, c, r)
=============================================================================
