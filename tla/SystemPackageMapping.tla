------------------------ MODULE SystemPackageMapping ------------------------
(* What the packages' manifests say about a distribution: which of its packages
   a bpkg package is, and which version a version of theirs is of it
   (system-package-manager.cxx).

   The available packages of a name are a sequence, latest version first, each the
   sequence of its distribution values: records [kind, id, version, native,
   value] for <id>_<version>-<kind>, where <id>_0, written out, is not native. A
   value of the kind "name" is a sequence of groups of names, one of the kind
   "downstream" a function from the versions its pattern matches. The id is the
   host's own or one the host's distribution is like. *)
EXTENDS Integers, SequencesExt

CONSTANTS
    HostVersion,  \* the version of the host's distribution
    None          \* no name, no version

(* The values of a package for a distribution, up to a version of it. *)
Applicable(ap, kind, id, v) ==
    SelectSeq(ap, LAMBDA x : x.kind = kind /\ x.id = id /\ x.version <= v
                             /\ (kind = "name" => x.native))

(* Those of the closest version of the distribution first. *)
Descending(values, v) ==
    FlattenSeq([k \in 1..v + 1 |->
                  SelectSeq(values, LAMBDA x : x.version = v + 1 - k)])

NameValues(aps, id, v) ==
    FoldLeft(LAMBDA r, x : IF x.value \in ToSet(r) THEN r ELSE Append(r, x.value),
             <<>>,
             FlattenSeq([i \in DOMAIN aps |->
                           Descending(Applicable(aps[i], "name", id, v), v)]))

(* Of the distribution itself or, failing that, of what it is like, of which no
   version can be told. *)
SystemPackageNames(aps) ==
    LET own == NameValues(aps, "host", HostVersion)
    IN  IF own # <<>> THEN own ELSE NameValues(aps, "like", 0)

(* With a fault: of two patterns the later one. *)
BetterOrLater(r, x) == r.v = None \/ r.version <= x.version

(* A value is better than the one found so far. *)
Better(r, x) == r.v = None \/ r.version < x.version

(* The values are tried in order; one of the very version ends the search. *)
DownstreamOf(aps, id, v, sv) ==
    FoldLeft(LAMBDA r, x :
                IF (r.v = None \/ r.version < v) /\ sv \in DOMAIN x.value /\ Better(r, x)
                THEN [v |-> x.value[sv], version |-> x.version] ELSE r,
             [v |-> None, version |-> 0],
             FlattenSeq([i \in DOMAIN aps |-> Applicable(aps[i], "downstream", id, v)])).v

DownstreamPackageVersion(aps, sv) ==
    LET own == DownstreamOf(aps, "host", HostVersion, sv)
    IN  IF own # None THEN own ELSE DownstreamOf(aps, "like", 0, sv)
=============================================================================
