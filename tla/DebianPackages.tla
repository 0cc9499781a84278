--------------------------- MODULE DebianPackages ---------------------------
(* The state of packages on Debian and alike: what pkg-build learns from
   apt-cache and asks of apt-get (system-package-manager-debian.cxx).

   A candidate is what a bpkg package may be: a main package, its -dev package,
   either of which may be unknown, and extras. "sys" is the host: what is
   installed and what the index offers. Versions are <<upstream, metadata,
   revision>>. Options for -doc and -dbg packages, and -common packages, which are
   ignored, are left out, and so is the text of commands and their output. *)
EXTENDS SystemPackageMapping

CONSTANTS
    Kind   \* of each name, by its suffix: "dev", "doc", "common", "plain"

(* One of its packages, if not both, is known. *)
Candidate ==
    {c \in [main : DOMAIN Kind \cup {None}, dev : DOMAIN Kind \cup {None},
            extras : Seq(DOMAIN Kind)] : c.main # None \/ c.dev # None}

(* A group of names, of a library in its first group or not. *)
DevFirst(g, lib) ==
    /\ lib /\ Kind[g[1]] = "dev"
    /\ ~(Len(g) > 1 /\ Kind[g[2]] = "dev")

OfKind(g, k) == SelectSeq(Tail(g), LAMBDA n : Kind[n] = k)
FirstOr(s) == IF s = <<>> THEN None ELSE s[1]
Known(n) == IF n = None THEN <<>> ELSE <<n>>

ParseGroup(g, lib) ==
    [main   |-> IF DevFirst(g, lib) THEN None ELSE g[1],
     dev    |-> IF DevFirst(g, lib) THEN g[1] ELSE FirstOr(OfKind(g, "dev")),
     extras |-> OfKind(g, "plain")]

(* The components of the other groups are extras of the first. *)
ParseNameValue(lib, groups) ==
    LET first == ParseGroup(groups[1], lib)
        Extras(g) == Known(ParseGroup(g, FALSE).main) \o Known(ParseGroup(g, FALSE).dev)
                     \o ParseGroup(g, FALSE).extras
    IN  [first EXCEPT !.extras =
            @ \o FlattenSeq([i \in DOMAIN Tail(groups) |-> Extras(groups[i + 1])])]

Same(s, x) ==
    IF s.main = None \/ x.main = None THEN s.dev = x.dev ELSE s.main = x.main

(* The mappings, without duplicates, or else the name of the package itself: that
   of the -dev package if it is a library. *)
Candidates(p) ==
    LET names == SystemPackageNames(p.available)
    IN  IF names = <<>>
        THEN IF p.lib
             THEN <<[main |-> None, dev |-> p.dev, extras |-> <<>>]>>
             ELSE <<[main |-> p.own, dev |-> None, extras |-> <<>>]>>
        ELSE FoldLeft(LAMBDA r, g :
                         LET s == ParseNameValue(p.lib, g)
                         IN  IF \E i \in DOMAIN r : Same(s, r[i]) THEN r
                             ELSE Append(r, s),
                      <<>>, names)

(* What apt-cache policy tells of a package. *)
AptCachePolicy(sys, n) ==
    [name |-> n, installed |-> sys.installed[n],
     candidate |-> IF sys.index[n] = None THEN sys.installed[n] ELSE sys.index[n]]

Policies(sys, ns) == [i \in DOMAIN ns |-> AptCachePolicy(sys, ns[i])]

(* What it depends on according to apt-cache show: [name, form, version], where
   the form tells how the name begins. *)
AptCacheShow(sys, n, v) == sys.requires[<<n, v>>]

(* The first one that has the stem of the -dev package and its very version. *)
MainFromDev(sys, dev, v) ==
    FirstOr(SelectSeq([i \in DOMAIN AptCacheShow(sys, dev, v) |->
                         LET d == AptCacheShow(sys, dev, v)[i]
                         IN  IF d.form # "other" /\ d.version = v THEN d.name ELSE None],
                      LAMBDA n : n # None))

(* Guess the main package of a library given the version of its -dev package. *)
GuessMain(sys, s, v) ==
    LET main == MainFromDev(sys, s.dev, v)
    IN  IF main = None THEN s
        ELSE [s EXCEPT !.main = main, !.size = @ + 1,
                       !.policies = <<AptCachePolicy(sys, main)>> \o @]

StatusOf(policies, size) ==
    LET Missing == {i \in DOMAIN policies : policies[i].installed = None}
    IN  IF \E i \in Missing : policies[i].candidate = None THEN "unavailable"
        ELSE IF Missing = {} THEN "installed"
        ELSE IF (1..size) \subseteq Missing THEN "not_installed"
        ELSE "partially_installed"

(* With the name and the version that stand for the package. *)
Stated(s, which) ==
    [s EXCEPT !.status = StatusOf(s.policies, s.size),
              !.name = s.policies[1].name, !.version = s.policies[1][which]]

(* What is asked about to begin with: the components that are known. *)
Asked(sys, c) ==
    LET main == Known(c.main) \o Known(c.dev)
    IN  [main |-> c.main, dev |-> c.dev, size |-> Len(main),
         policies |-> Policies(sys, main \o c.extras),
         status |-> "unknown", name |-> None, version |-> None]

(* With a fault: a library without a main package is not taken to be installed. *)
FindInstalledMain(sys, c) ==
    LET s == Asked(sys, c)
        v == s.policies[1].installed
        guessed == IF s.main # None \/ v = None THEN s ELSE GuessMain(sys, s, v)
    IN  IF guessed.main = None THEN s ELSE Stated(guessed, "installed")

(* First look for what is fully installed. A library whose -dev package is not
   installed is left for later. *)
FindInstalled(sys, c) ==
    LET s == Asked(sys, c)
        Installed(x) == Stated(x, "installed")
    IN  IF c.main # None THEN Installed(s)
        ELSE IF s.policies[1].installed = None THEN s
        ELSE Installed(GuessMain(sys, s, s.policies[1].installed))

(* Next look at what could be installed. *)
FindAvailable(sys, s0, requery) ==
    LET s == IF requery
             THEN [s0 EXCEPT !.policies = Policies(sys, [i \in DOMAIN @ |-> @[i].name])]
             ELSE s0
        Available(x) == Stated(x, "candidate")
    IN  IF s.main # None THEN Available(s)
        ELSE IF s.policies[1].candidate = None THEN [s EXCEPT !.status = "unavailable"]
        ELSE Available(GuessMain(sys, s, s.policies[1].candidate))

(* The revision is not part of the version; metadata may or may not be. *)
Version(p, sv) ==
    LET mapped == SelectSeq([k \in 1..sv[2] + 1 |->
                      IF p.available = <<>> THEN None
                      ELSE DownstreamPackageVersion(p.available, <<sv[1], sv[2] + 1 - k>>)],
                      LAMBDA v : v # None)
    IN  IF mapped # <<>> THEN mapped[1] ELSE sv[1]

(* With a fault: what is installed is upgraded along with the rest. *)
WantedLatest(s, x) == [name |-> x.name, version |-> None]

(* What is fully installed is to stay at its version, the rest is to be as new as
   possible. *)
Wanted(s, x) ==
    [name |-> x.name, version |-> IF s.status = "installed" THEN x.installed ELSE None]

Places(statuses) == UNION {{i} \X DOMAIN statuses[i].policies : i \in DOMAIN statuses}
At(statuses, k) == Wanted(statuses[k[1]], statuses[k[1]].policies[k[2]])
Before(k, l) == k[1] < l[1] \/ (k[1] = l[1] /\ k[2] < l[2])

(* What is wanted at a version is wanted again, at another one or as new as possible. *)
Clash(statuses) ==
    \E k, l \in Places(statuses) :
        LET first == At(statuses, k)
            again == At(statuses, l)
        IN  /\ Before(k, l) /\ first.name = again.name
            /\ first.version # None /\ first.version # again.version

(* The packages to install, each once: at the version that it is wanted at, if any. *)
AllWanted(statuses) ==
    LET all == {At(statuses, k) : k \in Places(statuses)}
    IN  {x \in all : x.version # None \/ \A y \in all : y.name = x.name => y.version = None}

(* With a fault: what is there need not be named. *)
ToInstallMissing(statuses) ==
    AllWanted(SelectSeq(statuses, LAMBDA s : s.status # "installed"))

ToInstall(statuses) == AllWanted(statuses)
=============================================================================
