--------------------------- MODULE FedoraPackages ---------------------------
(* The state of packages on Fedora and alike: what pkg-build learns from dnf and
   asks of it (system-package-manager-fedora.cxx).

   As DebianPackages, except that an unmapped package may go by another name, its
   "fallback"; that static libraries belong to the -devel package; that all
   is installed at versions that are given; and that what is installed is marked as
   the user's in a step of its own. Only packages of the host's architecture or
   of none are considered. *)
EXTENDS SystemPackageMapping

CONSTANTS
    Kind   \* of each name, by its suffix: "dev", "static", "doc", "common", "plain"

(* The fallback is for the only one that is known. *)
Candidate ==
    LET Maybe == DOMAIN Kind \cup {None}
    IN  {c \in [main : Maybe, devel : Maybe, static : Maybe, fallback : Maybe,
                extras : Seq(DOMAIN Kind)] :
           /\ c.main # None \/ c.devel # None
           /\ c.fallback # None => c.main = None \/ c.devel = None}

(* A group of names, of a library in its first group or not. *)
DevelFirst(g, lib) ==
    /\ lib /\ Kind[g[1]] = "dev"
    /\ ~(Len(g) > 1 /\ Kind[g[2]] = "dev")

OfKind(g, k) == SelectSeq(Tail(g), LAMBDA n : Kind[n] = k)
FirstOr(s) == IF s = <<>> THEN None ELSE s[1]
Known(n) == IF n = None THEN <<>> ELSE <<n>>

ParseGroup(g, lib) ==
    [main     |-> IF DevelFirst(g, lib) THEN None ELSE g[1],
     devel    |-> IF DevelFirst(g, lib) THEN g[1] ELSE FirstOr(OfKind(g, "dev")),
     static   |-> FirstOr(OfKind(g, "static")),
     fallback |-> None,
     extras   |-> OfKind(g, "plain")]

(* The components of the other groups are extras of the first. *)
ParseNameValue(lib, groups) ==
    LET Extras(g) == LET s == ParseGroup(g, FALSE)
                     IN  Known(s.main) \o Known(s.devel) \o Known(s.static) \o s.extras
    IN  [ParseGroup(groups[1], lib) EXCEPT !.extras =
            @ \o FlattenSeq([i \in DOMAIN Tail(groups) |-> Extras(groups[i + 1])])]

Same(s, x) ==
    IF s.main = None \/ x.main = None THEN s.devel = x.devel ELSE s.main = x.main

(* The mappings, without duplicates, or else the name of the package itself with
   another to fall back to: the project's or, without lib, the library's. *)
Candidates(p) ==
    LET names == SystemPackageNames(p.available)
        own == [main |-> p.own, devel |-> None, static |-> None,
                fallback |-> p.fallback, extras |-> <<>>]
    IN  IF names = <<>>
        THEN IF p.lib THEN <<[own EXCEPT !.main = None, !.devel = p.dev]>> ELSE <<own>>
        ELSE FoldLeft(LAMBDA r, g :
                         LET s == ParseNameValue(p.lib, g)
                         IN  IF \E i \in DOMAIN r : Same(s, r[i]) THEN r
                             ELSE Append(r, s),
                      <<>>, names)

(* What dnf list tells of a package. *)
DnfList(sys, n) ==
    [name |-> n, installed |-> sys.installed[n],
     candidate |-> IF sys.index[n] = None THEN sys.installed[n] ELSE sys.index[n]]

Infos(sys, ns) == [i \in DOMAIN ns |-> DnfList(sys, ns[i])]

(* What it depends on: [name, form, version], where the form tells whether the
   name is the stem of the -devel package, alone or with -libs. *)
DnfRepoqueryRequires(sys, n, v) == sys.requires[<<n, v>>]

MainFromDevel(sys, devel, v) ==
    LET Find(form) == SelectSeq(DnfRepoqueryRequires(sys, devel, v),
                                LAMBDA d : d.form = form /\ d.version = v)
    IN  FirstOr([i \in DOMAIN (Find("libs") \o Find("stem")) |->
                    (Find("libs") \o Find("stem"))[i].name])

(* Guess the main package of a library given the version of its -devel package. *)
GuessMain(sys, s, v) ==
    LET main == MainFromDevel(sys, s.devel, v)
    IN  IF main = None THEN s
        ELSE [s EXCEPT !.main = main, !.size = @ + 1,
                       !.policies = <<DnfList(sys, main)>> \o @]

StatusOf(infos, size) ==
    LET Missing == {i \in DOMAIN infos : infos[i].installed = None}
    IN  IF \E i \in Missing : infos[i].candidate = None THEN "unavailable"
        ELSE IF Missing = {} THEN "installed"
        ELSE IF (1..size) \subseteq Missing THEN "not_installed"
        ELSE "partially_installed"

(* With the name and the version that stand for the package. *)
Stated(s, which) ==
    [s EXCEPT !.status = StatusOf(s.policies, s.size),
              !.name = s.policies[1].name, !.version = s.policies[1][which]]

(* The fallback is asked about along with the name, and then one of them goes. *)
UseFallback(s) ==
    LET f == s.fallback
    IN  [(IF s.main = None THEN [s EXCEPT !.devel = f] ELSE [s EXCEPT !.main = f])
           EXCEPT !.fallback = None, !.policies = Tail(@), !.size = @ - 1]

DropFallback(s) ==
    [s EXCEPT !.fallback = None, !.policies = RemoveAt(@, 2), !.size = @ - 1]

Resolved(s, which) ==
    IF s.fallback = None THEN s
    ELSE IF s.policies[1][which] # None THEN DropFallback(s)
    ELSE IF s.policies[2][which] # None THEN UseFallback(s) ELSE s

(* First look for what is fully installed. *)
FindInstalled(sys, c) ==
    LET main == Known(c.main) \o Known(c.devel) \o Known(c.fallback) \o Known(c.static)
        s0 == [main |-> c.main, devel |-> c.devel, fallback |-> c.fallback,
               size |-> Len(main), policies |-> Infos(sys, main \o c.extras),
               status |-> "unknown", name |-> None, version |-> None]
        s == Resolved(s0, "installed")
        Installed(x) == Stated(x, "installed")
    IN  IF s.fallback # None THEN s
        ELSE IF s.main # None THEN Installed(s)
        ELSE IF s.policies[1].installed = None THEN s
        ELSE Installed(GuessMain(sys, s, s.policies[1].installed))

(* Next look at what could be installed. *)
FindAvailable(sys, s0, requery) ==
    LET s1 == IF requery
              THEN [s0 EXCEPT !.policies = Infos(sys, [i \in DOMAIN @ |-> @[i].name])]
              ELSE s0
        s == Resolved(s1, "candidate")
        Available(x) == Stated(x, "candidate")
    IN  IF s.fallback # None THEN [s EXCEPT !.status = "unavailable"]
        ELSE IF s.main # None THEN Available(s)
        ELSE IF s.policies[1].candidate = None THEN [s EXCEPT !.status = "unavailable"]
        ELSE Available(GuessMain(sys, s, s.policies[1].candidate))

(* The release is not part of the version. *)
Version(p, sv) ==
    LET mapped == IF p.available = <<>> THEN None
                  ELSE DownstreamPackageVersion(p.available, <<sv[1], sv[2]>>)
    IN  IF mapped # None THEN mapped ELSE sv[1]

(* What is fully installed is to stay at its version, the rest is to be at the one
   that was found. *)
Wanted(s, x) ==
    [name |-> x.name,
     version |-> IF s.status = "installed" THEN x.installed ELSE x.candidate]

Places(statuses) == UNION {{i} \X DOMAIN statuses[i].policies : i \in DOMAIN statuses}
At(statuses, k) == Wanted(statuses[k[1]], statuses[k[1]].policies[k[2]])

(* The packages to install, each once, *)
ToInstall(statuses) == {At(statuses, k) : k \in Places(statuses)}

(* ...unless one is wanted at two versions. *)
Clash(statuses) ==
    \E x, y \in ToInstall(statuses) : x.name = y.name /\ x.version # y.version
=============================================================================
