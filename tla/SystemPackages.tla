--------------------------- MODULE SystemPackages ---------------------------
(* System packages: pkg-build of ?sys: packages asks the distribution's package
   manager for each of them, which may have its index updated on the way, then
   has all of them installed at once and looks whether that did what it was told
   (add_system_package(), system_package_manager::status() and install()).

   The host belongs to its users and to other programs: packages are installed,
   upgraded and removed while pkg-build is running. apt-get and dnf are external:
   they do what is asked if the dependencies between packages allow it, with the
   fewest changes that do, or fail.

   A world has the distribution ("manager"), the options, the bpkg packages asked
   for in order ("request"), what is known of each, the state of the host and its
   index as it will be once it is updated ("later"). *)
EXTENDS SystemPackageMapping, FiniteSetsExt

CONSTANTS
    Kind,       \* of the names of the distribution's packages
    Worlds,     \* the worlds to explore
    Others,     \* bound: the packages others install, upgrade and remove meanwhile
    MaxOutside  \* bound: how often they do

Debian == INSTANCE DebianPackages
Fedora == INSTANCE FedoraPackages

(* What is asked for is known, if only by its name, and was mapped to packages. *)
ASSUME WorldsAssumption ==
    \A w \in Worlds :
        /\ w.request \in Seq(DOMAIN w.packages)
        /\ DOMAIN w.host = {"installed", "index", "requires", "cached"}
        /\ \A n \in ToSet(w.request) :
              IF w.manager = "debian"
              THEN Debian!Candidates(w.packages[n]) \in Seq(Debian!Candidate)
              ELSE Fedora!Candidates(w.packages[n]) \in Seq(Fedora!Candidate)

VARIABLES
    world,
    sys,       \* the host: "installed", "index", what versions require, "cached"
    manual,    \* the packages that are not to be removed automatically
    todo,      \* the names that are still to be asked for, later those to install
    found,     \* the candidates of the first of them
    fetched,   \* the index was updated
    cache,     \* status_cache_: what is known of names, with the version it means
    phase,     \* what pkg-build is doing
    outcome,
    outside    \* how often the host was changed by others

vars == <<world, sys, manual, todo, found, fetched, cache, phase, outcome,
          outside>>

OnDebian == world.manager = "debian"
Empty == [n \in {} |-> None]

Init ==
    /\ world \in Worlds
    /\ sys = world.host
    /\ manual = {} /\ found = <<>> /\ fetched = FALSE
    /\ todo = world.request /\ cache = Empty
    /\ phase = "find" /\ outcome = "running" /\ outside = 0

Running == outcome = "running"

Ends(how) ==
    /\ outcome' = how
    /\ UNCHANGED <<world, todo, cache, fetched, found, phase, outside>>

Fails == Ends("failed") /\ UNCHANGED <<sys, manual>>

---------------------------------------------------------------------------
(* status() *)

Name == Head(todo)
Package(n) == world.packages[n]

Candidates(n) ==
    IF OnDebian THEN Debian!Candidates(Package(n)) ELSE Fedora!Candidates(Package(n))

FindInstalled(c) ==
    IF OnDebian THEN Debian!FindInstalled(sys, c) ELSE Fedora!FindInstalled(sys, c)

FindAvailable(c, requery) ==
    IF OnDebian THEN Debian!FindAvailable(sys, c, requery)
    ELSE Fedora!FindAvailable(sys, c, requery)

Version(n, sv) ==
    IF OnDebian THEN Debian!Version(Package(n), sv) ELSE Fedora!Version(Package(n), sv)

(* Those that have a status, by their positions, and the only one of them. *)
Having(cs, status) == {i \in DOMAIN cs : cs[i].status = status}
Only(cs, is) == cs[CHOOSE i \in is : TRUE]

(* The candidates of a name, as they are found to be installed. *)
Looked(n) == [i \in DOMAIN Candidates(n) |-> FindInstalled(Candidates(n)[i])]

(* The status of a name is remembered and the next name asked for. *)
Remember(s) ==
    /\ cache' = [n \in DOMAIN cache \cup {Name} |->
                    IF n = Name THEN [state |-> s, version |-> Version(Name, s.version)]
                    ELSE cache[n]]
    /\ todo' = Tail(todo) /\ found' = <<>> /\ phase' = "find"
    /\ UNCHANGED <<world, manual, outcome, outside>>

(* The name was asked for before, in another configuration. *)
Again ==
    /\ Running /\ phase = "find" /\ todo # <<>> /\ Name \in DOMAIN cache
    /\ todo' = Tail(todo)
    /\ UNCHANGED <<world, sys, manual, found, fetched, cache, phase, outcome,
                   outside>>

(* dnf needs its metadata, which it does not fetch when offline. *)
Unanswerable == ~OnDebian /\ ~sys.cached /\ world.offline

(* There is nothing to go by unless a package is known to bpkg. *)
Unknown == Package(Name).available = <<>> /\ ~Package(Name).noStub

Asking == Running /\ phase = "find" /\ todo # <<>> /\ Name \notin DOMAIN cache

Refuse == Asking /\ (Unknown \/ Unanswerable) /\ Fails

(* Is it fully installed? *)
Find ==
    /\ Asking /\ ~Unknown /\ ~Unanswerable
    /\ LET cs == Looked(Name)
           installed == Having(cs, "installed")
       IN  IF Cardinality(installed) > 1 \/ (installed = {} /\ ~world.install) THEN Fails
           ELSE /\ sys' = [sys EXCEPT !.cached = TRUE]
                /\ UNCHANGED fetched
                /\ IF installed # {} THEN Remember(Only(cs, installed))
                   ELSE /\ found' = cs
                        /\ phase' = IF world.fetch /\ ~world.offline /\ ~fetched
                                    THEN "fetch" ELSE "choose"
                        /\ UNCHANGED <<world, manual, todo, cache, outcome, outside>>

(* Update the index. *)
Fetch ==
    /\ Running /\ phase = "fetch"
    /\ sys' = [sys EXCEPT !.index = world.later]
    /\ fetched' = TRUE /\ phase' = "rechoose"
    /\ UNCHANGED <<world, manual, todo, found, cache, outcome, outside>>

FetchFail == Running /\ phase = "fetch" /\ Fails

(* Of what can be installed prefer what is partially. *)
Choose ==
    /\ Running /\ phase \in {"choose", "rechoose"}
    /\ LET cs == [i \in DOMAIN found |-> FindAvailable(found[i], phase = "rechoose")]
           partially == Having(cs, "partially_installed")
           not == Having(cs, "not_installed")
       IN  IF Having(cs, "installed") # {} THEN Ends("asserted") /\ UNCHANGED <<sys, manual>>
           ELSE IF Cardinality(partially) = 1
                THEN Remember(Only(cs, partially)) /\ UNCHANGED <<sys, fetched>>
           ELSE IF partially = {} /\ Cardinality(not) = 1
                THEN Remember(Only(cs, not)) /\ UNCHANGED <<sys, fetched>>
           ELSE Fails

---------------------------------------------------------------------------
(* The host. *)

Packages == DOMAIN sys.installed
Requires(p, v) == IF <<p, v>> \in DOMAIN sys.requires THEN sys.requires[<<p, v>>] ELSE <<>>

(* What is installed has what it requires: some version, or a given one. *)
Consistent(installed) ==
    \A p \in Packages : installed[p] # None =>
        \A r \in ToSet(Requires(p, installed[p])) :
            IF r.version = None THEN installed[r.name] # None
            ELSE installed[r.name] = r.version

Latest(p) == IF sys.index[p] = None THEN sys.installed[p] ELSE sys.index[p]
With(ps) == [p \in Packages |-> IF p \in ps THEN Latest(p) ELSE sys.installed[p]]

(* What apt-get install or dnf install may come to, asked for some packages at some
   versions (the specs) and for others at their latest. *)
Installs(specs) ==
    LET Old == {p \in Packages : sys.installed[p] # Latest(p)}
        Granted(f) == \A x \in specs :
            /\ f[x.name] # None
            /\ f[x.name] = IF x.version = None THEN Latest(x.name) ELSE x.version
        ways == {f \in {With(ps) : ps \in SUBSET Old} : Consistent(f) /\ Granted(f)}
        Changes(f) == Cardinality({p \in Packages : f[p] # sys.installed[p]})
    IN  {f \in ways : \A g \in ways : Changes(f) <= Changes(g)}

(* Others install, upgrade or remove a package. *)
Removes(p) == {f \in {[sys.installed EXCEPT ![p] = None]} : Consistent(f)}

Outside ==
    /\ Running /\ outside < MaxOutside
    /\ \E p \in Others : \E f \in Installs({[name |-> p, version |-> None]}) \cup Removes(p) :
          f # sys.installed /\ sys' = [sys EXCEPT !.installed = f]
    /\ outside' = outside + 1
    /\ UNCHANGED <<world, manual, todo, found, fetched, cache, phase, outcome>>

---------------------------------------------------------------------------
(* install() *)

Names == ToSet(world.request)
Statuses == [i \in DOMAIN todo |-> cache[todo[i]].state]
AllInstalled == \A i \in DOMAIN Statuses : Statuses[i].status = "installed"

Specs == IF OnDebian THEN Debian!ToInstall(Statuses) ELSE Fedora!ToInstall(Statuses)
Named == {x.name : x \in Specs}
Clash == IF OnDebian THEN Debian!Clash(Statuses) ELSE Fedora!Clash(Statuses)

(* The plan is made, in whatever order, and agreed to by the user. *)
Execute ==
    /\ Running /\ phase = "find" /\ todo = <<>>
    /\ IF ~world.install THEN Ends("done") /\ UNCHANGED <<sys, manual>>
       ELSE /\ phase' = "install"
            /\ todo' \in SetToSeqs(Names)
            /\ UNCHANGED <<world, sys, manual, found, fetched, cache, outcome, outside>>

(* apt-get is always run, so as to mark what is installed as manually installed. *)
AptGetInstall ==
    /\ \E f \in Installs(Specs) : sys' = [sys EXCEPT !.installed = f]
    /\ manual' = manual \cup Named
    /\ phase' = "verify"

(* dnf install is run only if something is missing, marks what is new only, and may
   update its metadata. *)
DnfInstall ==
    /\ IF AllInstalled THEN UNCHANGED <<sys, manual>>
       ELSE /\ \E f \in Installs(Specs), index \in {sys.index, world.later} :
                  sys' = [sys EXCEPT !.installed = f, !.index = index]
            /\ manual' = manual \cup {p \in Named : sys.installed[p] = None}
    /\ phase' = "mark"

Installing == Running /\ phase = "install"
Offline == ~AllInstalled /\ world.offline

Install ==
    /\ Installing /\ ~Offline /\ ~Clash
    /\ IF OnDebian THEN AptGetInstall ELSE DnfInstall
    /\ UNCHANGED <<world, todo, found, fetched, cache, outcome, outside>>

InstallAsserted ==
    /\ Installing /\ ~Offline /\ Clash
    /\ Ends("asserted") /\ UNCHANGED <<sys, manual>>

(* Not offline, not possible, or for any other reason. *)
InstallFail == Installing /\ Fails

There(p, v) == sys.installed[p] = v

(* dnf mark: all that were named, at the versions named. *)
DnfMark ==
    /\ Running /\ phase = "mark"
    /\ IF \A x \in Specs : There(x.name, x.version)
       THEN /\ manual' = manual \cup Named
            /\ IF AllInstalled THEN Ends("done") /\ UNCHANGED sys
               ELSE /\ phase' = "verify"
                    /\ UNCHANGED <<world, sys, todo, found, fetched, cache, outcome,
                                   outside>>
       ELSE Fails

(* Look whether what was promised is what got installed. *)
Verify ==
    /\ Running /\ phase = "verify"
    /\ IF \A i \in DOMAIN Statuses : There(Statuses[i].name, Statuses[i].version)
       THEN Ends("done") /\ UNCHANGED <<sys, manual>>
       ELSE Fails

Ended == ~Running /\ UNCHANGED vars

Next == \/ Again \/ Refuse \/ Find \/ Fetch \/ FetchFail \/ Choose \/ Outside
        \/ Execute \/ Install \/ InstallAsserted \/ InstallFail \/ DnfMark \/ Verify
        \/ Ended

Spec == Init /\ [][Next]_vars

(* Properties. *)

Undisturbed == outcome = "done" /\ outside = 0

(* The main package of a library was guessed from its -dev package, which was
   installed already but for which installing what was missing would bring a version
   with another main package. *)
GuessOutdated(s) ==
    s.status = "partially_installed" /\
    \E i \in DOMAIN s.policies :
        LET Mains(v) == {r.name : r \in ToSet(Requires(s.policies[i].name, v))}
        IN  /\ s.policies[i].installed # None
            /\ Mains(s.policies[i].installed) # Mains(s.policies[i].candidate)

(* What was promised is what one would find now, were one to ask again: every name
   has become a fully installed package in the version that the user agreed to, none
   of which would be removed automatically. (Unless the main package was guessed
   from a version of the -dev package that is gone. What another name has brought in
   may be a second choice for this one.) *)
PromiseKept ==
    Undisturbed => \A n \in Names :
        LET s == cache[n].state
        IN  \/ GuessOutdated(s)
            \/ \E c \in {Looked(n)[i] : i \in Having(Looked(n), "installed")} :
                  /\ c.name = s.name /\ c.version = s.version
                  /\ world.install => \A x \in ToSet(c.policies) : x.name \in manual

(* A package that was found fully installed is never upgraded for being used,
   whatever else is installed for the sake of other names and however that ends. *)
NotForced ==
    outside = 0 => \A n \in DOMAIN cache :
        LET s == cache[n].state
        IN  s.status = "installed" =>
              \A x \in ToSet(s.policies) : There(x.name, x.installed)

(* That what is found not to be fully installed is so a moment later, and that a
   package is never wanted at two versions, is asserted. It is so unless others
   were at work or two names, one of them fully installed, have a package in
   common. *)
AssertedOnlyIfShared ==
    outcome = "asserted" =>
        \/ outside > 0
        \/ \E m, n \in DOMAIN cache :
             /\ cache[m].state.status = "installed"
             /\ cache[n].state.status # "installed"
             /\ \E i \in DOMAIN cache[m].state.policies, j \in DOMAIN cache[n].state.policies :
                   cache[m].state.policies[i].name = cache[n].state.policies[j].name

(* The version that the manifests say another one stands for: that of the closest
   version of the distribution, in the latest package that says so, and of what it
   is like only if it says nothing itself; it is what the constraints of dependents
   are checked against. On Debian the metadata is given up bit by bit. *)
Meant(aps, sv) ==
    LET At(x) == aps[x[1]][x[2]]
        Values(id, v) == {x \in UNION {{i} \X DOMAIN aps[i] : i \in DOMAIN aps} :
                             /\ At(x).kind = "downstream" /\ At(x).id = id
                             /\ At(x).version <= v /\ sv \in DOMAIN At(x).value}
        Before(x, y) == x[1] < y[1] \/ (x[1] = y[1] /\ x[2] < y[2])
        First(xs) == CHOOSE x \in xs : \A y \in xs \ {x} :
                        \/ At(x).version > At(y).version
                        \/ At(x).version = At(y).version /\ Before(x, y)
        own == Values("host", HostVersion)
        like == Values("like", 0)
    IN  IF own # {} THEN At(First(own)).value[sv]
        ELSE IF like # {} THEN At(First(like)).value[sv] ELSE None

VersionMeant ==
    \A n \in DOMAIN cache :
        LET sv == cache[n].state.version
            metadata == IF OnDebian THEN {k \in 0..sv[2] :
                                Meant(Package(n).available, <<sv[1], k>>) # None}
                        ELSE {sv[2]}
        IN  cache[n].version =
              IF \A k \in metadata : Meant(Package(n).available, <<sv[1], k>>) = None
              THEN sv[1]
              ELSE Meant(Package(n).available, <<sv[1], Max(metadata)>>)
=============================================================================
