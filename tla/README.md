# A verification model of bpkg

bpkg is the package dependency manager of the build2 toolchain. It keeps
*build configurations*: directories that each hold a database
(`.bpkg/bpkg.sqlite3`) of repositories, available packages and *selected
packages*, and the files of the packages that are fetched, unpacked and
configured there. Configurations can be linked, so that a package of one can be
the prerequisite of a package of another.

This directory holds TLA+ modules that model bpkg's own logic, the TLC
configurations that check them on small instances, and theorems about them
checked by the TLA+ proof system. `PROJECT.json` is the index: which module
models which source lines, what every run checks, the faults each property is
known to catch, the disagreements found, the hazards and the theorems.

    tlc -workers 2 -config lifecycle.cfg MCPkgLifecycle
    tlapm PkgLifecycleProofs.tla

## Inventory

| Component | State it keeps | Operations | What is hard | What makes it correct |
|---|---|---|---|---|
| Linked configurations (`database.cxx`, `cfg-link.cxx`, `cfg-unlink.cxx`) | a `configuration` object per link, at both ends | cfg-link, cfg-unlink (`--dangling`), walks in both directions | two databases per link, mutual and private links, directories that are renamed | links come in pairs; both walks see the same pairs of configurations |
| Prerequisites (`package.cxx`, `pkg-configure.cxx`) | (configuration, name) pairs of a configured package | resolve, query dependents | recorded once, while links change | a prerequisite stays configured and loadable |
| Package life cycle (`pkg-{fetch,unpack,configure,disfigure,purge}.cxx`) | `selected_package`, the archive, source and output directories, `.bpkg/tmp` | those five commands and their options | each file operation may fail, the process may be killed, files are changed before the commit | files and database agree; only bpkg's files are removed; nothing is forgotten |
| Database (`database.cxx`) | an exclusive lock per configuration | open, attach, migrate | several processes | one command at a time; rollback |
| Fetch cache (`fetch-cache.cxx`) | a database and files shared by all configurations of a user | open, load/save of packages, metadata, git state and shared sources, garbage collection | processes racing to create and lock the database, kills, a collector thread, use counts | nobody works on a broken cache; a directory in use is not collected |
| Repositories (`rep-add`, `rep-fetch`, `rep-remove`, `rep-mask`) | locations, repositories, fragments, complements, prerequisites, available packages | add, fetch, remove, mask | a cyclic graph, partial fetch, fragments that come and go | what is not reachable is removed, what is reachable is not |
| Available packages (`package-query.cxx`, `satisfaction.cxx`) | none of its own: a query over the graph | find by name, constraint and place; compare versions and constraints | cycles of complements, masked repositories, absent revisions that mean different things at the two ends of a range | what is found is the latest that suits and is visible; a constraint that satisfies another may stand for it |
| Authentication (`auth.cxx`) | certificates in the database and the cache | trust, cache, refresh | what was asked, what is remembered, expiry | an untrusted repository is never used |
| Dependency resolution (`pkg-build-collect.cxx`) | the build map, replaced versions, postponements, unsatisfied constraints | collect recursively, replace, cancel, collect dependents, order | restarts from scratch that remember only some of what was learnt | ends; the order can be executed; nothing is changed without a reason |
| Plan execution (`pkg-build.cxx`, `pkg-drop.cxx`) | the packages of the configuration | simulate, refine, then purge, disfigure, fetch, unpack, configure, one transaction each | failing halfway; what is unused is known only afterwards | nothing configured ever lacks a prerequisite; the request is met; nothing unused is left |
| Configuration negotiation (`pkg-build-collect.cxx`, `package-skeleton.cxx`, `package-configuration.cxx`) | clusters of dependents and dependencies, the variables they agree upon and who set them | postpone, add to or merge clusters, negotiate, roll back and retry | nested negotiations undone by exceptions; dependents overriding each other; dependents that turn out not to exist | ends, or reports a cycle; all accept what their dependencies are configured with; nothing is there because of what is not |
| System packages (`system-package-manager*.cxx`) | what was found out of each name, in this process | query, update the index, install, mark, verify | a host that changes meanwhile, packages that several names share, a main package that can only be guessed | what the user agreed to is what is installed, and nothing else is upgraded |

Components interact through the configuration's database (every command opens
it first and holds its lock to the end), through links (a command attaches the
databases of linked configurations), through the file system, and through the
fetch cache. There are no long-running processes: a command runs, commits and
exits. So the concurrency is between commands, between a command and the
collector thread of the fetch cache, and between a command and the user who
moves files about; and the failures are those of file operations, of child
processes (`b`, `tar`, `git`, `curl`) and of the command being killed.

## Plan

In the order of importance:

1. `ConfigLinks`, `LinkedPackages`, `LinkedPackagesProofs`: links and
   prerequisites. **Done.**
2. `PackageStates`, `PkgLifecycle`, `PkgLifecycleProofs`: one package with its files,
   refining the abstract life cycle. **Done.**
3. `FetchCacheOpen`, `FetchCacheOpenProofs`: the protocol for opening the fetch
   cache. **Done.** `SharedSources`, `SharedSourcesProofs`: its shared source
   directories against the garbage collector. **Done.** Then the rest of its
   contents: archives, metadata and its sessions, git state.
4. `RepositoryGraph`, `Repositories`, `RepositoryCommands`, `RepositoryCommandsProofs`:
   rep-add, rep-fetch, rep-remove and masking. **Done**; then authentication.
   `VersionConstraints`, `AvailablePackages`: what the search
   for packages finds in that graph. **Done** for one configuration.
5. `BuildPackages`, `CommandLineAdjustments`, `ConfiguredPackages`, `PackageCommands`,
   `PackageCommandsInvariant`, `CollectionProofs`, `PackageCommandsProofs`: pkg-build and pkg-drop, from the
   collection with its restarts to the execution of the plan. **Done** for one
   configuration and packages from source.
6. `ConfigurationClusters`, `ConfigurationNegotiation`, `PackageNegotiation`: the
   negotiation of configurations and the postponements it takes. **Done** for
   packages that are built anew.
7. `SystemPackageMapping`, `DebianPackages`, `FedoraPackages`, `SystemPackages`,
   `SystemPackagesProofs`: the packages that come from the distribution. **Done** for using them; producing them
   is not modelled.
8. The algorithm of `pkg_configure_prerequisites()`: which alternative.

Theorems still to be proved: which decisions keep a plan from being incomplete
(`Incomplete`), and with that from being refused at all; that a negotiation
that ends well is accepted by everyone (`Accepted`).

## Modules

### ConfigLinks

`link[c][d]` is the `configuration` object for `d` in the database of `c`:
`"none"`, `"implicit"` (a backlink) or `"explicit"`. `present` are the
configurations whose directory is where the links say; the user may rename one
away and back (`CfgMoveAway`, `CfgMoveBack`).

The traversals of `database.cxx` are depth-first searches that carry a type and
a build-time boundary. Each is modelled as reachability over the edges it is
allowed to take: `DependencyEdges` (explicit links; the links of the parent of a
private host configuration; same type or an allowed build-time type) and
`DependentEdges` (backlinks that do not dangle; out of the start's own
host/build2 type only; private host configurations). That the boundary
type does not depend on the path is a fact about `dependent_configs()`: it is
lost at the first configuration of another type, and none of the starting
type is entered after that. `Reachable` is the least closed set, which needs no
recursion. `CfgLink` and `CfgUnlinkDangling` are the commands.

Left out: link names and numeric ids, paths being relative or absolute, and the
consequences of copying or recreating a configuration under another uuid.

### LinkedPackages

Adds to every configuration its packages: `state[c][n]` and
`prerequisites[c][n]`, a set of (configuration, name) pairs. A command holds the
exclusive lock on the databases it touches from the start to the commit, so here
it is one step; what happens inside one is the subject of `PkgLifecycle`.
`PkgConfigure` resolves each dependency through the links (`Found`,
`Resolved`, `PrerequisitesOf`), `PkgDisfigure` and `CfgUnlink` look for
dependents backwards (`DependentConfigs`, `HasDependents`). Which of several
alternatives is chosen, and whether a version satisfies a constraint, is left
open: any satisfiable alternative may be taken.

Properties:

- `PrerequisitesConfigured`: a prerequisite of a configured package is
  configured, where it was recorded.
- `PrerequisitesLoadable`: the dependent's configuration still leads to it.
- `DependentsVisible`: the backward walk from the prerequisite reaches the
  dependent. This is what pkg-disfigure relies on.
- `BacklinksMatchLinks`: the two ends of links agree.

The first three exclude packages of configurations the user renames: a comment
in `_selected_package_ref::to_ptr()` says bpkg gives up on those.

### PackageStates, PkgLifecycle

`PackageStates` is the abstract specification: the states that pkg-status
reports and the changes between them that are ever committed.

`PkgLifecycle` is one package of one configuration with its files. `db` is the
committed object, `mem` the object a running command works on, `pc` and `cmd`
where the command is, `fs` what is found under every path, `conf` which
directories hold a build system configuration. A command is a `Start...`
action with the checks at its head, one action per file operation with a
failing twin, and a `Commit...`. `pkg_purge_fs()` is shared by three commands as it
is in the code. The temporary directory is emptied by `Start`, as `init_tmp()`
does. The armed `auto_rmfile`/`auto_rmdir` of the code are `cmd.armed`, the
exception guard of `pkg_fetch()` is `RestoreStash`/`BreakPurge`.

Two ghost variables make the properties sayable: `precious` are files of the
user that bpkg was not told to purge, `made` those bpkg created or was told to
purge. `disturbed` bounds what happens from outside to one kill or one
competing command in a behaviour.

Properties:

- `FilesInPlace`: between commands a fetched or unpacked package has its
  archive (if bpkg is to look after it), an unpacked or configured one its source.
- `UserFilesKept`: whatever fails or is killed, no precious file is removed.
- `NothingLeftBehind`: when a package is gone, so are all files made for it.
- `LifeCycle`: the committed states implement `PackageStates`.

Left out: the hash of the manifest, the iteration number of external packages,
hold flags, the contents of the fetch cache (an archive or source directory in
it is always available), simulation (`pkg-build`'s dry run, which touches no
files), and pkg-checkout.

### FetchCacheOpen

Several processes, each of which opens the fetch cache, adds an entry and closes
it. `main[d]` and `log[d]` are the database file and its write-ahead log in the
non-precious (`"np"`) and the semi-precious (`"sp"`) directory, as the number of
the last commit each holds; `user[d]` is SQLite's lock, `lock` the lock file.
`pc` follows `fetch_cache::open()` statement by statement: `Start` (is it in
sp?), `Lock`, `Retest` (is it now?), `Find`, the cleanups, `MoveLog`, `Move`, `Open`
(the file exists from here on), `LockDb` (the pragmas), `Schema`; a
timeout at either lock releases everything and starts anew (`Lock`, `DbBusy`).
The file locks go with the process that holds them, which is why `Kill` and
the failures release them. `Src` are the processes with `cache_src()`,
`Separate` says whether there are two directories at all.

Properties:

- `OneDatabase`: never a database in both directories.
- `NothingLost`: who uses the database sees every commit made before.
- `EntriesKept`: the cleanups never remove what has an entry.
- `FailsOnlyNew`: once the cache exists, no process fails to open it.
- `EveryoneEnds`: nobody waits forever, whoever is killed.

Left out: disabling the cache, the migration of an older schema, and what the
entries are.

### SharedSources

One shared source directory of the cache. `dir` is the directory, `file` and
`links` its `src-root.build` and the configurations whose own `src-root.build` is
a hard link to it; `entry` is the `shared_source_directory` object, reduced to
whether it was last accessed more than three months ago and the list of
untracked configurations. `out` are the configurations that have a
`src-root.build` at all. `state` and `pc` are the package in each configuration
and where its command is; pkg-unpack and pkg-configure hold `lock` from opening
the cache to closing it, pkg-disfigure does not take it, and the collector holds
it while it works (in the code it is the process that downloads something meanwhile,
which is why the collector may have to stop after any step, `GcCommit`).
`use` is the use count loaded before the build system runs, `pending` the entry in
the collector's transaction.

The build system is external: with the `hardlink` parameter it makes the
configuration's file a link to the directory's one, creating the latter if
need be, when the configuration is on the same file system, and otherwise leaves
the directory alone (this is what `fetch-cache-data.hxx` says about
`src_root_file`).

Properties:

- `InUseUntouched`: the collector removes nothing of a directory that a configured
  package uses.
- `NotLeaked`: the directory always has an entry.

Left out: several directories and versions (they do not meet), the cache being
moved or shared between users, and a user who deletes directories by hand.

### RepositoryGraph, Repositories, RepositoryCommands

`RepositoryGraph` is the data: a graph has the persistent repositories and
fragments, the fragments each repository `contains`, the `complements` and
`prerequisites` of each fragment (those of the root fragment are what the user
added) and the packages located in it; and the operators on it that the commands
are made of. `Reachable` is, as in the code, being required by some
fragment of a repository that is reachable itself, here as the least such set;
`Pruned` is the part of a graph that can be reached.

`Repositories` is the abstract specification, with the graph as its only variable:
a command is one step. `Fetch` says what a fetch is to leave, for any order it
visits repositories in: a set R of repositories that has all those named and is
closed under what is required, except that a shallow fetch need not follow
what a named repository requires if that has not changed; those in R are as
published, the others as before, and nothing else that can be reached is different.

`RepositoryCommands` is how the commands do it. `committed` is the database, `db`
what the running transaction has made of it, `states` the directories in
`.bpkg/repos` with the state of git repositories (without the fetch cache), which
no transaction protects; `cmd` is the running command. The recursion of
`rep_fetch()`, `rep_remove()` and `rep_remove_fragment()` is a stack of calls
(`calls`, `todo`); `fetched`, `removed`, `parsed`, `dangling` and `changed` are the
sets and the flag these functions pass around. The sets in the code are
ordered by pointer, therefore every order is taken (`SetToSeqs`). What a repository
is found to contain is any of `Offers[r]`, each time it is fetched. A failed
`FetchRepo` is `FetchFail`; a failure after the removals `CheckFail`; an object that is
gone when it is loaded `RemoveFail`; and the command may be killed at any point
(`Kill`). `lost` remembers the states missing since a kill or a late failure,
of which the code says "this in unlikely to happen, so we will not bother for now".

Properties:

- `GraphConsistent`: between commands the graph is just what can be reached from
  what the user added, and all of that.
- `AsOncePublished`: every fetched repository has the requirements and packages of
  each of its fragments, as they were published at some time, whoever fetched them.
- `StateKept`: every fetched git repository has its state.
- `SearchExact`: the package found for a name, a constraint and a fragment to start from is
  the latest one that suits in what the repositories declare to be visible from there; and
  masking leaves what could be reached without those masked, and finds what would be
  found if they had been removed.
- `StricterSuits`: what is available for a constraint suits every dependent with a
  constraint that the former satisfies.
- `EveryCommandEnds`: the recursions end.
- `Atomic`: the commands implement `Repositories`.

`SharedAcyclic` says that no repository that shares a fragment with another can be reached
from what this fragment requires. The theorems need it; it is not an assumption of the model,
but `MCRepositoryCommands` has TLC check that its repositories are so.

Left out: the locations of repositories and changing them, the fetch cache's own
state, certificates and trust, iterations of external packages, the special test
dependencies that rep-fetch records (what it makes sure of about them, `TestsDisagree`, is
modelled), masking in several configurations.

### VersionConstraints, AvailablePackages

`VersionConstraints` has versions as records of upstream version, release, revision (which may
be absent) and iteration, and constraints as ranges with an open, a closed or no end.
`Queried` is the condition that `query_available()` gives to the database, built from the
comparisons of `package-common.hxx` (`Eq`, `Lt`, `Le`, `Gt`, `Ge`), which compare canonical
versions and take the revision into account only where the constraint has one; `Satisfies`
is `satisfies()` of a version and `Stricter` that of a constraint, which normalize
an absent revision to the first or the last one. `ConstraintsAgree` says that these answers fit
together. `AvailablePackages` is the search of `package-query.cxx` on a repository graph:
`FoundFrom` looks from a fragment in its complements and prerequisites and on through
complements, with the chain of fragments it came through, `Find` is this recursion for
every search (a chain, a fragment, and whether prerequisites matter), `FilterOne` takes the latest;
`Declared` is what is visible by definition. `TestsDisagree` and `ExternalsClash` are what
rep-fetch makes sure of in the end.

Left out: looking in several configurations, imaginary stubs, packages of archives and
directories named on the command line, toolchain constraints.

### ConfiguredPackages, BuildPackages, CommandLineAdjustments, PackageCommands

`ConfiguredPackages` is the abstract specification: packages are configured
against prerequisites that are configured at allowed versions, a package is taken
apart only while none depends on it.

`BuildPackages` is what the collection computes with: `bm` is `build_packages::map_`
as a function from names to `build_package` records, `CollectBuild` and `PreferNew` are the choice
of `collect_build()` between the version at hand and the one there, `Roots`, `DependentsToVisit` and
`CollectDependent` are who has to be reconfigured, `Ordered` is what a package has to be before in the
plan and `Insert` where it is put. The fields `replaced` and `unsat` of a collection are
`replaced_versions` and `unsatisfied_dependents`.

`CommandLineAdjustments` is what is done about a dependent that is not satisfied. `line` is the
command line as adjusted (`hold_pkgs`, `dep_pkgs`, the stack `cmdline_adjs` with its
former states and the `cmdline_*` flags); `Consider` is what `try_replace_dependency()` makes of one
version, `ToReplace` the dependents `try_replace_dependent()` tries, in their order;
`Push` and `Pop` put an adjustment into the line and take it out.

`PackageCommands` are the commands. Every recursive function of the code is a stack of `tasks`:
`collect_build_prerequisites()` ("prerequisites", "depend"), `collect_dependents()`
("visit", "dependent", and in `search` the packages visited), `order()`
("order", "reorder", and "insert" for a package that is being ordered, in the place of the
`chain` of the code), `try_replace_dependency()` and `try_replace_dependent()` ("replace", "consider",
"others", "dependents"), the pass of `filter_prerequisites()` ("filter"). So each step is
one call, or one turn of a loop, and the proofs need no induction over what a recursion
returns. A `replace_version` or `cancel_replacement` exception is `Iterate`, with what is
kept across iterations (`replaced`, `former`) and what is not. `ToOrder` is what
the plan is ordered from; `Refine` executes the plan on a copy (`Simulated`), evaluates the
dependencies (`Evaluate`, `deps`), and when one of them is to be dropped
or to have another version starts again from `initial`. When that is over, an unsatisfied dependent
(`Adjust`, `StartSearch` and the tasks of the search) means another adjustment, or one less, or another
mode of searching (`GiveUp`), and collecting from
the very beginning; once everyone is satisfied each adjustment is left out for a try
(`DropAdjustment`, `KeepAdjustment`). `judged` remembers which sets of adjustments have
satisfied everyone. Then every
package is visited in the order of the stage (`todo`), each visit a transaction. In the stage
that fetches, a dropped package is purged (`PurgeDropped`), another one is fetched
(`FetchPackage`) from the best of the repositories that have it (`Preference`, which depends on
the fetch cache; `world.sources`) and unpacked, in the same transaction or in one of
its own (`Unpack`). Of these transactions
any may fail or be the one at which the program is killed, and the next command
starts from what is there. A plan that a precondition of pkg-disfigure or
pkg-configure refuses ends with the outcome "refused", an assertion that does not hold with
"asserted".

Properties:

- `NeverRefused`: what was planned can be executed in the order planned, unless a dependency that was
  decided to be dropped is needed again (`commands_undecided`, below).
- `RequestMet`: after a command that succeeds every package asked for has a
  version asked for, whatever adjustments were made, and so has a dependency that something is
  expected of, if it is used; what is held stays held, and what was taken
  apart is whole again.
- `UnusedDropped`: then no package that is neither held nor used is left.
- `DowngradedForAReason`: no package is downgraded unless by an adjustment, or because a
  dependent it then has does not allow the version it had.
- `AdjustmentsNeeded`: the plan is not executed with an adjustment that the others could
  do without, as far as adjustments are left out one at a time. The second disjunct is there for what
  the code does where the last adjustment is the one that is redundant: it is then taken out with the index
  of the refinement at the last position, which by now is the size of the stack, so that the test of
  `pkg-build.cxx:7833` takes this for the end of the refinement. The plan is executed
  without trying again which of the others could be left out now, while elsewhere in the
  stack a redundant adjustment has the refinement start over.
- `NeverAsserted`: the assertions about the map, the order and the adjustments hold, among them the one
  on the dependents of a package being replaced whose failure the user is asked to report. So
  is the failure of the one that fails in `commands_undecided`.
- `Terminates`: no command needs more than `MaxIterations` iterations.
- `ConfigurationKept`: the committed states implement `ConfiguredPackages`.

Left out: several configurations, system packages, alternatives (a depends value
has one), patching and deorphaning, and `expect` (a dependency
named with `?`) for packages that are held. The comment on the adjustments (`pkg-build.cxx:5909`)
says they are collected until the collection succeeds or no combination is left; a
collection that fails otherwise, for want of any version of a dependency, ends the command
with the combinations after it untried. Two things the code does are not
claimed otherwise: an upgrade that was made for a dependent which
then goes away is not taken back (`replaced_versions::cancel_redundant()`
looks at downgrades only), and a command that is interrupted leaves dependents it
only meant to reconfigure unpacked.

### ConfigurationClusters, ConfigurationNegotiation, PackageNegotiation

`ConfigurationClusters` has the `postponed_configuration` objects: a cluster is a
record of `dependents` (with the positions of their clauses), `dependencies`,
whether it is `negotiated`, its `depth` and its shadow. `Add` is
`postponed_configurations::add()`: the dependent goes into the cluster whose shadow has it
(`AddByShadow`), or into the first one that has one of the dependencies, which takes the
others in (`AddByDependencies`, `Join`), or into a new one;
a cluster that was negotiated and is merged away leaves its id in the other.

`ConfigurationNegotiation` is the negotiation of one dependent with its
dependencies. A clause prefers or requires values of variables, and accepts some;
what a buildfile would compute is a record of the values it sets and those it
accepts. A configuration maps the variables of a package to a value, who set it and
whether it is confirmed; a value that is already set is taken over (`Adopted`). `Negotiate`
evaluates the clause (`Evaluate`, `Accepts`), notes
what changed and recognises a cycle by the history of the changes, as
`negotiate_configuration()` does.

`PackageNegotiation` is the collection around it. `col` is what a snapshot
saves; `tasks` is the recursion of `collect_build_prerequisites()`; `levels` are
the nested calls of `collect_build_postponed()`, each with its snapshot. A dependent with a
clause waits for its cluster (`AwaitNegotiation`), has it merged with others first
(`MergeNegotiated`) or negotiates it further (`UpNegotiate`).
`Retry`, `MergeConfiguration` and `Raise` are the exceptions,
which drop levels up to the one they are for. `tried` and `unacceptable` survive all
roll-backs, as do the accumulated `postponed_cfgs` and `postponed_deps` entries the
code puts back. After all is collected bogus postponed dependencies (`CancelBogus`)
and bogus values (`RemoveBogus`) (those only dependents have set that are no longer there) make
it start over.

Properties, of every ending that is a success:

- `Accepted`: every dependent accepts what its dependencies were collected with.
- `AsNegotiated`: a dependency was collected with the configuration its cluster
  has in the end.
- `Settled`: negotiating once more with any dependent changes nothing.
- `NoBogusValue`: every value that is not the user's is that of a dependent that is
  being built.
- `ExactlyNeeded`: what is collected is exactly what the request needs, with the
  alternatives chosen.
- `NeverAsserted`: no assertion of the code fails.
- `FinitelyManySteps`: the collection ends; with the deadlock check, in an outcome.

`Accepted`, `Settled`, `AsNegotiated` and `NeverAsserted` are not claimed once two
negotiated clusters were merged (`Bridged`). The values of the one merged away are
dropped then (`postponed_configuration::merge()`, `pkg-build-collect.cxx:1261`), and as the dependencies collected
with them are not collected again, the build may end with one that lacks what a dependent requires; and the handlers of
`retry_configuration` and `merge_configuration` find their cluster again by an index taken before
clusters in front of it may have gone, so that they take the wrong one or one
past the end (the outcome "asserted").

Left out: packages that are configured already and are
re-evaluated, waiting for a repository or for an alternative (every
alternative here is a reused one), versions and their replacement, reflect
clauses, system packages, and the check of the result against the user's own
values (`verify_sensible()`).

### SystemPackageMapping, DebianPackages, FedoraPackages, SystemPackages

What pkg-build does with packages that come from the distribution (`?sys:`).
`SystemPackageMapping` is what manifests say: which of the distribution's packages a
name is (`system_package_names()`) and which version a version of theirs means
(`downstream_package_version()`). `DebianPackages` and `FedoraPackages` are the pure part of
the two package managers: the candidates for a name, with their main and -dev packages and
extras; what `apt-cache` or `dnf` tell of them; how an unknown main package is guessed
from what the -dev package depends on; what is fully, partially and not installed; and which packages
at which versions are asked for in the end.

`SystemPackages` is the process: each name is looked up (`Find`), the index updated once, and
only when something is missing (`Fetch`), and a candidate chosen (`Choose`); then all are installed in
one go (`Install`), marked (`DnfMark`) and looked at again (`Verify`). `cache` is
`status_cache_`, `todo` the names that remain, later those to install in the order of the plan. The
host, `sys`, changes under the program: `apt-get` and `dnf` install what they are told with the fewest
changes that the dependencies between packages allow (`Installs`), and others do the same (`Outside`).
What they are told are packages with versions, each once (`Specs`): `install()` merges the packages of
all names, and asserts that none of them is wanted at two versions (`Clash`).

Properties:

- `PromiseKept`: in the end each name is fully installed as the package and version that was
  promised, and would not be removed automatically. It is not claimed where the main package was guessed
  from an installed -dev package that is then replaced by one with another main package
  (`GuessOutdated`): the version promised is that of the old one.
- `NotForced`: what was fully installed is not upgraded, however the installation ends.
- `AssertedOnlyIfShared`: the code asserts that what was found missing still is after the index was
  updated, and that a package is not wanted at two versions. Both hold unless others were at work, or a
  fully installed name and one that is not have a package in common.
- `VersionMeant`: the version of a system package is the one its manifests mean, by a
  definition that is not the search of the code.

When a name may be one of several packages and another name has the second of them installed,
asking again finds two: the same command then refuses what it has done. This is why
`PromiseKept` says that the promised one is among those found.

Left out: packages for documentation and debugging (off in the code), the text of commands and of
their output, architectures, the user's confirmation, and making packages of one's own (`generate()`).

## Runs

| Run | Instance | Result |
|---|---|---|
| `links` | a target configuration with a private host configuration, a build2 configuration, a second target configuration linked either way and renamed | passes |
| `links_chain` | two target configurations and the host they share, links removed in the middle of a chain | `PrerequisitesLoadable` violated |
| `lifecycle` | two versions; a directory in the configuration under the very name version 2 would be extracted into | passes |
| `cache_open` | three processes, two sharing sources; no cache, or one in either directory; two kills | passes |
| `sources_collect` | two configurations on the cache's file system, one off it that is renamed; one kill | passes |
| `sources_race` | the same, others work while one configures | `InUseUntouched` violated |
| `repos` | a pkg repository, two directories and two git repositories that share their state and a commit; requirements that change and form a cycle, packages that clash; up to two arguments | passes |
| `commands` | four packages of two or three versions in fourteen worlds of dependencies; two commands of nineteen; one failure or kill | passes |
| `commands_undecided` | one world and two commands, the second of which has one decision make another one wrong | `NeverAsserted` violated |
| `negotiation` | some 3000 builds: up to four dependents, three dependencies, two variables | passes |
| `negotiation_twice` | the one build of a dependent with two require clauses on one dependency | `Terminates` violated |
| `system` | some 12000 hosts, Debian or Fedora, with one or two system packages asked for; one change by others | passes |

The bounds, and why they are enough. Four configurations in `links`, three in
`links_chain`: the smallest set with a private configuration whose
parent has a link of its own, beside a target configuration that is renamed (`Movable`); and the
shortest chain with a middle. Three packages with a build-time, a runtime and a
build system module dependency: every kind of boundary the traversals have. Two
versions in the life cycle: the one replaced and the one replacing it, which may
be the same. `Home`, `Linkable`, `Unlinkable`, `Movable`, `SystemHome`,
`UserDirs` and `Reselect` limit what users do; the passing runs leave out the
steps that the violation runs show to go wrong, and only those: links are
removed at the ends of chains, no package depends on another across a
configuration that is renamed, and the directory in use is not selected again.
No source directory is in the place of an output directory either: an external
package in `<configuration>/<name>` has its output directory for its source
directory, which pkg-disfigure removes (`pkg-disfigure.cxx:189`).

Three processes opening the cache are one that creates or moves it, one that
finds it meanwhile, and one that comes when the first two may be dead; each opens
it once, so that commits are counted no further than six. Kills are bounded to
two (`MaxKills`), and excluded where the log has been moved and the database has
not (`NotHalfMoved`): a process that does not share sources and comes next really
does lose the commits in that log.

A package that selects again, with `--replace`, the directory it already owns
loses it (`Reselect`; no run shows this), so `FilesInPlace` is claimed without it.

Three configurations and one directory: two that share its link count, which is
what makes the count ambiguous, and one that can only be listed. `Overlap` is
whether any command starts while a package is being configured; `sources_race` shows
what happens when it does, the passing run and the theorem are about the other case.
One kill, of a command or of the collector, is enough to leave every
intermediate state behind.

Five repositories: the pkg repository `a` requires nothing at first and
later `g` and `b`, `g` gets a second commit which requires `a` (a cycle, when
both have changed), and its first commit is also in `h`, so that a fragment has to
stay when one of the two goes. `p` is in several fragments, so that it has to stay
when one of its locations goes. `h` can move to a commit that requires nothing and
so complements the root. The directories `b` and `e` have no state; `e` later has a package
of the name and version of one in `b`, up to what is compared, and `p` and `q` disagree
on whether the test package `t` is needed at build time. Three repositories are added at most
(`MaxAdded`): those that share a commit and one that is required by both. `MaxArgs` bounds
the arguments to two, the fewest that can
depend on each other; without arguments all are named. The constraints looked for (`Wanted`) are
those of the two ranges in which an absent revision is the low and the high end.
`ShallowAll` leaves out `rep-fetch --shallow` without arguments, which does go wrong: the packages of all
repositories are erased because all will be fetched, and those of complements and
prerequisites whose requirements have not changed are then not. No shared commit requires
a repository that has it, however indirectly (`SharedAcyclic`; the rest of such a cycle would
stay).

Four packages: a dependent with two dependencies of which one depends on the other
(`Triangles`, with every choice of allowed versions), a chain of replacements in which a
later one makes an earlier one redundant (`Yoyo`), one that brings in what forbids it
(`Returns`), and a cycle (`Loop`); and three repositories for the adjustments: one where the first of
two turns out to be redundant (`Superfluous`), one where nothing but a downgrade helps
(`Downgrade`), and one where two packages of a project need different versions
(`Project`). `MaxCommands` is two: one that leaves something behind
and one that finds it; `MaxFaults` is one of them failing. `MaxIterations` is far above
what any of them takes, and `Terminates` says so.

The builds of `negotiation` are the smallest families in which each branch of the
code is taken: clusters refined by a second dependent (`Refining`), alternatives
chosen and found unacceptable (`Choosing`), variables the user has set
(`Decided`), clusters merged by a later dependent (`Joining`), and a bogus
postponement that is cancelled (`Cancelled`).

The hosts of `system` have a library in two versions, of which the second may come with another
main package, a tool, and another library whose -dev package names no main package that
can be guessed. They differ in what is installed, in what the index offers now and
once it is updated, in how the manifests map the two names, to each other's packages too, and in the
options. `MaxOutside` is one change by others, of the packages in `Others`.

The runs of configurations, packages, repositories and shared sources check for deadlock: the user can always
start another command. So do those of the negotiation, where an ended one stutters, and
any other state without a successor is a place where the program is stuck. The run of
`FetchCacheOpen` does not, since its processes end.

The violations are disagreements between the code and what it says of itself;
`PROJECT.json` quotes the line each contradicts. In `commands_undecided`, a 1, which is configured, depends on d, and
a 2 does not; b keeps c 1, and c 2 depends on a 1. Asked for a latest a and for c 2, pkg-build
collects a 2 and finds out in the simulated execution that c is to be brought to 2 and d, which is unused
now, to be dropped. But c 2 wants a 1: the collection starts from scratch with a 1 in place of
a 2, and keeps both decisions. Since a is as it is configured, its prerequisites are not collected, and nothing
takes back the drop of d. That a decision has changed would be noticed after the next simulated execution, but
before it the plan is ordered, and `order()` asserts that no prerequisite of a is dropped. Where a
is not in the map at all it is `pkg_disfigure()` that refuses, in the simulation, to take d apart: the outcome
"refused". The worlds of `commands` have no decision that becomes wrong in this way, and `NeverRefused` and
`NeverAsserted` are claimed of such only. In `negotiation_twice`, `negotiate_configuration()` unsets all values of the dependent before it
evaluates one of its clauses, those of its other clauses too: the two clauses drop each
other's value, each time that is a change, and each change is a retry. The same happens
when another dependent takes part that has an alternative left.

## Fairness

Two runs assume any. In `cache_open` every process that is not killed takes its next
step eventually (`WF_vars(Step(p))`). open() is a loop that never gives up; it
sleeps 100 milliseconds and tries again, so weak fairness of the process as a
whole is what the code and the operating system's scheduler provide. Nothing is
assumed about who gets a lock: since every process opens the cache once, a
process can be overtaken only so often. Starting is not required
(`EveryoneEnds` is about processes that have started). In `repos` a running command
goes on (`WF_vars(Proceed)`): it is a sequential program that waits for nobody,
as downloads end or fail. Starting, failing and being killed are not required.

In `negotiation` no fairness is needed: `FinitelyManySteps` says that there is no
infinite sequence of steps at all. `negotiation_twice` assumes that the program goes on
(`WF_vars(Next)`), so that its counterexample is a real loop.

The other properties are safety properties: a command ends by itself and waits for
nothing.

## Proofs

`LinkedPackagesProofs` proves for every topology of configurations, every set of
packages and all dependencies: `TypeCorrect`, `BacklinksPaired` and
`OnlyConfiguredDependent`. The inductive invariant adds to the properties that
the links to a private configuration come and go together with it.

It also proves `DependentsProtected` and
`DependentsStayVisible`, of behaviours in which no configuration is renamed and no private one
removed (`NothingMoves`) and no step leaves a recorded
prerequisite without a path by which it is found (`PathsKept`). The last is a hypothesis on steps, stated as an action
in front of the conclusion: cfg-unlink does take such paths away, which is the finding
of `links_chain`. The heart is a fact about the two traversals, for any tables of links that
agree: where a walk along explicit links has found a configuration, the walk along backlinks
from there finds the one it started in. The inductive invariant `HeldInv` records that every
prerequisite is configured and found the way it was when it was recorded.
`LinkedForGood` is the special case without hypotheses on steps: no configuration is ever
unlinked or renamed.

`PrerequisitesStayLoadable` says when configurations may be unlinked, and says nothing of prerequisites in its hypothesis:
what is unlinked links nothing itself (`EndsUnlinked`), so that links are taken
apart from the end of a chain, and of the links that may be made none is between a configuration of type host and
one of type build2 (`KindsApart`). It concludes all three properties.
cfg-unlink refuses to unlink a configuration while packages of its own have dependents that it can be found
from without that link; at an end of a chain these are the only ones the link was for (`OtherPathsKept`, `UnlinkKeepsPaths`).
`KindsApart` is needed for the first half: cfg-unlink asks whether the prerequisite's configuration can still be
reached for dependencies of any kind (`cfg-unlink.cxx:121`), and finds it through a host configuration
that is linked with a build2 one, but a dependent in a target configuration looks for a module in one walk of
its own kind, which does not go there; nor does the walk back from the
prerequisite (`dependent_configs()`), so pkg-disfigure would not see that dependent. Without such links a walk for all kinds finds what a walk
for one of them does (`OneKindSuffices`), by an induction over two walks at once.

`PkgLifecycleProofs` proves for all versions and directories: `TypeCorrect` and
`FollowsLifeCycle`, the refinement. The invariant needed is `Running`: what a
command in progress knows about the object it loaded (the state it checked at its
head still holds of `db`, and `mem` has the fields the state promises), since
`Commit...` is allowed to write only because of checks made steps before.

Of the files it proves, for all versions and directories, `UserFilesAlwaysKept`,
`FilesAlwaysInPlace` and `NothingEverLeftBehind`. For the first (`UInv`), precious files are
archives and directories of the user only, and in their places; neither the committed object nor
the one at work is to purge a precious file; an armed cleanup never names one; and the
archive about to be downloaded or the directory about to be extracted is the configuration's own or the cache's.
The second (`PInv`) follows what a running command has already removed, the third
(`MadeInv`, `Knows`, `AllAccounted`) that every file bpkg made is known to the committed object, to the
one at work or to an armed cleanup. Two hypotheses: `Reselect = FALSE`, since a package that selects the directory
it already owns loses it; and `ExternalOut \notin UserDirs`, that no directory given to bpkg is
in the place where the output directory of an external package goes, since
pkg-disfigure would remove it. `lifecycle` runs under both.

`FetchCacheOpenProofs` proves for any number of processes and both layouts:
`TypeCorrect` and `SingleDatabase` whoever is killed wherever, and `NoCommitLost`
unless one is killed between the two moves. The first invariant, `PlaceInv`, is that
whoever is looking for the database, or uses it in np, holds the lock file
(`LockHeld`), and that what it found out about the directories is therefore still true
(`Found`). Hence nobody uses a database while it is moved (`MovedUnused`), which is
what the second one, `DataInv`, needs: an owner has seen all commits (`Owners`),
and they are in the database and its log together, or in the one of the two
that has been moved further (`Whole`).

Where there are two directories (`Separate`), it proves `NoEntryCleanedUp` and
`OnlyNewFails` too, the latter again without kills between the two moves (`"move" \notin Killable`). What
has an entry has a database, and it is in sp if the entry is one of a source
directory (`EntriesHeld`), so that nobody who creates or moves a database cleans up what it
has; and who opens a database has seen it or creates it under the lock, before anything was ever
committed (`OpensInv`). With one directory there is no lock file
(`fetch-cache.cxx:477`), and `NoEntryCleanedUp` is false: two processes find no database, the
first creates it and adds an entry, and the second, which has not got as far as opening it, cleans
up the directories meanwhile. `cache_open` is about two directories.

`SharedSourcesProofs` proves for any number of configurations on either side of the
file system boundary, renamed, disfigured and killed at will, but with `Overlap`
excluded: `TypeCorrect`, `NoneLeaked` and `UsersSafe`, which is `InUseUntouched`. The
invariant's heart is `UsersTracked`: whoever uses the directory is linked or
listed. It is established when tracking is saved, for which the use count
loaded before must still be the number of links (`Tracking`), and this is where
`Overlap` would break it. `Collecting` carries it through the collector: what it
has found out so far stays true because nobody becomes a user while it holds the
lock (`Order`).

`PackageCommandsProofs` proves of the commands, for any packages and versions, any repositories
(`Worlds`) and requests, any number of commands one after another and any number of failures and kills:

- `KeepsConfiguration`: they implement `ConfiguredPackages`. `PrerequisitesStay` is what holds of every
  implementation, that the prerequisites of a configured package are configured at versions
  it allows, and `PrerequisitesAlwaysHeld` carries this over to pkg-build and pkg-drop.
- `RequestAlwaysMet`: a pkg-build that succeeds does what it was asked for.
- `NoUnusedLeft`: it leaves nothing unused, and pkg-drop nothing that was used.
- `AdjustmentsAlwaysNeeded`: no adjustment of the command line is made that could have
  been left out.
- `PlanAlwaysOrdered`: a plan is in the order it has to be in.
- `RefusedBySimulation`, `OnlyRefusedUnchanged`: a plan is refused when it is simulated or never, so that
  a refused pkg-build has changed nothing, and no pkg-drop is refused.
- `NeverRefusedForItsOrder`: and a simulation refuses a plan only for what is in it, or is not: it leaves
  out a dependent of what it takes apart, or something it configures has a prerequisite that it leaves
  unconfigured or at a version refused (`Incomplete`). Nothing is refused for coming too early or too late.

The difficulty is that the request is met, or not, by the last transaction, and was decided on many iterations before.
The invariant, `Inv` of `PackageCommandsInvariant`, has a part for each stretch of the way, and every action
has a lemma that it keeps each of them (`Invariance`); those of the collection and of the adjustments
are in `CollectionProofs`, with the lemmas on the operators. A run of TLC with `Inv`, and with
`Orderly` and `Grounded` (below), in place of the properties passes on the instances of `commands`.

- `Collecting`. The command line is the request but for the adjustments on the stack: an adjustment
  overrides only what it keeps the original of, and only with a version within the constraint of the user
  (`Requested`, `InForce`, `AsRequested`), so that taking any of them out, the first or the last, leaves the same
  (`Pop`). What the map has of a package asked for is built as asked for (`AsAsked`), or is
  still to be entered; whatever the arbitration between versions has decided, an entry
  is of a version that is available, and is dropped only if it is neither held nor asked for
  (`Enterable`, `Droppable`), and so is every replacement and decision that may be applied to it later
  (`Replaces`, `Decides`). A new version for a package that is asked for wins only if the constraint
  of the user allows it, which is why a pinned version has to be a constraint.
- `Tasking`: every task left is about a package that may be entered, visited or ordered.
- `Ordering`: the plan has each package once, none that is not acted upon, and all that is asked for,
  or a task that will put it there. Of the order itself `Orderly` speaks (below).
- `Judging`. The adjustments that the refinement has been through are needed (`Refining`): without
  any one of them, but with the one that is left out at the moment, not everyone was satisfied.
- `Simulating`: what is executed has been simulated, and its simulation has nothing to refine.
- `Progressing`: in every stage each package of the plan is what it was at the beginning of the
  stage or what the stage makes of it (`Disfigured`, `Fetched`, `Reconfigured`, `Held`), as it is yet to
  be visited or has been; so that at the end it is what the simulation said (`Simulated`), from which
  `UnusedDropped` and `RequestMet` follow. The simulation leaves ignored constraints out, and nothing is
  executed that ignores any.
- `Dropping`: what pkg-drop drops is closed: an unheld prerequisite of what goes is dropped too, or something
  that stays needs it.

`NoUnusedLeft` and `KeepsConfiguration` hold for a plan in any order: where it is
wrong the command is refused, and what it has committed is as it should be. What the order is
good for is that this does not happen half-way. A second invariant, `Orderly`, is inductive
together with `Inv` (`OrderlyInvariance`):

- `Arranging`. While `order()` recurses, what is in the plan precedes all it has to precede, or a task
  will insert that, before all that this one has to precede in turn (`Placed`); and before a package is inserted
  all it has to precede is in the plan or inserted first, with nothing moved in between (`Prepared`). The second is
  what makes it right that `order()` inserts a package before the first of those. Where the tasks are done it is `PlanOrdered`.
- `Filtering`. pkg-drop's filter goes through the plan from its front, so that dependents are judged first:
  what comes after a package yet to be judged is yet to be judged too, and what has been judged and left in has all
  its dependents dropped.
- `Accepted`: what is executed was simulated, and the simulation was not refused.
- `Disfigurable`: what is still to be disfigured has only such dependents as are disfigured before it.
- `Configurable`: what is still to be configured finds each prerequisite configured at a version it
  allows, or will, once what comes before it is configured.

The last two are established as the stages begin. For pkg-build they come from the simulation, which went through the same
plan from the same packages: that it is not refused says of every package of the plan what the stages need. For
pkg-drop, which simulates nothing, `Disfigurable` comes from `Filtering` and `PlanOrdered`, and this is where the
order is decisive.

For pkg-build the order is decisive in the simulation, and there it takes more than `Orderly`. `order()` puts a package
after what its manifest names if its prerequisites have been collected, after what it is configured against
if they have not, and after what is taken apart with it if it is only adjusted; the simulation
configures it against what its manifest names, in each case. That the two agree is a third invariant, `Grounded`:
what is built has its prerequisites collected, or it stays configured at the version it has (`Gathered`,
through every arbitration, replacement, restart from scratch, merge and adjustment of the collection), for which each package of the user's that is still
to be entered is followed by the task of collecting its prerequisites (`Announced`); and every
configured package has as prerequisites what its manifest names (`Manifested`, through every stage of the execution and every fault). With it
`CompleteAccepted` follows: a plan that is refused is `Incomplete`. A plan can be: a decision to drop a dependency that is kept
by a collection from scratch which finds it in use leaves out what it should have (as in
`commands_undecided`, where an assertion is met before that; in a world of five packages, one of them not in the map, TLC reaches
a refusal).

`RepositoryCommandsProofs` proves first, for all versions and constraints, that the query of the database
agrees with `satisfies()` of a version (`QueriesAgree`) and that what satisfies a constraint satisfies all that
this one satisfies (`StricterIsWithin`), together `ConstraintsAlwaysAgree`. Comparing a
version with an end of a range, with or without the revision, is comparing it with the end as normalized
(`NormalizedCompares`), and these comparisons are a weak order. It takes that the revision is at most 65535 and that no package
has the version of its earliest release (`PackageVersion`).

It also proves of the search, for any graph of repositories with any cycles of complements, that it
finds a package if and only if it is where the repositories declare it to be visible, and of several versions
the latest (`SearchesAgree`). The difficulty is the chain: `find()` gives up at a fragment it
has come through, and what it does not find there is not looked for again from elsewhere. What holds
for every chain is that a search that finds nothing has gone through a set of fragments that have
no such package and that nothing complements but they themselves and the chain (`NothingFound`); the first search
of all has no chain, and this set then has everything that is declared to be visible. The theorem
is stated for a search under a mask and a second graph that looks the same as
far as the mask lets one see (`SameWithin`), so that it serves for masking too. What the search finds
and what is declared are both recursive; that they are functions defined by their bodies, and
what these compute, is an induction over the number of fragments that are not in the chain, or not
yet in the set. Each is done with a set of numbers in place of a property, since the
induction theorems of the library that take an operator cannot be used here.

Of the commands, `RepositoryCommandsProofs` proves for any finite sets of repositories and fragments, any contents
they are published with, any number of arguments and every order of the recursive calls:

- `Typed` and `StatesKept`, without further hypotheses. The invariant, `BaseInv`, is that the states needed are
  there, or known to be lost, for the graph the transaction has come to, and for the committed graph as
  long as the command may end without removing anything for good; and that everything
  still to be visited is there.
- `GraphsConsistent`, that every command leaves exactly what can be reached, if `SharedAcyclic`.
- `RepositoriesAsOncePublished` and `CommandsAtomic`, the refinement of `Repositories`, if moreover
  `rep-fetch --shallow` is not run without arguments (`ShallowAll = FALSE`).
- `StricterAlwaysSuits`, from the theorems on constraints.
- `SearchesExact`, that what is found is the latest of what is declared, and under a mask
  what would be found had those masked been removed, if `SharedAcyclic`.

The invariant for the graph, `GraphInv`, has a part for each phase. While repositories are
visited (`VisitInv`), those visited are as published now and those not visited as before
(`Visited`, `Unvisited`); whatever was visited, is to be visited or is new can be reached
(`Supported`: it is in every set that has what the user added and whatever visited members of it require);
what a visited repository requires is visited or to be visited, unless it was fetched
shallowly and requires what it did (`AllFollowed`); and what was required before and fragments that
were contained before are noted (`Remembered`). While objects are removed (`PruneInv`), the part of the
graph that can be reached does not change any more, and is the result of the abstract command;
every repository that cannot be reached can be from what is queued; and every
fragment is in use or queued. When the queue is empty this leaves just what can be reached
(`FinishedTidy`). The step that needs `SharedAcyclic` is the removal of a repository whose
fragment stays because another repository has it (`KeepFragment`): what the fragment
requires is then not queued, which is right only if that other repository can itself be reached,
or from something else in the queue. It cannot rest on what is queued for the sake of this fragment
alone, if the fragment does not lead back to the repositories that share it (`NotOwnRequirement`). Otherwise
a cycle that nobody can reach may stay, which is what the code does.

`SearchesExact` adds `MaskInv`, about a masking that runs. `rep_mask()` walks the graph as
rep-remove does, with the same exceptions, but only notes what it comes to; the repositories that are not masked yet still name those
that are. `MaskInv` says that what is left is what removing would have left by then, except
for these references (`Remains`), that all that can be reached without those named is left,
and that the rest is queued or hangs on what is queued. In the end exactly what
can be reached is left (`MaskedRemains`), and since masked repositories are skipped wherever they are
named, the search sees the same as in the pruned graph.

`SystemPackagesProofs` proves for any hosts, Debian or Fedora, whatever versions require,
any mappings and any number of names: `NeverForced` and `AssertedOnlyWhenShared`. The invariant,
`HostInv`, is that the statuses found are true of the host as it still is, until others change it
(`Found`, `Promised`): of an installed name to the end, since `install()` names its packages at their versions
and apt-get and dnf do nothing that was not granted (`InstalledGranted`); of another name, what the
index offered, until the installation. The latter needs that the index is never updated once anything that is
not installed was remembered (`Updated`). Hence two names that share a package want it at the same
version if both are installed (the one it has) or both are not (the latest one), and
`Clash` takes one of each (`ClashShared`). `FindAvailable` finds nothing fully installed that
`FindInstalled` has not, although it may go by another name (`DebianFindAvailable`,
`FedoraFindAvailable`).

Assumed are only the named assumptions on the constants
(`ConfigAssumption`, `PackagesAssumption`, `LifecycleAssumption`, `CacheAssumption`, `SharedAssumption`,
`VersionAssumption`, `GraphAssumption`, `CommitAssumption`, `CommandsAssumption`, `NamesAssumption`,
`VersionsAssumption`, `RequestsAssumption` and the two named `WorldsAssumption`), which TLC
evaluates on every run, and the hypotheses a theorem states. `GraphAssumption` takes
repositories and fragments to be finitely many; `CommitAssumption` that a fragment that is in
two repositories is the same in both, and that both are of type git or dir;
`PackagesAssumption` that packages are finitely many and have no revision zero, which the database
loads as an absent one (`package-common.hxx:198`); `WorldsAssumption` of `SystemPackages` that the candidates parsed from the mappings of a name have the form that
`parse_name_value()` gives them (a main or a -dev package at least), since the parser is a fold.
`WorldsAssumption` of `PackageCommands` takes that a manifest names a dependency once (as the
model has no alternatives), `RequestsAssumption` that a package is asked for either to hold or
as a dependency and that what is asked for is a version that is within the constraint asked for, as
pkg-build has chosen it from those (`pkg-build.cxx:5163`).

The type invariants of these modules are inductive and proved for every value of the constants, so
no run repeats them.

Only model-checked: `EveryoneEnds`, `EveryCommandEnds` and `FinitelyManySteps`, which are liveness
properties and out of the prover's reach; of `PackageCommands` `Terminates`, which is a
bound of the instances, of `NeverRefused` that no plan is incomplete and `NeverAsserted`, which both are
false of worlds with a decision that becomes wrong (`commands_undecided`) and hold of those of `commands`,
and `DowngradedForAReason`, which is about the whole history of the iterations (an
intermediate one has such downgrades); the properties of
`PackageNegotiation`, which rests on folds and recursion over the clusters, what these compute for
any data being an induction with an operator parameter; and of `SystemPackages`
`VersionMeant`, which is about such a fold, and `PromiseKept`, which is not claimed for
every world: on Fedora, installing another name can bring in the package whose absence
made a name fall back to its second one, and asking again then finds a different package. Without their hypotheses the conditional theorems are false, as TLC or the
code shows: `PathsKept` and `EndsUnlinked` (`links_chain`), `KindsApart` (above), `Overlap` (`sources_race`), a kill between the two moves,
`Separate`, `Reselect`, `ShallowAll` and `SharedAcyclic` (above).

## Not modelled

Everything marked so under "components" in `PROJECT.json`, with the reason: what
is planned above, and what is I/O, parsing or foreign tools without state of
bpkg's own (fetching with git and curl, manifests,
archives, checksums, binary packages, publishing).

Observed while reading, and in no model: the entry of an archive is committed to the
fetch cache before the archive is there (`fetch-cache.cxx:1431`), and the session of a repository's metadata is
recorded before it was found up to date (`:1183`), so that a failure in between leaves an entry
that promises too much; rep-remove removes state directories before its
transaction is committed (`rep-remove.cxx:184`), which costs a later fetch only time;
`cfg-unlink.cxx:179` takes the backlink to exist; the exception guard of pkg-fetch holds the
archive's path by reference after it was moved from (`pkg-fetch.cxx:376`); and
pkg-unpack may be given the directory that the package being replaced has removed on the
way (`pkg-unpack.cxx:91`).
