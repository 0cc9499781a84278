----------------------------- MODULE PkgLifecycle -----------------------------
(***************************************************************************)
(* One package of one configuration, with the files it stands on: the      *)
(* commands pkg-fetch, pkg-unpack, pkg-configure, pkg-disfigure and        *)
(* pkg-purge (bpkg/pkg-*.cxx).                                             *)
(*                                                                         *)
(* A command works on an object loaded from the configuration's database,  *)
(* changes files as it goes, and commits the object once, at the end.  The *)
(* database is locked meanwhile, but any of the file operations may fail,  *)
(* and the process may die between any two of them; then the transaction   *)
(* is rolled back while the files stay as they are.                        *)
(***************************************************************************)
EXTENDS Naturals, FiniteSets

CONSTANTS
    Version,        \* versions the package is selected in, positive numbers
    UserDirs,       \* bound: where the user keeps package directories
    Reselect,       \* bound: whether pkg-unpack -e -r ever names the directory
                    \* the package is already using
    NoPath,         \* an absent path
    NoPackage       \* the package is not in the database

(* Paths.  Relative to the configuration directory: the archive and the    *)
(* directory <name>-<version>, the output directory <name> of an external  *)
(* package, a file under .bpkg/tmp.  Elsewhere: the user's own archives    *)
(* and directories, and those in the fetch cache (which stay there).       *)
CfgArchive(v) == <<"cfg-archive", v>>
UserArchive(v) == <<"user-archive", v>>
CacheArchive(v) == <<"cache-archive", v>>
CfgDir(v) == <<"cfg-dir", v>>
UserDir(v) == <<"user-dir", v>>
CacheDir(v) == <<"cache-dir", v>>
ExternalOut == <<"cfg-dir", 0>>
Stash == <<"tmp", 0>>

Archive == {"cfg-archive", "user-archive", "cache-archive"} \X Version
Dir == ({"cfg-dir", "user-dir", "cache-dir"} \X Version) \cup {ExternalOut}
LocalPath == ({"cfg-archive", "user-archive", "cfg-dir", "user-dir"} \X Version)
             \cup {ExternalOut, Stash}
Content == {"none", "file", "source", "output"}

\* The fields of selected_package that decide what the commands do.
Package ==
    [state : {"fetched", "unpacked", "configured", "system", "broken"},
     version : Version,
     archive : Archive \cup {NoPath}, purge_archive : BOOLEAN,
     src_root : Dir \cup {NoPath}, purge_src : BOOLEAN,
     out_root : Dir \cup {NoPath}]

ASSUME LifecycleAssumption ==
    /\ Version \subseteq Nat \ {0} /\ Version # {}
    /\ NoPath \notin Archive \cup Dir
    /\ NoPackage \notin Package
    /\ UserDirs \subseteq LocalPath \cap Dir
    /\ Reselect \in BOOLEAN

Pc == {"idle", "stash", "get", "extract", "purge_src", "purge_archive",
       "build", "clean", "commit"}

\* The command being run: what it was asked for (the new archive or directory
\* and whether to purge it later, what --keep* leaves alone), whether the old
\* archive is stashed and what it removes again should it fail.
Command ==
    [op : {"fetch", "unpack", "select", "configure", "disfigure", "purge"},
     version : Version,
     archive : Archive \cup {NoPath}, src_root : Dir \cup {NoPath},
     purge : BOOLEAN, keep : BOOLEAN, clean : BOOLEAN, disfigure : BOOLEAN,
     stashed : BOOLEAN, armed : SUBSET LocalPath]

VARIABLES
    db,            \* the committed package object
    mem,           \* the object the running command works on
    pc, cmd,       \* what the running command is about to do
    fs,            \* what is found under every path
    conf,          \* directories that hold a build system configuration
    precious,      \* the user's files that bpkg was not told to purge
    made,          \* files that bpkg created, or was told to purge
    disturbed      \* what befell a command (bound: that happens once): it was
                   \* killed, or another was started while it was running

vars == <<db, mem, pc, cmd, fs, conf, precious, made, disturbed>>
files == <<fs, conf, precious, made>>

NoCommand ==
    [op |-> "purge", version |-> CHOOSE v \in Version : TRUE,
     archive |-> NoPath, src_root |-> NoPath,
     purge |-> FALSE, keep |-> FALSE, clean |-> TRUE, disfigure |-> TRUE,
     stashed |-> FALSE, armed |-> {}]

\* What the asserts at the head of the commands expect of a package object.
FieldsMatchState(p) ==
    /\ p.state = "fetched" => p.archive # NoPath /\ p.src_root = NoPath
    /\ p.state \in {"unpacked", "configured"} => p.src_root # NoPath
    /\ p.state \in {"fetched", "unpacked"} => p.out_root = NoPath
    /\ p.state = "configured" => p.out_root # NoPath
    /\ p.purge_src => p.src_root # NoPath
    /\ p.purge_archive => p.archive # NoPath

TypeOK ==
    /\ db \in Package \cup {NoPackage}
    /\ mem \in Package \cup {NoPackage}
    /\ pc \in Pc
    /\ cmd \in Command
    /\ fs \in [LocalPath -> Content]
    /\ conf \subseteq Dir
    /\ precious \subseteq LocalPath
    /\ made \subseteq LocalPath
    /\ disturbed \in {"no", "killed", "shared"}
    /\ db # NoPackage => FieldsMatchState(db)

\* The user's archives are there to begin with, unknown to bpkg.
Init ==
    /\ db = NoPackage /\ mem = NoPackage
    /\ pc = "idle" /\ cmd = NoCommand
    /\ fs = [p \in LocalPath |-> IF p[1] = "user-archive" THEN "file" ELSE "none"]
    /\ conf = {}
    /\ precious = {UserArchive(v) : v \in Version}
    /\ made = {}
    /\ disturbed = "no"

-----------------------------------------------------------------------------
(* Helpers.                                                                *)

Selected == db # NoPackage

\* With a fault: --replace replaces a package whatever its state.
ReplaceAnything == TRUE

\* pkg_fetch_check(), pkg_unpack_check(): a package that is there already may
\* be fetched or unpacked (given --replace).
MayReplace == Selected => db.state \in {"fetched", "unpacked"}

\* selected_package::external(): not unpacked from an archive.
External(p) == p.archive = NoPath

OutRoot(p) == IF External(p) THEN ExternalOut ELSE CfgDir(p.version)

Exists(p) == p \in LocalPath => fs[p] # "none"
Removed(ps) == [p \in LocalPath |-> IF p \in ps THEN "none" ELSE fs[p]]

\* What bpkg removes is no longer one of its files.  (That it was never one of
\* the user's is what UserFilesKept is about.)
Remove(ps) ==
    /\ fs' = Removed(ps)
    /\ conf' = conf \ ps
    /\ made' = made \ ps
    /\ UNCHANGED precious

\* --purge hands a file over to bpkg; without it the file is the user's.
Own(ps, purge) ==
    /\ made' = IF purge THEN made \cup (ps \cap LocalPath) ELSE made \ ps
    /\ precious' = IF purge THEN precious \ ps
                   ELSE precious \cup (ps \cap LocalPath)

\* init_tmp() empties .bpkg/tmp before any command does anything, before it
\* locks the database too.  The command then loads the object from it.
Start(c, step) ==
    /\ pc = "idle"
    /\ cmd' = c /\ pc' = step /\ mem' = db
    /\ fs' = Removed({Stash})
    /\ UNCHANGED <<db, conf, precious, made, disturbed>>

\* The command ends, and the objects in memory are gone.
Finish == pc' = "idle" /\ cmd' = NoCommand /\ mem' = NoPackage

\* ...by failing, which rolls back the transaction.
Fail == Finish /\ UNCHANGED <<db, disturbed>>

\* ...or by failing with the package set to broken, which is committed.
Break == Finish /\ db' = [mem EXCEPT !.state = "broken"] /\ UNCHANGED disturbed

Step(from, to) == pc = from /\ pc' = to /\ UNCHANGED <<db, disturbed>>

-----------------------------------------------------------------------------
(* The user, between the commands.                                         *)

\* The user puts a package directory somewhere, but not in place of one that
\* is bpkg's to remove.
PlaceDir(d) ==
    /\ pc = "idle"
    /\ d \in UserDirs /\ fs[d] = "none"
    /\ Selected /\ db.purge_src => db.src_root # d
    /\ fs' = [fs EXCEPT ![d] = "source"]
    /\ precious' = precious \cup {d}
    /\ UNCHANGED <<db, mem, pc, cmd, conf, made, disturbed>>

\* Only when something went wrong does the user clean up after bpkg, removing
\* what pkg-purge names or a killed command left.
CleanUp(p) ==
    /\ pc = "idle"
    /\ disturbed = "killed" \/ (Selected /\ db.state = "broken")
    /\ \/ p \in made
       \/ Selected /\ p \in {db.archive, db.src_root, db.out_root}
    /\ fs[p] # "none"
    /\ fs' = Removed({p})
    /\ conf' = conf \ {p}
    /\ made' = made \ {p}
    /\ precious' = precious \ {p}
    /\ UNCHANGED <<db, mem, pc, cmd, disturbed>>

-----------------------------------------------------------------------------
(* pkg-fetch.                                                              *)

\* pkg-fetch --existing [--replace] [--purge] <archive>
StartFetchExisting(v, purge) ==
    /\ MayReplace
    /\ Exists(UserArchive(v))
    /\ Start([NoCommand EXCEPT !.op = "fetch", !.version = v,
                               !.archive = UserArchive(v), !.purge = purge],
             IF Selected THEN "purge_src" ELSE "commit")

\* pkg-fetch [--replace] <name>/<version>: download the archive (or copy it
\* from the fetch cache), or use it in the cache, where it is left on purge.
\* An archive about to be overwritten is stashed first.
StartFetch(v, in_place) ==
    /\ MayReplace
    /\ Start([NoCommand EXCEPT
                  !.op = "fetch", !.version = v,
                  !.archive = IF in_place THEN CacheArchive(v) ELSE CfgArchive(v),
                  !.purge = ~in_place],
             IF Selected /\ db.archive = CfgArchive(v) THEN "stash" ELSE "get")

StashArchive ==
    /\ Step("stash", "get")
    /\ fs[CfgArchive(cmd.version)] # "none"
    /\ fs' = [fs EXCEPT ![Stash] = fs[CfgArchive(cmd.version)],
                        ![CfgArchive(cmd.version)] = "none"]
    /\ cmd' = [cmd EXCEPT !.stashed = TRUE]
    /\ UNCHANGED <<mem, conf, precious, made>>

\* Nothing to move, or it could not be moved.
StashArchiveFail == pc = "stash" /\ Fail /\ UNCHANGED files

GetArchive ==
    /\ Step("get", IF Selected THEN "purge_src" ELSE "commit")
    /\ fs' = [p \in LocalPath |-> IF p = cmd.archive THEN "file" ELSE fs[p]]
    /\ made' = made \cup ({cmd.archive} \cap LocalPath)
    /\ cmd' = [cmd EXCEPT !.armed = {cmd.archive} \cap LocalPath]
    /\ UNCHANGED <<mem, conf, precious>>

\* The exception guard of pkg_fetch() moves the stash back.
StashRestorable == cmd.stashed /\ fs[Stash] # "none"
RestoreStash(to) ==
    /\ fs' = [p \in LocalPath |->
                  IF p = Stash THEN "none"
                  ELSE IF p = to THEN fs[Stash] ELSE fs[p]]
    /\ UNCHANGED <<conf, made, precious>>

\* With a fault: the stash is removed on failure as it is on success.
GetArchiveFailNoRestore ==
    /\ pc = "get"
    /\ Fail
    /\ Remove({Stash})

\* The download failed, or what was downloaded has the wrong checksum.
GetArchiveFail ==
    /\ pc = "get"
    /\ \/ ~StashRestorable /\ Fail /\ Remove({Stash})
       \/ StashRestorable /\ Fail /\ RestoreStash(CfgArchive(cmd.version))
       \/ StashRestorable /\ Break /\ Remove({Stash})

-----------------------------------------------------------------------------
(* pkg_purge_fs(), the part of pkg-fetch --replace, pkg-unpack --replace   *)
(* and pkg-purge that removes the old files.                               *)

\* Break, with the new archive removed or overwritten by the stashed one.  (The
\* guard's `a` is by now in the fetch cache if the archive is used there.)
BreakPurge ==
    /\ Break
    /\ \/ StashRestorable /\ RestoreStash(cmd.archive)
       \/ Remove(cmd.armed \cup {Stash})

\* With a fault: src_root is forgotten whatever it was, its directory stays.
PurgeSrcForgotten ==
    /\ Step("purge_src", "purge_archive")
    /\ mem' = [mem EXCEPT !.src_root = NoPath, !.purge_src = FALSE]
    /\ UNCHANGED <<fs, conf, precious, made, cmd>>

\* With a fault: the directory is removed whoever it belongs to.
PurgeSrcAlways ==
    /\ Step("purge_src", "purge_archive")
    /\ mem' = [mem EXCEPT !.src_root = NoPath, !.purge_src = FALSE]
    /\ Remove({mem.src_root})
    /\ UNCHANGED cmd

\* A directory somebody already removed is fine.
PurgeSrc ==
    /\ Step("purge_src", "purge_archive")
    /\ mem' = [mem EXCEPT !.src_root = NoPath, !.purge_src = FALSE]
    /\ Remove(IF mem.purge_src THEN {mem.src_root} ELSE {})
    /\ UNCHANGED cmd

PurgeSrcFail ==
    /\ pc = "purge_src"
    /\ mem.purge_src /\ Exists(mem.src_root)
    /\ BreakPurge

\* The archive goes too, unless it is the one being fetched again or is kept.
PurgesArchive ==
    /\ mem.archive # NoPath
    /\ cmd.op = "fetch" => mem.archive # cmd.archive
    /\ ~cmd.keep

PurgeArchive ==
    /\ Step("purge_archive", "commit")
    /\ mem' = IF PurgesArchive
              THEN [mem EXCEPT !.archive = NoPath, !.purge_archive = FALSE]
              ELSE mem
    /\ Remove(IF PurgesArchive /\ mem.purge_archive THEN {mem.archive} ELSE {})
    /\ UNCHANGED cmd

PurgeArchiveFail ==
    /\ pc = "purge_archive"
    /\ PurgesArchive /\ mem.purge_archive /\ Exists(mem.archive)
    /\ BreakPurge

\* The object a replaced one turns into, or a new one.
Base ==
    IF mem = NoPackage
    THEN [state |-> "fetched", version |-> cmd.version,
          archive |-> NoPath, purge_archive |-> FALSE,
          src_root |-> NoPath, purge_src |-> FALSE, out_root |-> NoPath]
    ELSE [mem EXCEPT !.version = cmd.version]

CommitFetch ==
    /\ pc = "commit" /\ cmd.op = "fetch"
    /\ Finish
    /\ db' = [Base EXCEPT !.state = "fetched", !.archive = cmd.archive,
                          !.purge_archive = cmd.purge]
    /\ fs' = Removed({Stash})
    /\ Own({cmd.archive}, cmd.purge)
    /\ UNCHANGED <<conf, disturbed>>

-----------------------------------------------------------------------------
(* pkg-unpack.                                                             *)

\* pkg-unpack --existing [--replace] [--purge] <dir>.  (The package of a
\* directory-based repository is unpacked likewise, without --purge.)
StartSelect(d, v, purge) ==
    /\ MayReplace
    /\ d \in UserDirs /\ fs[d] = "source"
    /\ d[2] \in Version => v = d[2]
    /\ Selected /\ ~Reselect => db.src_root # d
    /\ Start([NoCommand EXCEPT !.op = "select", !.version = v,
                               !.src_root = d, !.purge = purge],
             IF Selected THEN "purge_src" ELSE "commit")

CommitSelect ==
    /\ pc = "commit" /\ cmd.op = "select"
    /\ Finish
    /\ db' = [Base EXCEPT !.state = "unpacked", !.src_root = cmd.src_root,
                          !.purge_src = cmd.purge]
    /\ Own({cmd.src_root}, cmd.purge)
    /\ UNCHANGED <<fs, conf, disturbed>>

\* pkg-unpack <name>: extract the archive into the configuration, or use the
\* shared source directory in the fetch cache.
StartUnpack ==
    /\ Selected /\ db.state = "fetched"
    /\ Exists(db.archive) /\ ~Exists(CfgDir(db.version))
    /\ Start([NoCommand EXCEPT !.op = "unpack", !.version = db.version,
                               !.src_root = CfgDir(db.version), !.purge = TRUE],
             "extract")
StartUnpackShared ==
    /\ Selected /\ db.state = "fetched"
    /\ db.archive[1] # "user-archive"
    /\ Start([NoCommand EXCEPT !.op = "unpack", !.version = db.version,
                               !.src_root = CacheDir(db.version)],
             "commit")

Extract ==
    /\ Step("extract", "commit")
    /\ fs' = [fs EXCEPT ![cmd.src_root] = "source"]
    /\ made' = made \cup {cmd.src_root}
    /\ cmd' = [cmd EXCEPT !.armed = {cmd.src_root}]
    /\ UNCHANGED <<mem, conf, precious>>

\* What was extracted so far is removed.
ExtractFail == pc = "extract" /\ Fail /\ Remove({cmd.src_root})

CommitUnpack ==
    /\ pc = "commit" /\ cmd.op = "unpack"
    /\ Finish
    /\ db' = [mem EXCEPT !.state = "unpacked", !.src_root = cmd.src_root,
                         !.purge_src = cmd.purge]
    /\ UNCHANGED <<fs, conf, precious, made, disturbed>>

-----------------------------------------------------------------------------
(* pkg-configure.                                                          *)

StartConfigure ==
    /\ Selected /\ db.state = "unpacked"
    /\ Start([NoCommand EXCEPT !.op = "configure", !.version = db.version],
             "build")

\* The build system makes the output directory, if it is not there already;
\* there may be a source directory of the user's in its place.
MakeOutput(out) ==
    /\ fs' = [fs EXCEPT ![out] = IF @ = "none" THEN "output" ELSE @]
    /\ made' = IF fs[out] \in {"none", "output"} THEN made \cup {out} ELSE made
    /\ UNCHANGED precious

Configure ==
    /\ Step("build", "commit")
    /\ MakeOutput(OutRoot(mem))
    /\ conf' = conf \cup {OutRoot(mem)}
    /\ UNCHANGED <<mem, cmd>>

\* A configuration that was there before (pkg-disfigure --keep-config) is put
\* back and nothing changes.  Otherwise the half-made one is disfigured.
ConfigureFail ==
    \/ pc = "build" /\ OutRoot(mem) \in conf /\ Fail /\ UNCHANGED files
    \/ /\ Step("build", "clean")
       /\ OutRoot(mem) \notin conf
       /\ mem' = [mem EXCEPT !.state = "broken", !.out_root = OutRoot(mem)]
       /\ \/ UNCHANGED files
          \/ MakeOutput(OutRoot(mem)) /\ conf' = conf \cup {OutRoot(mem)}
       /\ cmd' = [cmd EXCEPT !.op = "disfigure"]

CommitConfigure ==
    /\ pc = "commit" /\ cmd.op = "configure"
    /\ Finish
    /\ db' = [mem EXCEPT !.state = "configured", !.out_root = OutRoot(mem)]
    /\ UNCHANGED <<fs, conf, precious, made, disturbed>>

\* pkg-configure sys:<name>
ConfigureSystem(v) ==
    /\ pc = "idle" /\ ~Selected
    /\ db' = [state |-> "system", version |-> v,
              archive |-> NoPath, purge_archive |-> FALSE,
              src_root |-> NoPath, purge_src |-> FALSE, out_root |-> NoPath]
    /\ UNCHANGED <<mem, pc, cmd, fs, conf, precious, made, disturbed>>

-----------------------------------------------------------------------------
(* pkg-disfigure, also of the package pkg-configure failed to configure.   *)

StartDisfigure(clean, disfigure) ==
    /\ Selected /\ db.state = "configured"
    /\ Start([NoCommand EXCEPT !.op = "disfigure", !.version = db.version,
                               !.clean = clean, !.disfigure = disfigure],
             "clean")

DisfigureSystem ==
    /\ pc = "idle" /\ Selected
    /\ db.state = "system"
    /\ db' = NoPackage
    /\ UNCHANGED <<mem, pc, cmd, fs, conf, precious, made, disturbed>>

Wipe == cmd.clean /\ cmd.disfigure

\* Nothing to do for the build system.
CleanSkip ==
    /\ Step("clean", "commit")
    /\ (~cmd.clean /\ ~cmd.disfigure) \/ ~Exists(mem.out_root)
    /\ UNCHANGED <<mem, cmd, fs, conf, precious, made>>

\* `b clean disfigure`, either alone under --keep-config or --keep-out; the
\* output directory of an external package is wiped instead of both, and when
\* disfigure fails.
Clean ==
    /\ Step("clean", "commit")
    /\ cmd.clean \/ cmd.disfigure
    /\ Exists(mem.out_root)
    /\ LET out == mem.out_root IN
       \/ External(mem) /\ cmd.disfigure /\ Remove({out})
       \/ ~External(mem) /\ Wipe /\ fs[out] = "output" /\ Remove({out})
       \/ /\ ~External(mem) /\ Wipe => out = mem.src_root
          /\ ~(External(mem) /\ Wipe)
          /\ conf' = IF cmd.disfigure THEN conf \ {out} ELSE conf
          /\ UNCHANGED <<fs, precious, made>>
    /\ UNCHANGED <<mem, cmd>>

\* The directory cannot be wiped, the build system fails, or the directory
\* is still there after it.
CleanFail ==
    /\ pc = "clean"
    /\ cmd.clean \/ cmd.disfigure
    /\ Exists(mem.out_root)
    /\ Break
    /\ \E gone \in SUBSET {mem.out_root} : conf' = conf \ gone
    /\ UNCHANGED <<fs, precious, made>>

\* What --keep-* leaves behind is the user's to remove.
CommitDisfigure ==
    /\ pc = "commit" /\ cmd.op = "disfigure"
    /\ Finish
    /\ db' = [mem EXCEPT !.state = "unpacked", !.out_root = NoPath]
    /\ made' = IF Wipe \/ mem.out_root = mem.src_root
               THEN made ELSE made \ {mem.out_root}
    /\ UNCHANGED <<fs, conf, precious, disturbed>>

-----------------------------------------------------------------------------
(* pkg-purge.                                                              *)

StartPurge(keep) ==
    /\ Selected /\ db.state \in {"fetched", "unpacked"}
    /\ keep => db.archive # NoPath
    /\ Start([NoCommand EXCEPT !.op = "purge", !.version = db.version,
                               !.keep = keep],
             "purge_src")

CommitPurge ==
    /\ pc = "commit" /\ cmd.op = "purge"
    /\ Finish
    /\ db' = IF cmd.keep THEN [mem EXCEPT !.state = "fetched"] ELSE NoPackage
    /\ UNCHANGED <<fs, conf, precious, made, disturbed>>

\* pkg-purge --force: the user is to remove the files first.
PurgeBroken ==
    /\ pc = "idle" /\ Selected
    /\ db.state = "broken"
    /\ db.out_root # NoPath => ~Exists(db.out_root)
    /\ db.purge_src => ~Exists(db.src_root)
    /\ db.purge_archive => ~Exists(db.archive)
    /\ db' = NoPackage
    /\ UNCHANGED <<mem, pc, cmd, fs, conf, precious, made, disturbed>>

-----------------------------------------------------------------------------
(* The rest of the world.                                                  *)

\* The process is killed: the transaction is rolled back by the next command.
Crash ==
    /\ pc # "idle" /\ disturbed = "no"
    /\ Finish
    /\ disturbed' = "killed"
    /\ UNCHANGED <<db, fs, conf, precious, made>>

\* Another bpkg command is started in the same configuration.  It fails to
\* lock the database, having emptied the temporary directory by then.
StartAnother ==
    /\ pc # "idle" /\ disturbed = "no"
    /\ fs[Stash] # "none"
    /\ fs' = Removed({Stash})
    /\ disturbed' = "shared"
    /\ UNCHANGED <<db, mem, pc, cmd, conf, precious, made>>

User == (\E d \in UserDirs : PlaceDir(d)) \/ (\E p \in LocalPath : CleanUp(p))
Fetch ==
    \/ \E v \in Version, f \in BOOLEAN : StartFetchExisting(v, f) \/ StartFetch(v, f)
    \/ StashArchive \/ StashArchiveFail \/ GetArchive \/ GetArchiveFail
    \/ CommitFetch
Unpack ==
    \/ \E d \in UserDirs, v \in Version, f \in BOOLEAN : StartSelect(d, v, f)
    \/ StartUnpack \/ StartUnpackShared \/ Extract \/ ExtractFail
    \/ CommitSelect \/ CommitUnpack
PurgeFs == PurgeSrc \/ PurgeSrcFail \/ PurgeArchive \/ PurgeArchiveFail
ConfigureDisfigure ==
    \/ StartConfigure \/ Configure \/ ConfigureFail \/ CommitConfigure
    \/ \E v \in Version : ConfigureSystem(v)
    \/ \E c, f \in BOOLEAN : StartDisfigure(c, f)
    \/ DisfigureSystem \/ CleanSkip \/ Clean \/ CleanFail \/ CommitDisfigure
Purge == (\E k \in BOOLEAN : StartPurge(k)) \/ CommitPurge \/ PurgeBroken

Next ==
    \/ User \/ Fetch \/ Unpack \/ PurgeFs \/ ConfigureDisfigure \/ Purge
    \/ Crash \/ StartAnother

Spec == Init /\ [][Next]_vars

(* Properties.                                                             *)

\* Nothing runs and no command was killed.
AtRest == pc = "idle" /\ disturbed # "killed"

HasArchive == db.state # "broken" /\ db.purge_archive => Exists(db.archive)
HasSource ==
    db.state \in {"unpacked", "configured"} /\ db.src_root \in LocalPath =>
        fs[db.src_root] = "source"

\* Between commands the files a package stands on are there, whichever
\* commands failed before ("keep the existing selected package/archive intact
\* if the fetch operation fails"): a fetched or unpacked package has its
\* archive if bpkg looks after it, an unpacked or configured one its source.
FilesInPlace == AtRest /\ disturbed = "no" /\ Selected => HasArchive /\ HasSource

\* Whatever fails or is killed, bpkg never removes an archive or a directory
\* it did not create and was not given with --purge.
UserFilesKept == \A p \in precious : fs[p] # "none"

\* When a package is gone so are all the files bpkg made or took over for it:
\* what pkg_purge_fs() forgets about a package it has not removed is not its
\* to remove.
NothingLeftBehind == AtRest /\ ~Selected => \A p \in made : fs[p] = "none"

\* The committed states follow the life cycle PackageStates describes.
State == IF Selected THEN db.state ELSE "transient"
States == INSTANCE PackageStates WITH state <- State
LifeCycle == States!Spec
=============================================================================
