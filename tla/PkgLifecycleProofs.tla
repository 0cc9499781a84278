-------------------------- MODULE PkgLifecycleProofs --------------------------
(***************************************************************************)
(* What holds of the life of a package for any versions and any places the *)
(* user keeps directories in: the objects committed have the fields their  *)
(* state promises, their states follow the published life cycle, and the   *)
(* files are where the database and the user take them to be.              *)
(***************************************************************************)
EXTENDS PkgLifecycle, TLAPS

\* What a command knows while it runs.  It works on the object it loaded,
\* which it changes only in pkg_purge_fs() and when it fails to configure.
Loaded == {"stash", "get", "extract", "purge_src", "build"}

\* ...about its arguments and the object in the database,
Asked ==
    /\ cmd.op \in {"fetch", "select"} => MayReplace
    /\ cmd.op = "fetch" => cmd.archive # NoPath
    /\ cmd.op \in {"select", "unpack"} => cmd.src_root # NoPath
    /\ cmd.op = "select" => ~cmd.keep
    /\ cmd.op = "unpack" => Selected /\ db.state = "fetched" /\ mem = db
    /\ cmd.op = "configure" => Selected /\ db.state = "unpacked" /\ mem = db
    /\ cmd.op = "disfigure" => /\ Selected
                               /\ db.state \in {"configured", "unpacked"}
                               /\ mem.src_root # NoPath
                               /\ mem.purge_archive => mem.archive # NoPath
    /\ cmd.op = "purge" => /\ Selected
                           /\ db.state \in {"fetched", "unpacked"}
                           /\ cmd.keep => mem.archive # NoPath

\* ...about the object after its source directory has been purged,
SourcePurged ==
    /\ mem.src_root = NoPath /\ ~mem.purge_src
    /\ mem.out_root = NoPath
    /\ mem.purge_archive => mem.archive # NoPath

\* ...and at every step of its way.
Running ==
    /\ pc # "idle" => (mem = NoPackage <=> db = NoPackage)
    /\ pc # "idle" => Asked
    /\ pc \in Loaded => mem = db
    /\ pc \in {"stash", "get"} => cmd.op = "fetch"
    /\ pc = "stash" \/ (pc = "get" /\ cmd.stashed) => Selected
    /\ pc = "extract" => cmd.op = "unpack" /\ cmd.src_root \in LocalPath
    /\ pc = "build" => cmd.op = "configure"
    /\ pc = "clean" => cmd.op = "disfigure"
    /\ pc \in {"purge_src", "purge_archive"} =>
           Selected /\ cmd.op \in {"fetch", "select", "purge"}
    /\ pc = "purge_archive" => SourcePurged
    /\ pc = "commit" /\ cmd.op \in {"fetch", "select", "purge"} /\ Selected =>
           /\ SourcePurged
           /\ cmd.op = "select" => mem.archive = NoPath

IInv == TypeOK /\ Running

FilesTyped ==
    /\ fs \in [LocalPath -> Content]
    /\ conf \subseteq Dir /\ precious \subseteq LocalPath /\ made \subseteq LocalPath

-----------------------------------------------------------------------------
(* Types of the helpers.                                                   *)

LEMMA PathTypes ==
    /\ Stash \in LocalPath /\ ExternalOut \in LocalPath /\ ExternalOut \in Dir
    /\ \A v \in Version :
        /\ CfgArchive(v) \in Archive /\ CfgArchive(v) \in LocalPath
        /\ UserArchive(v) \in Archive /\ UserArchive(v) \in LocalPath
        /\ CacheArchive(v) \in Archive
        /\ CfgDir(v) \in Dir /\ CfgDir(v) \in LocalPath
        /\ CacheDir(v) \in Dir
BY DEF Stash, ExternalOut, CfgArchive, UserArchive, CacheArchive, CfgDir,
       CacheDir, Archive, Dir, LocalPath

LEMMA NoCommandType == NoCommand \in Command
BY LifecycleAssumption DEF NoCommand, Command

LEMMA OutRootType ==
    ASSUME NEW p \in Package
    PROVE  OutRoot(p) \in Dir /\ OutRoot(p) \in LocalPath
BY PathTypes DEF OutRoot, Package

LEMMA RemovedType ==
    ASSUME FilesTyped, NEW ps
    PROVE  Removed(ps) \in [LocalPath -> Content]
BY DEF Removed, FilesTyped, Content

LEMMA RemoveType ==
    ASSUME FilesTyped, NEW ps, Remove(ps) PROVE FilesTyped'
BY RemovedType DEF Remove, FilesTyped

LEMMA OwnType ==
    ASSUME FilesTyped, NEW ps, NEW purge \in BOOLEAN, Own(ps, purge)
    PROVE  precious' \subseteq LocalPath /\ made' \subseteq LocalPath
BY DEF Own, FilesTyped

LEMMA MakeOutputType ==
    ASSUME FilesTyped, NEW out \in LocalPath, MakeOutput(out)
    PROVE  /\ fs' \in [LocalPath -> Content]
           /\ precious' \subseteq LocalPath /\ made' \subseteq LocalPath
BY DEF MakeOutput, FilesTyped, Content

LEMMA RestoreStashType ==
    ASSUME FilesTyped, NEW to, RestoreStash(to) PROVE FilesTyped'
BY PathTypes DEF RestoreStash, FilesTyped, Content

-----------------------------------------------------------------------------
(* Steps many actions have in common.                                      *)

\* A command that ends leaves nothing to know but the types.
LEMMA FinishInv ==
    ASSUME IInv, Finish, FilesTyped',
           db' \in Package \cup {NoPackage},
           db' # NoPackage => FieldsMatchState(db'),
           disturbed' \in {"no", "killed", "shared"}
    PROVE  IInv'
<1>1. TypeOK'
  BY NoCommandType DEF Finish, TypeOK, FilesTyped, Pc, FieldsMatchState
<1>2. Running'
  BY DEF Finish, Running, Loaded
<1> QED
  BY <1>1, <1>2 DEF IInv

LEMMA FailInv == ASSUME IInv, Fail, FilesTyped' PROVE IInv'
<1>1. Finish /\ UNCHANGED <<db, disturbed>>
  BY DEF Fail
<1>2. /\ db' \in Package \cup {NoPackage}
      /\ db' # NoPackage => FieldsMatchState(db')
      /\ disturbed' \in {"no", "killed", "shared"}
  BY <1>1 DEF IInv, TypeOK
<1> QED
  BY <1>1, <1>2, FinishInv

LEMMA BreakInv ==
    ASSUME IInv, Break, FilesTyped', mem # NoPackage,
           mem.purge_src => mem.src_root # NoPath,
           mem.purge_archive => mem.archive # NoPath
    PROVE  IInv'
<1>1. /\ Finish /\ disturbed' = disturbed
      /\ db' = [mem EXCEPT !.state = "broken"]
  BY DEF Break
<1>2. mem \in Package
  BY DEF IInv, TypeOK
<1>3. db' \in Package /\ FieldsMatchState(db')
  BY <1>1, <1>2 DEF Package, FieldsMatchState
<1>4. disturbed' \in {"no", "killed", "shared"}
  BY <1>1 DEF IInv, TypeOK
<1> QED
  BY <1>1, <1>3, <1>4, FinishInv

LEMMA StartType ==
    ASSUME IInv, NEW c \in Command, NEW step \in Pc, Start(c, step)
    PROVE  TypeOK'
<1>1. fs' \in [LocalPath -> Content]
  BY RemovedType DEF Start, IInv, TypeOK, FilesTyped
<1> QED
  BY <1>1 DEF Start, IInv, TypeOK, FieldsMatchState

\* A step in the middle of a command.
LEMMA StepType ==
    ASSUME IInv, NEW from, NEW to \in Pc, Step(from, to), FilesTyped',
           mem' \in Package \cup {NoPackage}, cmd' \in Command
    PROVE  TypeOK'
BY DEF Step, IInv, TypeOK, FilesTyped, FieldsMatchState

-----------------------------------------------------------------------------
LEMMA InitInv == Init => IInv
<1> SUFFICES ASSUME Init PROVE IInv
  OBVIOUS
<1>1. fs \in [LocalPath -> Content]
  BY DEF Init, Content
<1>2. TypeOK
  BY <1>1, NoCommandType, PathTypes DEF Init, TypeOK, Pc
<1>3. Running
  BY DEF Init, Running, Loaded
<1> QED
  BY <1>2, <1>3 DEF IInv

LEMMA UserInv == ASSUME IInv, User PROVE IInv'
<1>1. ASSUME NEW d \in UserDirs, PlaceDir(d) PROVE IInv'
  <2>1. d \in LocalPath
    BY LifecycleAssumption
  <2>2. TypeOK'
    BY <1>1, <2>1 DEF PlaceDir, IInv, TypeOK, Content, FieldsMatchState
  <2>3. Running'
    BY <1>1 DEF PlaceDir, IInv, Running, Loaded
  <2> QED
    BY <2>2, <2>3 DEF IInv
<1>2. ASSUME NEW p \in LocalPath, CleanUp(p) PROVE IInv'
  <2>1. fs' \in [LocalPath -> Content]
    BY <1>2, RemovedType DEF CleanUp, IInv, TypeOK, FilesTyped
  <2>2. TypeOK'
    BY <1>2, <2>1 DEF CleanUp, IInv, TypeOK, FieldsMatchState
  <2>3. Running'
    BY <1>2 DEF CleanUp, IInv, Running, Loaded
  <2> QED
    BY <2>2, <2>3 DEF IInv
<1> QED
  BY <1>1, <1>2 DEF User

LEMMA FetchStartInv ==
    ASSUME IInv, NEW v \in Version, NEW f \in BOOLEAN,
           StartFetchExisting(v, f) \/ StartFetch(v, f)
    PROVE  IInv'
<1>1. CASE StartFetchExisting(v, f)
  <2> DEFINE c == [NoCommand EXCEPT !.op = "fetch", !.version = v,
                                    !.archive = UserArchive(v), !.purge = f]
             step == IF Selected THEN "purge_src" ELSE "commit"
  <2>1. c \in Command
    BY NoCommandType, PathTypes DEF Command
  <2>2. c.op = "fetch" /\ c.archive = UserArchive(v)
    BY NoCommandType DEF Command
  <2>3. UserArchive(v) # NoPath
    BY PathTypes, LifecycleAssumption
  <2>4. Start(c, step) /\ MayReplace /\ step \in Pc
    BY <1>1 DEF StartFetchExisting, Pc
  <2> HIDE DEF c
  <2>5. TypeOK'
    BY <2>1, <2>4, StartType
  <2>6. Running'
    BY <2>2, <2>3, <2>4 DEF Start, Running, Asked, Loaded, MayReplace, Selected
  <2> QED
    BY <2>5, <2>6 DEF IInv
<1>2. CASE StartFetch(v, f)
  <2> DEFINE c == [NoCommand EXCEPT
                       !.op = "fetch", !.version = v,
                       !.archive = IF f THEN CacheArchive(v) ELSE CfgArchive(v),
                       !.purge = ~f]
             step == IF Selected /\ db.archive = CfgArchive(v)
                     THEN "stash" ELSE "get"
  <2>1. c \in Command
    BY NoCommandType, PathTypes DEF Command
  <2>2. c.op = "fetch" /\ c.archive # NoPath /\ ~c.stashed
    BY NoCommandType, PathTypes, LifecycleAssumption DEF Command, NoCommand
  <2>4. Start(c, step) /\ MayReplace /\ step \in Pc
    BY <1>2 DEF StartFetch, Pc
  <2>5. step \in {"stash", "get"} /\ (step = "stash" => Selected)
    OBVIOUS
  <2> HIDE DEF c, step
  <2>6. TypeOK'
    BY <2>1, <2>4, StartType
  <2>7. Running'
    BY <2>2, <2>4, <2>5 DEF Start, Running, Asked, Loaded, MayReplace, Selected
  <2> QED
    BY <2>6, <2>7 DEF IInv
<1> QED
  BY <1>1, <1>2

LEMMA FilesTypedNow == ASSUME IInv PROVE FilesTyped
BY DEF IInv, TypeOK, FilesTyped

LEMMA FetchStepInv ==
    ASSUME IInv,
           \/ StashArchive \/ StashArchiveFail
           \/ GetArchive \/ GetArchiveFail \/ CommitFetch
    PROVE  IInv'
<1> FilesTyped
  BY FilesTypedNow
<1>1. CASE StashArchive
  <2>1. FilesTyped'
    BY <1>1, PathTypes DEF StashArchive, FilesTyped, Content, IInv, TypeOK, Command
  <2>2. TypeOK'
    BY <1>1, <2>1, StepType DEF StashArchive, IInv, TypeOK, Command, Pc
  <2>3. cmd' = [cmd EXCEPT !.stashed = TRUE] /\ cmd \in Command
    BY <1>1 DEF StashArchive, IInv, TypeOK
  <2>4. /\ cmd'.op = cmd.op /\ cmd'.archive = cmd.archive
        /\ cmd'.src_root = cmd.src_root /\ cmd'.keep = cmd.keep
    BY <2>3 DEF Command
  <2>5. Running'
    BY <1>1, <2>4 DEF StashArchive, Step, IInv, Running, Asked, Loaded,
                      MayReplace, Selected
  <2> QED
    BY <2>2, <2>5 DEF IInv
<1>2. CASE StashArchiveFail
  BY <1>2, FailInv DEF StashArchiveFail, files, FilesTyped
<1>3. CASE GetArchive
  <2>1. FilesTyped'
    BY <1>3 DEF GetArchive, FilesTyped, Content
  <2>2. cmd' = [cmd EXCEPT !.armed = {cmd.archive} \cap LocalPath] /\ cmd \in Command
    BY <1>3 DEF GetArchive, IInv, TypeOK
  <2>3. /\ cmd' \in Command
        /\ cmd'.op = cmd.op /\ cmd'.archive = cmd.archive
        /\ cmd'.src_root = cmd.src_root /\ cmd'.keep = cmd.keep
    BY <2>2 DEF Command
  <2>4. TypeOK'
    BY <1>3, <2>1, <2>3, StepType DEF GetArchive, IInv, TypeOK, Pc
  <2>5. Running'
    BY <1>3, <2>3 DEF GetArchive, Step, IInv, Running, Asked, Loaded,
                      MayReplace, Selected
  <2> QED
    BY <2>4, <2>5 DEF IInv
<1>4. CASE GetArchiveFail
  <2>1. CASE Fail /\ Remove({Stash})
    BY <2>1, RemoveType, FailInv
  <2>2. CASE Fail /\ RestoreStash(CfgArchive(cmd.version))
    BY <2>2, RestoreStashType, FailInv
  <2>3. CASE StashRestorable /\ Break /\ Remove({Stash})
    <3>1. FilesTyped'
      BY <2>3, RemoveType
    <3>2. mem = db /\ pc = "get" /\ cmd \in Command
      BY <1>4 DEF GetArchiveFail, IInv, Running, Loaded, TypeOK
    <3>3. mem # NoPackage
      BY <2>3, <3>2 DEF StashRestorable, IInv, Running, Selected
    <3>4. FieldsMatchState(mem)
      BY <3>2, <3>3 DEF IInv, TypeOK
    <3> QED
      BY <2>3, <3>1, <3>3, <3>4, BreakInv DEF FieldsMatchState
  <2> QED
    BY <1>4, <2>1, <2>2, <2>3 DEF GetArchiveFail
<1>5. CASE CommitFetch
  <2>1. FilesTyped'
    BY <1>5, RemovedType, OwnType DEF CommitFetch, FilesTyped, IInv, TypeOK, Command
  <2>2. /\ cmd \in Command /\ mem \in Package \cup {NoPackage}
        /\ cmd.archive # NoPath
    BY <1>5 DEF CommitFetch, IInv, TypeOK, Running, Asked
  <2>3. mem # NoPackage => SourcePurged
    BY <1>5 DEF CommitFetch, IInv, Running, Selected
  <2>4. Base \in Package /\ Base.src_root = NoPath /\ ~Base.purge_src /\ Base.out_root = NoPath
    BY <2>2, <2>3 DEF Base, Package, Command, SourcePurged
  <2>5. db' \in Package /\ FieldsMatchState(db')
    BY <1>5, <2>2, <2>4 DEF CommitFetch, FieldsMatchState, Package, Command
  <2> QED
    BY <1>5, <2>1, <2>5, FinishInv DEF CommitFetch, IInv, TypeOK
<1> QED
  BY <1>1, <1>2, <1>3, <1>4, <1>5

-----------------------------------------------------------------------------
LEMMA BreakPurgeInv ==
    ASSUME IInv, BreakPurge, mem # NoPackage,
           mem.purge_src => mem.src_root # NoPath,
           mem.purge_archive => mem.archive # NoPath
    PROVE  IInv'
<1>1. FilesTyped'
  BY FilesTypedNow, RemoveType, RestoreStashType DEF BreakPurge
<1> QED
  BY <1>1, BreakInv DEF BreakPurge

LEMMA PurgeFsInv == ASSUME IInv, PurgeFs PROVE IInv'
<1> FilesTyped
  BY FilesTypedNow
<1>1. CASE PurgeSrc
  <2>1. FilesTyped'
    BY <1>1, RemoveType DEF PurgeSrc
  <2>2. mem = db /\ mem # NoPackage /\ mem \in Package /\ FieldsMatchState(mem)
    BY <1>1 DEF PurgeSrc, Step, IInv, Running, Loaded, TypeOK, Selected
  <2>3. mem.state \in {"fetched", "unpacked"}
    BY <1>1, <2>2 DEF PurgeSrc, Step, IInv, Running, Asked, MayReplace, Selected
  <2>4. mem' = [mem EXCEPT !.src_root = NoPath, !.purge_src = FALSE]
    BY <1>1 DEF PurgeSrc
  <2>5. /\ mem' \in Package
        /\ mem'.src_root = NoPath /\ ~mem'.purge_src
        /\ mem'.out_root = mem.out_root
        /\ mem'.archive = mem.archive /\ mem'.purge_archive = mem.purge_archive
    BY <2>2, <2>4 DEF Package
  <2>6. SourcePurged'
    BY <2>2, <2>3, <2>5 DEF SourcePurged, FieldsMatchState
  <2>7. mem' # NoPackage
    BY <2>5, LifecycleAssumption
  <2>8. TypeOK'
    BY <1>1, <2>1, <2>5, StepType DEF PurgeSrc, IInv, TypeOK, Pc
  <2>9. Running'
    BY <1>1, <2>2, <2>5, <2>6, <2>7
    DEF PurgeSrc, Step, IInv, Running, Asked, Loaded, MayReplace, Selected
  <2> QED
    BY <2>8, <2>9 DEF IInv
<1>2. CASE PurgeSrcFail
  <2>1. mem = db /\ mem # NoPackage /\ FieldsMatchState(mem)
    BY <1>2 DEF PurgeSrcFail, IInv, Running, Loaded, TypeOK, Selected
  <2> QED
    BY <1>2, <2>1, BreakPurgeInv DEF PurgeSrcFail, FieldsMatchState
<1>3. CASE PurgeArchive
  <2>1. FilesTyped'
    BY <1>3, RemoveType DEF PurgeArchive
  <2>2. mem # NoPackage /\ mem \in Package /\ SourcePurged
    BY <1>3 DEF PurgeArchive, Step, IInv, Running, TypeOK, Selected
  <2>3. mem' = IF PurgesArchive
               THEN [mem EXCEPT !.archive = NoPath, !.purge_archive = FALSE]
               ELSE mem
    BY <1>3 DEF PurgeArchive
  <2>4. /\ mem' \in Package
        /\ mem'.src_root = mem.src_root /\ mem'.purge_src = mem.purge_src
        /\ mem'.out_root = mem.out_root
    BY <2>2, <2>3 DEF Package
  <2>5. /\ mem'.purge_archive => mem'.archive # NoPath
        /\ cmd.keep => mem'.archive = mem.archive
        /\ cmd.op = "select" /\ ~cmd.keep => mem'.archive = NoPath
    BY <2>2, <2>3 DEF Package, PurgesArchive, SourcePurged
  <2>6. mem' # NoPackage
    BY <2>4, LifecycleAssumption
  <2>7. TypeOK'
    BY <1>3, <2>1, <2>4, StepType DEF PurgeArchive, IInv, TypeOK, Pc
  <2>8. SourcePurged'
    BY <2>2, <2>4, <2>5 DEF SourcePurged
  <2>9. Running'
    BY <1>3, <2>2, <2>4, <2>5, <2>6, <2>8
    DEF PurgeArchive, Step, IInv, Running, Asked, Loaded, MayReplace, Selected
  <2> QED
    BY <2>7, <2>9 DEF IInv
<1>4. CASE PurgeArchiveFail
  <2>1. mem # NoPackage /\ SourcePurged
    BY <1>4 DEF PurgeArchiveFail, IInv, Running, Selected
  <2> QED
    BY <1>4, <2>1, BreakPurgeInv DEF PurgeArchiveFail, SourcePurged
<1> QED
  BY <1>1, <1>2, <1>3, <1>4 DEF PurgeFs

-----------------------------------------------------------------------------
LEMMA SelectStartInv ==
    ASSUME IInv, NEW d \in UserDirs, NEW v \in Version, NEW f \in BOOLEAN,
           StartSelect(d, v, f)
    PROVE  IInv'
<1> DEFINE c == [NoCommand EXCEPT !.op = "select", !.version = v,
                                  !.src_root = d, !.purge = f]
           step == IF Selected THEN "purge_src" ELSE "commit"
<1>1. d \in Dir /\ d # NoPath
  BY LifecycleAssumption
<1>2. c \in Command
  BY <1>1, NoCommandType DEF Command
<1>3. c.op = "select" /\ c.src_root = d /\ ~c.keep
  BY NoCommandType DEF Command, NoCommand
<1>4. Start(c, step) /\ MayReplace /\ step \in Pc
  BY DEF StartSelect, Pc
<1> HIDE DEF c
<1>5. TypeOK'
  BY <1>2, <1>4, StartType
<1>6. Running'
  BY <1>1, <1>3, <1>4 DEF Start, Running, Asked, Loaded, MayReplace, Selected
<1> QED
  BY <1>5, <1>6 DEF IInv

LEMMA UnpackStartInv ==
    ASSUME IInv, StartUnpack \/ StartUnpackShared PROVE IInv'
<1>1. db \in Package /\ db.version \in Version /\ db.state = "fetched" /\ Selected
  BY DEF StartUnpack, StartUnpackShared, IInv, TypeOK, Selected, Package
<1>2. /\ CfgDir(db.version) # NoPath /\ CacheDir(db.version) # NoPath
      /\ CfgDir(db.version) \in Dir /\ CacheDir(db.version) \in Dir
      /\ CfgDir(db.version) \in LocalPath
  BY <1>1, PathTypes, LifecycleAssumption
<1>3. CASE StartUnpack
  <2> DEFINE c == [NoCommand EXCEPT !.op = "unpack", !.version = db.version,
                       !.src_root = CfgDir(db.version), !.purge = TRUE]
  <2>1. c \in Command
    BY <1>1, <1>2, NoCommandType DEF Command
  <2>2. c.op = "unpack" /\ c.src_root = CfgDir(db.version)
    BY NoCommandType DEF Command
  <2>3. Start(c, "extract") /\ "extract" \in Pc
    BY <1>3 DEF StartUnpack, Pc
  <2> HIDE DEF c
  <2>4. TypeOK'
    BY <2>1, <2>3, StartType
  <2>5. Running'
    BY <1>1, <1>2, <2>2, <2>3 DEF Start, Running, Asked, Loaded, Selected
  <2> QED
    BY <2>4, <2>5 DEF IInv
<1>4. CASE StartUnpackShared
  <2> DEFINE c == [NoCommand EXCEPT !.op = "unpack", !.version = db.version,
                                    !.src_root = CacheDir(db.version)]
  <2>1. c \in Command
    BY <1>1, <1>2, NoCommandType DEF Command
  <2>2. c.op = "unpack" /\ c.src_root = CacheDir(db.version)
    BY NoCommandType DEF Command
  <2>3. Start(c, "commit") /\ "commit" \in Pc
    BY <1>4 DEF StartUnpackShared, Pc
  <2> HIDE DEF c
  <2>4. TypeOK'
    BY <2>1, <2>3, StartType
  <2>5. Running'
    BY <1>1, <1>2, <2>2, <2>3 DEF Start, Running, Asked, Loaded, Selected
  <2> QED
    BY <2>4, <2>5 DEF IInv
<1> QED
  BY <1>3, <1>4

LEMMA UnpackStepInv ==
    ASSUME IInv, Extract \/ ExtractFail \/ CommitSelect \/ CommitUnpack
    PROVE  IInv'
<1> FilesTyped
  BY FilesTypedNow
<1>0. cmd \in Command /\ mem \in Package \cup {NoPackage}
  BY DEF IInv, TypeOK
<1>1. CASE Extract
  <2>1. cmd.src_root \in LocalPath
    BY <1>1 DEF Extract, Step, IInv, Running
  <2>2. FilesTyped'
    BY <1>1, <2>1 DEF Extract, FilesTyped, Content
  <2>3. cmd' = [cmd EXCEPT !.armed = {cmd.src_root}]
    BY <1>1 DEF Extract
  <2>4. /\ cmd' \in Command
        /\ cmd'.op = cmd.op /\ cmd'.archive = cmd.archive
        /\ cmd'.src_root = cmd.src_root /\ cmd'.keep = cmd.keep
    BY <1>0, <2>1, <2>3 DEF Command
  <2>5. TypeOK'
    BY <1>0, <1>1, <2>2, <2>4, StepType DEF Extract, Pc
  <2>6. Running'
    BY <1>1, <2>4 DEF Extract, Step, IInv, Running, Asked, Loaded, Selected
  <2> QED
    BY <2>5, <2>6 DEF IInv
<1>2. CASE ExtractFail
  BY <1>2, RemoveType, FailInv DEF ExtractFail
<1>3. CASE CommitSelect
  <2>1. FilesTyped'
    BY <1>0, <1>3, OwnType DEF CommitSelect, FilesTyped, Command
  <2>2. cmd.src_root # NoPath
    BY <1>3 DEF CommitSelect, IInv, Running, Asked
  <2>3. mem # NoPackage => SourcePurged /\ mem.archive = NoPath
    BY <1>3 DEF CommitSelect, IInv, Running, Selected
  <2>4. /\ Base \in Package /\ Base.archive = NoPath
        /\ ~Base.purge_archive /\ Base.out_root = NoPath
    BY <1>0, <2>3 DEF Base, Package, Command, SourcePurged
  <2>5. db' \in Package /\ FieldsMatchState(db')
    BY <1>0, <1>3, <2>2, <2>4 DEF CommitSelect, FieldsMatchState, Package, Command
  <2> QED
    BY <1>3, <2>1, <2>5, FinishInv DEF CommitSelect, IInv, TypeOK
<1>4. CASE CommitUnpack
  <2>1. FilesTyped'
    BY <1>4 DEF CommitUnpack, FilesTyped
  <2>2. /\ cmd.src_root # NoPath /\ mem = db
        /\ mem # NoPackage /\ mem \in Package /\ db.state = "fetched"
    BY <1>4 DEF CommitUnpack, IInv, TypeOK, Running, Asked, Selected
  <2>3. FieldsMatchState(mem) /\ mem.state = "fetched"
    BY <2>2 DEF IInv, TypeOK
  <2>4. db' \in Package /\ FieldsMatchState(db')
    BY <1>0, <1>4, <2>2, <2>3 DEF CommitUnpack, FieldsMatchState, Package, Command
  <2> QED
    BY <1>4, <2>1, <2>4, FinishInv DEF CommitUnpack, IInv, TypeOK
<1> QED
  BY <1>1, <1>2, <1>3, <1>4

-----------------------------------------------------------------------------
\* A system package has none of the fields, and removing it leaves nothing.
LEMMA SystemInv ==
    ASSUME IInv, (\E v \in Version : ConfigureSystem(v)) \/ DisfigureSystem
    PROVE  IInv'
<1>1. /\ pc = "idle" /\ pc' = "idle"
      /\ UNCHANGED <<mem, cmd, fs, conf, precious, made, disturbed>>
  BY DEF ConfigureSystem, DisfigureSystem
<1>2. /\ db' \in Package \cup {NoPackage}
      /\ db' # NoPackage => FieldsMatchState(db')
  <2>1. ASSUME NEW v \in Version, ConfigureSystem(v)
        PROVE  db' \in Package /\ FieldsMatchState(db')
    <3>1. db' = [state |-> "system", version |-> v,
                 archive |-> NoPath, purge_archive |-> FALSE,
                 src_root |-> NoPath, purge_src |-> FALSE, out_root |-> NoPath]
      BY <2>1 DEF ConfigureSystem
    <3>2. db' \in Package
      BY <3>1 DEF Package
    <3>3. FieldsMatchState(db')
      BY <3>1 DEF FieldsMatchState
    <3> QED
      BY <3>2, <3>3
  <2>2. CASE DisfigureSystem
    BY <2>2 DEF DisfigureSystem
  <2> QED
    BY <2>1, <2>2
<1>3. TypeOK'
  BY <1>1, <1>2 DEF IInv, TypeOK, FieldsMatchState
<1>4. Running'
  BY <1>1 DEF Running, Loaded
<1> QED
  BY <1>3, <1>4 DEF IInv

LEMMA ConfigureInv ==
    ASSUME IInv,
           StartConfigure \/ Configure \/ ConfigureFail \/ CommitConfigure
    PROVE  IInv'
<1> FilesTyped
  BY FilesTypedNow
<1>1. CASE StartConfigure
  <2> DEFINE c == [NoCommand EXCEPT !.op = "configure", !.version = db.version]
  <2>1. db \in Package /\ db.version \in Version /\ db.state = "unpacked" /\ Selected
    BY <1>1 DEF StartConfigure, IInv, TypeOK, Selected, Package
  <2>2. c \in Command /\ c.op = "configure"
    BY <2>1, NoCommandType DEF Command
  <2>3. Start(c, "build") /\ "build" \in Pc
    BY <1>1 DEF StartConfigure, Pc
  <2> HIDE DEF c
  <2>4. TypeOK'
    BY <2>2, <2>3, StartType
  <2>5. Running'
    BY <2>1, <2>2, <2>3 DEF Start, Running, Asked, Loaded, Selected
  <2> QED
    BY <2>4, <2>5 DEF IInv
<1>2. ASSUME pc = "build"
      PROVE  /\ mem = db /\ mem # NoPackage /\ mem \in Package
             /\ cmd \in Command /\ cmd.op = "configure"
             /\ db.state = "unpacked" /\ FieldsMatchState(mem)
             /\ OutRoot(mem) \in Dir /\ OutRoot(mem) \in LocalPath
  BY <1>2, OutRootType DEF IInv, TypeOK, Running, Asked, Loaded, Selected
<1>3. CASE Configure
  <2>1. pc = "build"
    BY <1>3 DEF Configure, Step
  <2>2. FilesTyped'
    BY <1>2, <1>3, <2>1, MakeOutputType DEF Configure, FilesTyped
  <2>3. TypeOK'
    BY <1>2, <1>3, <2>1, <2>2, StepType DEF Configure, Pc
  <2>4. Running'
    BY <1>2, <1>3, <2>1 DEF Configure, Step, IInv, Running, Asked, Loaded, Selected
  <2> QED
    BY <2>3, <2>4 DEF IInv
<1>4. CASE ConfigureFail
  <2>1. CASE pc = "build" /\ Fail /\ UNCHANGED files
    BY <2>1, FailInv DEF files, FilesTyped
  <2>2. CASE ~(Fail /\ UNCHANGED files)
    <3>1. pc = "build" /\ Step("build", "clean")
      BY <1>4, <2>2 DEF ConfigureFail, Step
    <3>2. /\ mem' = [mem EXCEPT !.state = "broken", !.out_root = OutRoot(mem)]
          /\ cmd' = [cmd EXCEPT !.op = "disfigure"]
      BY <1>4, <2>2 DEF ConfigureFail
    <3>3. FilesTyped'
      BY <1>2, <1>4, <2>2, <3>1, MakeOutputType DEF ConfigureFail, FilesTyped, files
    <3>4. /\ mem' \in Package
          /\ mem'.src_root = mem.src_root /\ mem'.archive = mem.archive
          /\ mem'.purge_archive = mem.purge_archive
      BY <1>2, <3>1, <3>2 DEF Package
    <3>5. cmd' \in Command /\ cmd'.op = "disfigure"
      BY <1>2, <3>1, <3>2 DEF Command
    <3>6. mem' # NoPackage
      BY <3>4, LifecycleAssumption
    <3>7. TypeOK'
      BY <3>1, <3>3, <3>4, <3>5, StepType DEF Pc
    <3>8. Running'
      BY <1>2, <3>1, <3>4, <3>5, <3>6
      DEF Step, Running, Asked, Loaded, Selected, FieldsMatchState
    <3> QED
      BY <3>7, <3>8 DEF IInv
  <2> QED
    BY <1>4, <2>1, <2>2 DEF ConfigureFail, Step
<1>5. CASE CommitConfigure
  <2>1. FilesTyped'
    BY <1>5 DEF CommitConfigure, FilesTyped
  <2>2. mem = db /\ mem # NoPackage /\ mem \in Package /\ db.state = "unpacked"
    BY <1>5 DEF CommitConfigure, IInv, TypeOK, Running, Asked, Selected
  <2>3. FieldsMatchState(mem) /\ OutRoot(mem) \in Dir /\ OutRoot(mem) # NoPath
    BY <2>2, OutRootType, LifecycleAssumption DEF IInv, TypeOK
  <2>4. db' = [mem EXCEPT !.state = "configured", !.out_root = OutRoot(mem)]
    BY <1>5 DEF CommitConfigure
  <2>5. db' \in Package /\ FieldsMatchState(db')
    BY <2>2, <2>3, <2>4 DEF FieldsMatchState, Package
  <2> QED
    BY <1>5, <2>1, <2>5, FinishInv DEF CommitConfigure, IInv, TypeOK
<1> QED
  BY <1>1, <1>3, <1>4, <1>5

LEMMA DisfigureInv ==
    ASSUME IInv,
           \/ \E c, f \in BOOLEAN : StartDisfigure(c, f)
           \/ CleanSkip \/ Clean \/ CleanFail \/ CommitDisfigure
    PROVE  IInv'
<1> FilesTyped
  BY FilesTypedNow
<1>1. ASSUME NEW e \in BOOLEAN, NEW f \in BOOLEAN, StartDisfigure(e, f)
      PROVE  IInv'
  <2> DEFINE c == [NoCommand EXCEPT !.op = "disfigure", !.version = db.version,
                                    !.clean = e, !.disfigure = f]
  <2>1. /\ db \in Package /\ db.version \in Version /\ Selected
        /\ db.state = "configured" /\ FieldsMatchState(db)
    BY <1>1 DEF StartDisfigure, IInv, TypeOK, Selected, Package
  <2>2. c \in Command /\ c.op = "disfigure"
    BY <2>1, NoCommandType DEF Command
  <2>3. Start(c, "clean") /\ "clean" \in Pc
    BY <1>1 DEF StartDisfigure, Pc
  <2> HIDE DEF c
  <2>4. TypeOK'
    BY <2>2, <2>3, StartType
  <2>5. Running'
    BY <2>1, <2>2, <2>3
    DEF Start, Running, Asked, Loaded, Selected, FieldsMatchState
  <2> QED
    BY <2>4, <2>5 DEF IInv
<1>2. CASE CleanSkip \/ Clean
  <2>1. /\ Step("clean", "commit") /\ UNCHANGED <<mem, cmd>>
        /\ FilesTyped'
    BY <1>2, RemoveType DEF CleanSkip, Clean, FilesTyped
  <2>2. TypeOK'
    BY <2>1, StepType DEF IInv, TypeOK, Pc
  <2>3. Running'
    BY <2>1 DEF Step, IInv, Running, Asked, Loaded, Selected
  <2> QED
    BY <2>2, <2>3 DEF IInv
<1>3. CASE CleanFail
  <2>1. FilesTyped'
    BY <1>3 DEF CleanFail, FilesTyped
  <2>2. /\ Break /\ mem # NoPackage /\ mem.src_root # NoPath
        /\ mem.purge_archive => mem.archive # NoPath
    BY <1>3 DEF CleanFail, IInv, Running, Asked, Selected
  <2> QED
    BY <2>1, <2>2, BreakInv
<1>4. CASE CommitDisfigure
  <2>1. FilesTyped'
    BY <1>4 DEF CommitDisfigure, FilesTyped
  <2>2. /\ mem # NoPackage /\ mem \in Package /\ mem.src_root # NoPath
        /\ mem.purge_archive => mem.archive # NoPath
    BY <1>4 DEF CommitDisfigure, IInv, TypeOK, Running, Asked, Selected
  <2>3. db' = [mem EXCEPT !.state = "unpacked", !.out_root = NoPath]
    BY <1>4 DEF CommitDisfigure
  <2>4. db' \in Package /\ FieldsMatchState(db')
    BY <2>2, <2>3 DEF FieldsMatchState, Package
  <2> QED
    BY <1>4, <2>1, <2>4, FinishInv DEF CommitDisfigure, IInv, TypeOK
<1> QED
  BY <1>1, <1>2, <1>3, <1>4

LEMMA PurgeInv == ASSUME IInv, Purge PROVE IInv'
<1> FilesTyped
  BY FilesTypedNow
<1>1. ASSUME NEW k \in BOOLEAN, StartPurge(k) PROVE IInv'
  <2> DEFINE c == [NoCommand EXCEPT !.op = "purge", !.version = db.version,
                                    !.keep = k]
  <2>1. /\ db \in Package /\ db.version \in Version /\ Selected
        /\ db.state \in {"fetched", "unpacked"} /\ (k => db.archive # NoPath)
    BY <1>1 DEF StartPurge, IInv, TypeOK, Selected, Package
  <2>2. c \in Command /\ c.op = "purge" /\ c.keep = k
    BY <2>1, NoCommandType DEF Command
  <2>3. Start(c, "purge_src") /\ "purge_src" \in Pc
    BY <1>1 DEF StartPurge, Pc
  <2> HIDE DEF c
  <2>4. TypeOK'
    BY <2>2, <2>3, StartType
  <2>5. Running'
    BY <2>1, <2>2, <2>3 DEF Start, Running, Asked, Loaded, Selected
  <2> QED
    BY <2>4, <2>5 DEF IInv
<1>2. CASE CommitPurge
  <2>1. FilesTyped'
    BY <1>2 DEF CommitPurge, FilesTyped
  <2>2. /\ mem # NoPackage /\ mem \in Package /\ SourcePurged
        /\ cmd.keep => mem.archive # NoPath
    BY <1>2 DEF CommitPurge, IInv, TypeOK, Running, Asked, Selected
  <2>3. db' = IF cmd.keep THEN [mem EXCEPT !.state = "fetched"] ELSE NoPackage
    BY <1>2 DEF CommitPurge
  <2>4. /\ db' \in Package \cup {NoPackage}
        /\ db' # NoPackage => FieldsMatchState(db')
    BY <2>2, <2>3 DEF FieldsMatchState, Package, SourcePurged
  <2> QED
    BY <1>2, <2>1, <2>4, FinishInv DEF CommitPurge, IInv, TypeOK
<1>3. CASE PurgeBroken
  <2>1. TypeOK'
    BY <1>3 DEF PurgeBroken, IInv, TypeOK
  <2>2. Running'
    BY <1>3 DEF PurgeBroken, Running, Loaded
  <2> QED
    BY <2>1, <2>2 DEF IInv
<1> QED
  BY <1>1, <1>2, <1>3 DEF Purge

LEMMA WorldInv == ASSUME IInv, Crash \/ StartAnother PROVE IInv'
<1> FilesTyped
  BY FilesTypedNow
<1>1. CASE Crash
  <2>1. FilesTyped'
    BY <1>1 DEF Crash, FilesTyped
  <2>2. /\ db' \in Package \cup {NoPackage}
        /\ db' # NoPackage => FieldsMatchState(db')
        /\ disturbed' \in {"no", "killed", "shared"}
    BY <1>1 DEF Crash, IInv, TypeOK
  <2> QED
    BY <1>1, <2>1, <2>2, FinishInv DEF Crash
<1>2. CASE StartAnother
  <2>1. fs' \in [LocalPath -> Content]
    BY <1>2, RemovedType DEF StartAnother
  <2>2. TypeOK'
    BY <1>2, <2>1 DEF StartAnother, IInv, TypeOK, FieldsMatchState
  <2>3. Running'
    BY <1>2 DEF StartAnother, IInv, Running, Asked, Loaded, MayReplace,
                Selected, SourcePurged
  <2> QED
    BY <2>2, <2>3 DEF IInv
<1> QED
  BY <1>1, <1>2

LEMMA StutterInv == ASSUME IInv, UNCHANGED vars PROVE IInv'
BY DEF IInv, TypeOK, Running, Asked, Loaded, MayReplace, Selected,
       SourcePurged, FieldsMatchState, vars

LEMMA NextInv == IInv /\ [Next]_vars => IInv'
<1> SUFFICES ASSUME IInv, [Next]_vars PROVE IInv'
  OBVIOUS
<1>1. CASE User
  BY <1>1, UserInv
<1>2. CASE Fetch
  BY <1>2, FetchStartInv, FetchStepInv DEF Fetch
<1>3. CASE Unpack
  BY <1>3, SelectStartInv, UnpackStartInv, UnpackStepInv DEF Unpack
<1>4. CASE PurgeFs
  BY <1>4, PurgeFsInv
<1>5. CASE ConfigureDisfigure
  BY <1>5, SystemInv, ConfigureInv, DisfigureInv DEF ConfigureDisfigure
<1>6. CASE Purge
  BY <1>6, PurgeInv
<1>7. CASE Crash \/ StartAnother
  BY <1>7, WorldInv
<1>8. CASE UNCHANGED vars
  BY <1>8, StutterInv
<1> QED
  BY <1>1, <1>2, <1>3, <1>4, <1>5, <1>6, <1>7, <1>8 DEF Next

\* The inductive invariant holds: whichever command fails or is killed, the
\* next one finds an object it can work on.
THEOREM Invariance == Spec => []IInv
<1>1. Init => IInv
  BY InitInv
<1>2. IInv /\ [Next]_vars => IInv'
  BY NextInv
<1> QED
  BY <1>1, <1>2, PTL DEF Spec

\* The committed object always has the fields its state promises (the asserts
\* on archive, src_root and out_root throughout bpkg/pkg-*.cxx), whatever the
\* versions and wherever the user keeps directories.
THEOREM TypeCorrect == Spec => []TypeOK
<1>1. IInv => TypeOK
  BY DEF IInv
<1> QED
  BY <1>1, Invariance, PTL

-----------------------------------------------------------------------------
(* The refinement of PackageStates.                                        *)

\* The changes of state PackageStates allows, with its actions expanded.
Moves(s, t) ==
    \/ s \in {"transient", "fetched", "unpacked"} /\ t \in {"fetched", "unpacked"}
    \/ s = "unpacked" /\ t = "configured"
    \/ s = "transient" /\ t = "system"
    \/ s = "configured" /\ t = "unpacked"
    \/ s \in {"fetched", "unpacked", "broken", "system"} /\ t = "transient"
    \/ s \in {"fetched", "unpacked", "configured"} /\ t = "broken"
    \/ s = t

LEMMA MovesAreSteps == Moves(State, State') => [States!Next]_State
BY DEF Moves, States!Next, States!Fetch, States!Unpack, States!Configure,
       States!Disfigure, States!Purge, States!Break

LEMMA SameState == ASSUME UNCHANGED db PROVE Moves(State, State')
BY DEF Moves, State, Selected

\* A command that commits an object.
LEMMA CommitMoves ==
    ASSUME IInv, NEW t, Moves(State, t), db' \in Package, db'.state = t
    PROVE  Moves(State, State')
BY LifecycleAssumption DEF State, Selected

LEMMA BreakMoves ==
    ASSUME IInv, Break, Selected, mem # NoPackage,
           db.state \in {"fetched", "unpacked", "configured"}
    PROVE  Moves(State, State')
<1>1. mem \in Package /\ db' = [mem EXCEPT !.state = "broken"]
  BY DEF Break, IInv, TypeOK
<1>2. db' \in Package /\ db'.state = "broken"
  BY <1>1 DEF Package
<1>3. Moves(State, "broken")
  BY DEF Moves, State
<1> QED
  BY <1>2, <1>3, CommitMoves

LEMMA FetchMoves == ASSUME IInv, Fetch PROVE Moves(State, State')
<1>1. CASE \/ \E v \in Version, f \in BOOLEAN :
                 StartFetchExisting(v, f) \/ StartFetch(v, f)
           \/ StashArchive \/ StashArchiveFail \/ GetArchive
  <2>1. UNCHANGED db
    BY <1>1 DEF StartFetchExisting, StartFetch, Start, StashArchive, Step,
                StashArchiveFail, Fail, GetArchive
  <2> QED
    BY <2>1, SameState
<1>2. CASE GetArchiveFail
  <2>1. CASE Fail
    BY <2>1, SameState DEF Fail
  <2>2. CASE StashRestorable /\ Break
    <3>1. Selected /\ mem = db /\ db.state \in {"fetched", "unpacked"}
      BY <1>2, <2>2 DEF GetArchiveFail, StashRestorable, IInv, Running, Loaded,
                        Asked, MayReplace
    <3> QED
      BY <2>2, <3>1, BreakMoves DEF Selected
  <2> QED
    BY <1>2, <2>1, <2>2 DEF GetArchiveFail
<1>3. CASE CommitFetch
  <2>1. MayReplace /\ Moves(State, "fetched")
    BY <1>3 DEF CommitFetch, IInv, Running, Asked, MayReplace, Moves, State
  <2>2. /\ cmd \in Command /\ mem \in Package \cup {NoPackage}
        /\ db' = [Base EXCEPT !.state = "fetched", !.archive = cmd.archive,
                              !.purge_archive = cmd.purge]
    BY <1>3 DEF CommitFetch, IInv, TypeOK
  <2>3. Base \in Package
    BY <2>2 DEF Base, Package, Command
  <2>4. db' \in Package /\ db'.state = "fetched"
    BY <2>2, <2>3 DEF Package, Command
  <2> QED
    BY <2>1, <2>4, CommitMoves
<1> QED
  BY <1>1, <1>2, <1>3 DEF Fetch

LEMMA UnpackMoves == ASSUME IInv, Unpack PROVE Moves(State, State')
<1>0. cmd \in Command /\ mem \in Package \cup {NoPackage}
  BY DEF IInv, TypeOK
<1>1. CASE \/ \E d \in UserDirs, v \in Version, f \in BOOLEAN : StartSelect(d, v, f)
           \/ StartUnpack \/ StartUnpackShared \/ Extract \/ ExtractFail
  <2>1. UNCHANGED db
    BY <1>1 DEF StartSelect, StartUnpack, StartUnpackShared, Start, Extract,
                Step, ExtractFail, Fail
  <2> QED
    BY <2>1, SameState
<1>2. CASE CommitSelect
  <2>1. MayReplace /\ Moves(State, "unpacked")
    BY <1>2 DEF CommitSelect, IInv, Running, Asked, MayReplace, Moves, State
  <2>2. db' = [Base EXCEPT !.state = "unpacked", !.src_root = cmd.src_root,
                           !.purge_src = cmd.purge]
    BY <1>2 DEF CommitSelect
  <2>3. Base \in Package
    BY <1>0 DEF Base, Package, Command
  <2>4. db' \in Package /\ db'.state = "unpacked"
    BY <1>0, <2>2, <2>3 DEF Package, Command
  <2> QED
    BY <2>1, <2>4, CommitMoves
<1>3. CASE CommitUnpack
  <2>1. Selected /\ db.state = "fetched" /\ mem = db
    BY <1>3 DEF CommitUnpack, IInv, Running, Asked
  <2>2. Moves(State, "unpacked") /\ mem \in Package
    BY <1>0, <2>1 DEF Moves, State, Selected
  <2>3. db' = [mem EXCEPT !.state = "unpacked", !.src_root = cmd.src_root,
                          !.purge_src = cmd.purge]
    BY <1>3 DEF CommitUnpack
  <2>4. db' \in Package /\ db'.state = "unpacked"
    BY <1>0, <2>2, <2>3 DEF Package, Command
  <2> QED
    BY <2>2, <2>4, CommitMoves
<1> QED
  BY <1>1, <1>2, <1>3 DEF Unpack

LEMMA PurgeFsMoves == ASSUME IInv, PurgeFs PROVE Moves(State, State')
<1>1. CASE PurgeSrc \/ PurgeArchive
  BY <1>1, SameState DEF PurgeSrc, PurgeArchive, Step
<1>2. CASE PurgeSrcFail \/ PurgeArchiveFail
  <2>1. Break /\ Selected /\ mem # NoPackage
    BY <1>2 DEF PurgeSrcFail, PurgeArchiveFail, BreakPurge, IInv, Running, Selected
  <2>2. db.state \in {"fetched", "unpacked"}
    BY <1>2 DEF PurgeSrcFail, PurgeArchiveFail, IInv, Running, Asked,
                MayReplace, Selected
  <2> QED
    BY <2>1, <2>2, BreakMoves
<1> QED
  BY <1>1, <1>2 DEF PurgeFs

LEMMA ConfigureDisfigureMoves ==
    ASSUME IInv, ConfigureDisfigure PROVE Moves(State, State')
<1>0. cmd \in Command /\ mem \in Package \cup {NoPackage}
  BY DEF IInv, TypeOK
<1>1. CASE \/ StartConfigure \/ Configure \/ ConfigureFail
           \/ \E c, f \in BOOLEAN : StartDisfigure(c, f)
           \/ CleanSkip \/ Clean
  <2>1. UNCHANGED db
    BY <1>1 DEF StartConfigure, Start, Configure, Step, ConfigureFail, Fail,
                StartDisfigure, CleanSkip, Clean
  <2> QED
    BY <2>1, SameState
<1>2. CASE CommitConfigure
  <2>1. Selected /\ db.state = "unpacked" /\ mem = db
    BY <1>2 DEF CommitConfigure, IInv, Running, Asked
  <2>2. Moves(State, "configured") /\ mem \in Package
    BY <1>0, <2>1 DEF Moves, State, Selected
  <2>3. db' = [mem EXCEPT !.state = "configured", !.out_root = OutRoot(mem)]
    BY <1>2 DEF CommitConfigure
  <2>4. db' \in Package /\ db'.state = "configured"
    BY <2>2, <2>3, OutRootType DEF Package
  <2> QED
    BY <2>2, <2>4, CommitMoves
<1>3. ASSUME NEW v \in Version, ConfigureSystem(v) PROVE Moves(State, State')
  <2>1. Moves(State, "system")
    BY <1>3 DEF ConfigureSystem, Moves, State
  <2>2. db' = [state |-> "system", version |-> v,
               archive |-> NoPath, purge_archive |-> FALSE,
               src_root |-> NoPath, purge_src |-> FALSE, out_root |-> NoPath]
    BY <1>3 DEF ConfigureSystem
  <2>3. db' \in Package /\ db'.state = "system"
    BY <2>2 DEF Package
  <2> QED
    BY <2>1, <2>3, CommitMoves
<1>4. CASE DisfigureSystem
  BY <1>4 DEF DisfigureSystem, Moves, State, Selected
<1>5. CASE CleanFail
  <2>1. Break /\ Selected /\ mem # NoPackage
    BY <1>5 DEF CleanFail, IInv, Running, Asked, Selected
  <2>2. db.state \in {"configured", "unpacked"}
    BY <1>5 DEF CleanFail, IInv, Running, Asked
  <2> QED
    BY <2>1, <2>2, BreakMoves
<1>6. CASE CommitDisfigure
  <2>1. /\ Selected /\ db.state \in {"configured", "unpacked"}
        /\ mem # NoPackage
    BY <1>6 DEF CommitDisfigure, IInv, Running, Asked, Selected
  <2>2. Moves(State, "unpacked") /\ mem \in Package
    BY <1>0, <2>1 DEF Moves, State, Selected
  <2>3. db' = [mem EXCEPT !.state = "unpacked", !.out_root = NoPath]
    BY <1>6 DEF CommitDisfigure
  <2>4. db' \in Package /\ db'.state = "unpacked"
    BY <2>2, <2>3 DEF Package
  <2> QED
    BY <2>2, <2>4, CommitMoves
<1> QED
  BY <1>1, <1>2, <1>3, <1>4, <1>5, <1>6 DEF ConfigureDisfigure

LEMMA PurgeMoves == ASSUME IInv, Purge PROVE Moves(State, State')
<1>1. CASE \E k \in BOOLEAN : StartPurge(k)
  BY <1>1, SameState DEF StartPurge, Start
<1>2. CASE CommitPurge
  <2>1. /\ Selected /\ db.state \in {"fetched", "unpacked"}
        /\ mem # NoPackage /\ mem \in Package
    BY <1>2 DEF CommitPurge, IInv, TypeOK, Running, Asked, Selected
  <2>2. CASE cmd.keep
    <3>1. db' = [mem EXCEPT !.state = "fetched"]
      BY <1>2, <2>2 DEF CommitPurge
    <3>2. db' \in Package /\ db'.state = "fetched"
      BY <2>1, <3>1 DEF Package
    <3>3. Moves(State, "fetched")
      BY <2>1 DEF Moves, State
    <3> QED
      BY <3>2, <3>3, CommitMoves
  <2>3. CASE ~cmd.keep
    BY <1>2, <2>1, <2>3 DEF CommitPurge, Moves, State, Selected
  <2> QED
    BY <2>2, <2>3
<1>3. CASE PurgeBroken
  BY <1>3 DEF PurgeBroken, Moves, State, Selected
<1> QED
  BY <1>1, <1>2, <1>3 DEF Purge

LEMMA NextMoves == ASSUME IInv, [Next]_vars PROVE [States!Next]_State
<1>1. CASE User \/ Crash \/ StartAnother \/ UNCHANGED vars
  <2>1. UNCHANGED db
    BY <1>1 DEF User, PlaceDir, CleanUp, Crash, StartAnother, vars
  <2> QED
    BY <2>1, SameState, MovesAreSteps
<1>2. CASE Fetch \/ Unpack \/ PurgeFs \/ ConfigureDisfigure \/ Purge
  BY <1>2, FetchMoves, UnpackMoves, PurgeFsMoves, ConfigureDisfigureMoves,
     PurgeMoves, MovesAreSteps
<1> QED
  BY <1>1, <1>2 DEF Next

\* The states bpkg commits follow the published life cycle, through failures
\* and crashes: nothing is configured but what was unpacked, a configured
\* package is never replaced or purged, a broken one can only be purged.
THEOREM FollowsLifeCycle == Spec => LifeCycle
<1>1. Init => States!Init
  BY DEF Init, States!Init, State, Selected
<1>2. IInv /\ [Next]_vars => [States!Next]_State
  BY NextMoves
<1> QED
  BY <1>1, <1>2, Invariance, PTL DEF Spec, LifeCycle, States!Spec

---------------------------------------------------------------------------
(* What becomes of the files: the user's stay, those a package stands on are in
   place between the commands, and none bpkg made is forgotten. *)

Users == {UserArchive(v) : v \in Version} \cup UserDirs

\* Where the files of a package are: the source directory of an external one
\* is the user's, that of another, in the configuration, bpkg has extracted,
\* its archive there bpkg has downloaded, and the output directory is where it
\* belongs.
PathShape(p) ==
    /\ External(p) /\ p.src_root # NoPath => p.src_root \in UserDirs
    /\ ~External(p) /\ p.src_root # NoPath /\ p.src_root \in LocalPath =>
           p.purge_src /\ p.src_root = CfgDir(p.version)
    /\ \A v \in Version : p.archive = CfgArchive(v) => p.purge_archive
    /\ p.out_root # NoPath => p.out_root = OutRoot(p)

\* bpkg is not to remove a file of the user's that it was not given.
Spares(p) ==
    /\ p.purge_archive => p.archive \notin precious
    /\ p.purge_src => p.src_root \notin precious

Working == pc # "idle" /\ mem # NoPackage

Shapes == (Selected => PathShape(db)) /\ (Working => PathShape(mem))

\* The user's files are in their places, and directories are still directories.
PreciousKept ==
    /\ precious \subseteq Users
    /\ \A f \in precious : fs[f] # "none" /\ (f \in UserDirs => fs[f] = "source")

\* Nobody is about to remove them.
Spared ==
    /\ Selected => Spares(db)
    /\ Working => Spares(mem)
    /\ pc # "idle" => cmd.armed \cap precious = {}

\* What the commands know about the files they were given or make.
Fetching ==
    pc # "idle" /\ cmd.op = "fetch" =>
        /\ pc \in {"stash", "get"} \/ cmd.stashed =>
               cmd.archive \in {CfgArchive(cmd.version), CacheArchive(cmd.version)}
        /\ ~cmd.purge => \A v \in Version : cmd.archive # CfgArchive(v)
        /\ cmd.armed \subseteq {cmd.archive}
        /\ cmd.armed # {} => cmd.purge
        /\ pc \notin {"stash", "get"} => Exists(cmd.archive)

Selecting ==
    pc # "idle" /\ cmd.op = "select" =>
        /\ cmd.src_root \in UserDirs
        /\ fs[cmd.src_root] = "source"
        /\ Selected => mem.src_root # cmd.src_root
        /\ cmd.armed = {}

Unpacking ==
    pc # "idle" /\ cmd.op = "unpack" =>
        /\ pc \in {"extract", "commit"}
        /\ cmd.src_root \in LocalPath =>
               /\ cmd.src_root = CfgDir(mem.version) /\ cmd.purge
               /\ cmd.src_root \notin precious
               /\ pc = "commit" => fs[cmd.src_root] = "source"
        /\ cmd.armed \subseteq {cmd.src_root}

Unarmed ==
    pc # "idle" =>
        /\ cmd.op \in {"configure", "disfigure", "purge"} => cmd.armed = {}
        /\ pc \in {"stash", "get", "extract"} => cmd.armed = {}
        /\ cmd.op # "fetch" => ~cmd.stashed
        /\ cmd.op = "disfigure" => mem.out_root # NoPath

Commanded == Fetching /\ Selecting /\ Unpacking /\ Unarmed

UInv == Shapes /\ PreciousKept /\ Spared /\ Commanded

-----------------------------------------------------------------------------
(* Paths.                                                                  *)

LEMMA PathsApart ==
    /\ Stash \notin Archive /\ Stash \notin Dir /\ Archive \cap Dir = {}
    /\ UserDirs \subseteq Dir /\ UserDirs \subseteq LocalPath
    /\ \A v, w \in Version :
        /\ CfgArchive(v) # UserArchive(w) /\ CfgArchive(v) # CacheArchive(w)
        /\ CacheArchive(v) \notin LocalPath /\ CacheDir(v) \notin LocalPath
        /\ CfgDir(v) # ExternalOut
        /\ CfgArchive(v) = CfgArchive(w) => v = w
<1>1. UserDirs \subseteq Dir /\ UserDirs \subseteq LocalPath
  BY LifecycleAssumption
<1>2. 0 \notin Version
  BY LifecycleAssumption
<1> QED
  BY <1>1, <1>2
  DEF Stash, ExternalOut, CfgArchive, UserArchive, CacheArchive, CfgDir,
      CacheDir, Archive, Dir, LocalPath

LEMMA UsersApart ==
    /\ Users \subseteq LocalPath /\ Stash \notin Users
    /\ Users \cap Archive \subseteq {UserArchive(v) : v \in Version}
    /\ \A v \in Version : CfgArchive(v) \notin Users
    /\ \A d \in Dir : d \in Users => d \in UserDirs
BY PathsApart, PathTypes DEF Users

-----------------------------------------------------------------------------
(* What the steps do to the user's files.                                  *)

LEMMA RemovedKeeps ==
    ASSUME IInv, PreciousKept, NEW ps, ps \cap precious = {},
           fs' = Removed(ps), UNCHANGED precious
    PROVE  PreciousKept'
BY UsersApart DEF PreciousKept, Removed, IInv, TypeOK

LEMMA StashNotPrecious ==
    ASSUME PreciousKept PROVE {Stash} \cap precious = {}
BY UsersApart DEF PreciousKept

LEMMA RestoreKeeps ==
    ASSUME IInv, PreciousKept, NEW to \in Archive, fs[Stash] # "none",
           RestoreStash(to)
    PROVE  PreciousKept'
BY UsersApart, PathsApart DEF PreciousKept, RestoreStash, IInv, TypeOK

LEMMA MakeOutputKeeps ==
    ASSUME IInv, PreciousKept, NEW out \in LocalPath, MakeOutput(out)
    PROVE  PreciousKept'
BY UsersApart DEF PreciousKept, MakeOutput, IInv, TypeOK

-----------------------------------------------------------------------------
(* Steps many actions have in common.                                      *)

LEMMA FinishKeeps ==
    ASSUME Finish, PreciousKept',
           Selected' => PathShape(db') /\ Spares(db)'
    PROVE  UInv'
BY DEF Finish, UInv, Shapes, Spared, Commanded, Fetching, Selecting, Unpacking,
       Unarmed, Working

LEMMA FailKeeps ==
    ASSUME UInv, Fail, PreciousKept', UNCHANGED precious PROVE UInv'
BY FinishKeeps DEF Fail, UInv, Shapes, Spared, Spares, Selected

LEMMA BreakKeeps ==
    ASSUME IInv, UInv, Break, pc # "idle", mem # NoPackage,
           PreciousKept', UNCHANGED precious
    PROVE  UInv'
<1>1. mem \in Package /\ db' = [mem EXCEPT !.state = "broken"] /\ Finish
  BY DEF Break, IInv, TypeOK
<1>2. /\ db'.version = mem.version /\ db'.out_root = mem.out_root
      /\ db'.archive = mem.archive /\ db'.purge_archive = mem.purge_archive
      /\ db'.src_root = mem.src_root /\ db'.purge_src = mem.purge_src
  BY <1>1 DEF Package
<1>3. PathShape(mem) /\ Spares(mem)
  BY DEF UInv, Shapes, Spared, Working
<1>4. PathShape(db')
  BY <1>2, <1>3 DEF PathShape, External, OutRoot
<1>5. Spares(db)'
  BY <1>2, <1>3 DEF Spares
<1> QED
  BY <1>1, <1>4, <1>5, FinishKeeps

LEMMA StartKeeps ==
    ASSUME IInv, UInv, NEW c, NEW step, Start(c, step), c.armed = {}, Commanded'
    PROVE  UInv'
<1>1. PreciousKept'
  BY RemovedKeeps, StashNotPrecious DEF Start, UInv
<1>2. Shapes'
  BY DEF Start, UInv, Shapes, Working, Selected
<1>3. Spared'
  BY DEF Start, UInv, Spared, Spares, Working, Selected
<1> QED
  BY <1>1, <1>2, <1>3 DEF UInv

\* A step in the middle of a command, which works on the same object.
LEMMA StepKeeps ==
    ASSUME UInv, NEW from, NEW to, Step(from, to), from # "idle",
           UNCHANGED <<mem, precious>>, PreciousKept',
           cmd'.armed \cap precious = {}, Commanded'
    PROVE  UInv'
BY DEF Step, UInv, Shapes, Spared, Spares, Working, Selected

-----------------------------------------------------------------------------
LEMMA InitKeeps == Init => UInv
<1> SUFFICES ASSUME Init PROVE UInv
  OBVIOUS
<1>1. \A v \in Version : fs[UserArchive(v)] = "file"
  BY PathTypes DEF Init, UserArchive
<1>2. PreciousKept
  BY <1>1, PathsApart, PathTypes DEF Init, PreciousKept, Users
<1> QED
  BY <1>2 DEF Init, UInv, Shapes, Spared, Commanded, Fetching, Selecting,
              Unpacking, Unarmed, Working, Selected

LEMMA UserKeeps == ASSUME IInv, UInv, User PROVE UInv'
<1>1. ASSUME NEW d \in UserDirs, PlaceDir(d) PROVE UInv'
  <2>1. /\ pc = "idle" /\ pc' = "idle" /\ db' = db
        /\ precious' = precious \cup {d}
        /\ fs' = [fs EXCEPT ![d] = "source"]
        /\ Selected /\ db.purge_src => db.src_root # d
    BY <1>1 DEF PlaceDir
  <2>2. PreciousKept'
    BY <2>1, UsersApart DEF UInv, PreciousKept, IInv, TypeOK, Users
  <2>3. Selected => /\ PathShape(db) /\ Spares(db) /\ db \in Package
                    /\ db.purge_archive => db.archive # NoPath
    BY DEF UInv, Shapes, Spared, Selected, IInv, TypeOK, FieldsMatchState
  <2>4. Selected => (db.purge_archive => db.archive # d)
    BY <2>3, PathsApart DEF Package
  <2>5. Selected' => PathShape(db') /\ Spares(db)'
    BY <2>1, <2>3, <2>4 DEF Selected, Spares
  <2> QED
    BY <2>1, <2>2, <2>5 DEF UInv, Shapes, Spared, Commanded, Fetching,
                            Selecting, Unpacking, Unarmed, Working
<1>2. ASSUME NEW p \in LocalPath, CleanUp(p) PROVE UInv'
  <2>1. /\ pc = "idle" /\ pc' = "idle" /\ db' = db
        /\ precious' = precious \ {p} /\ fs' = Removed({p})
    BY <1>2 DEF CleanUp
  <2>2. PreciousKept'
    BY <2>1, UsersApart DEF UInv, PreciousKept, Removed
  <2>3. Selected' => PathShape(db') /\ Spares(db)'
    BY <2>1 DEF UInv, Shapes, Spared, Selected, Spares
  <2> QED
    BY <2>1, <2>2, <2>3 DEF UInv, Shapes, Spared, Commanded, Fetching,
                            Selecting, Unpacking, Unarmed, Working
<1> QED
  BY <1>1, <1>2 DEF User

LEMMA FetchStartKeeps ==
    ASSUME IInv, UInv, NEW v \in Version, NEW f \in BOOLEAN,
           StartFetchExisting(v, f) \/ StartFetch(v, f)
    PROVE  UInv'
<1>1. CASE StartFetchExisting(v, f)
  <2> DEFINE c == [NoCommand EXCEPT !.op = "fetch", !.version = v,
                                    !.archive = UserArchive(v), !.purge = f]
             step == IF Selected THEN "purge_src" ELSE "commit"
  <2>1. /\ c.op = "fetch" /\ c.archive = UserArchive(v) /\ c.armed = {}
        /\ ~c.stashed
    BY NoCommandType DEF Command, NoCommand
  <2>2. Start(c, step) /\ Exists(UserArchive(v)) /\ step \in {"purge_src", "commit"}
    BY <1>1 DEF StartFetchExisting
  <2> HIDE DEF c, step
  <2>3. cmd' = c /\ pc' = step /\ fs' = Removed({Stash})
    BY <2>2 DEF Start
  <2>4. Exists(UserArchive(v))'
    BY <2>2, <2>3, PathTypes, PathsApart DEF Exists, Removed
  <2>5. Commanded'
    BY <2>1, <2>2, <2>3, <2>4, PathsApart
    DEF Commanded, Fetching, Selecting, Unpacking, Unarmed, Exists
  <2> QED
    BY <2>1, <2>2, <2>5, StartKeeps
<1>2. CASE StartFetch(v, f)
  <2> DEFINE c == [NoCommand EXCEPT
                       !.op = "fetch", !.version = v,
                       !.archive = IF f THEN CacheArchive(v) ELSE CfgArchive(v),
                       !.purge = ~f]
             step == IF Selected /\ db.archive = CfgArchive(v)
                     THEN "stash" ELSE "get"
  <2>1. /\ c.op = "fetch" /\ c.version = v /\ c.armed = {} /\ c.purge = ~f
        /\ c.archive = IF f THEN CacheArchive(v) ELSE CfgArchive(v)
    BY NoCommandType DEF Command, NoCommand
  <2>2. Start(c, step) /\ step \in {"stash", "get"}
    BY <1>2 DEF StartFetch
  <2> HIDE DEF c, step
  <2>3. cmd' = c /\ pc' = step
    BY <2>2 DEF Start
  <2>4. Commanded'
    BY <2>1, <2>2, <2>3, PathsApart
    DEF Commanded, Fetching, Selecting, Unpacking, Unarmed
  <2> QED
    BY <2>1, <2>2, <2>4, StartKeeps
<1> QED
  BY <1>1, <1>2

LEMMA StashArchiveKeeps == ASSUME IInv, UInv, StashArchive PROVE UInv'
<1>1. /\ Step("stash", "get") /\ cmd \in Command /\ cmd.version \in Version
      /\ cmd.op = "fetch"
      /\ fs[CfgArchive(cmd.version)] # "none"
      /\ fs' = [fs EXCEPT ![Stash] = fs[CfgArchive(cmd.version)],
                          ![CfgArchive(cmd.version)] = "none"]
      /\ cmd' = [cmd EXCEPT !.stashed = TRUE]
      /\ UNCHANGED <<mem, precious>>
  BY DEF StashArchive, Step, IInv, TypeOK, Running, Command
<1>2. /\ cmd'.op = "fetch" /\ cmd'.archive = cmd.archive /\ cmd'.purge = cmd.purge
      /\ cmd'.armed = cmd.armed /\ cmd'.version = cmd.version
  BY <1>1 DEF Command
<1>3. PreciousKept'
  BY <1>1, UsersApart DEF UInv, PreciousKept, IInv, TypeOK
<1>4. Commanded'
  BY <1>1, <1>2 DEF Step, UInv, Commanded, Fetching, Selecting, Unpacking, Unarmed
<1>5. cmd'.armed \cap precious = {}
  BY <1>1, <1>2 DEF UInv, Spared, Step
<1> QED
  BY <1>1, <1>3, <1>4, <1>5, StepKeeps

LEMMA GetArchiveKeeps == ASSUME IInv, UInv, GetArchive PROVE UInv'
<1> DEFINE next == IF Selected THEN "purge_src" ELSE "commit"
<1>1. /\ Step("get", next)
      /\ cmd \in Command /\ cmd.version \in Version /\ cmd.op = "fetch"
      /\ fs' = [p \in LocalPath |-> IF p = cmd.archive THEN "file" ELSE fs[p]]
      /\ cmd' = [cmd EXCEPT !.armed = {cmd.archive} \cap LocalPath]
      /\ UNCHANGED <<mem, precious>>
  BY DEF GetArchive, Step, IInv, TypeOK, Running, Command
<1>2. /\ cmd'.op = "fetch" /\ cmd'.archive = cmd.archive /\ cmd'.purge = cmd.purge
      /\ cmd'.armed = {cmd.archive} \cap LocalPath
      /\ cmd'.version = cmd.version /\ cmd'.stashed = cmd.stashed
  BY <1>1 DEF Command
<1>3. /\ cmd.archive \in {CfgArchive(cmd.version), CacheArchive(cmd.version)}
      /\ ~cmd.purge => \A v \in Version : cmd.archive # CfgArchive(v)
  BY <1>1 DEF UInv, Commanded, Fetching, Step
<1>4. cmd.archive \in LocalPath => cmd.purge
  BY <1>1, <1>3, PathsApart
<1>5. PreciousKept'
  BY <1>1, <1>3, UsersApart, PathsApart, PathTypes
  DEF UInv, PreciousKept
<1>6. Exists(cmd.archive)'
  BY <1>1 DEF Exists
<1>7. Commanded'
  BY <1>1, <1>2, <1>3, <1>4, <1>6
  DEF Commanded, Fetching, Selecting, Unpacking, Unarmed, Step, Exists
<1>8. cmd'.armed \cap precious = {}
  BY <1>2, <1>3, UsersApart, PathsApart, <1>1 DEF UInv, PreciousKept
<1> QED
  BY <1>1, <1>5, <1>7, <1>8, StepKeeps

LEMMA GetArchiveFailKeeps == ASSUME IInv, UInv, GetArchiveFail PROVE UInv'
<1>0. PreciousKept /\ {Stash} \cap precious = {}
  BY StashNotPrecious DEF UInv
<1>1. CASE Fail /\ Remove({Stash})
  BY <1>0, <1>1, RemovedKeeps, FailKeeps DEF Remove
<1>2. CASE StashRestorable /\ Fail /\ RestoreStash(CfgArchive(cmd.version))
  <2>1. CfgArchive(cmd.version) \in Archive
    BY PathTypes DEF IInv, TypeOK, Command
  <2> QED
    BY <1>0, <1>2, <2>1, RestoreKeeps, FailKeeps DEF RestoreStash, StashRestorable
<1>3. CASE StashRestorable /\ Break /\ Remove({Stash})
  <2>1. pc = "get" /\ mem # NoPackage
    BY <1>3 DEF GetArchiveFail, StashRestorable, IInv, Running, Selected
  <2> QED
    BY <1>0, <1>3, <2>1, RemovedKeeps, BreakKeeps DEF Remove
<1> QED
  BY <1>1, <1>2, <1>3 DEF GetArchiveFail

LEMMA CommitFetchKeeps == ASSUME IInv, UInv, CommitFetch PROVE UInv'
<1>1. /\ Finish /\ cmd \in Command /\ mem \in Package \cup {NoPackage}
      /\ db' = [Base EXCEPT !.state = "fetched", !.archive = cmd.archive,
                            !.purge_archive = cmd.purge]
      /\ fs' = Removed({Stash})
      /\ Own({cmd.archive}, cmd.purge)
      /\ cmd.archive \in Archive
      /\ mem # NoPackage => SourcePurged
  BY DEF CommitFetch, IInv, TypeOK, Running, Asked, Command, Selected
<1>2. Base \in Package /\ Base.src_root = NoPath /\ ~Base.purge_src /\ Base.out_root = NoPath
  BY <1>1 DEF Base, Package, Command, SourcePurged
<1>3. /\ db'.archive = cmd.archive /\ db'.purge_archive = cmd.purge
      /\ db'.src_root = NoPath /\ ~db'.purge_src /\ db'.out_root = NoPath
  BY <1>1, <1>2 DEF Package
<1>4. /\ ~cmd.purge => \A v \in Version : cmd.archive # CfgArchive(v)
      /\ Exists(cmd.archive)
  BY DEF CommitFetch, UInv, Commanded, Fetching
<1>5. PathShape(db')
  BY <1>1, <1>3, <1>4 DEF PathShape
<1>6. Spares(db)'
  BY <1>1, <1>3 DEF Spares, Own
<1>7. ~cmd.purge /\ cmd.archive \in LocalPath => cmd.archive \in Users
  BY <1>1, <1>4, PathsApart
  DEF Users, Archive, UserArchive, CfgArchive, CacheArchive, LocalPath
<1>8. PreciousKept'
  BY <1>1, <1>4, <1>7, UsersApart, PathsApart
  DEF UInv, PreciousKept, Own, Removed, Exists
<1> QED
  BY <1>1, <1>5, <1>6, <1>8, FinishKeeps

LEMMA FetchKeeps == ASSUME IInv, UInv, Fetch PROVE UInv'
<1>1. CASE StashArchiveFail
  BY <1>1, FailKeeps DEF StashArchiveFail, files, UInv, PreciousKept
<1> QED
  BY <1>1, FetchStartKeeps, StashArchiveKeeps, GetArchiveKeeps,
     GetArchiveFailKeeps, CommitFetchKeeps DEF Fetch

-----------------------------------------------------------------------------
\* Of a package just fetched or unpacked, whatever it was before.
LEMMA StartSelectKeeps ==
    ASSUME Reselect = FALSE, IInv, UInv,
           NEW d \in UserDirs, NEW v \in Version, NEW f \in BOOLEAN,
           StartSelect(d, v, f)
    PROVE  UInv'
<1> DEFINE c == [NoCommand EXCEPT !.op = "select", !.version = v,
                                  !.src_root = d, !.purge = f]
           step == IF Selected THEN "purge_src" ELSE "commit"
<1>1. c.op = "select" /\ c.src_root = d /\ c.armed = {} /\ ~c.stashed
  BY NoCommandType DEF Command, NoCommand
<1>2. Start(c, step) /\ step \in {"purge_src", "commit"} /\ fs[d] = "source"
  BY DEF StartSelect
<1>3. Selected => db.src_root # d
  BY DEF StartSelect
<1> HIDE DEF c, step
<1>4. cmd' = c /\ pc' = step /\ fs' = Removed({Stash}) /\ mem' = db /\ db' = db
  BY <1>2 DEF Start
<1>5. fs'[d] = "source"
  BY <1>2, <1>4, PathsApart DEF Removed
<1>6. Commanded'
  BY <1>1, <1>2, <1>3, <1>4, <1>5
  DEF Commanded, Fetching, Selecting, Unpacking, Unarmed, Selected
<1> QED
  BY <1>1, <1>2, <1>6, StartKeeps

LEMMA CommitSelectKeeps == ASSUME IInv, UInv, CommitSelect PROVE UInv'
<1>1. /\ Finish /\ cmd \in Command /\ mem \in Package \cup {NoPackage}
      /\ db' = [Base EXCEPT !.state = "unpacked", !.src_root = cmd.src_root,
                            !.purge_src = cmd.purge]
      /\ Own({cmd.src_root}, cmd.purge) /\ UNCHANGED fs
      /\ mem # NoPackage => SourcePurged /\ mem.archive = NoPath
  BY DEF CommitSelect, IInv, TypeOK, Running, Selected
<1>2. /\ Base \in Package /\ Base.archive = NoPath /\ ~Base.purge_archive
      /\ Base.out_root = NoPath
  BY <1>1 DEF Base, Package, Command, SourcePurged
<1>3. /\ db'.archive = NoPath /\ ~db'.purge_archive /\ db'.out_root = NoPath
      /\ db'.src_root = cmd.src_root /\ db'.purge_src = cmd.purge
  BY <1>1, <1>2 DEF Package, Command
<1>4. cmd.src_root \in UserDirs /\ fs[cmd.src_root] = "source"
  BY DEF CommitSelect, UInv, Commanded, Selecting
<1>5. \A v \in Version : CfgArchive(v) # NoPath
  BY PathTypes, LifecycleAssumption
<1>6. PathShape(db')
  BY <1>3, <1>4, <1>5 DEF PathShape, External
<1>7. Spares(db)'
  BY <1>1, <1>3 DEF Spares, Own
<1>8. PreciousKept'
  BY <1>1, <1>4 DEF UInv, PreciousKept, Own, Users
<1> QED
  BY <1>1, <1>6, <1>7, <1>8, FinishKeeps

LEMMA StartUnpackKeeps ==
    ASSUME IInv, UInv, StartUnpack \/ StartUnpackShared PROVE UInv'
<1>0. Selected /\ db \in Package /\ db.version \in Version
  BY DEF StartUnpack, StartUnpackShared, IInv, TypeOK, Selected, Package
<1>1. CASE StartUnpack
  <2> DEFINE c == [NoCommand EXCEPT
                       !.op = "unpack", !.version = db.version,
                       !.src_root = CfgDir(db.version), !.purge = TRUE]
  <2>1. /\ c.op = "unpack" /\ c.src_root = CfgDir(db.version) /\ c.purge
        /\ c.armed = {} /\ ~c.stashed
    BY NoCommandType DEF Command, NoCommand
  <2>2. Start(c, "extract") /\ ~Exists(CfgDir(db.version))
    BY <1>1 DEF StartUnpack
  <2> HIDE DEF c
  <2>3. cmd' = c /\ pc' = "extract" /\ mem' = db /\ precious' = precious
    BY <2>2 DEF Start
  <2>4. CfgDir(db.version) \notin precious
    BY <1>0, <2>2, PathTypes DEF Exists, UInv, PreciousKept
  <2>5. Commanded'
    BY <2>1, <2>3, <2>4 DEF Commanded, Fetching, Selecting, Unpacking, Unarmed
  <2> QED
    BY <2>1, <2>2, <2>5, StartKeeps
<1>2. CASE StartUnpackShared
  <2> DEFINE c == [NoCommand EXCEPT !.op = "unpack", !.version = db.version,
                                    !.src_root = CacheDir(db.version)]
  <2>1. /\ c.op = "unpack" /\ c.src_root = CacheDir(db.version)
        /\ c.armed = {} /\ ~c.stashed
    BY NoCommandType DEF Command, NoCommand
  <2>2. Start(c, "commit")
    BY <1>2 DEF StartUnpackShared
  <2> HIDE DEF c
  <2>3. cmd' = c /\ pc' = "commit"
    BY <2>2 DEF Start
  <2>4. CacheDir(db.version) \notin LocalPath
    BY <1>0, PathsApart
  <2>5. Commanded'
    BY <2>1, <2>3, <2>4 DEF Commanded, Fetching, Selecting, Unpacking, Unarmed
  <2> QED
    BY <2>1, <2>2, <2>5, StartKeeps
<1> QED
  BY <1>1, <1>2

LEMMA ExtractKeeps == ASSUME IInv, UInv, Extract \/ ExtractFail PROVE UInv'
<1>1. /\ pc = "extract" /\ cmd \in Command /\ cmd.op = "unpack"
      /\ cmd.src_root \in LocalPath /\ cmd.src_root \notin precious
      /\ cmd.src_root = CfgDir(mem.version) /\ cmd.purge /\ ~cmd.stashed
  BY DEF Extract, ExtractFail, Step, IInv, TypeOK, Running, UInv, Commanded,
         Unpacking, Unarmed
<1>2. CASE Extract
  <2>1. /\ Step("extract", "commit") /\ UNCHANGED <<mem, precious>>
        /\ fs' = [fs EXCEPT ![cmd.src_root] = "source"]
        /\ cmd' = [cmd EXCEPT !.armed = {cmd.src_root}]
    BY <1>2 DEF Extract
  <2>2. /\ cmd'.op = "unpack" /\ cmd'.src_root = cmd.src_root
        /\ cmd'.purge = cmd.purge /\ cmd'.armed = {cmd.src_root}
        /\ cmd'.stashed = cmd.stashed
    BY <1>1, <2>1 DEF Command
  <2>3. PreciousKept'
    BY <1>1, <2>1, UsersApart DEF UInv, PreciousKept, IInv, TypeOK
  <2>4. Commanded'
    BY <1>1, <2>1, <2>2
    DEF Step, Commanded, Fetching, Selecting, Unpacking, Unarmed, IInv, TypeOK
  <2> QED
    BY <1>1, <2>1, <2>2, <2>3, <2>4, StepKeeps
<1>3. CASE ExtractFail
  <2>1. {cmd.src_root} \cap precious = {}
    BY <1>1
  <2> QED
    BY <1>3, <2>1, RemovedKeeps, FailKeeps DEF ExtractFail, Remove, UInv
<1> QED
  BY <1>2, <1>3

LEMMA CommitUnpackKeeps == ASSUME IInv, UInv, CommitUnpack PROVE UInv'
<1>1. /\ Finish /\ cmd \in Command /\ mem \in Package /\ mem = db /\ Selected
      /\ db' = [mem EXCEPT !.state = "unpacked", !.src_root = cmd.src_root,
                           !.purge_src = cmd.purge]
      /\ UNCHANGED <<fs, precious>>
      /\ mem.archive # NoPath /\ mem.out_root = NoPath
  BY DEF CommitUnpack, IInv, TypeOK, Running, Asked, Selected, FieldsMatchState
<1>2. /\ db'.archive = mem.archive /\ db'.purge_archive = mem.purge_archive
      /\ db'.out_root = NoPath /\ db'.version = mem.version
      /\ db'.src_root = cmd.src_root /\ db'.purge_src = cmd.purge
  BY <1>1 DEF Package, Command
<1>3. PathShape(db) /\ Spares(db)
  BY <1>1 DEF UInv, Shapes, Spared
<1>4. cmd.src_root \in LocalPath =>
          cmd.src_root = CfgDir(mem.version) /\ cmd.purge /\ cmd.src_root \notin precious
  BY DEF CommitUnpack, UInv, Commanded, Unpacking
<1>5. PathShape(db')
  BY <1>1, <1>2, <1>3, <1>4 DEF PathShape, External
<1>6. Spares(db)'
  BY <1>1, <1>2, <1>3, <1>4 DEF Spares, IInv, TypeOK
<1>7. PreciousKept'
  BY <1>1 DEF UInv, PreciousKept
<1> QED
  BY <1>1, <1>5, <1>6, <1>7, FinishKeeps

LEMMA UnpackKeeps ==
    ASSUME Reselect = FALSE, IInv, UInv, Unpack PROVE UInv'
BY StartSelectKeeps, CommitSelectKeeps, StartUnpackKeeps, ExtractKeeps,
   CommitUnpackKeeps DEF Unpack

-----------------------------------------------------------------------------
LEMMA BreakPurgeKeeps ==
    ASSUME IInv, UInv, BreakPurge, pc \in {"purge_src", "purge_archive"},
           mem # NoPackage
    PROVE  UInv'
<1>1. CASE Remove(cmd.armed \cup {Stash})
  <2>1. (cmd.armed \cup {Stash}) \cap precious = {}
    BY StashNotPrecious DEF UInv, Spared
  <2> QED
    BY <1>1, <2>1, RemovedKeeps, BreakKeeps DEF BreakPurge, Remove, UInv
<1>2. CASE StashRestorable /\ RestoreStash(cmd.archive)
  <2>1. cmd.op = "fetch"
    BY <1>2 DEF StashRestorable, UInv, Commanded, Unarmed
  <2>2. cmd.archive \in Archive
    BY <2>1 DEF IInv, Running, TypeOK, Asked, Command
  <2> QED
    BY <1>2, <2>2, RestoreKeeps, BreakKeeps
    DEF BreakPurge, RestoreStash, StashRestorable, UInv
<1> QED
  BY <1>1, <1>2 DEF BreakPurge

LEMMA PurgeSrcKeeps == ASSUME IInv, UInv, PurgeSrc PROVE UInv'
<1> DEFINE ps == IF mem.purge_src THEN {mem.src_root} ELSE {}
<1>1. /\ Step("purge_src", "purge_archive")
      /\ mem = db /\ Selected /\ mem \in Package /\ FieldsMatchState(mem)
      /\ mem' = [mem EXCEPT !.src_root = NoPath, !.purge_src = FALSE]
      /\ Remove(ps) /\ UNCHANGED cmd
      /\ cmd.op \in {"fetch", "select", "purge"}
      /\ mem.state \in {"fetched", "unpacked"}
  BY DEF PurgeSrc, Step, IInv, TypeOK, Running, Loaded, Selected, Asked, MayReplace
<1>2. /\ mem'.archive = mem.archive /\ mem'.purge_archive = mem.purge_archive
      /\ mem'.src_root = NoPath /\ ~mem'.purge_src
      /\ mem'.out_root = NoPath /\ mem'.version = mem.version
  BY <1>1 DEF Package, FieldsMatchState
<1>3. PathShape(mem) /\ Spares(mem)
  BY <1>1 DEF UInv, Shapes, Spared, Selected
<1>4. ps \cap precious = {} /\ ps \subseteq Dir
  BY <1>1, <1>3 DEF Spares, Package, FieldsMatchState
<1>5. PreciousKept'
  BY <1>1, <1>4, RemovedKeeps DEF Remove, UInv
<1>6. PathShape(mem') /\ Spares(mem)'
  BY <1>1, <1>2, <1>3 DEF PathShape, External, Spares, Remove
<1>7. ASSUME cmd.op = "fetch" PROVE Exists(cmd.archive) /\ Exists(cmd.archive)'
  <2>1. cmd.archive \in Archive
    BY <1>7, <1>1 DEF Step, IInv, TypeOK, Running, Asked, Command
  <2>2. Exists(cmd.archive)
    BY <1>1, <1>7 DEF Step, UInv, Commanded, Fetching
  <2>3. cmd.archive \notin ps
    BY <2>1, <1>4, PathsApart
  <2> QED
    BY <1>1, <2>2, <2>3 DEF Exists, Remove, Removed
<1>8. ASSUME cmd.op = "select"
      PROVE  /\ cmd.src_root \in UserDirs /\ fs[cmd.src_root] = "source"
             /\ fs'[cmd.src_root] = "source" /\ cmd.src_root # NoPath
             /\ cmd.armed = {}
  <2>1. /\ cmd.src_root \in UserDirs /\ fs[cmd.src_root] = "source"
        /\ mem.src_root # cmd.src_root /\ cmd.armed = {}
    BY <1>1, <1>8 DEF Step, UInv, Commanded, Selecting
  <2> QED
    BY <1>1, <2>1, PathsApart, LifecycleAssumption DEF Remove, Removed
<1>9. Commanded'
  BY <1>1, <1>2, <1>7, <1>8
  DEF UInv, Commanded, Fetching, Selecting, Unpacking, Unarmed, Step
<1> QED
  BY <1>1, <1>5, <1>6, <1>9 DEF UInv, Shapes, Spared, Spares, Step, Working,
                                Selected, Remove

LEMMA PurgeArchiveKeeps == ASSUME IInv, UInv, PurgeArchive PROVE UInv'
<1> DEFINE ps == IF PurgesArchive /\ mem.purge_archive THEN {mem.archive} ELSE {}
<1>1. /\ Step("purge_archive", "commit")
      /\ Selected /\ mem \in Package /\ mem # NoPackage /\ SourcePurged
      /\ mem' = IF PurgesArchive
                THEN [mem EXCEPT !.archive = NoPath, !.purge_archive = FALSE]
                ELSE mem
      /\ Remove(ps) /\ UNCHANGED cmd
      /\ cmd.op \in {"fetch", "select", "purge"}
  BY DEF PurgeArchive, Step, IInv, TypeOK, Running, Selected
<1>2. /\ mem'.archive \in {NoPath, mem.archive}
      /\ mem'.purge_archive => mem'.archive = mem.archive /\ mem.purge_archive
      /\ mem'.archive = mem.archive \/ mem'.archive = NoPath
      /\ mem'.archive # NoPath => mem'.purge_archive = mem.purge_archive
      /\ mem'.src_root = NoPath /\ ~mem'.purge_src /\ mem'.out_root = NoPath
  BY <1>1 DEF Package, SourcePurged
<1>3. PathShape(mem) /\ Spares(mem)
  BY <1>1 DEF UInv, Shapes, Spared, Working, Step
<1>4. ps \cap precious = {} /\ ps \subseteq Archive
  BY <1>1, <1>3 DEF Spares, Package, SourcePurged
<1>5. PreciousKept'
  BY <1>1, <1>4, RemovedKeeps DEF Remove, UInv
<1>6. \A v \in Version : CfgArchive(v) # NoPath
  BY PathTypes, LifecycleAssumption
<1>7. PathShape(mem') /\ Spares(mem)'
  BY <1>1, <1>2, <1>3, <1>6 DEF PathShape, Spares, Remove
<1>8. ASSUME cmd.op = "fetch" PROVE Exists(cmd.archive) /\ Exists(cmd.archive)'
  <2>1. cmd.archive \notin ps
    BY <1>8 DEF PurgesArchive
  <2>2. Exists(cmd.archive)
    BY <1>1, <1>8 DEF Step, UInv, Commanded, Fetching
  <2> QED
    BY <1>1, <2>1, <2>2 DEF Exists, Remove, Removed
<1>9. ASSUME cmd.op = "select"
      PROVE  /\ cmd.src_root \in UserDirs
             /\ fs'[cmd.src_root] = "source" /\ cmd.src_root # NoPath
             /\ cmd.armed = {}
  <2>1. /\ cmd.src_root \in UserDirs /\ fs[cmd.src_root] = "source" /\ cmd.armed = {}
    BY <1>1, <1>9 DEF Step, UInv, Commanded, Selecting
  <2> QED
    BY <1>1, <1>4, <2>1, PathsApart, LifecycleAssumption DEF Remove, Removed
<1>10. Commanded'
  BY <1>1, <1>2, <1>8, <1>9
  DEF UInv, Commanded, Fetching, Selecting, Unpacking, Unarmed, Step
<1> QED
  BY <1>1, <1>5, <1>7, <1>10 DEF UInv, Shapes, Spared, Spares, Step, Working,
                                 Selected, Remove

LEMMA PurgeFsKeeps == ASSUME IInv, UInv, PurgeFs PROVE UInv'
<1>1. CASE PurgeSrcFail \/ PurgeArchiveFail
  <2>1. pc \in {"purge_src", "purge_archive"} /\ mem # NoPackage /\ BreakPurge
    BY <1>1 DEF PurgeSrcFail, PurgeArchiveFail, IInv, Running, Loaded, Selected
  <2> QED
    BY <2>1, BreakPurgeKeeps
<1> QED
  BY <1>1, PurgeSrcKeeps, PurgeArchiveKeeps DEF PurgeFs

-----------------------------------------------------------------------------
\* Commands that are given no files of the user's.
LEMMA StartOtherKeeps ==
    ASSUME IInv, UInv, NEW c, NEW step, Start(c, step),
           c.op \in {"configure", "disfigure", "purge"},
           c.op = "disfigure" => db.out_root # NoPath,
           c.armed = {}, ~c.stashed
    PROVE  UInv'
<1>1. Commanded'
  BY DEF Start, Commanded, Fetching, Selecting, Unpacking, Unarmed
<1> QED
  BY <1>1, StartKeeps

LEMMA StartConfigureKeeps == ASSUME IInv, UInv, StartConfigure PROVE UInv'
<1> DEFINE c == [NoCommand EXCEPT !.op = "configure", !.version = db.version]
<1>1. Start(c, "build")
  BY DEF StartConfigure
<1>2. c.op = "configure" /\ c.armed = {} /\ ~c.stashed
  BY NoCommandType DEF Command, NoCommand
<1> HIDE DEF c
<1> QED
  BY <1>1, <1>2, StartOtherKeeps

LEMMA StartDisfigureKeeps ==
    ASSUME IInv, UInv, NEW x, NEW y, StartDisfigure(x, y) PROVE UInv'
<1> DEFINE c == [NoCommand EXCEPT !.op = "disfigure", !.version = db.version,
                                  !.clean = x, !.disfigure = y]
<1>1. Start(c, "clean")
  BY DEF StartDisfigure
<1>2. c.op = "disfigure" /\ c.armed = {} /\ ~c.stashed
  BY NoCommandType DEF Command, NoCommand
<1>3. db.out_root # NoPath
  BY DEF StartDisfigure, IInv, TypeOK, FieldsMatchState, Selected
<1> HIDE DEF c
<1> QED
  BY <1>1, <1>2, <1>3, StartOtherKeeps

LEMMA StartPurgeKeeps ==
    ASSUME IInv, UInv, NEW k, StartPurge(k) PROVE UInv'
<1> DEFINE c == [NoCommand EXCEPT !.op = "purge", !.version = db.version,
                                  !.keep = k]
<1>1. Start(c, "purge_src")
  BY DEF StartPurge
<1>2. c.op = "purge" /\ c.armed = {} /\ ~c.stashed
  BY NoCommandType DEF Command, NoCommand
<1> HIDE DEF c
<1> QED
  BY <1>1, <1>2, StartOtherKeeps

\* What is known at the steps of configuring and disfiguring.
LEMMA Building ==
    ASSUME IInv, UInv, pc \in {"build", "clean"}
    PROVE  /\ Selected /\ mem \in Package /\ mem # NoPackage
           /\ OutRoot(mem) \in LocalPath
           /\ PathShape(mem) /\ Spares(mem)
           /\ cmd.op \in {"configure", "disfigure"} /\ cmd \in Command
           /\ cmd.armed = {} /\ ~cmd.stashed
           /\ pc = "clean" => mem.out_root # NoPath /\ cmd.op = "disfigure"
<1>1. /\ Selected /\ mem \in Package /\ mem # NoPackage
      /\ cmd.op \in {"configure", "disfigure"} /\ cmd \in Command
      /\ pc = "clean" => cmd.op = "disfigure"
  BY DEF IInv, TypeOK, Running, Asked, Selected
<1> QED
  BY <1>1, OutRootType DEF UInv, Shapes, Spared, Working, Commanded, Unarmed

LEMMA ConfigureKeeps == ASSUME IInv, UInv, Configure PROVE UInv'
<1>1. /\ Step("build", "commit") /\ MakeOutput(OutRoot(mem))
      /\ UNCHANGED <<mem, cmd>>
  BY DEF Configure
<1>2. cmd.op = "configure" /\ OutRoot(mem) \in LocalPath /\ cmd.armed = {} /\ ~cmd.stashed
  BY <1>1, Building DEF Step, IInv, Running
<1>3. PreciousKept'
  BY <1>1, <1>2, MakeOutputKeeps DEF UInv
<1>4. Commanded'
  BY <1>1, <1>2 DEF Step, Commanded, Fetching, Selecting, Unpacking, Unarmed
<1> QED
  BY <1>1, <1>2, <1>3, <1>4, StepKeeps DEF MakeOutput

LEMMA ConfigureFailKeeps == ASSUME IInv, UInv, ConfigureFail PROVE UInv'
<1>1. CASE Fail /\ UNCHANGED files
  BY <1>1, FailKeeps DEF files, UInv, PreciousKept
<1>2. CASE /\ Step("build", "clean")
           /\ mem' = [mem EXCEPT !.state = "broken", !.out_root = OutRoot(mem)]
           /\ \/ UNCHANGED files
              \/ MakeOutput(OutRoot(mem)) /\ conf' = conf \cup {OutRoot(mem)}
           /\ cmd' = [cmd EXCEPT !.op = "disfigure"]
  <2>1. /\ Selected /\ mem \in Package /\ OutRoot(mem) \in LocalPath
        /\ PathShape(mem) /\ Spares(mem) /\ cmd \in Command
        /\ cmd.armed = {} /\ ~cmd.stashed
    BY <1>2, Building DEF Step
  <2>2. /\ mem'.archive = mem.archive /\ mem'.purge_archive = mem.purge_archive
        /\ mem'.src_root = mem.src_root /\ mem'.purge_src = mem.purge_src
        /\ mem'.version = mem.version /\ mem'.out_root = OutRoot(mem)
        /\ cmd'.op = "disfigure" /\ cmd'.armed = {} /\ ~cmd'.stashed
        /\ mem'.out_root # NoPath
    BY <1>2, <2>1, OutRootType, LifecycleAssumption DEF Package, Command
  <2>3. PreciousKept' /\ precious' = precious
    BY <1>2, <2>1, MakeOutputKeeps DEF UInv, PreciousKept, files, MakeOutput
  <2>4. PathShape(mem') /\ Spares(mem)'
    BY <2>1, <2>2, <2>3 DEF PathShape, External, OutRoot, Spares
  <2>5. Commanded'
    BY <1>2, <2>2 DEF Step, Commanded, Fetching, Selecting, Unpacking, Unarmed
  <2> QED
    BY <1>2, <2>1, <2>2, <2>3, <2>4, <2>5
    DEF Step, UInv, Shapes, Spared, Spares, Working, Selected
<1> QED
  BY <1>1, <1>2 DEF ConfigureFail

LEMMA CommitConfigureKeeps == ASSUME IInv, UInv, CommitConfigure PROVE UInv'
<1>1. /\ Finish /\ mem \in Package /\ mem = db /\ Selected
      /\ db' = [mem EXCEPT !.state = "configured", !.out_root = OutRoot(mem)]
      /\ UNCHANGED <<fs, precious>>
  BY DEF CommitConfigure, IInv, TypeOK, Running, Asked, Selected
<1>2. /\ db'.archive = mem.archive /\ db'.purge_archive = mem.purge_archive
      /\ db'.src_root = mem.src_root /\ db'.purge_src = mem.purge_src
      /\ db'.version = mem.version /\ db'.out_root = OutRoot(mem)
  BY <1>1, OutRootType DEF Package
<1>3. PathShape(db) /\ Spares(db) /\ PreciousKept
  BY <1>1 DEF UInv, Shapes, Spared
<1>4. PathShape(db') /\ Spares(db)' /\ PreciousKept'
  BY <1>1, <1>2, <1>3 DEF PathShape, External, OutRoot, Spares, PreciousKept
<1> QED
  BY <1>1, <1>4, FinishKeeps

\* Only what is the build system's output is removed, and the user has no
\* directory where the output of an external package goes.
LEMMA CleanKeeps ==
    ASSUME ExternalOut \notin UserDirs, IInv, UInv, Clean \/ CleanSkip \/ CleanFail
    PROVE  UInv'
<1>1. /\ pc = "clean" /\ mem \in Package /\ mem # NoPackage
      /\ PathShape(mem) /\ cmd.op = "disfigure"
      /\ cmd.armed = {} /\ ~cmd.stashed /\ mem.out_root # NoPath
  BY Building DEF Clean, CleanSkip, CleanFail, Step, IInv, Running
<1>2. CASE CleanFail
  BY <1>1, <1>2, BreakKeeps DEF CleanFail, UInv, PreciousKept
<1>3. CASE Clean \/ CleanSkip
  <2>1. Step("clean", "commit") /\ UNCHANGED <<mem, cmd, precious>>
    BY <1>3 DEF Clean, CleanSkip, Remove
  <2>2. Commanded'
    BY <1>1, <2>1 DEF Step, Commanded, Fetching, Selecting, Unpacking, Unarmed
  <2>3. CASE UNCHANGED fs
    BY <1>1, <2>1, <2>2, <2>3, StepKeeps DEF UInv, PreciousKept
  <2>4. CASE External(mem) /\ Remove({mem.out_root}) /\ Exists(mem.out_root)
    <3>1. mem.out_root \notin Users
      BY <1>1, <2>4, UsersApart, PathTypes DEF PathShape, OutRoot
    <3>2. {mem.out_root} \cap precious = {} /\ fs' = Removed({mem.out_root})
      BY <2>4, <3>1 DEF Remove, UInv, PreciousKept
    <3>3. PreciousKept'
      BY <2>1, <3>2, RemovedKeeps DEF UInv
    <3> QED
      BY <1>1, <2>1, <2>2, <3>3, StepKeeps
  <2>5. CASE /\ ~External(mem) /\ fs[mem.out_root] = "output"
             /\ Remove({mem.out_root})
    <3>1. mem.out_root \in Dir
      BY <1>1 DEF Package
    <3>2. mem.out_root \notin precious
      BY <2>5, <3>1, UsersApart DEF UInv, PreciousKept
    <3> QED
      BY <1>1, <2>1, <2>2, <2>5, <3>2, RemovedKeeps, StepKeeps DEF Remove, UInv
  <2> QED
    BY <1>3, <2>3, <2>4, <2>5 DEF Clean, CleanSkip
<1> QED
  BY <1>2, <1>3

LEMMA CommitDisfigureKeeps == ASSUME IInv, UInv, CommitDisfigure PROVE UInv'
<1>1. /\ Finish /\ mem \in Package /\ PathShape(mem) /\ Spares(mem)
      /\ db' = [mem EXCEPT !.state = "unpacked", !.out_root = NoPath]
      /\ UNCHANGED <<fs, precious>>
  BY DEF CommitDisfigure, IInv, TypeOK, Running, Asked, Selected, UInv, Shapes,
         Spared, Working
<1>2. /\ db'.archive = mem.archive /\ db'.purge_archive = mem.purge_archive
      /\ db'.src_root = mem.src_root /\ db'.purge_src = mem.purge_src
      /\ db'.version = mem.version /\ db'.out_root = NoPath
  BY <1>1 DEF Package
<1>3. PathShape(db') /\ Spares(db)' /\ PreciousKept'
  BY <1>1, <1>2 DEF PathShape, External, Spares, UInv, PreciousKept
<1> QED
  BY <1>1, <1>3, FinishKeeps

LEMMA ConfigureDisfigureKeeps ==
    ASSUME ExternalOut \notin UserDirs, IInv, UInv, ConfigureDisfigure
    PROVE  UInv'
<1>1. ASSUME NEW v \in Version, ConfigureSystem(v) PROVE UInv'
  <2>1. /\ pc = "idle" /\ pc' = "idle" /\ UNCHANGED <<fs, precious>>
        /\ db' = [state |-> "system", version |-> v,
                  archive |-> NoPath, purge_archive |-> FALSE,
                  src_root |-> NoPath, purge_src |-> FALSE, out_root |-> NoPath]
    BY <1>1 DEF ConfigureSystem
  <2>2. \A w \in Version : CfgArchive(w) # NoPath
    BY PathTypes, LifecycleAssumption
  <2>3. PathShape(db') /\ Spares(db)' /\ PreciousKept'
    BY <2>1, <2>2 DEF PathShape, External, Spares, UInv, PreciousKept
  <2> QED
    BY <2>1, <2>3 DEF UInv, Shapes, Spared, Commanded, Fetching, Selecting,
                      Unpacking, Unarmed, Working
<1>2. CASE DisfigureSystem
  BY <1>2 DEF DisfigureSystem, UInv, Shapes, Spared, Commanded, Fetching, Selecting,
              Unpacking, Unarmed, Working, Selected, PreciousKept
<1> QED
  BY <1>1, <1>2, StartConfigureKeeps, ConfigureKeeps, ConfigureFailKeeps,
     CommitConfigureKeeps, StartDisfigureKeeps, CleanKeeps, CommitDisfigureKeeps
  DEF ConfigureDisfigure

LEMMA PurgeKeeps == ASSUME IInv, UInv, Purge PROVE UInv'
<1>1. CASE CommitPurge
  <2>1. /\ Finish /\ mem \in Package /\ UNCHANGED <<fs, precious>>
        /\ db' = IF cmd.keep THEN [mem EXCEPT !.state = "fetched"] ELSE NoPackage
        /\ PathShape(mem) /\ Spares(mem)
    BY <1>1 DEF CommitPurge, IInv, TypeOK, Running, Asked, Selected, UInv, Shapes,
                Spared, Working
  <2>2. ASSUME cmd.keep PROVE PathShape(db') /\ Spares(db)'
    <3>1. /\ db'.archive = mem.archive /\ db'.purge_archive = mem.purge_archive
          /\ db'.src_root = mem.src_root /\ db'.purge_src = mem.purge_src
          /\ db'.version = mem.version /\ db'.out_root = mem.out_root
      BY <2>1, <2>2 DEF Package
    <3> QED
      BY <2>1, <3>1 DEF PathShape, External, OutRoot, Spares
  <2>3. PreciousKept'
    BY <2>1 DEF UInv, PreciousKept
  <2> QED
    BY <2>1, <2>2, <2>3, FinishKeeps DEF Selected
<1>2. CASE PurgeBroken
  BY <1>2 DEF PurgeBroken, UInv, Shapes, Spared, Commanded, Fetching, Selecting,
              Unpacking, Unarmed, Working, Selected, PreciousKept
<1> QED
  BY <1>1, <1>2, StartPurgeKeeps DEF Purge

LEMMA WorldKeeps ==
    ASSUME IInv, UInv, Crash \/ StartAnother \/ UNCHANGED vars PROVE UInv'
<1>1. CASE Crash
  BY <1>1, FinishKeeps
  DEF Crash, UInv, PreciousKept, Shapes, Spared, Spares, Selected
<1>2. CASE StartAnother
  <2>1. PreciousKept'
    BY <1>2, RemovedKeeps, StashNotPrecious DEF StartAnother, UInv
  <2>2. \A f \in LocalPath : f # Stash => fs'[f] = fs[f]
    BY <1>2 DEF StartAnother, Removed
  <2>3. Fetching'
    <3> SUFFICES ASSUME pc # "idle", cmd.op = "fetch", pc \notin {"stash", "get"}
                 PROVE  Exists(cmd.archive)'
      BY <1>2 DEF Fetching, StartAnother, UInv, Commanded
    <3>1. cmd.archive \in Archive /\ Exists(cmd.archive)
      BY DEF IInv, TypeOK, Command, Running, Asked, UInv, Commanded, Fetching
    <3> QED
      BY <1>2, <2>2, <3>1, PathsApart DEF StartAnother, Exists
  <2>4. Selecting' /\ Unpacking' /\ Unarmed'
    <3>1. \A d \in LocalPath : d \in Dir => fs'[d] = fs[d]
      BY <2>2, PathsApart
    <3>2. cmd \in Command
      BY DEF IInv, TypeOK
    <3>3. cmd.op = "unpack" /\ pc # "idle" => cmd.src_root \in Dir
      BY <3>2 DEF IInv, Running, Asked, Command
    <3> QED
      BY <1>2, <3>1, <3>3, PathsApart
      DEF StartAnother, UInv, Commanded, Selecting, Unpacking, Unarmed, Selected
  <2>5. Shapes' /\ Spared'
    BY <1>2 DEF StartAnother, UInv, Shapes, Spared, Spares, Working, Selected
  <2> QED
    BY <2>1, <2>3, <2>4, <2>5 DEF UInv, Commanded
<1>3. CASE UNCHANGED vars
  BY <1>3 DEF vars, UInv, PreciousKept, Shapes, Spared, Spares, Selected, Working,
              Commanded, Fetching, Selecting, Unpacking, Unarmed, Exists
<1> QED
  BY <1>1, <1>2, <1>3

LEMMA NextKeeps ==
    ASSUME Reselect = FALSE, ExternalOut \notin UserDirs, IInv, UInv, [Next]_vars
    PROVE  UInv'
BY UserKeeps, FetchKeeps, UnpackKeeps, PurgeFsKeeps, ConfigureDisfigureKeeps,
   PurgeKeeps, WorldKeeps DEF Next

LEMMA UInvariance ==
    ASSUME Reselect = FALSE, ExternalOut \notin UserDirs
    PROVE  Spec => [](IInv /\ UInv)
<1>1. Init => UInv
  BY InitKeeps
<1>2. IInv /\ UInv /\ [Next]_vars => UInv'
  BY NextKeeps
<1> QED
  BY <1>1, <1>2, Invariance, PTL DEF Spec

\* bpkg never removes an archive or a directory of the user's that it was not
\* given with --purge, whatever fails and wherever a command is killed:
\* every path that pkg_fetch(), pkg_unpack() and pkg_purge_fs() remove, on
\* success or in an exception guard, is one bpkg made or was handed.
THEOREM UserFilesAlwaysKept ==
    ASSUME Reselect = FALSE, ExternalOut \notin UserDirs
    PROVE  Spec => []UserFilesKept
<1>1. UInv => UserFilesKept
  BY DEF UInv, PreciousKept, UserFilesKept
<1> QED
  BY <1>1, UInvariance, PTL

-----------------------------------------------------------------------------
(* How the commands start.                                                 *)

Starting ==
    \/ \E v \in Version, f \in BOOLEAN : StartFetchExisting(v, f) \/ StartFetch(v, f)
    \/ \E d \in UserDirs, v \in Version, f \in BOOLEAN : StartSelect(d, v, f)
    \/ StartUnpack \/ StartUnpackShared \/ StartConfigure
    \/ \E x, y \in BOOLEAN : StartDisfigure(x, y)
    \/ \E k \in BOOLEAN : StartPurge(k)

\* A new command has stashed and made nothing yet.
Fresh(c, step) ==
    /\ c.armed = {} /\ ~c.stashed /\ step # "idle"
    /\ step = "stash" => db.archive = CfgArchive(c.version)
    /\ step \in {"stash", "get"} => c.op = "fetch"
    /\ c.op = "fetch" => ~c.keep
    /\ step = "commit" =>
           \/ c.op \in {"fetch", "select"} /\ ~Selected
           \/ c.op = "unpack"

LEMMA Starts ==
    ASSUME IInv, Starting PROVE \E c, step : Start(c, step) /\ Fresh(c, step)
<1>1. ASSUME NEW v \in Version, NEW f \in BOOLEAN, StartFetchExisting(v, f)
      PROVE  \E c, step : Start(c, step) /\ Fresh(c, step)
  <2> DEFINE c == [NoCommand EXCEPT !.op = "fetch", !.version = v,
                                    !.archive = UserArchive(v), !.purge = f]
             step == IF Selected THEN "purge_src" ELSE "commit"
  <2>1. Fresh(c, step)
    BY NoCommandType DEF Command, NoCommand, Fresh
  <2>2. Start(c, step)
    BY <1>1 DEF StartFetchExisting
  <2> HIDE DEF c, step
  <2> QED
    BY <2>1, <2>2
<1>2. ASSUME NEW v \in Version, NEW f \in BOOLEAN, StartFetch(v, f)
      PROVE  \E c, step : Start(c, step) /\ Fresh(c, step)
  <2> DEFINE c == [NoCommand EXCEPT
                       !.op = "fetch", !.version = v,
                       !.archive = IF f THEN CacheArchive(v) ELSE CfgArchive(v),
                       !.purge = ~f]
             step == IF Selected /\ db.archive = CfgArchive(v)
                     THEN "stash" ELSE "get"
  <2>1. Fresh(c, step)
    BY NoCommandType DEF Command, NoCommand, Fresh
  <2>2. Start(c, step)
    BY <1>2 DEF StartFetch
  <2> HIDE DEF c, step
  <2> QED
    BY <2>1, <2>2
<1>3. ASSUME NEW d \in UserDirs, NEW v \in Version, NEW f \in BOOLEAN,
             StartSelect(d, v, f)
      PROVE  \E c, step : Start(c, step) /\ Fresh(c, step)
  <2> DEFINE c == [NoCommand EXCEPT !.op = "select", !.version = v,
                                    !.src_root = d, !.purge = f]
             step == IF Selected THEN "purge_src" ELSE "commit"
  <2>1. Fresh(c, step)
    BY NoCommandType DEF Command, NoCommand, Fresh
  <2>2. Start(c, step)
    BY <1>3 DEF StartSelect
  <2> HIDE DEF c, step
  <2> QED
    BY <2>1, <2>2
<1>4. CASE StartUnpack
  <2> DEFINE c == [NoCommand EXCEPT
                       !.op = "unpack", !.version = db.version,
                       !.src_root = CfgDir(db.version), !.purge = TRUE]
  <2>1. Fresh(c, "extract")
    BY NoCommandType DEF Command, NoCommand, Fresh
  <2>2. Start(c, "extract")
    BY <1>4 DEF StartUnpack
  <2> HIDE DEF c
  <2> QED
    BY <2>1, <2>2
<1>5. CASE StartUnpackShared
  <2> DEFINE c == [NoCommand EXCEPT !.op = "unpack", !.version = db.version,
                                    !.src_root = CacheDir(db.version)]
  <2>1. Fresh(c, "commit")
    BY NoCommandType DEF Command, NoCommand, Fresh
  <2>2. Start(c, "commit")
    BY <1>5 DEF StartUnpackShared
  <2> HIDE DEF c
  <2> QED
    BY <2>1, <2>2
<1>6. CASE StartConfigure
  <2> DEFINE c == [NoCommand EXCEPT !.op = "configure", !.version = db.version]
  <2>1. Fresh(c, "build")
    BY NoCommandType DEF Command, NoCommand, Fresh
  <2>2. Start(c, "build")
    BY <1>6 DEF StartConfigure
  <2> HIDE DEF c
  <2> QED
    BY <2>1, <2>2
<1>7. ASSUME NEW x \in BOOLEAN, NEW y \in BOOLEAN, StartDisfigure(x, y)
      PROVE  \E c, step : Start(c, step) /\ Fresh(c, step)
  <2> DEFINE c == [NoCommand EXCEPT !.op = "disfigure", !.version = db.version,
                                    !.clean = x, !.disfigure = y]
  <2>1. Fresh(c, "clean")
    BY NoCommandType DEF Command, NoCommand, Fresh
  <2>2. Start(c, "clean")
    BY <1>7 DEF StartDisfigure
  <2> HIDE DEF c
  <2> QED
    BY <2>1, <2>2
<1>8. ASSUME NEW k \in BOOLEAN, StartPurge(k)
      PROVE  \E c, step : Start(c, step) /\ Fresh(c, step)
  <2> DEFINE c == [NoCommand EXCEPT !.op = "purge", !.version = db.version,
                                    !.keep = k]
  <2>1. Fresh(c, "purge_src")
    BY NoCommandType DEF Command, NoCommand, Fresh
  <2>2. Start(c, "purge_src")
    BY <1>8 DEF StartPurge
  <2> HIDE DEF c
  <2> QED
    BY <2>1, <2>2
<1> QED
  BY <1>1, <1>2, <1>3, <1>4, <1>5, <1>6, <1>7, <1>8 DEF Starting

-----------------------------------------------------------------------------
(* The files a package stands on.                                          *)

Holds(s, f) == f \in LocalPath => s[f] # "none"

ArchiveIn(p, s) == p.state # "broken" /\ p.purge_archive => Holds(s, p.archive)

SourceIn(p, s) ==
    p.state \in {"unpacked", "configured"} /\ p.src_root \in LocalPath =>
        s[p.src_root] = "source"

\* Until a command has come past what may fail without breaking the package,
\* its files are in place, but for an archive that is stashed; and those that
\* commands want to find still there at the end, they do.
InPlace ==
    /\ Selected /\ pc \in {"idle", "stash", "get", "extract", "build"} =>
           /\ SourceIn(db, fs)
           /\ ArchiveIn(db, fs) \/ (pc = "get" /\ cmd.stashed)
    /\ pc = "stash" \/ (pc = "get" /\ cmd.stashed) =>
           db.archive = CfgArchive(cmd.version)
    /\ pc = "get" /\ cmd.stashed => fs[Stash] # "none"
    /\ \/ pc = "clean"
       \/ pc = "commit" /\ cmd.op \in {"unpack", "configure", "disfigure"}
       \/ pc # "idle" /\ cmd.op = "purge" /\ cmd.keep
       => (mem.purge_archive => Holds(fs, mem.archive))
    /\ \/ pc = "clean"
       \/ pc = "commit" /\ cmd.op \in {"configure", "disfigure"}
       => (mem.src_root \in LocalPath => fs[mem.src_root] = "source")

PInv == disturbed = "no" => InPlace

\* All the files of the package are at least what they were.
Steady ==
    \A f \in LocalPath : f \in Archive \cup Dir =>
        /\ fs[f] # "none" => fs'[f] # "none"
        /\ fs[f] = "source" => fs'[f] = "source"

LEMMA StashSteady == ASSUME fs' = Removed({Stash}) PROVE Steady
BY PathsApart DEF Steady, Removed

LEMMA MakeOutputSteady ==
    ASSUME IInv, NEW out, MakeOutput(out) PROVE Steady
BY DEF Steady, MakeOutput, IInv, TypeOK

LEMMA SteadyPlaces ==
    ASSUME Steady, NEW p \in Package
    PROVE  /\ p.archive # NoPath /\ Holds(fs, p.archive) => Holds(fs', p.archive)
           /\ (p.purge_archive => p.archive # NoPath) /\ ArchiveIn(p, fs)
                  => ArchiveIn(p, fs')
           /\ p.src_root # NoPath /\ p.src_root \in LocalPath
              /\ fs[p.src_root] = "source" => fs'[p.src_root] = "source"
           /\ (p.state \in {"unpacked", "configured"} => p.src_root # NoPath)
              /\ SourceIn(p, fs) => SourceIn(p, fs')
BY DEF Steady, Package, Holds, ArchiveIn, SourceIn

LEMMA FinishPlaced ==
    ASSUME Finish, disturbed' = "no" /\ Selected' =>
                       SourceIn(db', fs') /\ ArchiveIn(db', fs')
    PROVE  PInv'
BY DEF Finish, PInv, InPlace

LEMMA BreakPlaced == ASSUME IInv, Break, mem # NoPackage PROVE PInv'
<1>1. mem \in Package /\ db' = [mem EXCEPT !.state = "broken"] /\ Finish
  BY DEF Break, IInv, TypeOK
<1>2. db'.state = "broken"
  BY <1>1 DEF Package
<1> QED
  BY <1>1, <1>2, FinishPlaced DEF SourceIn, ArchiveIn

\* A command that fails leaves the package as it was.
LEMMA FailPlaced ==
    ASSUME IInv, PInv, Fail, Steady,
           pc \in {"idle", "stash", "extract", "build"} \/ (pc = "get" /\ ~cmd.stashed)
    PROVE  PInv'
<1>1. Selected => db \in Package /\ FieldsMatchState(db)
  BY DEF IInv, TypeOK, Selected
<1>2. disturbed = "no" /\ Selected => SourceIn(db, fs) /\ ArchiveIn(db, fs)
  BY DEF PInv, InPlace
<1>3. disturbed = "no" /\ Selected => SourceIn(db, fs') /\ ArchiveIn(db, fs')
  BY <1>1, <1>2, SteadyPlaces DEF FieldsMatchState
<1> QED
  BY <1>3, FinishPlaced DEF Fail, Selected

LEMMA StartPlaced ==
    ASSUME IInv, IInv', PInv, Starting PROVE PInv'
<1> SUFFICES ASSUME disturbed' = "no" PROVE InPlace'
  BY DEF PInv
<1>0. PICK c, step : Start(c, step) /\ Fresh(c, step)
  BY Starts
<1>1. /\ pc = "idle" /\ pc' = step /\ cmd' = c /\ mem' = db /\ db' = db
      /\ disturbed = "no" /\ Steady
  BY <1>0, StashSteady DEF Start
<1>2. ASSUME Selected PROVE SourceIn(db, fs') /\ ArchiveIn(db, fs')
  <2>1. /\ db \in Package /\ FieldsMatchState(db)
        /\ SourceIn(db, fs) /\ ArchiveIn(db, fs)
    BY <1>1, <1>2 DEF IInv, TypeOK, PInv, InPlace, Selected
  <2> QED
    BY <1>1, <2>1, SteadyPlaces DEF FieldsMatchState
<1>3. step # "idle" /\ c.op \in {"unpack", "configure", "disfigure", "purge"} =>
          Selected /\ db.state \in {"fetched", "unpacked", "configured"}
  BY <1>1 DEF IInv, Running, Asked, Selected
<1>4. step = "clean" => c.op = "disfigure"
  BY <1>1 DEF IInv, Running
<1>5. step # "idle" /\ c.op \in {"configure", "disfigure"} =>
          db.state \in {"unpacked", "configured"}
  BY <1>1 DEF IInv, Running, Asked
<1> QED
  BY <1>0, <1>1, <1>2, <1>3, <1>4, <1>5
  DEF Fresh, InPlace, Selected, ArchiveIn, SourceIn

LEMMA InitPlaced == Init => PInv
BY DEF Init, PInv, InPlace, Selected

LEMMA UserPlaced == ASSUME IInv, PInv, User PROVE PInv'
<1> SUFFICES ASSUME disturbed' = "no" PROVE InPlace'
  BY DEF PInv
<1>1. /\ pc = "idle" /\ pc' = "idle" /\ db' = db /\ disturbed = "no"
  BY DEF User, PlaceDir, CleanUp
<1>2. Selected => SourceIn(db, fs') /\ ArchiveIn(db, fs')
  <2>1. CASE \E d \in UserDirs : PlaceDir(d)
    <3>1. Steady
      BY <2>1 DEF PlaceDir, Steady, IInv, TypeOK
    <3>2. Selected => /\ db \in Package /\ FieldsMatchState(db)
                      /\ SourceIn(db, fs) /\ ArchiveIn(db, fs)
      BY <1>1 DEF IInv, TypeOK, PInv, InPlace, Selected
    <3> QED
      BY <3>1, <3>2, SteadyPlaces DEF FieldsMatchState
  <2>2. CASE \E p \in LocalPath : CleanUp(p)
    BY <1>1, <2>2 DEF CleanUp, SourceIn, ArchiveIn
  <2> QED
    BY <2>1, <2>2 DEF User
<1> QED
  BY <1>1, <1>2 DEF InPlace, Selected

LEMMA StashArchivePlaced == ASSUME IInv, PInv, StashArchive PROVE PInv'
<1> SUFFICES ASSUME disturbed' = "no" PROVE InPlace'
  BY DEF PInv
<1>1. /\ Step("stash", "get") /\ cmd \in Command /\ cmd.version \in Version
      /\ cmd.op = "fetch" /\ Selected /\ disturbed = "no"
      /\ fs[CfgArchive(cmd.version)] # "none"
      /\ fs' = [fs EXCEPT ![Stash] = fs[CfgArchive(cmd.version)],
                          ![CfgArchive(cmd.version)] = "none"]
      /\ cmd' = [cmd EXCEPT !.stashed = TRUE]
      /\ db \in Package /\ FieldsMatchState(db)
  BY DEF StashArchive, Step, IInv, TypeOK, Running, Command, Selected
<1>2. cmd'.op = "fetch" /\ cmd'.version = cmd.version /\ cmd'.stashed
  BY <1>1 DEF Command
<1>3. SourceIn(db, fs) /\ db.archive = CfgArchive(cmd.version)
  BY <1>1 DEF Step, PInv, InPlace
<1>4. SourceIn(db, fs')
  BY <1>1, <1>3, PathsApart, PathTypes
  DEF SourceIn, Package, FieldsMatchState, IInv, TypeOK
<1>5. fs'[Stash] # "none"
  BY <1>1, PathsApart, PathTypes DEF IInv, TypeOK
<1> QED
  BY <1>1, <1>2, <1>3, <1>4, <1>5 DEF Step, InPlace, Selected

LEMMA GetArchiveFailPlaced == ASSUME IInv, PInv, GetArchiveFail PROVE PInv'
<1>0. pc = "get"
  BY DEF GetArchiveFail
<1>1. CASE StashRestorable /\ Break
  <2>1. mem # NoPackage
    BY <1>0, <1>1 DEF StashRestorable, IInv, Running, Selected
  <2> QED
    BY <1>1, <2>1, BreakPlaced
<1>2. CASE ~StashRestorable /\ Fail /\ Remove({Stash})
  <2>1. CASE disturbed = "no"
    <3>1. ~cmd.stashed
      BY <1>0, <1>2, <2>1 DEF StashRestorable, PInv, InPlace
    <3> QED
      BY <1>0, <1>2, <3>1, StashSteady, FailPlaced DEF Remove
  <2>2. CASE disturbed # "no"
    BY <1>2, <2>2 DEF Fail, PInv
  <2> QED
    BY <2>1, <2>2
<1>3. CASE StashRestorable /\ Fail /\ RestoreStash(CfgArchive(cmd.version))
  <2> SUFFICES ASSUME disturbed = "no", Selected
               PROVE  SourceIn(db, fs') /\ ArchiveIn(db, fs')
    BY <1>3, FinishPlaced DEF Fail, Selected
  <2>1. /\ cmd.stashed /\ fs[Stash] # "none" /\ cmd.version \in Version
        /\ db \in Package /\ FieldsMatchState(db)
        /\ SourceIn(db, fs) /\ db.archive = CfgArchive(cmd.version)
    BY <1>0, <1>3 DEF StashRestorable, IInv, TypeOK, PInv, InPlace, Command, Selected
  <2>2. \A f \in LocalPath :
            /\ f = CfgArchive(cmd.version) => fs'[f] # "none"
            /\ f \in Dir => fs'[f] = fs[f]
    BY <1>3, <2>1, PathsApart, PathTypes DEF RestoreStash
  <2> QED
    BY <2>1, <2>2 DEF SourceIn, ArchiveIn, Holds, Package, FieldsMatchState
<1> QED
  BY <1>1, <1>2, <1>3 DEF GetArchiveFail

LEMMA CommitFetchPlaced == ASSUME IInv, UInv, CommitFetch PROVE PInv'
<1>1. /\ Finish /\ cmd \in Command /\ mem \in Package \cup {NoPackage}
      /\ db' = [Base EXCEPT !.state = "fetched", !.archive = cmd.archive,
                            !.purge_archive = cmd.purge]
      /\ fs' = Removed({Stash}) /\ cmd.archive \in Archive
      /\ Exists(cmd.archive)
  BY DEF CommitFetch, IInv, TypeOK, Running, Asked, Command, UInv, Commanded, Fetching
<1>2. Base \in Package
  BY <1>1 DEF Base, Package, Command
<1>3. db'.archive = cmd.archive /\ db'.state = "fetched"
  BY <1>1, <1>2 DEF Package
<1>4. Holds(fs', cmd.archive)
  BY <1>1, PathsApart DEF Exists, Holds, Removed
<1> QED
  BY <1>1, <1>3, <1>4, FinishPlaced DEF SourceIn, ArchiveIn

LEMMA FetchPlaced == ASSUME IInv, IInv', UInv, PInv, Fetch PROVE PInv'
<1>1. CASE StashArchiveFail
  BY <1>1, FailPlaced DEF StashArchiveFail, files, Steady
<1>2. CASE GetArchive
  <2>1. cmd'.op = "fetch"
    BY <1>2 DEF GetArchive, Step, IInv, TypeOK, Running, Command
  <2> QED
    BY <1>2, <2>1 DEF GetArchive, Step, PInv, InPlace
<1> QED
  BY <1>1, <1>2, StartPlaced, StashArchivePlaced, GetArchiveFailPlaced,
     CommitFetchPlaced DEF Fetch, Starting

LEMMA UnpackPlaced == ASSUME IInv, IInv', UInv, PInv, Unpack PROVE PInv'
<1>1. CASE Starting
  BY <1>1, StartPlaced
<1>2. CASE Extract
  <2> SUFFICES ASSUME disturbed' = "no" PROVE InPlace'
    BY DEF PInv
  <2>1. /\ pc = "extract" /\ pc' = "commit" /\ UNCHANGED <<db, mem>>
        /\ disturbed = "no" /\ cmd \in Command /\ cmd.op = "unpack"
        /\ fs' = [fs EXCEPT ![cmd.src_root] = "source"]
        /\ cmd' = [cmd EXCEPT !.armed = {cmd.src_root}]
        /\ Selected /\ mem = db /\ db \in Package /\ FieldsMatchState(db)
        /\ db.state = "fetched"
    BY <1>2 DEF Extract, Step, IInv, TypeOK, Running, Asked, Selected
  <2>2. cmd'.op = "unpack"
    BY <2>1 DEF Command
  <2>3. Steady
    BY <2>1 DEF Steady, IInv, TypeOK
  <2>4. ArchiveIn(db, fs)
    BY <2>1 DEF PInv, InPlace
  <2>5. ArchiveIn(db, fs')
    BY <2>1, <2>3, <2>4, SteadyPlaces DEF FieldsMatchState
  <2> QED
    BY <2>1, <2>2, <2>5 DEF InPlace, ArchiveIn
<1>3. CASE ExtractFail
  <2> SUFFICES ASSUME disturbed = "no", Selected
               PROVE  SourceIn(db, fs') /\ ArchiveIn(db, fs')
    BY <1>3, FinishPlaced DEF ExtractFail, Fail, Selected
  <2>1. /\ db \in Package /\ FieldsMatchState(db) /\ db.state = "fetched"
        /\ ArchiveIn(db, fs) /\ cmd.src_root \in Dir
        /\ fs' = Removed({cmd.src_root})
    BY <1>3 DEF ExtractFail, Remove, IInv, TypeOK, Running, Asked, Command, PInv,
                InPlace, Selected
  <2> QED
    BY <2>1, PathsApart
    DEF SourceIn, ArchiveIn, Holds, Removed, Package, FieldsMatchState
<1>4. CASE CommitSelect
  <2>1. /\ Finish /\ cmd \in Command /\ mem \in Package \cup {NoPackage}
        /\ db' = [Base EXCEPT !.state = "unpacked", !.src_root = cmd.src_root,
                              !.purge_src = cmd.purge]
        /\ UNCHANGED fs
        /\ mem # NoPackage => SourcePurged /\ mem.archive = NoPath
        /\ fs[cmd.src_root] = "source"
    BY <1>4 DEF CommitSelect, IInv, TypeOK, Running, Selected, UInv, Commanded, Selecting
  <2>2. Base \in Package /\ ~Base.purge_archive
    BY <2>1 DEF Base, Package, Command, SourcePurged
  <2>3. ~db'.purge_archive /\ db'.src_root = cmd.src_root
    BY <2>1, <2>2 DEF Package, Command
  <2> QED
    BY <2>1, <2>3, FinishPlaced DEF SourceIn, ArchiveIn
<1>5. CASE CommitUnpack
  <2> SUFFICES ASSUME disturbed = "no"
               PROVE  SourceIn(db', fs') /\ ArchiveIn(db', fs')
    BY <1>5, FinishPlaced DEF CommitUnpack, Selected
  <2>1. /\ cmd \in Command /\ mem \in Package /\ UNCHANGED fs
        /\ db' = [mem EXCEPT !.state = "unpacked", !.src_root = cmd.src_root,
                             !.purge_src = cmd.purge]
        /\ mem.purge_archive => Holds(fs, mem.archive)
        /\ cmd.src_root \in LocalPath => fs[cmd.src_root] = "source"
    BY <1>5 DEF CommitUnpack, IInv, TypeOK, Running, Asked, Selected, PInv, InPlace,
                UInv, Commanded, Unpacking
  <2>2. /\ db'.archive = mem.archive /\ db'.purge_archive = mem.purge_archive
        /\ db'.src_root = cmd.src_root
    BY <2>1 DEF Package, Command
  <2> QED
    BY <2>1, <2>2 DEF SourceIn, ArchiveIn
<1> QED
  BY <1>1, <1>2, <1>3, <1>4, <1>5 DEF Unpack, Starting

LEMMA PurgeFsPlaced == ASSUME IInv, PInv, PurgeFs PROVE PInv'
<1>1. CASE PurgeSrcFail \/ PurgeArchiveFail
  <2>1. mem # NoPackage /\ Break
    BY <1>1 DEF PurgeSrcFail, PurgeArchiveFail, BreakPurge, IInv, Running, Loaded,
                Selected
  <2> QED
    BY <2>1, BreakPlaced
<1>2. CASE PurgeSrc
  <2>1. /\ pc = "purge_src" /\ pc' = "purge_archive"
        /\ cmd' = cmd /\ UNCHANGED disturbed
        /\ mem = db /\ Selected /\ mem \in Package /\ FieldsMatchState(mem)
        /\ mem' = [mem EXCEPT !.src_root = NoPath, !.purge_src = FALSE]
        /\ fs' = Removed(IF mem.purge_src THEN {mem.src_root} ELSE {})
        /\ cmd.op \in {"fetch", "select", "purge"}
    BY <1>2 DEF PurgeSrc, Step, Remove, IInv, TypeOK, Running, Loaded, Selected
  <2>2. mem'.archive = mem.archive /\ mem'.purge_archive = mem.purge_archive
    BY <2>1 DEF Package
  <2>3. mem.purge_archive /\ Holds(fs, mem.archive) => Holds(fs', mem.archive)
    BY <2>1, PathsApart DEF Holds, Removed, Package, FieldsMatchState
  <2> QED
    BY <2>1, <2>2, <2>3 DEF PInv, InPlace
<1>3. CASE PurgeArchive
  <2>1. /\ pc = "purge_archive" /\ pc' = "commit"
        /\ cmd' = cmd /\ UNCHANGED disturbed
        /\ cmd.op \in {"fetch", "select", "purge"}
        /\ cmd.keep => mem' = mem /\ fs' = Removed({})
    BY <1>3 DEF PurgeArchive, PurgesArchive, Step, Remove, IInv, Running
  <2>2. cmd.keep /\ Holds(fs, mem.archive) => Holds(fs', mem.archive)
    BY <2>1 DEF Holds, Removed
  <2> QED
    BY <2>1, <2>2 DEF PInv, InPlace
<1> QED
  BY <1>1, <1>2, <1>3 DEF PurgeFs

LEMMA ConfigurePlaced ==
    ASSUME IInv, IInv', PInv,
           StartConfigure \/ Configure \/ ConfigureFail \/ CommitConfigure
    PROVE  PInv'
<1>1. CASE StartConfigure
  BY <1>1, StartPlaced DEF Starting
<1>2. ASSUME pc = "build"
      PROVE  /\ Selected /\ mem = db /\ db.state = "unpacked"
             /\ mem \in Package /\ FieldsMatchState(mem) /\ cmd.op = "configure"
             /\ disturbed = "no" => SourceIn(mem, fs) /\ ArchiveIn(mem, fs)
  BY <1>2 DEF IInv, TypeOK, Running, Asked, Selected, PInv, InPlace
<1>3. ASSUME pc = "build", Steady, disturbed = "no"
      PROVE  /\ mem.purge_archive => Holds(fs', mem.archive)
             /\ mem.src_root \in LocalPath => fs'[mem.src_root] = "source"
  <2>1. SourceIn(mem, fs') /\ ArchiveIn(mem, fs')
    BY <1>2, <1>3, SteadyPlaces DEF FieldsMatchState
  <2> QED
    BY <1>2, <1>3, <2>1 DEF SourceIn, ArchiveIn
<1>4. CASE Configure
  <2>1. /\ pc = "build" /\ pc' = "commit" /\ UNCHANGED <<mem, cmd, disturbed>>
        /\ Steady
    BY <1>4, MakeOutputSteady DEF Configure, Step
  <2> QED
    BY <2>1, <1>2, <1>3 DEF PInv, InPlace
<1>5. CASE pc = "build" /\ Fail /\ UNCHANGED files
  BY <1>5, FailPlaced DEF files, Steady
<1>6. CASE /\ Step("build", "clean")
           /\ mem' = [mem EXCEPT !.state = "broken", !.out_root = OutRoot(mem)]
           /\ \/ UNCHANGED files
              \/ MakeOutput(OutRoot(mem)) /\ conf' = conf \cup {OutRoot(mem)}
           /\ cmd' = [cmd EXCEPT !.op = "disfigure"]
  <2>1. /\ pc = "build" /\ pc' = "clean" /\ UNCHANGED disturbed /\ Steady
        /\ cmd \in Command
    BY <1>6, MakeOutputSteady DEF Step, files, Steady, IInv, TypeOK
  <2>2. /\ mem'.archive = mem.archive /\ mem'.purge_archive = mem.purge_archive
        /\ mem'.src_root = mem.src_root /\ cmd'.op = "disfigure"
    BY <1>6, <1>2, <2>1, OutRootType DEF Package, Command
  <2> QED
    BY <2>1, <2>2, <1>3 DEF PInv, InPlace
<1>7. CASE CommitConfigure
  <2>1. /\ Finish /\ pc = "commit" /\ cmd.op = "configure" /\ mem \in Package
        /\ db' = [mem EXCEPT !.state = "configured", !.out_root = OutRoot(mem)]
        /\ UNCHANGED <<fs, disturbed>>
    BY <1>7 DEF CommitConfigure, IInv, TypeOK, Running, Asked, Selected
  <2>2. /\ db'.archive = mem.archive /\ db'.purge_archive = mem.purge_archive
        /\ db'.src_root = mem.src_root
    BY <2>1, OutRootType DEF Package
  <2> QED
    BY <2>1, <2>2, FinishPlaced DEF SourceIn, ArchiveIn, PInv, InPlace
<1> QED
  BY <1>1, <1>4, <1>5, <1>6, <1>7 DEF ConfigureFail

LEMMA DisfigurePlaced ==
    ASSUME ExternalOut \notin UserDirs, IInv, IInv', UInv, PInv,
           \/ \E x, y \in BOOLEAN : StartDisfigure(x, y)
           \/ CleanSkip \/ Clean \/ CleanFail \/ CommitDisfigure
    PROVE  PInv'
<1>1. CASE \E x, y \in BOOLEAN : StartDisfigure(x, y)
  BY <1>1, StartPlaced DEF Starting
<1>2. ASSUME pc \in {"clean", "commit"}, cmd.op = "disfigure"
      PROVE  /\ mem \in Package /\ mem # NoPackage /\ PathShape(mem)
             /\ mem.src_root # NoPath /\ mem.out_root # NoPath
             /\ mem.purge_archive => mem.archive # NoPath
             /\ disturbed = "no" =>
                    /\ mem.purge_archive => Holds(fs, mem.archive)
                    /\ mem.src_root \in LocalPath => fs[mem.src_root] = "source"
  BY <1>2 DEF IInv, TypeOK, Running, Asked, Selected, UInv, Shapes, Working,
              Commanded, Unarmed, PInv, InPlace
<1>3. CASE CleanFail
  <2>1. mem # NoPackage /\ Break
    BY <1>2, <1>3 DEF CleanFail, IInv, Running
  <2> QED
    BY <2>1, BreakPlaced
<1>4. CASE CleanSkip \/ Clean
  <2>1. /\ pc = "clean" /\ pc' = "commit" /\ UNCHANGED <<mem, cmd, disturbed>>
        /\ cmd.op = "disfigure"
    BY <1>4 DEF CleanSkip, Clean, Step, IInv, Running
  <2>2. ASSUME disturbed = "no", fs' = Removed({mem.out_root}),
               mem.out_root # mem.src_root
        PROVE  /\ mem.purge_archive => Holds(fs', mem.archive)
               /\ mem.src_root \in LocalPath => fs'[mem.src_root] = "source"
    BY <1>2, <2>1, <2>2, PathsApart DEF Holds, Removed, Package
  <2>3. CASE External(mem) /\ Remove({mem.out_root})
    <3>1. mem.out_root # mem.src_root
      BY <1>2, <2>1, <2>3 DEF PathShape, OutRoot
    <3> QED
      BY <2>1, <2>2, <2>3, <3>1 DEF Remove, PInv, InPlace
  <2>4. CASE ~External(mem) /\ fs[mem.out_root] = "output" /\ Remove({mem.out_root})
    <3>1. disturbed = "no" => mem.out_root # mem.src_root
      <4>1. mem.out_root \in LocalPath
        BY <1>2, <2>1, OutRootType DEF PathShape
      <4> QED
        BY <1>2, <2>1, <2>4, <4>1
    <3> QED
      BY <2>1, <2>2, <2>4, <3>1 DEF Remove, PInv, InPlace
  <2>5. CASE UNCHANGED fs
    BY <1>2, <2>1, <2>5 DEF PInv, InPlace
  <2> QED
    BY <1>4, <2>3, <2>4, <2>5 DEF Clean, CleanSkip
<1>5. CASE CommitDisfigure
  <2>1. /\ Finish /\ UNCHANGED <<fs, disturbed>>
        /\ db' = [mem EXCEPT !.state = "unpacked", !.out_root = NoPath]
        /\ pc = "commit" /\ cmd.op = "disfigure"
    BY <1>5 DEF CommitDisfigure
  <2>2. /\ db'.archive = mem.archive /\ db'.purge_archive = mem.purge_archive
        /\ db'.src_root = mem.src_root
    BY <1>2, <2>1 DEF Package
  <2> QED
    BY <1>2, <2>1, <2>2, FinishPlaced DEF SourceIn, ArchiveIn
<1> QED
  BY <1>1, <1>3, <1>4, <1>5

LEMMA PurgePlaced == ASSUME IInv, IInv', PInv, Purge PROVE PInv'
<1>1. CASE \E k \in BOOLEAN : StartPurge(k)
  BY <1>1, StartPlaced DEF Starting
<1>2. CASE CommitPurge
  <2>1. /\ Finish /\ mem \in Package /\ UNCHANGED <<fs, disturbed>>
        /\ pc = "commit" /\ cmd.op = "purge"
        /\ db' = IF cmd.keep THEN [mem EXCEPT !.state = "fetched"] ELSE NoPackage
    BY <1>2 DEF CommitPurge, IInv, TypeOK, Running, Asked, Selected
  <2>2. cmd.keep => /\ db'.archive = mem.archive /\ db'.state = "fetched"
                    /\ db'.purge_archive = mem.purge_archive
    BY <2>1 DEF Package
  <2> QED
    BY <2>1, <2>2, FinishPlaced DEF SourceIn, ArchiveIn, PInv, InPlace, Selected
<1>3. CASE PurgeBroken
  BY <1>3 DEF PurgeBroken, PInv, InPlace, Selected
<1> QED
  BY <1>1, <1>2, <1>3 DEF Purge

LEMMA NextPlaced ==
    ASSUME ExternalOut \notin UserDirs, IInv, IInv', UInv, PInv, [Next]_vars
    PROVE  PInv'
<1>1. ASSUME NEW v \in Version, ConfigureSystem(v) PROVE PInv'
  <2>1. /\ pc' = "idle"
        /\ db' = [state |-> "system", version |-> v,
                  archive |-> NoPath, purge_archive |-> FALSE,
                  src_root |-> NoPath, purge_src |-> FALSE, out_root |-> NoPath]
    BY <1>1 DEF ConfigureSystem
  <2> QED
    BY <2>1 DEF PInv, InPlace, SourceIn, ArchiveIn
<1>2. CASE DisfigureSystem
  BY <1>2 DEF DisfigureSystem, PInv, InPlace, Selected
<1>3. CASE Crash \/ StartAnother
  BY <1>3 DEF Crash, StartAnother, PInv
<1>4. CASE UNCHANGED vars
  BY <1>4 DEF vars, PInv, InPlace, Selected
<1> QED
  BY <1>1, <1>2, <1>3, <1>4, UserPlaced, FetchPlaced, UnpackPlaced, PurgeFsPlaced,
     ConfigurePlaced, DisfigurePlaced, PurgePlaced DEF Next, ConfigureDisfigure

LEMMA PInvariance ==
    ASSUME Reselect = FALSE, ExternalOut \notin UserDirs
    PROVE  Spec => [](IInv /\ UInv /\ PInv)
<1>1. Init => PInv
  BY InitPlaced
<1>2. IInv /\ IInv' /\ UInv /\ PInv /\ [Next]_vars => PInv'
  BY NextPlaced
<1> QED
  BY <1>1, <1>2, UInvariance, PTL DEF Spec

\* Between commands a package has the archive bpkg looks after for it and the
\* source it was unpacked to, whichever commands failed before: pkg_fetch()
\* puts the old archive back, and whatever pkg_purge_fs() has begun to remove
\* belongs to a package that is now broken.
THEOREM FilesAlwaysInPlace ==
    ASSUME Reselect = FALSE, ExternalOut \notin UserDirs
    PROVE  Spec => []FilesInPlace
<1>1. IInv /\ PInv => FilesInPlace
  BY DEF PInv, InPlace, FilesInPlace, AtRest, HasArchive, HasSource, SourceIn,
         ArchiveIn, Holds, Exists
<1> QED
  BY <1>1, PInvariance, PTL

-----------------------------------------------------------------------------
(* The files bpkg made or took over.                                       *)

\* A directory among them is there until it is removed.  (An archive need not
\* be: it may be stashed.)
MadeInv ==
    /\ made \subseteq Archive \cup Dir
    /\ \A f \in made : f \in Dir => fs[f] # "none"

\* What else a command knows of the archive of the package.
Knows ==
    /\ pc # "idle" /\ cmd.op = "fetch" => ~cmd.keep
    /\ pc = "stash" \/ (pc \in {"get", "purge_src", "purge_archive"} /\ cmd.stashed)
           => mem.archive = CfgArchive(cmd.version)
    /\ pc = "commit" /\ cmd.op = "purge" /\ ~cmd.keep => mem.archive = NoPath
    /\ pc = "commit" /\ cmd.op = "fetch" /\ mem # NoPackage =>
           mem.archive \in {NoPath, cmd.archive}
    /\ Selected /\ db.state = "system" =>
           ~db.purge_archive /\ ~db.purge_src /\ db.out_root = NoPath

Owns(p, f) ==
    \/ p.purge_archive /\ f = p.archive
    \/ p.purge_src /\ f = p.src_root
    \/ f = p.out_root

\* The running command is about to make f the package's, or removes it.
Making(f) ==
    pc # "idle" /\ (f \in cmd.armed
                    \/ (pc = "commit" /\ cmd.op = "configure" /\ f = OutRoot(mem)))

\* What a whole pkg-disfigure has removed.
Wiped(f) ==
    /\ pc = "commit" /\ cmd.op = "disfigure" /\ Wipe
    /\ f = mem.out_root /\ f # mem.src_root

\* Somebody answers for f.
Accounted(f) ==
    \/ fs[f] = "none"
    \/ pc = "idle" /\ Selected /\ Owns(db, f)
    \/ Making(f)
    \/ Working /\ Owns(mem, f) /\ ~Wiped(f)

AllAccounted == disturbed # "killed" => \A f \in made : Accounted(f)

\* The commands that end.
LEMMA FinishKnows ==
    ASSUME Knows, Finish, db' = db \/ (Selected' => db'.state # "system")
    PROVE  Knows'
BY DEF Knows, Finish, Selected

LEMMA NextKnows ==
    ASSUME IInv, IInv', Knows, [Next]_vars PROVE Knows'
<1>0. cmd \in Command /\ mem \in Package \cup {NoPackage}
  BY DEF IInv, TypeOK
<1>1. CASE User \/ StartAnother \/ UNCHANGED vars
  BY <1>1 DEF User, PlaceDir, CleanUp, StartAnother, vars, Knows, Selected
<1>2. CASE Starting
  <2>1. PICK c, step : Start(c, step) /\ Fresh(c, step)
    BY <1>2, Starts
  <2>2. pc' = step /\ cmd' = c /\ mem' = db /\ db' = db
    BY <2>1 DEF Start
  <2>3. c.op = "purge" => step # "commit"
    BY <2>1 DEF Fresh
  <2>4. Selected => db # NoPackage
    BY DEF Selected
  <2> QED
    BY <2>1, <2>2, <2>3, <2>4 DEF Fresh, Knows, Selected
<1>3. CASE Fail \/ Crash
  BY <1>3, FinishKnows DEF Fail, Crash
<1>4. CASE Break /\ mem # NoPackage
  BY <1>0, <1>4, FinishKnows DEF Break, Package
<1>5. CASE CommitFetch \/ CommitSelect
  <2>1. /\ Finish /\ Base \in Package
        /\ \/ db' = [Base EXCEPT !.state = "fetched", !.archive = cmd.archive,
                                 !.purge_archive = cmd.purge]
           \/ db' = [Base EXCEPT !.state = "unpacked", !.src_root = cmd.src_root,
                                 !.purge_src = cmd.purge]
    BY <1>0, <1>5 DEF CommitFetch, CommitSelect, Base, Package, Command
  <2>2. db'.state # "system"
    BY <2>1 DEF Package
  <2> QED
    BY <2>1, <2>2, FinishKnows
<1>6. CASE CommitUnpack \/ CommitConfigure \/ CommitDisfigure \/ CommitPurge
  <2>1. Finish /\ mem \in Package
    BY <1>0, <1>6 DEF CommitUnpack, CommitConfigure, CommitDisfigure, CommitPurge,
                      IInv, Running, Asked, Selected
  <2>2. Selected' => db'.state \in {"unpacked", "configured", "fetched"}
    BY <1>6, <2>1 DEF CommitUnpack, CommitConfigure, CommitDisfigure, CommitPurge,
                      Package, Selected
  <2> QED
    BY <2>1, <2>2, FinishKnows
<1>7. CASE DisfigureSystem \/ PurgeBroken
  BY <1>7 DEF DisfigureSystem, PurgeBroken, Knows, Selected
<1>8. ASSUME NEW v \in Version, ConfigureSystem(v) PROVE Knows'
  BY <1>8 DEF ConfigureSystem, Knows, Selected
<1>9. CASE StashArchive
  <2>1. /\ pc = "stash" /\ pc' = "get" /\ UNCHANGED <<db, mem>>
        /\ cmd' = [cmd EXCEPT !.stashed = TRUE]
    BY <1>9 DEF StashArchive, Step
  <2>2. cmd'.keep = cmd.keep /\ cmd'.op = cmd.op /\ cmd'.version = cmd.version
    BY <1>0, <2>1 DEF Command
  <2> QED
    BY <2>1, <2>2 DEF Knows, Selected
<1>10. CASE GetArchive
  <2>1. /\ pc = "get" /\ pc' = IF Selected THEN "purge_src" ELSE "commit"
        /\ UNCHANGED <<db, mem>> /\ cmd.op = "fetch"
        /\ cmd' = [cmd EXCEPT !.armed = {cmd.archive} \cap LocalPath]
        /\ (mem = NoPackage <=> ~Selected)
    BY <1>10 DEF GetArchive, Step, IInv, Running, Selected
  <2>2. /\ cmd'.keep = cmd.keep /\ cmd'.op = cmd.op /\ cmd'.version = cmd.version
        /\ cmd'.stashed = cmd.stashed
    BY <1>0, <2>1 DEF Command
  <2> QED
    BY <2>1, <2>2 DEF Knows, Selected
<1>11. CASE Extract
  <2>1. /\ pc = "extract" /\ pc' = "commit" /\ UNCHANGED <<db, mem>>
        /\ cmd' = [cmd EXCEPT !.armed = {cmd.src_root}] /\ cmd.op = "unpack"
    BY <1>11 DEF Extract, Step, IInv, Running
  <2>2. cmd'.op = "unpack"
    BY <1>0, <2>1 DEF Command
  <2> QED
    BY <2>1, <2>2 DEF Knows, Selected
<1>12. CASE PurgeSrc
  <2>1. /\ pc = "purge_src" /\ pc' = "purge_archive" /\ UNCHANGED <<db, cmd>>
        /\ mem' = [mem EXCEPT !.src_root = NoPath, !.purge_src = FALSE]
        /\ mem \in Package
    BY <1>0, <1>12 DEF PurgeSrc, Step, IInv, Running, Selected
  <2>2. mem'.archive = mem.archive
    BY <2>1 DEF Package
  <2> QED
    BY <2>1, <2>2 DEF Knows, Selected
<1>13. CASE PurgeArchive
  <2>1. /\ pc = "purge_archive" /\ pc' = "commit" /\ UNCHANGED <<db, cmd>>
        /\ mem' = IF PurgesArchive
                  THEN [mem EXCEPT !.archive = NoPath, !.purge_archive = FALSE]
                  ELSE mem
        /\ mem \in Package
    BY <1>0, <1>13 DEF PurgeArchive, Step, IInv, Running, Selected
  <2>2. PurgesArchive => mem'.archive = NoPath
    BY <2>1 DEF Package
  <2>3. ~PurgesArchive => mem'.archive = mem.archive
    BY <2>1
  <2> QED
    BY <2>1, <2>2, <2>3 DEF Knows, Selected, PurgesArchive
<1>14. CASE Configure \/ CleanSkip \/ Clean
  <2>1. /\ pc \in {"build", "clean"} /\ pc' = "commit" /\ UNCHANGED <<db, cmd>>
        /\ cmd.op \in {"configure", "disfigure"}
    BY <1>14 DEF Configure, CleanSkip, Clean, Step, IInv, Running
  <2> QED
    BY <2>1 DEF Knows, Selected
<1>15. CASE ConfigureFail /\ ~Fail
  <2>1. /\ pc' = "clean" /\ db' = db
        /\ cmd' = [cmd EXCEPT !.op = "disfigure"]
    BY <1>15 DEF ConfigureFail, Step
  <2>2. cmd'.op = "disfigure"
    BY <1>0, <2>1 DEF Command
  <2> QED
    BY <2>1, <2>2 DEF Knows, Selected
<1>16. CASE \/ StashArchiveFail \/ GetArchiveFail \/ ExtractFail
            \/ PurgeSrcFail \/ PurgeArchiveFail \/ CleanFail
  <2>1. Fail \/ (Break /\ mem # NoPackage)
    BY <1>16 DEF StashArchiveFail, GetArchiveFail, StashRestorable, ExtractFail,
                 PurgeSrcFail, PurgeArchiveFail, BreakPurge, CleanFail,
                 IInv, Running, Asked, Loaded, Selected
  <2> QED
    BY <2>1, <1>3, <1>4
<1> QED
  BY <1>1, <1>2, <1>3, <1>5, <1>6, <1>7, <1>8, <1>9, <1>10, <1>11, <1>12, <1>13,
     <1>14, <1>15, <1>16
  DEF Next, Fetch, Unpack, PurgeFs, ConfigureDisfigure, Purge, Starting

LEMMA NextMade == ASSUME IInv, UInv, MadeInv, [Next]_vars PROVE MadeInv'
<1>0. cmd \in Command /\ mem \in Package \cup {NoPackage}
  BY DEF IInv, TypeOK
<1>1. ASSUME NEW ps, Remove(ps) PROVE MadeInv'
  BY <1>1 DEF Remove, Removed, MadeInv, IInv, TypeOK
<1>2. CASE fs' = Removed({Stash}) /\ made' = made
  BY <1>2, PathsApart DEF Removed, MadeInv, IInv, TypeOK
<1>3. ASSUME NEW to \in Archive, RestoreStash(to) PROVE MadeInv'
  BY <1>3, PathsApart DEF RestoreStash, MadeInv, IInv, TypeOK
<1>4. CASE UNCHANGED <<fs, made>>
  BY <1>4 DEF MadeInv
<1>5. ASSUME NEW out \in Dir, out \in LocalPath, MakeOutput(out) PROVE MadeInv'
  BY <1>5 DEF MakeOutput, MadeInv, IInv, TypeOK
<1>6. CASE User
  <2>1. CASE \E d \in UserDirs : PlaceDir(d)
    BY <2>1 DEF PlaceDir, MadeInv, IInv, TypeOK
  <2>2. CASE \E p \in LocalPath : CleanUp(p)
    BY <2>2 DEF CleanUp, Removed, MadeInv, IInv, TypeOK
  <2> QED
    BY <1>6, <2>1, <2>2 DEF User
<1>7. CASE Starting
  BY <1>2, <1>7, Starts DEF Start
<1>8. CASE StashArchive
  <2>1. cmd.version \in Version
    BY <1>0 DEF Command
  <2> QED
    BY <1>8, <2>1, PathsApart, PathTypes DEF StashArchive, MadeInv, IInv, TypeOK
<1>9. CASE GetArchive
  <2>1. cmd.archive \in Archive
    BY <1>9 DEF GetArchive, Step, IInv, TypeOK, Running, Asked, Command
  <2> QED
    BY <1>9, <2>1, PathsApart DEF GetArchive, MadeInv, IInv, TypeOK
<1>10. CASE GetArchiveFail
  <2>1. CfgArchive(cmd.version) \in Archive
    BY <1>0, PathTypes DEF Command
  <2> QED
    BY <1>1, <1>3, <1>10, <2>1 DEF GetArchiveFail
<1>11. CASE CommitFetch
  <2>1. /\ fs' = Removed({Stash}) /\ cmd.archive \in Archive
        /\ made' \subseteq made \cup {cmd.archive}
    BY <1>11 DEF CommitFetch, Own, IInv, TypeOK, Running, Asked, Command
  <2> QED
    BY <2>1, PathsApart DEF MadeInv, Removed, IInv, TypeOK
<1>12. CASE Extract
  <2>1. cmd.src_root \in Dir /\ cmd.src_root \in LocalPath
    BY <1>12 DEF Extract, Step, IInv, TypeOK, Running, Asked, Command
  <2> QED
    BY <1>12, <2>1 DEF Extract, MadeInv, IInv, TypeOK
<1>13. CASE CommitSelect
  <2>1. /\ fs' = fs /\ cmd.src_root \in UserDirs /\ fs[cmd.src_root] = "source"
        /\ made' \subseteq made \cup {cmd.src_root}
    BY <1>13 DEF CommitSelect, Own, UInv, Commanded, Selecting
  <2> QED
    BY <2>1, PathsApart DEF MadeInv
<1>14. CASE PurgeSrcFail \/ PurgeArchiveFail
  <2>1. StashRestorable => cmd.archive \in Archive
    BY <1>14 DEF PurgeSrcFail, PurgeArchiveFail, StashRestorable, UInv, Commanded,
                 Unarmed, IInv, TypeOK, Running, Asked, Command
  <2> QED
    BY <1>1, <1>3, <1>14, <2>1 DEF PurgeSrcFail, PurgeArchiveFail, BreakPurge
<1>15. CASE Configure \/ ConfigureFail
  <2>1. pc = "build"
    BY <1>15 DEF Configure, ConfigureFail, Step
  <2>2. OutRoot(mem) \in Dir /\ OutRoot(mem) \in LocalPath
    BY <1>0, <2>1, OutRootType DEF IInv, Running, Asked, Selected
  <2> QED
    BY <1>4, <1>5, <1>15, <2>2 DEF Configure, ConfigureFail, files
<1>16. CASE CommitDisfigure
  BY <1>16 DEF CommitDisfigure, MadeInv
<1>17. CASE StartAnother
  BY <1>2, <1>17 DEF StartAnother
<1> QED
  BY <1>1, <1>4, <1>6, <1>7, <1>8, <1>9, <1>10, <1>11, <1>12, <1>13, <1>14, <1>15,
     <1>16, <1>17
  DEF Next, vars, Fetch, StashArchiveFail, files, Unpack, ExtractFail, CommitUnpack,
      PurgeFs, PurgeSrc, PurgeArchive, ConfigureDisfigure, CommitConfigure,
      ConfigureSystem, DisfigureSystem, CleanSkip, Clean, CleanFail, Purge,
      CommitPurge, PurgeBroken, Crash, Starting

-----------------------------------------------------------------------------
\* When a command ends, the package answers for what is left.
LEMMA FinishAccounted ==
    ASSUME Finish,
           disturbed' # "killed" => \A f \in made' :
               fs'[f] = "none" \/ (Selected' /\ Owns(db', f))
    PROVE  AllAccounted'
BY DEF Finish, AllAccounted, Accounted

\* Who answers for a file in the middle of a command.
LEMMA Answered ==
    ASSUME IInv, AllAccounted, disturbed # "killed", pc \notin {"idle", "commit"},
           NEW f \in made, fs[f] # "none", f \notin cmd.armed
    PROVE  mem # NoPackage /\ mem \in Package /\ Owns(mem, f)
BY DEF AllAccounted, Accounted, Making, Wiped, Working, IInv, TypeOK

LEMMA FailAccounted ==
    ASSUME IInv, UInv, AllAccounted, Fail, pc \in {"stash", "get", "extract", "build"},
           \A f \in made' : /\ f \in made
                            /\ fs[f] = "none" =>
                                   fs'[f] = "none" \/ (Selected /\ Owns(db, f))
    PROVE  AllAccounted'
<1>1. cmd.armed = {} /\ mem = db /\ (mem # NoPackage <=> Selected)
  BY DEF UInv, Commanded, Unarmed, IInv, Running, Loaded, Selected
<1>2. ASSUME NEW f \in made', disturbed' # "killed"
      PROVE  fs'[f] = "none" \/ (Selected' /\ Owns(db', f))
  <2>1. f \in made /\ disturbed # "killed" /\ db' = db /\ Selected' = Selected
    BY <1>2 DEF Fail, Selected
  <2>2. CASE fs[f] = "none"
    BY <1>2, <2>1, <2>2
  <2>3. CASE fs[f] # "none"
    BY <1>1, <2>1, <2>3, Answered
  <2> QED
    BY <2>2, <2>3
<1> QED
  BY <1>2, FinishAccounted DEF Fail

LEMMA BreakAccounted ==
    ASSUME IInv, AllAccounted, Break, mem # NoPackage, pc \notin {"idle", "commit"},
           \A f \in made' :
               /\ f \in made
               /\ fs[f] = "none" \/ f \in cmd.armed =>
                      fs'[f] = "none" \/ Owns(mem, f)
    PROVE  AllAccounted'
<1>1. mem \in Package /\ db' = [mem EXCEPT !.state = "broken"] /\ Finish
  BY DEF Break, IInv, TypeOK
<1>2. /\ db'.out_root = mem.out_root
      /\ db'.archive = mem.archive /\ db'.purge_archive = mem.purge_archive
      /\ db'.src_root = mem.src_root /\ db'.purge_src = mem.purge_src
      /\ db' \in Package
  BY <1>1 DEF Package
<1>3. Selected' /\ \A f : Owns(mem, f) => Owns(db', f)
  BY <1>2, LifecycleAssumption DEF Selected, Owns
<1>4. ASSUME NEW f \in made', disturbed' # "killed", fs'[f] # "none"
      PROVE  Owns(mem, f)
  <2>1. f \in made /\ disturbed # "killed"
    BY <1>4 DEF Break
  <2> QED
    BY <1>4, <2>1, Answered
<1> QED
  BY <1>1, <1>3, <1>4, FinishAccounted

LEMMA StartAccounted ==
    ASSUME IInv, MadeInv, AllAccounted, Starting PROVE AllAccounted'
<1>1. PICK c, step : Start(c, step) /\ Fresh(c, step)
  BY Starts
<1>2. /\ pc = "idle" /\ pc' = step /\ cmd' = c /\ mem' = db /\ made' = made
      /\ disturbed' = disturbed /\ fs' = Removed({Stash}) /\ step # "idle"
  BY <1>1 DEF Start, Fresh
<1>3. step = "commit" => c.op # "disfigure"
  BY <1>1 DEF Fresh
<1>4. \A f \in made : fs[f] = "none" => fs'[f] = "none"
  BY <1>2 DEF Removed, IInv, TypeOK
<1> QED
  BY <1>2, <1>3, <1>4
  DEF AllAccounted, Accounted, Making, Wiped, Working, Selected

LEMMA UserAccounted ==
    ASSUME IInv, MadeInv, AllAccounted, User PROVE AllAccounted'
<1>1. /\ pc = "idle" /\ pc' = "idle" /\ UNCHANGED <<db, disturbed>>
      /\ made' \subseteq made
  BY DEF User, PlaceDir, CleanUp
<1>2. \A f \in made' : fs[f] = "none" => fs'[f] = "none"
  BY PathsApart DEF User, PlaceDir, CleanUp, Removed, MadeInv, IInv, TypeOK
<1> QED
  BY <1>1, <1>2 DEF AllAccounted, Accounted, Making, Working, Selected

LEMMA FetchAccounted ==
    ASSUME IInv, UInv, MadeInv, Knows, AllAccounted, Fetch PROVE AllAccounted'
<1>0. cmd \in Command /\ mem \in Package \cup {NoPackage} /\ made \subseteq LocalPath
  BY DEF IInv, TypeOK
<1>1. CASE \E v \in Version, f \in BOOLEAN : StartFetchExisting(v, f) \/ StartFetch(v, f)
  BY <1>1, StartAccounted DEF Starting
<1>2. CASE StashArchive
  <2>1. /\ pc = "stash" /\ pc' = "get" /\ UNCHANGED <<mem, made, disturbed>>
        /\ cmd' = [cmd EXCEPT !.stashed = TRUE] /\ cmd.version \in Version
    BY <1>0, <1>2 DEF StashArchive, Step, Command
  <2>2. cmd'.armed = cmd.armed
    BY <1>0, <2>1 DEF Command
  <2>3. \A f \in made : fs[f] = "none" => fs'[f] = "none"
    BY <1>0, <1>2, <2>1, PathsApart, PathTypes DEF StashArchive, MadeInv, IInv, TypeOK
  <2> QED
    BY <2>1, <2>2, <2>3 DEF AllAccounted, Accounted, Making, Wiped, Working
<1>3. CASE StashArchiveFail
  BY <1>3, FailAccounted DEF StashArchiveFail, files
<1>4. CASE GetArchive
  <2>1. /\ pc = "get" /\ pc' # "idle" /\ UNCHANGED <<mem, disturbed>>
        /\ cmd' = [cmd EXCEPT !.armed = {cmd.archive} \cap LocalPath]
        /\ made' = made \cup ({cmd.archive} \cap LocalPath)
        /\ fs' = [p \in LocalPath |-> IF p = cmd.archive THEN "file" ELSE fs[p]]
        /\ cmd.op = "fetch" /\ cmd.armed = {}
    BY <1>4 DEF GetArchive, Step, IInv, Running, UInv, Commanded, Unarmed
  <2>2. cmd'.armed = {cmd.archive} \cap LocalPath /\ cmd'.op = "fetch"
    BY <1>0, <2>1 DEF Command
  <2> QED
    BY <1>0, <2>1, <2>2 DEF AllAccounted, Accounted, Making, Wiped, Working
<1>5. CASE GetArchiveFail
  <2>1. CASE Fail /\ Remove({Stash})
    <3>1. \A f \in made' : f \in made /\ (fs[f] = "none" => fs'[f] = "none")
      BY <1>0, <2>1 DEF Remove, Removed
    <3> QED
      BY <1>5, <2>1, <3>1, FailAccounted DEF GetArchiveFail
  <2>2. CASE StashRestorable /\ Fail /\ RestoreStash(CfgArchive(cmd.version))
    <3>1. /\ mem = db /\ mem.archive = CfgArchive(cmd.version) /\ mem # NoPackage
          /\ PathShape(mem) /\ cmd.version \in Version
      BY <1>0, <1>5, <2>2
      DEF GetArchiveFail, StashRestorable, Knows, IInv, Running, Loaded, Selected,
          UInv, Shapes, Working, Command
    <3>2. Selected /\ Owns(db, CfgArchive(cmd.version))
      BY <3>1 DEF Owns, PathShape, Selected
    <3>3. \A f \in made' :
              /\ f \in made
              /\ fs[f] = "none" => fs'[f] = "none" \/ f = CfgArchive(cmd.version)
      BY <1>0, <2>2 DEF RestoreStash
    <3> QED
      BY <1>5, <2>2, <3>2, <3>3, FailAccounted DEF GetArchiveFail
  <2>3. CASE StashRestorable /\ Break /\ Remove({Stash})
    <3>1. mem # NoPackage /\ cmd.armed = {} /\ pc = "get"
      BY <1>5, <2>3 DEF GetArchiveFail, StashRestorable, IInv, Running, Selected,
                        UInv, Commanded, Unarmed
    <3>2. \A f \in made' : f \in made /\ (fs[f] = "none" => fs'[f] = "none")
      BY <1>0, <2>3 DEF Remove, Removed
    <3> QED
      BY <2>3, <3>1, <3>2, BreakAccounted
  <2> QED
    BY <1>5, <2>1, <2>2, <2>3 DEF GetArchiveFail
<1>6. CASE CommitFetch
  <2>1. /\ Finish /\ pc = "commit" /\ cmd.op = "fetch"
        /\ db' = [Base EXCEPT !.state = "fetched", !.archive = cmd.archive,
                              !.purge_archive = cmd.purge]
        /\ fs' = Removed({Stash}) /\ disturbed' = disturbed
        /\ made' = IF cmd.purge THEN made \cup ({cmd.archive} \cap LocalPath)
                   ELSE made \ {cmd.archive}
        /\ mem # NoPackage => SourcePurged
    BY <1>6 DEF CommitFetch, Own, IInv, Running, Selected
  <2>2. Base \in Package
    BY <1>0 DEF Base, Package, Command
  <2>3. /\ db'.archive = cmd.archive /\ db'.purge_archive = cmd.purge
        /\ db' \in Package
    BY <1>0, <1>6, <2>1, <2>2 DEF Package, Command, IInv, Running, Asked
  <2>4. Selected' /\ (cmd.purge => Owns(db', cmd.archive))
    BY <2>3, LifecycleAssumption DEF Selected, Owns
  <2>5. /\ cmd.armed \subseteq {cmd.archive}
        /\ mem # NoPackage => mem.archive \in {NoPath, cmd.archive}
    BY <2>1 DEF UInv, Commanded, Fetching, Knows
  <2>6. ASSUME NEW f \in made', disturbed' # "killed", fs'[f] # "none"
        PROVE  f = cmd.archive /\ cmd.purge
    <3>1. f = cmd.archive \/ (f \in made /\ fs[f] # "none" /\ f # NoPath)
      BY <1>0, <2>1, <2>6, LifecycleAssumption DEF MadeInv, Removed
    <3>2. CASE f \in made /\ fs[f] # "none" /\ f # NoPath
      <4>1. f \in cmd.armed \/ (mem # NoPackage /\ Owns(mem, f))
        BY <2>1, <2>6, <3>2 DEF AllAccounted, Accounted, Making, Working
      <4>2. f = cmd.archive
        BY <2>1, <2>5, <3>2, <4>1 DEF Owns, SourcePurged
      <4> QED
        BY <2>1, <2>6, <4>2
    <3> QED
      BY <2>1, <2>6, <3>1, <3>2
  <2> QED
    BY <2>1, <2>4, <2>6, FinishAccounted
<1> QED
  BY <1>1, <1>2, <1>3, <1>4, <1>5, <1>6 DEF Fetch

LEMMA UnpackAccounted ==
    ASSUME IInv, UInv, MadeInv, Knows, AllAccounted, Unpack PROVE AllAccounted'
<1>0. cmd \in Command /\ mem \in Package \cup {NoPackage} /\ made \subseteq LocalPath
  BY DEF IInv, TypeOK
<1>1. CASE Starting
  BY <1>1, StartAccounted
<1>2. CASE Extract
  <2>1. /\ pc = "extract" /\ pc' = "commit" /\ UNCHANGED <<mem, disturbed>>
        /\ cmd' = [cmd EXCEPT !.armed = {cmd.src_root}]
        /\ made' = made \cup {cmd.src_root}
        /\ fs' = [fs EXCEPT ![cmd.src_root] = "source"]
        /\ cmd.op = "unpack" /\ cmd.armed = {}
    BY <1>2 DEF Extract, Step, IInv, Running, UInv, Commanded, Unarmed
  <2>2. cmd'.armed = {cmd.src_root} /\ cmd'.op = "unpack"
    BY <1>0, <2>1 DEF Command
  <2> QED
    BY <1>0, <2>1, <2>2 DEF AllAccounted, Accounted, Making, Wiped, Working, IInv,
                            TypeOK
<1>3. CASE ExtractFail
  <2>1. \A f \in made' : f \in made /\ (fs[f] = "none" => fs'[f] = "none")
    BY <1>0, <1>3 DEF ExtractFail, Remove, Removed
  <2> QED
    BY <1>3, <2>1, FailAccounted DEF ExtractFail
<1>4. CASE CommitSelect
  <2>1. /\ Finish /\ pc = "commit" /\ cmd.op = "select"
        /\ db' = [Base EXCEPT !.state = "unpacked", !.src_root = cmd.src_root,
                              !.purge_src = cmd.purge]
        /\ UNCHANGED <<fs, disturbed>> /\ cmd.armed = {}
        /\ made' = IF cmd.purge THEN made \cup ({cmd.src_root} \cap LocalPath)
                   ELSE made \ {cmd.src_root}
        /\ mem # NoPackage => SourcePurged /\ mem.archive = NoPath
    BY <1>4 DEF CommitSelect, Own, IInv, Running, Selected, UInv, Commanded, Selecting
  <2>2. Base \in Package
    BY <1>0 DEF Base, Package, Command
  <2>3. /\ db'.src_root = cmd.src_root /\ db'.purge_src = cmd.purge
        /\ db' \in Package
    BY <1>0, <2>1, <2>2 DEF Package, Command
  <2>4. Selected' /\ (cmd.purge => Owns(db', cmd.src_root))
    BY <2>3, LifecycleAssumption DEF Selected, Owns
  <2>5. ASSUME NEW f \in made', disturbed' # "killed", fs'[f] # "none"
        PROVE  f = cmd.src_root /\ cmd.purge
    <3>1. f = cmd.src_root \/ (f \in made /\ fs[f] # "none" /\ f # NoPath)
      BY <1>0, <2>1, <2>5, LifecycleAssumption DEF MadeInv
    <3>2. ~(f \in made /\ fs[f] # "none" /\ f # NoPath)
      BY <2>1, <2>5 DEF AllAccounted, Accounted, Making, Working, Owns, SourcePurged
    <3> QED
      BY <2>1, <2>5, <3>1, <3>2
  <2> QED
    BY <2>1, <2>4, <2>5, FinishAccounted
<1>5. CASE CommitUnpack
  <2>1. /\ Finish /\ pc = "commit" /\ cmd.op = "unpack" /\ mem \in Package
        /\ db' = [mem EXCEPT !.state = "unpacked", !.src_root = cmd.src_root,
                             !.purge_src = cmd.purge]
        /\ UNCHANGED <<fs, made, disturbed>> /\ mem = db /\ Selected
        /\ mem.state = "fetched" /\ FieldsMatchState(mem)
    BY <1>5 DEF CommitUnpack, IInv, TypeOK, Running, Asked, Selected
  <2>2. /\ db'.archive = mem.archive /\ db'.purge_archive = mem.purge_archive
        /\ db'.src_root = cmd.src_root /\ db'.purge_src = cmd.purge
        /\ db' \in Package
    BY <1>0, <2>1 DEF Package, Command
  <2>3. Selected'
    BY <2>2, LifecycleAssumption DEF Selected
  <2>4. \A f \in cmd.armed : f = cmd.src_root /\ cmd.purge
    BY <1>0, <2>1 DEF UInv, Commanded, Unpacking, Command
  <2>5. ASSUME NEW f \in made', disturbed' # "killed", fs'[f] # "none"
        PROVE  Owns(db', f)
    <3>1. f \in cmd.armed \/ Owns(mem, f)
      BY <2>1, <2>5 DEF AllAccounted, Accounted, Making, Working
    <3>2. f # NoPath
      BY <2>1, <2>5, LifecycleAssumption DEF MadeInv
    <3> QED
      BY <2>1, <2>2, <2>4, <3>1, <3>2 DEF Owns, FieldsMatchState
  <2> QED
    BY <2>1, <2>3, <2>5, FinishAccounted
<1> QED
  BY <1>1, <1>2, <1>3, <1>4, <1>5 DEF Unpack, Starting

LEMMA PurgeFsAccounted ==
    ASSUME IInv, UInv, MadeInv, Knows, AllAccounted, PurgeFs PROVE AllAccounted'
<1>0. cmd \in Command /\ mem \in Package \cup {NoPackage} /\ made \subseteq LocalPath
  BY DEF IInv, TypeOK
<1>1. CASE PurgeSrcFail \/ PurgeArchiveFail
  <2>1. pc \in {"purge_src", "purge_archive"} /\ mem # NoPackage /\ BreakPurge
    BY <1>1 DEF PurgeSrcFail, PurgeArchiveFail, IInv, Running, Loaded, Selected
  <2>2. CASE Remove(cmd.armed \cup {Stash})
    <3>1. \A f \in made' :
              f \in made /\ f \notin cmd.armed /\ (fs[f] = "none" => fs'[f] = "none")
      BY <1>0, <2>2 DEF Remove, Removed
    <3> QED
      BY <2>1, <3>1, BreakAccounted DEF BreakPurge
  <2>3. CASE StashRestorable /\ RestoreStash(cmd.archive)
    <3>1. /\ cmd.op = "fetch" /\ mem.archive = CfgArchive(cmd.version)
          /\ PathShape(mem) /\ cmd.version \in Version
      BY <1>0, <2>1, <2>3
      DEF StashRestorable, Knows, UInv, Shapes, Working, Commanded, Unarmed, Command
    <3>2. /\ cmd.archive \in {CfgArchive(cmd.version), CacheArchive(cmd.version)}
          /\ cmd.armed \subseteq {cmd.archive}
      BY <2>1, <2>3, <3>1 DEF StashRestorable, UInv, Commanded, Fetching
    <3>3. cmd.archive \in LocalPath => Owns(mem, cmd.archive)
      BY <3>1, <3>2, PathsApart DEF PathShape, Owns
    <3>4. \A f \in made' :
              /\ f \in made
              /\ fs[f] = "none" => fs'[f] = "none" \/ f = cmd.archive
      BY <1>0, <2>3 DEF RestoreStash
    <3> QED
      BY <1>0, <2>1, <3>2, <3>3, <3>4, BreakAccounted DEF BreakPurge
  <2> QED
    BY <2>1, <2>2, <2>3 DEF BreakPurge
<1>2. CASE PurgeSrc
  <2> DEFINE ps == IF mem.purge_src THEN {mem.src_root} ELSE {}
  <2>1. /\ pc = "purge_src" /\ pc' = "purge_archive" /\ UNCHANGED <<cmd, disturbed>>
        /\ mem # NoPackage /\ mem \in Package
        /\ mem' = [mem EXCEPT !.src_root = NoPath, !.purge_src = FALSE]
        /\ fs' = Removed(ps) /\ made' = made \ ps
    BY <1>0, <1>2 DEF PurgeSrc, Step, Remove, IInv, Running, Selected
  <2>2. /\ mem'.archive = mem.archive /\ mem'.purge_archive = mem.purge_archive
        /\ mem'.out_root = mem.out_root /\ mem' \in Package
    BY <2>1 DEF Package
  <2>3. mem' # NoPackage
    BY <2>2, LifecycleAssumption
  <2>4. ASSUME NEW f \in made', disturbed # "killed", fs'[f] # "none"
        PROVE  f \in cmd.armed \/ Owns(mem', f)
    <3>1. f \in made /\ f \notin ps /\ fs[f] # "none"
      BY <1>0, <2>1, <2>4 DEF Removed
    <3>2. f \in cmd.armed \/ Owns(mem, f)
      BY <2>1, <2>4, <3>1, Answered
    <3> QED
      BY <2>2, <3>1, <3>2 DEF Owns
  <2> QED
    BY <2>1, <2>3, <2>4 DEF AllAccounted, Accounted, Making, Wiped, Working
<1>3. CASE PurgeArchive
  <2> DEFINE ps == IF PurgesArchive /\ mem.purge_archive THEN {mem.archive} ELSE {}
  <2>1. /\ pc = "purge_archive" /\ pc' = "commit" /\ UNCHANGED <<cmd, disturbed>>
        /\ mem # NoPackage /\ mem \in Package
        /\ mem' = IF PurgesArchive
                  THEN [mem EXCEPT !.archive = NoPath, !.purge_archive = FALSE]
                  ELSE mem
        /\ fs' = Removed(ps) /\ made' = made \ ps
        /\ cmd.op # "disfigure"
    BY <1>0, <1>3 DEF PurgeArchive, Step, Remove, IInv, Running, Selected
  <2>2. /\ mem'.src_root = mem.src_root /\ mem'.purge_src = mem.purge_src
        /\ mem'.out_root = mem.out_root /\ mem' \in Package
        /\ ~PurgesArchive => mem' = mem
    BY <2>1 DEF Package
  <2>3. mem' # NoPackage
    BY <2>2, LifecycleAssumption
  <2>4. ASSUME NEW f \in made', disturbed # "killed", fs'[f] # "none"
        PROVE  f \in cmd.armed \/ Owns(mem', f)
    <3>1. f \in made /\ f \notin ps /\ fs[f] # "none"
      BY <1>0, <2>1, <2>4 DEF Removed
    <3>2. f \in cmd.armed \/ Owns(mem, f)
      BY <2>1, <2>4, <3>1, Answered
    <3> QED
      BY <2>2, <3>1, <3>2 DEF Owns
  <2> QED
    BY <2>1, <2>3, <2>4 DEF AllAccounted, Accounted, Making, Wiped, Working
<1> QED
  BY <1>1, <1>2, <1>3 DEF PurgeFs

LEMMA ConfigureAccounted ==
    ASSUME IInv, UInv, MadeInv, AllAccounted, Configure \/ ConfigureFail \/ CommitConfigure
    PROVE  AllAccounted'
<1>0. /\ mem = db /\ Selected /\ mem \in Package /\ cmd \in Command
      /\ made \subseteq LocalPath /\ OutRoot(mem) \in Dir /\ OutRoot(mem) \in LocalPath
      /\ mem # NoPackage
  BY OutRootType DEF Configure, ConfigureFail, CommitConfigure, Step, IInv, TypeOK,
                     Running, Loaded, Asked, Selected
<1>1. ASSUME MakeOutput(OutRoot(mem))
      PROVE  /\ made' \subseteq made \cup {OutRoot(mem)}
             /\ \A f \in made : f # OutRoot(mem) => fs'[f] = fs[f]
             /\ OutRoot(mem) \in made /\ fs[OutRoot(mem)] = "none" => FALSE
  BY <1>0, <1>1 DEF MakeOutput, MadeInv, IInv, TypeOK
<1>2. CASE Configure
  <2>1. /\ pc = "build" /\ pc' = "commit" /\ UNCHANGED <<mem, cmd, disturbed>>
        /\ cmd.op = "configure" /\ MakeOutput(OutRoot(mem))
    BY <1>2 DEF Configure, Step, IInv, Running
  <2>2. \A f \in made' : f = OutRoot(mem) \/ (f \in made /\ fs'[f] = fs[f])
    BY <1>1, <2>1
  <2> QED
    BY <2>1, <2>2 DEF AllAccounted, Accounted, Making, Wiped, Working, OutRoot, External
<1>3. CASE pc = "build" /\ Fail /\ UNCHANGED files
  BY <1>3, FailAccounted DEF files
<1>4. CASE /\ Step("build", "clean")
           /\ mem' = [mem EXCEPT !.state = "broken", !.out_root = OutRoot(mem)]
           /\ \/ UNCHANGED files
              \/ MakeOutput(OutRoot(mem)) /\ conf' = conf \cup {OutRoot(mem)}
           /\ cmd' = [cmd EXCEPT !.op = "disfigure"]
  <2>1. /\ pc = "build" /\ pc' = "clean" /\ disturbed' = disturbed
        /\ mem.out_root = NoPath
    BY <1>0, <1>4 DEF Step, IInv, TypeOK, Running, Asked, FieldsMatchState
  <2>2. /\ mem'.archive = mem.archive /\ mem'.purge_archive = mem.purge_archive
        /\ mem'.src_root = mem.src_root /\ mem'.purge_src = mem.purge_src
        /\ mem'.out_root = OutRoot(mem) /\ mem' \in Package
        /\ cmd'.armed = cmd.armed
    BY <1>0, <1>4 DEF Package, Command
  <2>3. \A f \in made' : f = OutRoot(mem) \/ (f \in made /\ fs'[f] = fs[f])
    BY <1>1, <1>4 DEF files
  <2>4. ASSUME NEW f \in made', disturbed # "killed", fs'[f] # "none"
        PROVE  f \in cmd'.armed \/ Owns(mem', f)
    <3>1. CASE f = OutRoot(mem)
      BY <2>2, <3>1 DEF Owns
    <3>2. CASE f \in made /\ fs'[f] = fs[f]
      <4>1. f \in cmd.armed \/ Owns(mem, f)
        BY <2>1, <2>4, <3>2, Answered
      <4>2. f # NoPath
        BY <3>2, LifecycleAssumption DEF MadeInv
      <4> QED
        BY <2>1, <2>2, <4>1, <4>2 DEF Owns
    <3> QED
      BY <2>3, <3>1, <3>2
  <2>5. mem' # NoPackage
    BY <2>2, LifecycleAssumption
  <2> QED
    BY <2>1, <2>4, <2>5 DEF AllAccounted, Accounted, Making, Wiped, Working
<1>5. CASE CommitConfigure
  <2>1. /\ Finish /\ pc = "commit" /\ cmd.op = "configure"
        /\ db' = [mem EXCEPT !.state = "configured", !.out_root = OutRoot(mem)]
        /\ UNCHANGED <<fs, made, disturbed>>
        /\ mem.out_root = NoPath /\ cmd.armed = {}
    BY <1>0, <1>5 DEF CommitConfigure, IInv, TypeOK, Running, Asked, FieldsMatchState,
                      UInv, Commanded, Unarmed
  <2>2. /\ db'.archive = mem.archive /\ db'.purge_archive = mem.purge_archive
        /\ db'.src_root = mem.src_root /\ db'.purge_src = mem.purge_src
        /\ db'.out_root = OutRoot(mem) /\ db' \in Package
    BY <1>0, <2>1 DEF Package
  <2>3. Selected'
    BY <2>2, LifecycleAssumption DEF Selected
  <2>4. ASSUME NEW f \in made', disturbed' # "killed", fs'[f] # "none"
        PROVE  Owns(db', f)
    <3>1. f = OutRoot(mem) \/ Owns(mem, f)
      BY <2>1, <2>4 DEF AllAccounted, Accounted, Making, Working
    <3>2. f # NoPath
      BY <2>1, <2>4, LifecycleAssumption DEF MadeInv
    <3> QED
      BY <2>1, <2>2, <3>1, <3>2 DEF Owns
  <2> QED
    BY <2>1, <2>3, <2>4, FinishAccounted
<1> QED
  BY <1>2, <1>3, <1>4, <1>5 DEF ConfigureFail

LEMMA DisfigureAccounted ==
    ASSUME ExternalOut \notin UserDirs, IInv, UInv, MadeInv, AllAccounted,
           CleanSkip \/ Clean \/ CleanFail \/ CommitDisfigure
    PROVE  AllAccounted'
<1>0. /\ mem \in Package /\ mem # NoPackage /\ PathShape(mem) /\ cmd.op = "disfigure"
      /\ cmd.armed = {} /\ mem.src_root # NoPath /\ mem.out_root # NoPath
      /\ pc # "idle" /\ made \subseteq LocalPath
  BY DEF CleanSkip, Clean, CleanFail, CommitDisfigure, Step, IInv, TypeOK, Running,
         Asked, Selected, UInv, Shapes, Working, Commanded, Unarmed
<1>1. ASSUME NEW f \in made, disturbed # "killed", fs[f] # "none"
      PROVE  Owns(mem, f) /\ ~Wiped(f)
  BY <1>0, <1>1 DEF AllAccounted, Accounted, Making
<1>2. CASE CleanSkip
  <2>1. /\ pc' = "commit" /\ UNCHANGED <<mem, cmd, fs, made, disturbed>>
        /\ (~cmd.clean /\ ~cmd.disfigure) \/ ~Exists(mem.out_root)
    BY <1>2 DEF CleanSkip, Step
  <2>2. ASSUME NEW f \in made, fs[f] # "none" PROVE ~Wiped(f)'
    BY <1>0, <2>1, <2>2 DEF Wiped, Wipe, Exists
  <2> QED
    BY <1>0, <1>1, <2>1, <2>2 DEF AllAccounted, Accounted, Working
<1>3. CASE Clean
  <2>1. pc = "clean" /\ pc' = "commit" /\ UNCHANGED <<mem, cmd, disturbed>>
    BY <1>3 DEF Clean, Step
  <2>2. CASE Remove({mem.out_root})
    <3>1. \A f \in made' : /\ f \in made /\ f # mem.out_root
                           /\ fs'[f] = fs[f]
      BY <1>0, <2>2 DEF Remove, Removed
    <3> QED
      BY <1>0, <1>1, <2>1, <3>1 DEF AllAccounted, Accounted, Working, Wiped
  <2>3. CASE /\ ~External(mem) /\ Wipe => mem.out_root = mem.src_root
             /\ ~(External(mem) /\ Wipe)
             /\ UNCHANGED <<fs, made>>
    <3>1. \A f : ~Wiped(f)'
      BY <2>1, <2>3 DEF Wiped, Wipe
    <3> QED
      BY <1>0, <1>1, <2>1, <2>3, <3>1 DEF AllAccounted, Accounted, Working
  <2> QED
    BY <1>3, <2>2, <2>3 DEF Clean
<1>4. CASE CleanFail
  <2>1. pc = "clean" /\ UNCHANGED <<fs, made>> /\ Break
    BY <1>4 DEF CleanFail
  <2> QED
    BY <1>0, <2>1, BreakAccounted
<1>5. CASE CommitDisfigure
  <2>1. /\ Finish /\ pc = "commit" /\ UNCHANGED <<fs, disturbed>>
        /\ db' = [mem EXCEPT !.state = "unpacked", !.out_root = NoPath]
        /\ made' = IF Wipe \/ mem.out_root = mem.src_root
                   THEN made ELSE made \ {mem.out_root}
    BY <1>5 DEF CommitDisfigure
  <2>2. /\ db'.archive = mem.archive /\ db'.purge_archive = mem.purge_archive
        /\ db'.src_root = mem.src_root /\ db'.purge_src = mem.purge_src
        /\ db' \in Package
    BY <1>0, <2>1 DEF Package
  <2>3. Selected'
    BY <2>2, LifecycleAssumption DEF Selected
  <2>4. mem.out_root = mem.src_root => mem.purge_src
    <3>1. mem.out_root \in LocalPath
      BY <1>0, OutRootType DEF PathShape
    <3> QED
      BY <1>0, <3>1 DEF PathShape, OutRoot
  <2>5. ASSUME NEW f \in made', disturbed' # "killed", fs'[f] # "none"
        PROVE  Owns(db', f)
    <3>1. f \in made /\ Owns(mem, f) /\ ~Wiped(f)
      BY <1>1, <2>1, <2>5
    <3>2. f = mem.out_root => f = mem.src_root /\ mem.purge_src
      BY <1>0, <2>1, <2>4, <2>5, <3>1 DEF Wiped
    <3> QED
      BY <2>2, <3>1, <3>2 DEF Owns
  <2> QED
    BY <2>1, <2>3, <2>5, FinishAccounted
<1> QED
  BY <1>2, <1>3, <1>4, <1>5

LEMMA PurgeAccounted ==
    ASSUME IInv, UInv, MadeInv, Knows, AllAccounted, CommitPurge \/ PurgeBroken
    PROVE  AllAccounted'
<1>1. CASE CommitPurge
  <2>1. /\ Finish /\ pc = "commit" /\ UNCHANGED <<fs, made, disturbed>>
        /\ db' = IF cmd.keep THEN [mem EXCEPT !.state = "fetched"] ELSE NoPackage
        /\ mem \in Package /\ mem # NoPackage /\ SourcePurged /\ cmd.armed = {}
        /\ cmd.op = "purge" /\ (~cmd.keep => mem.archive = NoPath)
    BY <1>1 DEF CommitPurge, IInv, TypeOK, Running, Asked, Selected, UInv, Commanded,
                Unarmed, Knows
  <2>2. ASSUME NEW f \in made', disturbed' # "killed", fs'[f] # "none"
        PROVE  mem.purge_archive /\ f = mem.archive
    <3>1. Owns(mem, f) /\ f # NoPath
      BY <2>1, <2>2, LifecycleAssumption
      DEF AllAccounted, Accounted, Making, Working, MadeInv
    <3> QED
      BY <2>1, <3>1 DEF Owns, SourcePurged
  <2>3. cmd.keep => /\ db'.archive = mem.archive /\ db' \in Package
                    /\ db'.purge_archive = mem.purge_archive
    BY <2>1 DEF Package
  <2>4. ~cmd.keep => ~mem.purge_archive
    BY <2>1 DEF SourcePurged
  <2>5. cmd.keep => Selected'
    BY <2>3, LifecycleAssumption DEF Selected
  <2> QED
    BY <2>1, <2>2, <2>3, <2>4, <2>5, FinishAccounted DEF Owns
<1>2. CASE PurgeBroken
  <2>1. /\ pc = "idle" /\ pc' = "idle" /\ db' = NoPackage
        /\ UNCHANGED <<fs, made, disturbed>>
        /\ db.out_root # NoPath => ~Exists(db.out_root)
        /\ db.purge_src => ~Exists(db.src_root)
        /\ db.purge_archive => ~Exists(db.archive)
    BY <1>2 DEF PurgeBroken
  <2>2. ASSUME NEW f \in made, disturbed # "killed" PROVE fs[f] = "none"
    <3>1. f # NoPath
      BY LifecycleAssumption DEF MadeInv
    <3> QED
      BY <2>1, <2>2, <3>1 DEF AllAccounted, Accounted, Making, Working, Owns, Exists
  <2> QED
    BY <2>1, <2>2 DEF AllAccounted, Accounted
<1> QED
  BY <1>1, <1>2

LEMMA NextAccounted ==
    ASSUME ExternalOut \notin UserDirs, IInv, UInv, MadeInv, Knows, AllAccounted,
           [Next]_vars
    PROVE  AllAccounted'
<1>1. ASSUME NEW v \in Version, ConfigureSystem(v) PROVE AllAccounted'
  BY <1>1 DEF ConfigureSystem, AllAccounted, Accounted, Making, Working, Selected
<1>2. CASE DisfigureSystem
  <2>1. /\ pc = "idle" /\ pc' = "idle" /\ db.state = "system" /\ Selected
        /\ UNCHANGED <<fs, made, disturbed>>
    BY <1>2 DEF DisfigureSystem
  <2>2. ASSUME NEW f \in made, disturbed # "killed" PROVE fs[f] = "none"
    <3>1. f # NoPath
      BY LifecycleAssumption DEF MadeInv
    <3> QED
      BY <2>1, <2>2, <3>1 DEF AllAccounted, Accounted, Making, Working, Owns, Knows
  <2> QED
    BY <2>1, <2>2 DEF AllAccounted, Accounted
<1>3. CASE Crash
  BY <1>3 DEF Crash, AllAccounted
<1>4. CASE StartAnother
  <2>1. /\ UNCHANGED <<db, mem, pc, cmd, made>> /\ disturbed = "no"
        /\ fs' = Removed({Stash})
    BY <1>4 DEF StartAnother
  <2>2. \A f \in made : fs[f] = "none" => fs'[f] = "none"
    BY <2>1 DEF Removed, IInv, TypeOK
  <2> QED
    BY <2>1, <2>2 DEF AllAccounted, Accounted, Making, Wiped, Wipe, Working, Selected,
                      OutRoot, External
<1>5. CASE UNCHANGED vars
  BY <1>5 DEF vars, AllAccounted, Accounted, Making, Wiped, Wipe, Working, Selected,
              OutRoot, External
<1>6. CASE Starting
  BY <1>6, StartAccounted
<1> QED
  BY <1>1, <1>2, <1>3, <1>4, <1>5, <1>6, UserAccounted, FetchAccounted,
     UnpackAccounted, PurgeFsAccounted, ConfigureAccounted, DisfigureAccounted,
     PurgeAccounted
  DEF Next, ConfigureDisfigure, Purge, Starting

\* When a package is gone so are all the files bpkg made or took over for it,
\* whichever commands failed meanwhile: what pkg_purge_fs() forgets about a
\* package, and what the exception guards leave, is not bpkg's to remove.
THEOREM NothingEverLeftBehind ==
    ASSUME Reselect = FALSE, ExternalOut \notin UserDirs
    PROVE  Spec => []NothingLeftBehind
<1>1. Init => MadeInv /\ Knows /\ AllAccounted
  BY DEF Init, MadeInv, Knows, AllAccounted, Selected
<1>2. IInv /\ IInv' /\ UInv /\ MadeInv /\ Knows /\ AllAccounted /\ [Next]_vars =>
          (MadeInv /\ Knows /\ AllAccounted)'
  BY NextMade, NextKnows, NextAccounted
<1>3. AllAccounted => NothingLeftBehind
  BY DEF AllAccounted, Accounted, Making, Working, NothingLeftBehind, AtRest
<1> QED
  BY <1>1, <1>2, <1>3, UInvariance, PTL DEF Spec
=============================================================================
