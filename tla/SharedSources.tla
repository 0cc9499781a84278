---------------------------- MODULE SharedSources ----------------------------
(***************************************************************************)
(* A shared source directory of the fetch cache, the configurations that   *)
(* build a package from it, and the garbage collector.                     *)
(*                                                                         *)
(* The cache has to know whether anybody still uses the directory.  The    *)
(* build system makes the src-root.build file of a configuration a hard    *)
(* link to the one in the directory, so that the number of links tells;    *)
(* configurations on other file systems, where that is impossible, are     *)
(* listed in the entry.  pkg-unpack, pkg-configure and the collector work  *)
(* under the lock of the cache, pkg-disfigure and the user do not.         *)
(***************************************************************************)
EXTENDS Naturals, FiniteSets

CONSTANTS
    Conf,       \* the configurations
    Local,      \* those on the file system of the cache
    Movable,    \* bound: those the user may rename
    Overlap,    \* bound: whether others work while a package is configured
    MaxKills,   \* bound: how often a command is killed
    Nobody,     \* no process
    Collector,  \* the process that collects garbage (while it downloads)
    NoEntry     \* no entry in the database

ASSUME SharedAssumption ==
    /\ IsFiniteSet(Conf)
    /\ Local \subseteq Conf /\ Movable \subseteq Conf
    /\ Overlap \in BOOLEAN
    /\ MaxKills \in Nat
    /\ Nobody \notin Conf /\ Collector \notin Conf /\ Nobody # Collector
    /\ NoEntry \notin [old : BOOLEAN, untracked : SUBSET Conf]

VARIABLES
    dir,        \* the shared source directory: absent, whole or broken
    file,       \* it has a src-root.build
    links,      \* the configurations whose src-root.build is a link to that
    entry,      \* the entry: old (not accessed for three months), and the
                \* configurations not tracked with links
    out,        \* the configurations that have a src-root.build
    away,       \* those that are renamed
    moved,      \* those that ever were
    state,      \* the package in each configuration
    pc,         \* where the command in each is
    lock,       \* who has the cache open
    use,        \* the use count that process has loaded
    gc,         \* where the collector is
    pending,    \* the entry in its transaction
    kills       \* how many commands were killed

disk == <<dir, file, links>>
confs == <<out, away, moved>>
commands == <<state, pc, use>>
working == <<state, use>>
collector == <<gc, pending>>
vars == <<dir, file, links, entry, out, away, moved, state, pc, use, lock, gc,
          pending, kills>>

Entry == [old : BOOLEAN, untracked : SUBSET Conf]
Pc == {"idle", "save", "move_in", "unpacked", "build", "track", "configured",
       "disfigured"}
GcPc == {"off", "check", "prune", "remove", "removing", "commit"}

TypeOK ==
    /\ dir \in {"absent", "whole", "broken"}
    /\ file \in BOOLEAN
    /\ links \subseteq Conf
    /\ entry \in Entry \cup {NoEntry}
    /\ out \subseteq Conf /\ away \subseteq Conf /\ moved \subseteq Conf
    /\ state \in [Conf -> {"none", "unpacked", "configured"}]
    /\ pc \in [Conf -> Pc]
    /\ use \in Nat
    /\ lock \in Conf \cup {Nobody, Collector}
    /\ gc \in GcPc
    /\ pending \in Entry \cup {NoEntry}
    /\ kills \in Nat

Init ==
    /\ dir = "absent" /\ file = FALSE /\ links = {}
    /\ entry = NoEntry
    /\ out = {} /\ away = {} /\ moved = {}
    /\ state = [c \in Conf |-> "none"]
    /\ pc = [c \in Conf |-> "idle"]
    /\ use = 0
    /\ lock = Nobody
    /\ gc = "off" /\ pending = NoEntry
    /\ kills = 0

-----------------------------------------------------------------------------
(* Helpers.                                                                *)

\* file_link_count() of the directory's src-root.build, 0 without one.
Count == IF file THEN 1 + Cardinality(links) ELSE 0

Goto(c, from, to) == pc[c] = from /\ pc' = [pc EXCEPT ![c] = to]

\* A command may start: it has the configuration for itself.
Starts(c, from, to) == c \notin away /\ state[c] = from /\ Goto(c, "idle", to)

Commits(c, from, to, new) ==
    Goto(c, from, to) /\ state' = [state EXCEPT ![c] = new]

\* The cache is closed, if c has it open.
Release(c) == IF lock = c THEN lock' = Nobody /\ use' = 0 ELSE UNCHANGED <<lock, use>>

Present == entry # NoEntry /\ dir # "absent"

NewEntry == [old |-> FALSE, untracked |-> {}]

\* The bound Overlap.
Configuring == \E c \in Conf : pc[c] \in {"build", "track"}
Undisturbed == ~Overlap => ~Configuring

-----------------------------------------------------------------------------
(* pkg-unpack and pkg-checkout.                                            *)

\* load_shared_source_directory(): the directory is there, the entry has been
\* accessed, and the package is unpacked without ado.
Unpack(c) ==
    /\ lock = Nobody /\ Present /\ Undisturbed
    /\ Starts(c, "none", "idle") /\ state' = [state EXCEPT ![c] = "unpacked"]
    /\ entry' = [entry EXCEPT !.old = FALSE]
    /\ UNCHANGED <<disk, confs, use, lock, collector, kills>>

\* It is not: the package is extracted to the temporary directory.
UnpackNew(c) ==
    /\ lock = Nobody /\ ~Present /\ Undisturbed
    /\ Starts(c, "none", "save") /\ UNCHANGED working
    /\ lock' = c
    /\ entry' = NoEntry
    /\ UNCHANGED <<disk, confs, collector, kills>>

\* save_shared_source_directory(): the entry first, then the directory.
SaveEntry(c) ==
    /\ dir = "absent"
    /\ Goto(c, "save", "move_in") /\ UNCHANGED working
    /\ entry' = NewEntry
    /\ UNCHANGED <<disk, confs, lock, collector, kills>>
MoveIn(c) ==
    /\ Goto(c, "move_in", "unpacked") /\ UNCHANGED working
    /\ dir' = "whole" /\ file' = FALSE /\ links' = {}
    /\ UNCHANGED <<entry, confs, lock, collector, kills>>
CommitUnpack(c) ==
    /\ Commits(c, "unpacked", "idle", "unpacked")
    /\ Release(c)
    /\ UNCHANGED <<disk, entry, confs, collector, kills>>

\* pkg-purge leaves the shared directory alone.
Purge(c) ==
    /\ Starts(c, "unpacked", "idle")
    /\ state' = [state EXCEPT ![c] = "none"]
    /\ UNCHANGED <<disk, entry, confs, use, lock, collector, kills>>

-----------------------------------------------------------------------------
(* pkg-configure.                                                          *)

\* load_shared_source_directory_tracking(): a file nobody links to is removed,
\* to be made anew with the right path.
LoadTracking(c) ==
    /\ lock = Nobody /\ Present /\ Undisturbed
    /\ Starts(c, "unpacked", "build") /\ UNCHANGED state
    /\ lock' = c
    /\ file' = (file /\ links # {})
    /\ use' = IF Count = 1 THEN 0 ELSE Count
    /\ UNCHANGED <<dir, links, entry, confs, collector, kills>>

\* Nothing to track: the cache is closed and the package configured all the
\* same.
LoadNoTracking(c) ==
    /\ lock = Nobody /\ ~Present /\ Undisturbed
    /\ Starts(c, "unpacked", "build") /\ UNCHANGED working
    /\ entry' = NoEntry
    /\ UNCHANGED <<disk, confs, lock, collector, kills>>

\* The build system configures the package, with hard links if told so and if
\* it can.
Build(c) ==
    /\ dir # "absent"
    /\ Goto(c, "build", IF lock = c THEN "track" ELSE "configured")
    /\ UNCHANGED working
    /\ out' = out \cup {c}
    /\ IF lock = c /\ c \in Local
       THEN file' = TRUE /\ links' = links \cup {c}
       ELSE UNCHANGED <<file, links>>
    /\ UNCHANGED <<dir, entry, away, moved, lock, collector, kills>>
BuildFail(c) ==
    /\ Goto(c, "build", "idle") /\ UNCHANGED state
    /\ Release(c)
    /\ UNCHANGED <<disk, entry, confs, collector, kills>>

\* save_shared_source_directory_tracking(): the count has not changed, so the
\* configuration is not tracked with it; then the cache is closed.
SaveTracking(c) ==
    /\ Goto(c, "track", "configured") /\ UNCHANGED state
    /\ entry' = IF Count = use
                THEN [old |-> FALSE, untracked |-> entry.untracked \cup {c}]
                ELSE [entry EXCEPT !.old = FALSE]
    /\ Release(c)
    /\ UNCHANGED <<disk, confs, collector, kills>>
CommitConfigure(c) ==
    /\ Commits(c, "configured", "idle", "configured")
    /\ UNCHANGED <<disk, entry, confs, use, lock, collector, kills>>

-----------------------------------------------------------------------------
(* pkg-disfigure, the user, and what may go wrong.                         *)

\* The output directory with its src-root.build is removed before the state
\* is committed; with --keep-config it stays.
Disfigure(c) ==
    /\ Undisturbed
    /\ Starts(c, "configured", "disfigured") /\ UNCHANGED working
    /\ out' = out \ {c} /\ links' = links \ {c}
    /\ UNCHANGED <<dir, file, entry, away, moved, lock, collector, kills>>
CommitDisfigure(c) ==
    /\ Commits(c, "disfigured", "idle", "unpacked")
    /\ UNCHANGED <<disk, entry, confs, use, lock, collector, kills>>
DisfigureKeep(c) ==
    /\ Starts(c, "configured", "idle")
    /\ state' = [state EXCEPT ![c] = "unpacked"]
    /\ UNCHANGED <<disk, entry, confs, use, lock, collector, kills>>

MoveAway(c) ==
    /\ c \in Movable \ away /\ pc[c] = "idle"
    /\ away' = away \cup {c} /\ moved' = moved \cup {c}
    /\ UNCHANGED <<disk, entry, out, commands, lock, collector, kills>>
MoveBack(c) ==
    /\ c \in away
    /\ away' = away \ {c}
    /\ UNCHANGED <<disk, entry, out, moved, commands, lock, collector, kills>>

Kill(c) ==
    /\ pc[c] # "idle" /\ kills < MaxKills
    /\ kills' = kills + 1
    /\ pc' = [pc EXCEPT ![c] = "idle"]
    /\ Release(c)
    /\ UNCHANGED <<disk, entry, confs, state, collector>>

-----------------------------------------------------------------------------
(* The garbage collector.                                                  *)

\* Three months pass.
Age ==
    /\ entry # NoEntry /\ ~entry.old
    /\ gc = "off" /\ \A c \in Conf : pc[c] = "idle"
    /\ entry' = [entry EXCEPT !.old = TRUE]
    /\ UNCHANGED <<disk, confs, commands, lock, collector, kills>>

GcGoto(from, to) == gc = from /\ gc' = to

GcStart ==
    /\ lock = Nobody /\ entry # NoEntry /\ entry.old /\ Undisturbed
    /\ GcGoto("off", "check")
    /\ lock' = Collector
    /\ pending' = entry
    /\ UNCHANGED <<disk, entry, confs, commands, kills>>

\* With a fault: a file that a configuration links to is taken for unused.
GcCheckOff ==
    /\ GcGoto("check", IF Count > 2 THEN "commit" ELSE "prune")
    /\ UNCHANGED <<disk, entry, confs, commands, lock, pending, kills>>

\* A directory whose file is linked to, or cannot be looked at, is skipped.
GcCheck ==
    /\ \/ GcGoto("check", IF Count > 1 THEN "commit" ELSE "prune")
       \/ GcGoto("check", "commit")
    /\ UNCHANGED <<disk, entry, confs, commands, lock, pending, kills>>

\* Configurations that are found to be gone are forgotten; when the last one
\* is, the entry gets another three months.
GcPrune ==
    /\ gc = "prune"
    /\ \E unknown \in SUBSET pending.untracked :
        LET left == unknown \cup (pending.untracked \cap (out \ away))
            skip == pending.untracked # {}
        IN  /\ gc' = IF skip THEN "commit" ELSE "remove"
            /\ pending' = [old |-> ~(skip /\ left = {}), untracked |-> left]
    /\ UNCHANGED <<disk, entry, confs, commands, lock, kills>>

\* The directory is removed file by file.
GcRemove ==
    /\ GcGoto("remove", "removing")
    /\ dir' = IF dir = "absent" THEN dir ELSE "broken"
    /\ file' = FALSE /\ links' = {}
    /\ UNCHANGED <<entry, confs, commands, lock, pending, kills>>
GcRemoved ==
    /\ GcGoto("removing", "commit")
    /\ dir' = "absent"
    /\ pending' = NoEntry
    /\ UNCHANGED <<file, links, entry, confs, commands, lock, kills>>

\* With a fault: the entry is erased when the removal has failed.
GcRemoveFailErasing ==
    /\ GcGoto("removing", "commit")
    /\ pending' = NoEntry
    /\ UNCHANGED <<disk, entry, confs, commands, lock, kills>>

\* Something cannot be removed; the entry stays.
GcRemoveFail ==
    /\ dir = "broken"
    /\ GcGoto("removing", "commit")
    /\ UNCHANGED <<disk, entry, confs, commands, lock, pending, kills>>

\* The end of it, or the download is over and the collector is to stop.
GcCommit ==
    /\ gc \in GcPc \ {"off", "removing"}
    /\ gc' = "off"
    /\ entry' = pending
    /\ pending' = NoEntry
    /\ lock' = Nobody
    /\ UNCHANGED <<disk, confs, commands, kills>>

\* The collector is killed; its transaction is rolled back.
GcKill ==
    /\ gc # "off" /\ kills < MaxKills
    /\ kills' = kills + 1
    /\ gc' = "off"
    /\ pending' = NoEntry
    /\ lock' = Nobody
    /\ UNCHANGED <<disk, entry, confs, commands>>

Collect ==
    \/ Age \/ GcStart \/ GcCheck \/ GcPrune \/ GcRemove \/ GcRemoved
    \/ GcRemoveFail \/ GcCommit \/ GcKill

Command(c) ==
    \/ Unpack(c) \/ UnpackNew(c) \/ SaveEntry(c) \/ MoveIn(c) \/ CommitUnpack(c)
    \/ Purge(c) \/ LoadTracking(c) \/ LoadNoTracking(c) \/ Build(c)
    \/ BuildFail(c) \/ SaveTracking(c) \/ CommitConfigure(c) \/ Disfigure(c)
    \/ CommitDisfigure(c) \/ DisfigureKeep(c) \/ Kill(c)

Next == Collect \/ \E c \in Conf : Command(c) \/ MoveAway(c) \/ MoveBack(c)

Spec == Init /\ [][Next]_vars

(* Properties.                                                             *)

\* A package is configured with the shared directory, and its configuration is
\* where the cache can find it.
InUse(c) ==
    /\ state[c] = "configured" /\ pc[c] # "disfigured" /\ c \in out
    /\ c \in Local \/ c \notin moved

\* The shared directory is never removed, nor a part of it, while a
\* configuration uses it (garbage_collector(): "skip the entry if the shared
\* source directory is still used by some package configurations").
InUseUntouched == [][dir' # dir => \A c \in Conf : ~InUse(c)]_vars

\* A shared directory without an entry would never be collected, and be in the
\* way of the next pkg-unpack.
NotLeaked == dir # "absent" => entry # NoEntry
=============================================================================
