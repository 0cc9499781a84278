-------------------------- MODULE SharedSourcesProofs --------------------------
(***************************************************************************)
(* For any number of configurations, on whichever file systems, renamed,   *)
(* killed and disfigured whenever: as long as nobody works while a package *)
(* is being configured (Overlap), the collector never touches a shared     *)
(* source directory in use, and none is left without an entry.             *)
(***************************************************************************)
EXTENDS SharedSources, FiniteSetTheorems, TLAPS

\* A configuration uses the directory from the moment it is registered.
Uses(c) ==
    /\ c \in out
    /\ c \in Local \/ c \notin moved
    /\ state[c] = "configured" \/ pc[c] = "configured"

\* Where a command is tells whether it holds the cache open, and nothing else
\* is under way while it configures.
Order ==
    /\ \A c \in Conf : lock = c => pc[c] \in {"save", "move_in", "unpacked", "build", "track"}
    /\ \A c \in Conf : pc[c] \in {"save", "move_in", "unpacked", "track"} => lock = c
    /\ \A c \in Conf : pc[c] = "build" /\ lock # c => lock = Nobody
    /\ gc # "off" <=> lock = Collector
    /\ \A c, d \in Conf :
            pc[c] \in {"build", "track"} /\ pc[d] \in {"build", "track"} => c = d

\* What commands know of the directory and its entry...
Commands ==
    /\ \A c \in Conf : pc[c] = "disfigured" => c \notin out
    /\ \A c \in Conf : state[c] = "configured" => pc[c] \in {"idle", "disfigured"}
    /\ \A c \in Conf : pc[c] = "move_in" => entry # NoEntry /\ dir = "absent"
    /\ \A c \in Conf : pc[c] = "build" /\ lock # c => dir = "absent"
    /\ \A c \in Conf : pc[c] \in {"build", "track"} /\ lock = c => Present

\* ...of the number of links...
Tracking ==
    /\ links # {} => file
    /\ \A c \in Conf : pc[c] = "build" /\ lock = c => use = Count
    /\ \A c \in Conf : pc[c] = "track" => IF c \in Local THEN c \in links ELSE use = Count

\* ...and what the collector does.
Collecting ==
    /\ away \subseteq moved
    /\ gc # "off" /\ pending = NoEntry => dir = "absent"
    /\ gc \in {"check", "prune"} => pending # NoEntry
    /\ gc = "prune" => links = {}
    /\ gc \in {"remove", "removing"} => \A c \in Conf : ~Uses(c)
    /\ gc # "off" =>
        \A c \in Conf \ Local : Uses(c) => pending # NoEntry /\ c \in pending.untracked

\* Who uses the directory can be found.
UsersTracked ==
    \A c \in Conf : Uses(c) =>
        /\ Present
        /\ IF c \in Local THEN c \in links ELSE c \in entry.untracked

Facts == Commands /\ Tracking /\ Collecting /\ NotLeaked /\ UsersTracked
Inv == TypeOK /\ Order /\ Facts

USE SharedAssumption

-----------------------------------------------------------------------------
\* file_link_count() tells whether anybody links to the file.
LEMMA CountFacts ==
    ASSUME TypeOK
    PROVE  /\ Count \in Nat
           /\ file /\ links = {} => Count = 1
           /\ file /\ links # {} => Count > 1
           /\ ~file => Count = 0
<1>1. IsFiniteSet(links)
  BY FS_Subset DEF TypeOK
<1>2. Cardinality(links) \in Nat /\ (Cardinality(links) = 0 <=> links = {})
  BY <1>1, FS_CardinalityType, FS_EmptySet
<1> QED
  BY <1>2 DEF Count

-----------------------------------------------------------------------------
LEMMA TypeStep == Inv /\ [Next]_vars => TypeOK'
<1> SUFFICES ASSUME Inv, [Next]_vars PROVE TypeOK'
  OBVIOUS
<1>0. TypeOK /\ Order /\ Commands /\ Collecting
  BY DEF Inv, Facts
<1> USE <1>0
<1> USE DEF TypeOK, Entry, Pc, GcPc, disk, confs, commands, working, collector
<1>1. CASE UNCHANGED vars
  BY <1>1 DEF vars
<1>2. CASE Collect
  <2>1. CASE Age
    BY <2>1 DEF Age
  <2>2. CASE GcStart
    BY <2>2 DEF GcStart, GcGoto
  <2>3. CASE GcCheck
    BY <2>3 DEF GcCheck, GcGoto
  <2>4. CASE GcPrune
    <3>1. PICK left \in SUBSET Conf, old \in BOOLEAN :
            pending' = [old |-> old, untracked |-> left]
      BY <2>4 DEF GcPrune, Collecting
    <3>2. pending' \in Entry
      BY <3>1
    <3> QED
      BY <2>4, <3>2 DEF GcPrune
  <2>5. CASE GcRemove \/ GcRemoved \/ GcRemoveFail
    BY <2>5 DEF GcRemove, GcRemoved, GcRemoveFail, GcGoto
  <2>6. CASE GcCommit \/ GcKill
    BY <2>6 DEF GcCommit, GcKill
  <2> QED
    BY <1>2, <2>1, <2>2, <2>3, <2>4, <2>5, <2>6 DEF Collect
<1>3. ASSUME NEW c \in Conf, Command(c) \/ MoveAway(c) \/ MoveBack(c)
      PROVE  TypeOK'
  <2> USE DEF Goto, Starts, Commits, Release
  <2>1. CASE Unpack(c)
    BY <2>1 DEF Unpack, Present
  <2>2. CASE UnpackNew(c)
    BY <2>2 DEF UnpackNew
  <2>3. CASE SaveEntry(c)
    BY <2>3 DEF SaveEntry, NewEntry
  <2>4. CASE MoveIn(c)
    BY <2>4 DEF MoveIn
  <2>5. CASE CommitUnpack(c)
    BY <2>5 DEF CommitUnpack
  <2>6. CASE Purge(c)
    BY <2>6 DEF Purge
  <2>7. CASE LoadTracking(c)
    BY <2>7, CountFacts DEF LoadTracking
  <2>8. CASE LoadNoTracking(c)
    BY <2>8 DEF LoadNoTracking
  <2>9. CASE Build(c)
    BY <2>9 DEF Build
  <2>10. CASE BuildFail(c)
    BY <2>10 DEF BuildFail
  <2>11. CASE SaveTracking(c)
    <3>1. entry # NoEntry
      BY <2>11 DEF SaveTracking, Order, Commands, Present
    <3>2. [old |-> FALSE, untracked |-> entry.untracked \cup {c}] \in Entry
      BY <3>1
    <3>3. [entry EXCEPT !.old = FALSE] \in Entry
      BY <3>1
    <3>4. entry' \in Entry
      BY <2>11, <3>2, <3>3 DEF SaveTracking
    <3> QED
      BY <2>11, <3>4 DEF SaveTracking
  <2>12. CASE CommitConfigure(c) \/ Disfigure(c)
    BY <2>12 DEF CommitConfigure, Disfigure
  <2>13. CASE CommitDisfigure(c) \/ DisfigureKeep(c)
    BY <2>13 DEF CommitDisfigure, DisfigureKeep
  <2>14. CASE Kill(c) \/ MoveAway(c) \/ MoveBack(c)
    BY <2>14 DEF Kill, MoveAway, MoveBack
  <2> QED
    BY <1>3, <2>1, <2>2, <2>3, <2>4, <2>5, <2>6, <2>7, <2>8, <2>9, <2>10, <2>11,
       <2>12, <2>13, <2>14 DEF Command
<1> QED
  BY <1>1, <1>2, <1>3 DEF Next

-----------------------------------------------------------------------------
(* The order of things.                                                    *)

\* A command's step leaves the others where they are, and the cache is opened
\* only when it is closed and closed only by who has it open.
LEMMA OthersStay ==
    ASSUME TypeOK, NEW c \in Conf, Command(c)
    PROVE  /\ \A d \in Conf \ {c} : pc'[d] = pc[d] /\ state'[d] = state[d]
           /\ lock' = lock \/ (lock = Nobody /\ lock' = c) \/ (lock = c /\ lock' = Nobody)
           /\ UNCHANGED <<gc, pending, away, moved>>
           /\ \A d \in Conf \ {c} : d \in out' <=> d \in out
           /\ \A d \in Conf \ {c} : d \in links => d \in links' \/ pc[c] = "move_in"
BY DEF TypeOK, Command, Unpack, UnpackNew, SaveEntry, MoveIn, CommitUnpack, Purge,
       LoadTracking, LoadNoTracking, Build, BuildFail, SaveTracking,
       CommitConfigure, Disfigure, CommitDisfigure, DisfigureKeep, Kill, Goto,
       Starts, Commits, Release, disk, confs, commands, working, collector

\* What a command's step does to its own place, and to the lock.
LEMMA CommandMoves ==
    ASSUME ~Overlap, TypeOK, Order, NEW c \in Conf, Command(c)
    PROVE  /\ lock' = c => pc'[c] \in {"save", "move_in", "unpacked", "build", "track"}
           /\ pc'[c] \in {"save", "move_in", "unpacked", "track"} => lock' = c
           /\ pc'[c] = "build" /\ lock' # c => lock' = Nobody
           /\ pc'[c] = "track" => pc[c] = "build"
           /\ pc'[c] = "build" => ~Configuring
           /\ lock = Nobody /\ lock' = c => ~Configuring
BY DEF TypeOK, Order, Command, Unpack, UnpackNew, SaveEntry, MoveIn, CommitUnpack, Purge,
       LoadTracking, LoadNoTracking, Build, BuildFail, SaveTracking,
       CommitConfigure, Disfigure, CommitDisfigure, DisfigureKeep, Kill, Goto,
       Starts, Commits, Release, disk, confs, commands, working, collector,
       Undisturbed

LEMMA OrderStep ==
    ASSUME ~Overlap, TypeOK, Order, [Next]_vars
    PROVE  Order'
<1>1. CASE UNCHANGED vars
  BY <1>1 DEF vars, Order
<1>2. CASE Collect
  <2>1. UNCHANGED pc
    BY <1>2 DEF Collect, Age, GcStart, GcCheck, GcPrune, GcRemove, GcRemoved,
                GcRemoveFail, GcCommit, GcKill, commands
  <2>2. (gc = "off" /\ gc' # "off") => lock = Nobody /\ lock' = Collector /\ ~Configuring
    BY <1>2 DEF Collect, Age, GcStart, GcCheck, GcPrune, GcRemove, GcRemoved,
                GcRemoveFail, GcCommit, GcKill, collector, GcGoto, Undisturbed
  <2>3. (gc # "off" /\ gc' = "off") => lock' = Nobody
    BY <1>2 DEF Collect, Age, GcStart, GcCheck, GcPrune, GcRemove, GcRemoved,
                GcRemoveFail, GcCommit, GcKill, collector, GcGoto
  <2>4. (gc = "off" <=> gc' = "off") => lock' = lock
    BY <1>2 DEF Collect, Age, GcStart, GcCheck, GcPrune, GcRemove, GcRemoved,
                GcRemoveFail, GcCommit, GcKill, collector, GcGoto, GcPc
  <2> QED
    BY <2>1, <2>2, <2>3, <2>4 DEF Order, Configuring
<1>3. ASSUME NEW c \in Conf, Command(c) PROVE Order'
  <2>1. /\ \A d \in Conf \ {c} : pc'[d] = pc[d]
        /\ lock' = lock \/ (lock = Nobody /\ lock' = c) \/ (lock = c /\ lock' = Nobody)
        /\ gc' = gc
    BY <1>3, OthersStay
  <2>2. /\ lock' = c => pc'[c] \in {"save", "move_in", "unpacked", "build", "track"}
        /\ pc'[c] \in {"save", "move_in", "unpacked", "track"} => lock' = c
        /\ pc'[c] = "build" /\ lock' # c => lock' = Nobody
        /\ pc'[c] = "track" => pc[c] = "build"
        /\ pc'[c] = "build" => ~Configuring
        /\ lock = Nobody /\ lock' = c => ~Configuring
    BY <1>3, CommandMoves
  <2>3. \A d \in Conf : lock' = d => pc'[d] \in {"save", "move_in", "unpacked", "build", "track"}
    BY <2>1, <2>2 DEF Order
  <2>4. \A d \in Conf : pc'[d] \in {"save", "move_in", "unpacked", "track"} => lock' = d
    BY <2>1, <2>2 DEF Order
  <2>5. \A d \in Conf : pc'[d] = "build" /\ lock' # d => lock' = Nobody
    BY <2>1, <2>2 DEF Order, Configuring
  <2>6. gc' # "off" <=> lock' = Collector
    BY <2>1 DEF Order
  <2>7. \A d, e \in Conf :
            pc'[d] \in {"build", "track"} /\ pc'[e] \in {"build", "track"} => d = e
    BY <2>1, <2>2 DEF Order, Configuring
  <2> QED
    BY <2>3, <2>4, <2>5, <2>6, <2>7 DEF Order
<1>4. ASSUME NEW c \in Conf, MoveAway(c) \/ MoveBack(c) PROVE Order'
  BY <1>4 DEF MoveAway, MoveBack, Order, commands, collector
<1> QED
  BY <1>1, <1>2, <1>3, <1>4 DEF Next

Busy == {"save", "move_in", "unpacked", "build", "track"}

\* Nobody works with the directory while the collector does, nor beside a
\* command that configures.
LEMMA Exclusive ==
    ASSUME TypeOK, Order
    PROVE  /\ gc # "off" => \A c \in Conf : pc[c] \notin Busy
           /\ \A c \in Conf : pc[c] \in Busy =>
                gc = "off" /\ \A d \in Conf \ {c} : pc[d] \notin Busy
BY DEF Order, Busy

-----------------------------------------------------------------------------
(* The collector's steps.                                                  *)

LEMMA CollectStep ==
    ASSUME ~Overlap, Inv, Collect
    PROVE  Facts'
<1> USE DEF Inv, Facts, disk, confs, commands, working, collector
<1>1. UNCHANGED <<out, away, moved, state, pc, use>>
  BY DEF Collect, Age, GcStart, GcCheck, GcPrune, GcRemove, GcRemoved,
         GcRemoveFail, GcCommit, GcKill
<1>2. \A c \in Conf : pc[c] \notin Busy
  <2>1. CASE gc # "off"
    BY <2>1, Exclusive
  <2>2. CASE Age
    BY <2>2 DEF Age, Busy
  <2>3. CASE GcStart
    BY <2>3 DEF GcStart, Order, Undisturbed, Configuring, Busy
  <2> QED
    BY <2>1, <2>2, <2>3 DEF Collect, GcCheck, GcPrune, GcRemove, GcRemoved,
       GcRemoveFail, GcCommit, GcKill, GcGoto
<1>3. \A c \in Conf : Uses(c)' <=> Uses(c)
  BY <1>1 DEF Uses
<1>4. Commands'
  BY <1>1, <1>2 DEF Commands, Busy
<1>5. (links' = links /\ file' = file) \/ (links' = {} /\ gc = "remove" /\ gc' = "removing")
  BY DEF Collect, Age, GcStart, GcCheck, GcPrune, GcRemove, GcRemoved,
         GcRemoveFail, GcCommit, GcKill, GcGoto
<1>6. Tracking'
  BY <1>1, <1>2, <1>5 DEF Tracking, Busy
<1>7. Collecting' /\ NotLeaked' /\ UsersTracked'
  <2> USE <1>1, <1>3 DEF Collecting, NotLeaked, UsersTracked, Present
  <2>1. CASE Age
    <3>1. entry' # NoEntry /\ entry'.untracked = entry.untracked
      BY <2>1 DEF Age, TypeOK, Entry
    <3> QED
      BY <2>1, <3>1 DEF Age
  <2>2. CASE GcStart
    BY <2>2 DEF GcStart, GcGoto
  <2>3. CASE GcCheck
    <3>1. gc' = "prune" => links = {}
      BY <2>3, CountFacts DEF GcCheck, GcGoto, Tracking
    <3> QED
      BY <2>3, <3>1 DEF GcCheck, GcGoto
  <2>4. CASE GcPrune
    <3>0. PICK unknown \in SUBSET pending.untracked :
            LET left == unknown \cup (pending.untracked \cap (out \ away))
                skip == pending.untracked # {}
            IN  /\ gc' = IF skip THEN "commit" ELSE "remove"
                /\ pending' = [old |-> ~(skip /\ left = {}), untracked |-> left]
      BY <2>4 DEF GcPrune
    <3> DEFINE left == unknown \cup (pending.untracked \cap (out \ away))
               skip == pending.untracked # {}
               old == ~(skip /\ left = {})
    <3>1. /\ gc = "prune" /\ gc' = IF skip THEN "commit" ELSE "remove"
          /\ pending' = [old |-> old, untracked |-> left]
          /\ UNCHANGED <<dir, links, entry, lock>>
      BY <2>4, <3>0 DEF GcPrune
    <3>2. left \in SUBSET Conf /\ old \in BOOLEAN
      BY <3>1 DEF TypeOK, Entry, Collecting
    <3>3. pending' # NoEntry /\ pending'.untracked = left
      <4> HIDE DEF left, old
      <4> QED
        BY <3>1, <3>2
    <3>4. \A c \in Conf \ Local : Uses(c) => c \in left
      BY <3>1 DEF Uses
    <3>5. gc' = "remove" => \A c \in Conf : ~Uses(c)
      BY <3>1, <3>4
    <3> HIDE DEF left, skip, old
    <3> QED
      BY <3>1, <3>3, <3>4, <3>5
  <2>5. CASE GcRemove
    BY <2>5 DEF GcRemove, GcGoto
  <2>6. CASE GcRemoved
    BY <2>6 DEF GcRemoved, GcGoto
  <2>7. CASE GcRemoveFail
    BY <2>7 DEF GcRemoveFail, GcGoto
  <2>8. CASE GcCommit
    BY <2>8 DEF GcCommit
  <2>9. CASE GcKill
    BY <2>9 DEF GcKill
  <2> QED
    BY <2>1, <2>2, <2>3, <2>4, <2>5, <2>6, <2>7, <2>8, <2>9 DEF Collect
<1> QED
  BY <1>4, <1>6, <1>7

-----------------------------------------------------------------------------
(* The commands' steps.                                                    *)

\* Only registering a configuration makes it a user.
LEMMA OnlyTrackingUses ==
    ASSUME Inv, NEW c \in Conf, Command(c), NEW d \in Conf, Uses(d)'
    PROVE  Uses(d) \/ (d = c /\ SaveTracking(c))
<1> USE DEF Inv, Facts
<1>1. CASE d # c
  BY <1>1, OthersStay DEF Uses
<1>2. CASE d = c
  <2> USE <1>2 DEF Uses, Commands, Order, TypeOK, Goto, Starts, Commits, disk, confs,
          commands, working, collector
  <2>1. CASE Unpack(c) \/ UnpackNew(c) \/ SaveEntry(c) \/ MoveIn(c) \/ CommitUnpack(c)
    BY <2>1 DEF Unpack, UnpackNew, SaveEntry, MoveIn, CommitUnpack
  <2>2. CASE Purge(c) \/ LoadTracking(c) \/ LoadNoTracking(c)
    BY <2>2 DEF Purge, LoadTracking, LoadNoTracking
  <2>3. CASE Build(c)
    BY <2>3 DEF Build, Present
  <2>4. CASE BuildFail(c) \/ CommitConfigure(c) \/ Disfigure(c) \/ CommitDisfigure(c)
    BY <2>4 DEF BuildFail, CommitConfigure, Disfigure, CommitDisfigure
  <2>5. CASE DisfigureKeep(c) \/ Kill(c)
    BY <2>5 DEF DisfigureKeep, Kill
  <2> QED
    BY <2>1, <2>2, <2>3, <2>4, <2>5 DEF Command
<1> QED
  BY <1>1, <1>2

\* The directory and its entry come and go only when nobody uses them.
LEMMA CommandDisk ==
    ASSUME Inv, NEW c \in Conf, Command(c)
    PROVE  /\ dir' = dir \/ (MoveIn(c) /\ pc[c] = "move_in" /\ dir = "absent" /\ dir' = "whole")
           /\ \/ entry' # NoEntry /\ entry # NoEntry /\ entry.untracked \subseteq entry'.untracked
              \/ dir = "absent" /\ dir' = "absent"
           /\ entry # entry' => lock = Nobody \/ lock = c
           /\ NotLeaked'
<1> USE DEF Inv, Facts, Goto, Starts, Commits, disk, confs, commands, working, collector,
            NotLeaked
<1>1. TypeOK'
  BY TypeStep DEF Next
<1>2. CASE Unpack(c)
  <2>1. entry' # NoEntry /\ entry'.untracked = entry.untracked /\ entry # NoEntry
    BY <1>2 DEF Unpack, TypeOK, Entry, Present
  <2> QED
    BY <1>2, <2>1 DEF Unpack
<1>3. CASE UnpackNew(c) \/ LoadNoTracking(c)
  BY <1>3 DEF UnpackNew, LoadNoTracking, Present
<1>4. CASE SaveEntry(c)
  BY <1>4 DEF SaveEntry, NewEntry, Entry, Order
<1>5. CASE MoveIn(c)
  BY <1>5 DEF MoveIn, Commands
<1>6. CASE SaveTracking(c)
  <2>1. entry # NoEntry /\ lock = c
    BY <1>6 DEF SaveTracking, Order, Commands, Present
  <2>2. [old |-> FALSE, untracked |-> entry.untracked \cup {c}] \in Entry
    BY <2>1 DEF TypeOK, Entry
  <2>3. [entry EXCEPT !.old = FALSE] \in Entry
    BY <2>1 DEF TypeOK, Entry
  <2>4. entry' # NoEntry /\ entry.untracked \subseteq entry'.untracked
    BY <1>6, <2>1, <2>2, <2>3 DEF SaveTracking, TypeOK, Entry
  <2> QED
    BY <1>6, <2>1, <2>4 DEF SaveTracking
<1>7. CASE UNCHANGED <<dir, entry>>
  BY <1>7
<1> QED
  BY <1>2, <1>3, <1>4, <1>5, <1>6, <1>7
     DEF Command, CommitUnpack, Purge, LoadTracking, Build, BuildFail,
         CommitConfigure, Disfigure, CommitDisfigure, DisfigureKeep, Kill

\* Beside a command that configures, the others have nothing to do with the
\* directory...
LEMMA ConfiguringUndisturbed ==
    ASSUME ~Overlap, Inv, NEW c \in Conf, Command(c),
           NEW d \in Conf \ {c}, pc[d] \in {"build", "track"}
    PROVE  UNCHANGED <<dir, file, links, entry, use, lock>>
<1> USE DEF Inv, Facts
<1>1. Configuring /\ pc[c] \notin Busy /\ lock # c
  BY Exclusive DEF Configuring, Busy, Order
<1> QED
  BY <1>1 DEF Busy, Command, Unpack, UnpackNew, SaveEntry, MoveIn, CommitUnpack, Purge,
       LoadTracking, LoadNoTracking, Build, BuildFail, SaveTracking,
       CommitConfigure, Disfigure, CommitDisfigure, DisfigureKeep, Kill, Goto,
       Starts, Commits, Release, disk, confs, commands, working, collector,
       Undisturbed

\* ...and links are only made by a command that has the cache open.
LEMMA LinksKept ==
    ASSUME Inv, NEW c \in Conf, Command(c)
    PROVE  /\ pc[c] \notin Busy => links' \subseteq links
           /\ dir # "absent" => \A d \in links : d \in links' \/ (d = c /\ c \notin out')
BY DEF Inv, Facts, Commands, Busy, Command, Unpack, UnpackNew, SaveEntry, MoveIn,
       CommitUnpack, Purge, LoadTracking, LoadNoTracking, Build, BuildFail,
       SaveTracking, CommitConfigure, Disfigure, CommitDisfigure, DisfigureKeep,
       Kill, Goto, Starts, Commits, disk, confs, commands, working, collector

LEMMA CommandsStep ==
    ASSUME ~Overlap, Inv, NEW c \in Conf, Command(c)
    PROVE  Commands'
<1> USE DEF Inv, Facts
<1> SUFFICES ASSUME NEW d \in Conf
             PROVE  /\ pc'[d] = "disfigured" => d \notin out'
                    /\ state'[d] = "configured" => pc'[d] \in {"idle", "disfigured"}
                    /\ pc'[d] = "move_in" => entry' # NoEntry /\ dir' = "absent"
                    /\ pc'[d] = "build" /\ lock' # d => dir' = "absent"
                    /\ pc'[d] \in {"build", "track"} /\ lock' = d => Present'
  BY DEF Commands
<1>1. CASE d # c
  <2>1. pc'[d] = pc[d] /\ state'[d] = state[d] /\ (d \in out' <=> d \in out)
    BY <1>1, OthersStay
  <2>2. pc[d] = "move_in" => UNCHANGED <<dir, entry>>
    BY <1>1, CommandDisk, Exclusive DEF Order, Busy
  <2>3. pc[d] \in {"build", "track"} => UNCHANGED <<dir, entry, lock>>
    BY <1>1, ConfiguringUndisturbed
  <2> QED
    BY <2>1, <2>2, <2>3 DEF Commands, Present
<1>2. CASE d = c
  <2> USE <1>2 DEF Commands, Order, TypeOK, Goto, Starts, Commits, Release, disk, confs,
          commands, working, collector
  <2>1. CASE Unpack(c) \/ UnpackNew(c)
    BY <2>1 DEF Unpack, UnpackNew
  <2>2. CASE SaveEntry(c)
    <3>1. NewEntry \in [old : BOOLEAN, untracked : SUBSET Conf]
      BY DEF NewEntry
    <3>2. entry' # NoEntry
      BY <2>2, <3>1 DEF SaveEntry
    <3> QED
      BY <2>2, <3>2 DEF SaveEntry
  <2>3. CASE MoveIn(c) \/ CommitUnpack(c) \/ Purge(c)
    BY <2>3 DEF MoveIn, CommitUnpack, Purge
  <2>4. CASE LoadTracking(c) \/ LoadNoTracking(c)
    BY <2>4 DEF LoadTracking, LoadNoTracking, Present, NotLeaked
  <2>5. CASE Build(c) \/ BuildFail(c)
    BY <2>5 DEF Build, BuildFail, Present
  <2>6. CASE SaveTracking(c) \/ CommitConfigure(c)
    BY <2>6 DEF SaveTracking, CommitConfigure
  <2>7. CASE Disfigure(c) \/ CommitDisfigure(c) \/ DisfigureKeep(c) \/ Kill(c)
    BY <2>7 DEF Disfigure, CommitDisfigure, DisfigureKeep, Kill
  <2> QED
    BY <2>1, <2>2, <2>3, <2>4, <2>5, <2>6, <2>7 DEF Command
<1> QED
  BY <1>1, <1>2

LEMMA TrackingStep ==
    ASSUME ~Overlap, Inv, NEW c \in Conf, Command(c)
    PROVE  Tracking'
<1> USE DEF Inv, Facts
<1>1. links' # {} => file'
  BY DEF Tracking, Command, Unpack, UnpackNew, SaveEntry, MoveIn,
       CommitUnpack, Purge, LoadTracking, LoadNoTracking, Build, BuildFail,
       SaveTracking, CommitConfigure, Disfigure, CommitDisfigure, DisfigureKeep,
       Kill, disk, confs
<1>2. ASSUME NEW d \in Conf \ {c}
      PROVE  /\ pc'[d] = "build" /\ lock' = d => use' = Count'
             /\ pc'[d] = "track" => IF d \in Local THEN d \in links' ELSE use' = Count'
  <2>1. pc'[d] = pc[d]
    BY <1>2, OthersStay
  <2>2. pc[d] \in {"build", "track"} => UNCHANGED <<file, links, use, lock, Count>>
    BY <1>2, ConfiguringUndisturbed DEF Count
  <2> QED
    BY <2>1, <2>2 DEF Tracking
<1>3. pc'[c] = "build" /\ lock' = c => use' = Count'
  <2>1. CASE LoadTracking(c)
    <3>1. links' = links /\ file' = (file /\ links # {})
      BY <2>1 DEF LoadTracking
    <3>2. Count' = IF Count = 1 THEN 0 ELSE Count
      <4>1. CASE file /\ links # {}
        <5>1. file' /\ links' = links
          BY <4>1, <3>1
        <5>2. Count' = Count
          BY <4>1, <5>1 DEF Count
        <5> QED
          BY <4>1, <5>2, CountFacts
      <4>2. CASE ~(file /\ links # {})
        <5>1. ~file'
          BY <4>2, <3>1
        <5>2. Count' = 0
          BY <5>1 DEF Count
        <5>3. Count = 0 \/ Count = 1
          BY <4>2, CountFacts
        <5> QED
          BY <5>2, <5>3
      <4> QED
        BY <4>1, <4>2
    <3> QED
      BY <2>1, <3>2 DEF LoadTracking
  <2>2. pc'[c] = "build" => LoadTracking(c) \/ LoadNoTracking(c)
    BY DEF TypeOK, Command, Unpack, UnpackNew, SaveEntry, MoveIn,
       CommitUnpack, Purge, Build, BuildFail, SaveTracking,
       CommitConfigure, Disfigure, CommitDisfigure, DisfigureKeep, Kill, Goto,
       Starts, Commits, disk, confs, commands, working, collector
  <2>3. LoadNoTracking(c) => lock' # c
    BY DEF LoadNoTracking
  <2> QED
    BY <2>1, <2>2, <2>3
<1>4. pc'[c] = "track" => IF c \in Local THEN c \in links' ELSE use' = Count'
  <2>1. pc'[c] = "track" => Build(c)
    BY DEF TypeOK, Command, Unpack, UnpackNew, SaveEntry, MoveIn,
       CommitUnpack, Purge, LoadTracking, LoadNoTracking, BuildFail, SaveTracking,
       CommitConfigure, Disfigure, CommitDisfigure, DisfigureKeep, Kill, Goto,
       Starts, Commits, disk, confs, commands, working, collector
  <2>2. ASSUME Build(c), pc'[c] = "track"
        PROVE  IF c \in Local THEN c \in links' ELSE use' = Count'
    <3>1. lock = c /\ pc[c] = "build"
      BY <2>2 DEF Build, Goto, TypeOK
    <3>2. use = Count
      BY <3>1 DEF Tracking
    <3> QED
      BY <2>2, <3>1, <3>2 DEF Build, working, Count
  <2> QED
    BY <2>1, <2>2
<1> QED
  BY <1>1, <1>2, <1>3, <1>4 DEF Tracking

LEMMA CollectingStep ==
    ASSUME ~Overlap, Inv, NEW c \in Conf, Command(c)
    PROVE  Collecting'
<1> USE DEF Inv, Facts
<1>1. UNCHANGED <<gc, pending, away, moved>>
  BY OthersStay
<1>2. gc # "off" => pc[c] \notin Busy
  BY Exclusive
<1>3. gc # "off" => dir' = dir /\ links' \subseteq links
  BY <1>2, CommandDisk, LinksKept DEF Busy
<1>4. ASSUME gc # "off", NEW d \in Conf, Uses(d)' PROVE Uses(d)
  BY <1>2, <1>4, OnlyTrackingUses DEF SaveTracking, Goto, Busy
<1> QED
  BY <1>1, <1>3, <1>4 DEF Collecting

LEMMA UsersTrackedStep ==
    ASSUME ~Overlap, Inv, NEW c \in Conf, Command(c)
    PROVE  UsersTracked'
<1> USE DEF Inv, Facts
<1> SUFFICES ASSUME NEW d \in Conf, Uses(d)'
             PROVE  /\ Present'
                    /\ IF d \in Local THEN d \in links' ELSE d \in entry'.untracked
  BY DEF UsersTracked
<1>1. CASE Uses(d)
  <2>1. Present /\ IF d \in Local THEN d \in links ELSE d \in entry.untracked
    BY <1>1 DEF UsersTracked
  <2>2. dir' # "absent" /\ entry' # NoEntry /\ entry.untracked \subseteq entry'.untracked
    BY <2>1, CommandDisk DEF Present
  <2>3. d \in links => d \in links'
    BY <2>1, LinksKept DEF Present, Uses
  <2> QED
    BY <2>1, <2>2, <2>3 DEF Present
<1>2. CASE d = c /\ SaveTracking(c)
  <2>1. pc[c] = "track" /\ lock = c /\ Present
    BY <1>2 DEF SaveTracking, Goto, Order, Commands
  <2>2. IF c \in Local THEN c \in links ELSE use = Count
    BY <2>1 DEF Tracking
  <2>3. UNCHANGED <<dir, links>>
    BY <1>2 DEF SaveTracking, disk
  <2>4. [old |-> FALSE, untracked |-> entry.untracked \cup {c}] \in Entry
    BY <2>1 DEF TypeOK, Entry, Present
  <2>5. c \notin Local => entry' # NoEntry /\ c \in entry'.untracked
    BY <1>2, <2>2, <2>4 DEF SaveTracking, Entry
  <2>6. entry' # NoEntry
    BY <2>1, CommandDisk DEF Present
  <2> QED
    BY <1>2, <2>1, <2>2, <2>3, <2>5, <2>6 DEF Present
<1> QED
  BY <1>1, <1>2, OnlyTrackingUses

-----------------------------------------------------------------------------
LEMMA InitInv == Init => Inv
<1> SUFFICES ASSUME Init PROVE Inv
  OBVIOUS
<1>1. TypeOK
  BY DEF Init, TypeOK, Pc, GcPc
<1>2. \A c \in Conf : pc[c] = "idle" /\ state[c] = "none" /\ ~Uses(c)
  BY DEF Init, Uses
<1>3. Order /\ Facts
  BY <1>2 DEF Init, Order, Facts, Commands, Tracking, Collecting, NotLeaked, UsersTracked
<1> QED
  BY <1>1, <1>3 DEF Inv

LEMMA StepInv ==
    ASSUME ~Overlap, Inv, [Next]_vars
    PROVE  Inv'
<1>1. TypeOK' /\ Order'
  BY TypeStep, OrderStep DEF Inv, Facts
<1>2. Facts'
  <2>1. CASE UNCHANGED vars
    BY <2>1 DEF Inv, Facts, Commands, Tracking, Collecting, NotLeaked, UsersTracked,
         Uses, Present, Count, vars
  <2>2. CASE Collect
    BY <2>2, CollectStep
  <2>3. ASSUME NEW c \in Conf, Command(c) PROVE Facts'
    BY <2>3, CommandsStep, TrackingStep, CollectingStep, UsersTrackedStep, CommandDisk
       DEF Facts
  <2>4. ASSUME NEW c \in Conf, MoveAway(c) \/ MoveBack(c) PROVE Facts'
    BY <2>4 DEF MoveAway, MoveBack, Inv, Facts, Commands, Tracking, Collecting,
         NotLeaked, UsersTracked, Uses, Present, Count, disk, commands, collector, TypeOK
  <2> QED
    BY <2>1, <2>2, <2>3, <2>4 DEF Next
<1> QED
  BY <1>1, <1>2 DEF Inv

\* Whatever commands run one after the other and are killed: the variables keep
\* to their types; in particular no command registers a configuration with an
\* entry that is gone, and no number of links is negative.
THEOREM TypeCorrect == ~Overlap => (Spec => []TypeOK)
<1> SUFFICES ASSUME ~Overlap PROVE Spec => []TypeOK
  OBVIOUS
<1>1. Inv => TypeOK
  BY DEF Inv
<1> QED
  BY InitInv, StepInv, <1>1, PTL DEF Spec

\* A shared source directory always has its entry, so that it is collected one
\* day and never in the way of pkg-unpack.
THEOREM NoneLeaked == ~Overlap => (Spec => []NotLeaked)
<1> SUFFICES ASSUME ~Overlap PROVE Spec => []NotLeaked
  OBVIOUS
<1>1. Inv => NotLeaked
  BY DEF Inv, Facts
<1> QED
  BY InitInv, StepInv, <1>1, PTL DEF Spec

\* The collector removes nothing of a directory some configuration uses, on
\* whatever file system it is, however often it is configured, disfigured and
\* killed in between (provided nobody works while a package is configured).
THEOREM UsersSafe == ~Overlap => (Spec => InUseUntouched)
<1> SUFFICES ASSUME ~Overlap PROVE Spec => InUseUntouched
  OBVIOUS
<1>1. ASSUME Inv, [Next]_vars, dir' # dir, NEW c \in Conf
      PROVE  ~InUse(c)
  <2>1. InUse(c) => Uses(c)
    BY DEF InUse, Uses
  <2>2. CASE Collect
    <3>1. gc \in {"remove", "removing"}
      BY <1>1, <2>2 DEF Collect, Age, GcStart, GcCheck, GcPrune, GcRemove, GcRemoved,
           GcRemoveFail, GcCommit, GcKill, GcGoto, disk
    <3> QED
      BY <1>1, <2>1, <3>1 DEF Inv, Facts, Collecting
  <2>3. CASE \E d \in Conf : Command(d)
    <3>1. dir = "absent"
      BY <1>1, <2>3, CommandDisk
    <3> QED
      BY <1>1, <2>1, <3>1 DEF Inv, Facts, UsersTracked, Present
  <2> QED
    BY <1>1, <2>2, <2>3 DEF Next, MoveAway, MoveBack, disk, vars
<1>2. Inv /\ [Next]_vars => [dir' # dir => \A c \in Conf : ~InUse(c)]_vars
  BY <1>1
<1> QED
  BY InitInv, StepInv, <1>2, PTL DEF Spec, InUseUntouched
=============================================================================
