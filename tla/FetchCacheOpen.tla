---------------------------- MODULE FetchCacheOpen ----------------------------
(***************************************************************************)
(* How several bpkg processes come to share one fetch cache database       *)
(* (fetch_cache::open(), lock(), close() in bpkg/fetch-cache.cxx).         *)
(*                                                                         *)
(* The database is in the non-precious directory ("np") until a process    *)
(* that shares source directories opens it; that process moves it to the   *)
(* semi-precious one ("sp"), where it stays.  SQLite locks the database    *)
(* once it is open; for what happens before there is a second database     *)
(* used as a lock file, which a process that finds the first one in sp     *)
(* does without.  Whatever is locked is tried again after a while.         *)
(***************************************************************************)
EXTENDS Naturals, FiniteSets

CONSTANTS
    Process,        \* the bpkg processes; each opens the cache once
    Src,            \* those that share source directories (cache_src())
    Separate,       \* np and sp are different directories
    Killable,       \* bound: where in open() and after a process may be killed
    MaxKills,       \* bound: how many are
    Nobody,         \* no process
    Absent          \* no file

ASSUME CacheAssumption ==
    /\ Src \subseteq Process
    /\ Separate \in BOOLEAN
    /\ MaxKills \in Nat
    /\ Nobody \notin Process
    /\ Absent \notin Nat

Dir == {"np", "sp"}

VARIABLES
    main,       \* main[d]: the database file; the last commit in it, 0 if it
                \* has no schema
    log,        \* log[d]: its write-ahead log; the last commit in that
    user,       \* user[d]: the process that holds SQLite's lock on main[d]
    lock,       \* the process that holds the lock file
    pc,         \* where the process is
    at,         \* the directory it opens the database in
    create,     \* it found no database and creates one
    seen,       \* the last commit it sees
    committed,  \* the last commit ever made
    tracked,    \* whose data (a source directory or an archive) has an entry
    stored,     \* whose data is in the cache directories
    kills       \* how many processes were killed

files == <<main, log, user>>
data == <<committed, tracked, stored>>
own == <<at, create, seen>>
vars == <<main, log, user, lock, pc, at, create, seen, committed, tracked,
          stored, kills>>

Pc == {"start", "lock", "retest", "find", "cleanup_src", "cleanup", "move_log",
       "move", "open", "lock_db", "schema", "use", "close", "unlock",
       "done", "failed", "killed"}
Ended == {"done", "failed", "killed"}

TypeOK ==
    /\ main \in [Dir -> Nat \cup {Absent}]
    /\ log \in [Dir -> Nat \cup {Absent}]
    /\ user \in [Dir -> Process \cup {Nobody}]
    /\ lock \in Process \cup {Nobody}
    /\ pc \in [Process -> Pc]
    /\ at \in [Process -> Dir]
    /\ create \in [Process -> BOOLEAN]
    /\ seen \in [Process -> Nat]
    /\ committed \in Nat
    /\ tracked \subseteq Process /\ stored \subseteq Process
    /\ kills \in Nat

\* There is no cache yet, or one that has been used before.
Init ==
    /\ \E d \in Dir, n \in {0, 1} :
        /\ main = [e \in Dir |-> IF e = d /\ n = 1 THEN 1 ELSE Absent]
        /\ committed = n
        /\ d = "sp" => Separate
    /\ log = [d \in Dir |-> Absent]
    /\ user = [d \in Dir |-> Nobody]
    /\ lock = Nobody
    /\ pc = [p \in Process |-> "start"]
    /\ at = [p \in Process |-> "np"]
    /\ create = [p \in Process |-> FALSE]
    /\ seen = [p \in Process |-> 0]
    /\ tracked = {} /\ stored = {}
    /\ kills = 0

-----------------------------------------------------------------------------
(* Helpers.                                                                *)

Exists(d) == main[d] # Absent

\* The directory the database should be in.
Home(p) == IF Separate /\ p \in Src THEN "sp" ELSE "np"

\* What SQLite reads: the file and the log it finds beside it.
Content(d) == IF log[d] = Absent THEN main[d] ELSE log[d]

Goto(p, from, to) == pc[p] = from /\ pc' = [pc EXCEPT ![p] = to]

\* Opening goes on with the database in d.
OpenIn(p, d, new) ==
    /\ at' = [at EXCEPT ![p] = d]
    /\ create' = [create EXCEPT ![p] = new]
    /\ UNCHANGED seen

\* db_.reset(), lock_.reset(); a process that ends loses its locks as well.
\* With a fault, the lock is that the file exists, which outlives the process.
LockOutlives(p) == UNCHANGED lock
ReleaseDb(p) == user' = [d \in Dir |-> IF user[d] = p THEN Nobody ELSE user[d]]
ReleaseLock(p) == lock' = IF lock = p THEN Nobody ELSE lock
Release(p) == ReleaseDb(p) /\ ReleaseLock(p) /\ UNCHANGED <<main, log>>

-----------------------------------------------------------------------------
(* Finding the database.                                                   *)

\* In sp it needs no lock.
Start(p) ==
    /\ \/ /\ Separate /\ Exists("sp")
          /\ Goto(p, "start", "open") /\ OpenIn(p, "sp", FALSE)
       \/ /\ Separate /\ ~Exists("sp")
          /\ Goto(p, "start", "lock") /\ UNCHANGED own
       \/ ~Separate /\ Goto(p, "start", "find") /\ UNCHANGED own
    /\ UNCHANGED <<files, lock, data, kills>>

\* Without the lock the process sleeps and starts anew.
Lock(p) ==
    /\ IF lock = Nobody
       THEN Goto(p, "lock", "retest") /\ lock' = p
       ELSE Goto(p, "lock", "start") /\ UNCHANGED lock
    /\ UNCHANGED <<files, own, data, kills>>

\* With a fault: sp is not tested again under the lock.
RetestSkipped(p) ==
    /\ Goto(p, "retest", "find") /\ UNCHANGED own
    /\ UNCHANGED <<files, lock, data, kills>>

Retest(p) ==
    /\ \/ Exists("sp") /\ Goto(p, "retest", "open") /\ OpenIn(p, "sp", FALSE)
       \/ ~Exists("sp") /\ Goto(p, "retest", "find") /\ UNCHANGED own
    /\ UNCHANGED <<files, lock, data, kills>>

\* Open it in np, move it to sp, or create it where it should be.
Find(p) ==
    /\ \/ /\ Exists("np") /\ Home(p) = "np"
          /\ Goto(p, "find", "open") /\ OpenIn(p, "np", FALSE)
       \/ /\ Exists("np") /\ Home(p) = "sp"
          /\ Goto(p, "find", "cleanup_src") /\ OpenIn(p, "sp", FALSE)
       \/ /\ ~Exists("np")
          /\ Goto(p, "find", "cleanup") /\ OpenIn(p, Home(p), TRUE)
    /\ UNCHANGED <<files, lock, data, kills>>

\* What no database has entries for is removed: the source directories in sp
\* before a database moves there, everything before a new one.
CleanupSources(p) ==
    /\ Goto(p, "cleanup_src", "move_log")
    /\ stored' = stored \ Src
    /\ UNCHANGED <<files, lock, own, committed, tracked, kills>>
Cleanup(p) ==
    /\ Goto(p, "cleanup", "open")
    /\ stored' = {}
    /\ UNCHANGED <<files, lock, own, committed, tracked, kills>>

\* With a fault: the database is moved without its log.
MoveLogForgotten(p) ==
    /\ Goto(p, "move_log", "move")
    /\ UNCHANGED <<files, lock, own, data, kills>>

\* The log goes first, so that nobody sees the database without it.
MoveLog(p) ==
    /\ Goto(p, "move_log", "move")
    /\ log' = IF log["np"] # Absent
              THEN [log EXCEPT !["sp"] = log["np"], !["np"] = Absent] ELSE log
    /\ UNCHANGED <<main, user, lock, own, data, kills>>
Move(p) ==
    /\ Goto(p, "move", "open")
    /\ main' = [main EXCEPT !["sp"] = main["np"], !["np"] = Absent]
    /\ user' = [user EXCEPT !["sp"] = user["np"], !["np"] = Nobody]
    /\ UNCHANGED <<log, lock, own, data, kills>>

-----------------------------------------------------------------------------
(* Opening it.                                                             *)

\* SQLite opens the file, and creates it when asked to.
Open(p) ==
    /\ Exists(at[p]) \/ create[p]
    /\ Goto(p, "open", "lock_db")
    /\ main' = [main EXCEPT ![at[p]] = IF @ = Absent THEN 0 ELSE @]
    /\ UNCHANGED <<log, user, lock, own, data, kills>>

\* The pragmas and the exclusive transaction.
LockDb(p) ==
    /\ user[at[p]] = Nobody
    /\ Goto(p, "lock_db", "schema")
    /\ user' = [user EXCEPT ![at[p]] = p]
    /\ seen' = [seen EXCEPT ![p] = Content(at[p])]
    /\ UNCHANGED <<main, log, lock, at, create, data, kills>>

\* odb::timeout: everything is released, and after a sleep it is tried anew.
DbBusy(p) ==
    /\ user[at[p]] # Nobody
    /\ Goto(p, "lock_db", "start")
    /\ Release(p)
    /\ UNCHANGED <<own, data, kills>>

\* Transactions go to the log.
Commit(p) ==
    /\ committed' = committed + 1
    /\ seen' = [seen EXCEPT ![p] = committed + 1]
    /\ log' = [log EXCEPT ![at[p]] = committed + 1]
    /\ UNCHANGED <<main, user, at, create>>

\* A new database gets its schema; an old one must have it.
Schema(p) ==
    /\ Goto(p, "schema", "use")
    /\ \/ create[p] /\ seen[p] = 0 /\ Commit(p)
       \/ ~create[p] /\ seen[p] # 0 /\ UNCHANGED <<files, own, committed>>
    /\ UNCHANGED <<lock, tracked, stored, kills>>

\* "unable to open database file", "already has database schema", "is too old".
Unusable(p) ==
    \/ pc[p] = "open" /\ ~Exists(at[p]) /\ ~create[p]
    \/ pc[p] = "schema" /\ (create[p] <=> seen[p] # 0)

\* open() fails, and so does the command.
OpenFail(p) ==
    /\ Unusable(p)
    /\ Goto(p, pc[p], "failed")
    /\ Release(p)
    /\ UNCHANGED <<own, data, kills>>

-----------------------------------------------------------------------------
(* Using and closing it.                                                   *)

\* The process adds an entry (FetchCache has all it may do in between).
Use(p) ==
    /\ Goto(p, "use", "close")
    /\ Commit(p)
    /\ tracked' = tracked \cup {p} /\ stored' = stored \cup {p}
    /\ UNCHANGED <<lock, kills>>

\* Closing a database brings it up to date and removes its log.
Close(p) ==
    /\ Goto(p, "close", "unlock")
    /\ main' = [main EXCEPT ![at[p]] = seen[p]]
    /\ log' = [log EXCEPT ![at[p]] = Absent]
    /\ ReleaseDb(p)
    /\ UNCHANGED <<lock, own, data, kills>>
Unlock(p) ==
    /\ Goto(p, "unlock", "done")
    /\ ReleaseLock(p)
    /\ UNCHANGED <<files, own, data, kills>>

\* The process is killed.
Kill(p) ==
    /\ pc[p] \in Killable \ Ended
    /\ kills < MaxKills
    /\ kills' = kills + 1
    /\ pc' = [pc EXCEPT ![p] = "killed"]
    /\ Release(p)
    /\ UNCHANGED <<own, data>>

Step(p) ==
    \/ Start(p) \/ Lock(p) \/ Retest(p) \/ Find(p)
    \/ CleanupSources(p) \/ Cleanup(p) \/ MoveLog(p) \/ Move(p)
    \/ Open(p) \/ LockDb(p) \/ DbBusy(p) \/ Schema(p) \/ OpenFail(p)
    \/ Use(p) \/ Close(p) \/ Unlock(p)

\* When all have ended nothing more happens.
Next == \E p \in Process : Step(p) \/ Kill(p)

Spec == Init /\ [][Next]_vars

\* A process that is not killed goes on: open() waits for nothing but time.
FairSpec == Spec /\ \A p \in Process : WF_vars(Step(p))

(* Properties.                                                             *)

\* There is never a database in both directories, so that all the processes
\* share one.
OneDatabase == ~(Exists("np") /\ Exists("sp"))

\* Whoever gets to use the database sees everything committed before, also by
\* processes that were killed without closing it ("we also have to move the
\* write-ahead log").
NothingLost == \A p \in Process : pc[p] = "use" => seen[p] = committed

\* What is cleaned up before a database is moved or created is never what
\* another process has an entry for.
EntriesKept == tracked \subseteq stored

\* Once the cache has been created, nobody fails to open it any more.
FailsOnlyNew ==
    [][\A p \in Process : pc[p] # "failed" /\ pc'[p] = "failed" => committed = 0]_vars

\* Nobody who has started waits forever, be it for a process that was killed.
EveryoneEnds == \A p \in Process : pc[p] # "start" ~> pc[p] \in Ended
=============================================================================
