------------------------- MODULE FetchCacheOpenProofs -------------------------
(***************************************************************************)
(* The protocol for opening the fetch cache, for any processes: there is   *)
(* one database, and, unless a process is killed between moving the log    *)
(* and moving the database, nothing that was committed to it is lost.      *)
(*                                                                         *)
(* The lock file protects the directories before SQLite's lock can: who    *)
(* looks for the database holds it, and so does who uses the database in   *)
(* np.  Hence a database is moved only while nobody uses it, and nothing   *)
(* is cleaned up for a new one that has an entry in an old one.            *)
(***************************************************************************)
EXTENDS FetchCacheOpen, TLAPS

Finding == {"retest", "find", "cleanup_src", "cleanup", "move_log", "move"}
Using == {"lock_db", "schema", "use", "close"}
Owning == {"schema", "use", "close"}

\* Where a process relies on nobody else creating or moving a database.
Guarded(p) ==
    \/ pc[p] \in Finding
    \/ pc[p] \in Using \cup {"open"} /\ at[p] = "np"
    \/ pc[p] = "open" /\ create[p]

LockHeld == Separate => \A p \in Process : Guarded(p) => lock = p

\* What a process has found out about the directories is still true.
Found(p) ==
    /\ pc[p] \in {"lock", "retest"} => Separate
    /\ pc[p] \in {"find", "cleanup_src", "cleanup", "move_log", "move"} => ~Exists("sp")
    /\ pc[p] \in {"cleanup_src", "move_log", "move"} =>
           Separate /\ Exists("np") /\ at[p] = "sp" /\ ~create[p]
    /\ pc[p] = "cleanup" => create[p] /\ (Separate => ~Exists("np"))
    /\ pc[p] = "open" /\ create[p] /\ Separate =>
           \A d \in Dir : d # at[p] => ~Exists(d)
    /\ pc[p] \in Using => Exists(at[p])
    /\ pc[p] \in {"cleanup", "open"} \cup Using /\ ~Separate => at[p] = "np"

PlaceInv ==
    /\ TypeOK
    /\ LockHeld
    /\ \A p \in Process : Found(p)
    /\ ~Separate => ~Exists("sp")
    /\ OneDatabase

\* The type invariant, step by step.
LEMMA TypeStep ==
  ASSUME PlaceInv, [Next]_vars
  PROVE  TypeOK'
<1>0. TypeOK
  BY DEF PlaceInv
<1> USE <1>0 DEF TypeOK, Pc, Dir
<1>1. CASE UNCHANGED vars
  BY <1>1 DEF vars
<1>2. ASSUME NEW p \in Process, Step(p) \/ Kill(p)
      PROVE  TypeOK'
  <2>1. CASE Start(p)
    BY <2>1 DEF Start, Goto, OpenIn, files, data, own
  <2>2. CASE Lock(p)
    BY <2>2 DEF Lock, Goto, files, data, own
  <2>3. CASE Retest(p)
    BY <2>3 DEF Retest, Goto, OpenIn, files, data, own
  <2>4. CASE Find(p)
    <3>1. Home(p) \in Dir
      BY DEF Home
    <3> QED
      BY <2>4, <3>1 DEF Find, Goto, OpenIn, files, data, own
  <2>5. CASE CleanupSources(p) \/ Cleanup(p)
    BY <2>5 DEF CleanupSources, Cleanup, Goto, files, own
  <2>6. CASE MoveLog(p)
    BY <2>6 DEF MoveLog, Goto, data, own
  <2>7. CASE Move(p)
    BY <2>7 DEF Move, Goto, data, own
  <2>8. CASE Open(p)
    BY <2>8 DEF Open, Goto, data, own
  <2>9. CASE LockDb(p)
    <3>1. Exists(at[p])
      BY <2>9 DEF LockDb, Goto, PlaceInv, Found, Using
    <3>2. Content(at[p]) \in Nat
      BY <3>1 DEF Content, Exists
    <3> QED
      BY <2>9, <3>2 DEF LockDb, Goto, data
  <2>10. CASE DbBusy(p) \/ OpenFail(p)
    BY <2>10 DEF DbBusy, OpenFail, Release, ReleaseDb, ReleaseLock, Goto, data, own
  <2>11. CASE Schema(p) \/ Use(p)
    BY <2>11 DEF Schema, Use, Commit, Goto, files, own
  <2>12. CASE Close(p) \/ Unlock(p)
    BY <2>12 DEF Close, Unlock, ReleaseDb, ReleaseLock, Goto, files, data, own
  <2>13. CASE Kill(p)
    BY <2>13 DEF Kill, Release, ReleaseDb, ReleaseLock, data, own
  <2> QED
    BY <1>2, <2>1, <2>2, <2>3, <2>4, <2>5, <2>6, <2>7, <2>8, <2>9, <2>10, <2>11,
       <2>12, <2>13 DEF Step
<1> QED
  BY <1>1, <1>2 DEF Next

-----------------------------------------------------------------------------
(* One database.                                                           *)

\* A step of p leaves the place of every other process as it was, so that only
\* the locks and the files matter to the others.
LEMMA OthersStay ==
  ASSUME TypeOK, NEW p \in Process, Step(p) \/ Kill(p),
         NEW q \in Process, q # p
  PROVE  pc'[q] = pc[q] /\ at'[q] = at[q] /\ create'[q] = create[q] /\ seen'[q] = seen[q]
BY DEF TypeOK, Step, Kill, Start, Lock, Retest, Find, CleanupSources, Cleanup,
       MoveLog, Move, Open, LockDb, DbBusy, Schema, OpenFail, Use, Close, Unlock,
       Commit, Goto, OpenIn, own

\* The lock changes hands only when it is free, or given back by its holder.
LEMMA LockStep ==
  ASSUME PlaceInv, TypeOK', NEW p \in Process, Step(p) \/ Kill(p)
  PROVE  LockHeld'
<1> SUFFICES ASSUME Separate, NEW q \in Process, Guarded(q)'
             PROVE  lock' = q
  BY DEF LockHeld
<1>0. TypeOK
  BY DEF PlaceInv
<1>1. Guarded(q) => lock = q
  BY DEF PlaceInv, LockHeld
<1>2. lock' = lock \/ (lock = Nobody /\ lock' = p) \/ (lock = p /\ lock' = Nobody)
  BY DEF Step, Kill, Start, Lock, Retest, Find, CleanupSources, Cleanup,
         MoveLog, Move, Open, LockDb, DbBusy, Schema, OpenFail, Use, Close, Unlock,
         Release, ReleaseLock
<1>3. CASE q # p
  <2>1. Guarded(q)
    BY <1>0, <1>3, OthersStay DEF Guarded
  <2> QED
    BY <1>1, <1>2, <1>3, <2>1, CacheAssumption
<1>4. CASE q = p
  <2> USE <1>4 DEF Guarded, Finding, Using
  <2>0. pc'[p] \in Finding \cup Using \cup {"open"} /\ pc[p] \in Pc /\ at'[p] \in Dir
    BY <1>0 DEF TypeOK
  <2>1. CASE Start(p)
    BY <1>0, <2>0, <2>1 DEF Start, Goto, OpenIn, own, TypeOK
  <2>2. CASE Lock(p)
    BY <1>0, <2>0, <2>2 DEF Lock, Goto, TypeOK
  <2>3. CASE Retest(p) \/ Find(p)
    BY <1>0, <1>1, <2>3 DEF Retest, Find, Goto, OpenIn, TypeOK
  <2>4. CASE CleanupSources(p) \/ Cleanup(p) \/ MoveLog(p)
    BY <1>0, <1>1, <2>4 DEF CleanupSources, Cleanup, MoveLog, Goto, TypeOK
  <2>5. CASE Move(p)
    BY <1>0, <1>1, <2>5 DEF Move, Goto, TypeOK
  <2>6. CASE Open(p) \/ LockDb(p) \/ Schema(p) \/ Use(p)
    BY <1>0, <1>1, <2>0, <2>6 DEF Open, LockDb, Schema, Use, Commit, Goto, own, TypeOK
  <2>7. CASE DbBusy(p) \/ OpenFail(p) \/ Close(p) \/ Unlock(p) \/ Kill(p)
    BY <1>0, <2>0, <2>7 DEF DbBusy, OpenFail, Close, Unlock, Kill, Goto, TypeOK
  <2> QED
    BY <2>1, <2>2, <2>3, <2>4, <2>5, <2>6, <2>7 DEF Step
<1> QED
  BY <1>3, <1>4

\* Steps that create, move and remove no database.
LEMMA SameFiles ==
  ASSUME PlaceInv, TypeOK', NEW p \in Process, Step(p) \/ Kill(p),
         \A d \in Dir : Exists(d)' <=> Exists(d)
  PROVE  \A q \in Process : Found(q)'
<1>0. TypeOK /\ Found(p) /\ (Separate \/ ~Exists("sp"))
  BY DEF PlaceInv
<1> SUFFICES ASSUME NEW q \in Process
             PROVE  Found(q)'
  OBVIOUS
<1>1. CASE q # p
  <2>1. pc'[q] = pc[q] /\ at'[q] = at[q] /\ create'[q] = create[q]
    BY <1>0, <1>1, OthersStay
  <2>2. Found(q) /\ at[q] \in Dir
    BY <1>0 DEF PlaceInv, TypeOK
  <2> QED
    BY <2>1, <2>2 DEF Found, Dir
<1>2. CASE q = p
  <2> USE <1>0, <1>2 DEF Found, Using, TypeOK
  <2>0. (\A d \in Dir : Exists(d)' <=> Exists(d)) /\ Dir = {"np", "sp"}
    BY DEF Dir
  <2>1. CASE Start(p)
    BY <2>0, <2>1 DEF Start, Goto, OpenIn, own
  <2>2. CASE Lock(p)
    BY <2>0, <2>2 DEF Lock, Goto, own
  <2>3. CASE Retest(p)
    BY <2>0, <2>3 DEF Retest, Goto, OpenIn, own
  <2>4. CASE Find(p)
    BY <2>0, <2>4 DEF Find, Goto, OpenIn, Home
  <2>5. CASE CleanupSources(p) \/ Cleanup(p) \/ MoveLog(p)
    BY <2>0, <2>5 DEF CleanupSources, Cleanup, MoveLog, Goto, own
  <2>6. CASE Move(p)
    BY <2>0, <2>6 DEF Move, Goto, own, Exists
  <2>7. CASE Open(p)
    <3>1. at[p] \in Dir /\ at' = at /\ create' = create /\ pc'[p] = "lock_db"
      BY <2>7 DEF Open, Goto, own
    <3>2. main'[at[p]] # Absent
      BY <2>7, <3>1, CacheAssumption DEF Open
    <3> QED
      BY <2>0, <2>7, <3>1, <3>2 DEF Open, Goto, Exists
  <2>8. CASE LockDb(p) \/ Schema(p) \/ Use(p) \/ Close(p)
    BY <2>0, <2>8 DEF LockDb, Schema, Use, Close, Commit, Goto, own
  <2>9. CASE DbBusy(p) \/ OpenFail(p) \/ Unlock(p) \/ Kill(p)
    BY <2>9 DEF DbBusy, OpenFail, Unlock, Kill, Goto
  <2> QED
    BY <2>1, <2>2, <2>3, <2>4, <2>5, <2>6, <2>7, <2>8, <2>9 DEF Step
<1> QED
  BY <1>1, <1>2

\* The three steps that write the database file.
LEMMA MoveStep ==
  ASSUME PlaceInv, TypeOK', NEW p \in Process, Move(p)
  PROVE  /\ \A q \in Process : Found(q)'
         /\ Separate /\ ~Exists("np")'
<1>0. TypeOK /\ Found(p) /\ LockHeld
  BY DEF PlaceInv
<1>1. pc[p] = "move" /\ Separate /\ ~Exists("sp") /\ lock = p
  BY <1>0 DEF Move, Goto, Found, LockHeld, Guarded, Finding
<1>2. ~Exists("np")' /\ Exists("sp")'
  BY <1>0, <1>1 DEF Move, TypeOK, Dir, Found, Exists
<1>3. Found(p)'
  BY <1>0, <1>1, <1>2 DEF Move, Goto, TypeOK, Dir, Found, Using, own
<1>4. ASSUME NEW q \in Process, q # p
      PROVE  Found(q)'
  <2>1. pc'[q] = pc[q] /\ at'[q] = at[q] /\ create'[q] = create[q]
    BY <1>0, <1>4, OthersStay DEF Step
  <2>2. ~Guarded(q) /\ Found(q) /\ at[q] \in {"np", "sp"}
    BY <1>0, <1>1, <1>4 DEF LockHeld, PlaceInv, TypeOK, Dir
  <2> QED
    BY <1>1, <2>1, <2>2 DEF Found, Guarded, Finding, Using
<1> QED
  BY <1>1, <1>2, <1>3, <1>4

LEMMA OpenStep ==
  ASSUME PlaceInv, TypeOK', NEW p \in Process, Open(p), ~Exists(at[p])
  PROVE  /\ \A q \in Process : Found(q)'
         /\ Exists(at[p])' /\ \A d \in Dir \ {at[p]} : ~Exists(d)'
         /\ Separate \/ at[p] = "np"
<1>0. TypeOK /\ Found(p) /\ LockHeld /\ (Separate \/ ~Exists("sp"))
  BY DEF PlaceInv
<1>1. pc[p] = "open" /\ create[p] /\ at[p] \in Dir
  BY <1>0 DEF Open, Goto, TypeOK
<1>2. Exists(at[p])' /\ \A d \in Dir \ {at[p]} : Exists(d)' <=> Exists(d)
  BY <1>0, <1>1, CacheAssumption DEF Open, TypeOK, Exists, own
<1>3. Separate \/ at[p] = "np"
  BY <1>0, <1>1 DEF Found
<1>4. \A d \in Dir : ~Exists(d)
  BY <1>0, <1>1, <1>3 DEF Found, Dir
<1>5. Found(p)'
  BY <1>0, <1>1, <1>2, <1>3 DEF Open, Goto, TypeOK, Found, Using, own
<1>6. ASSUME NEW q \in Process, q # p
      PROVE  Found(q)'
  <2>1. pc'[q] = pc[q] /\ at'[q] = at[q] /\ create'[q] = create[q]
    BY <1>0, <1>6, OthersStay DEF Step
  <2>2. Found(q) /\ at[q] \in Dir
    BY <1>0 DEF PlaceInv, TypeOK
  <2>3. pc[q] \notin Using \cup {"cleanup_src", "move_log", "move"}
    BY <1>4, <2>2 DEF Found, Dir
  <2>4. CASE Separate
    <3>1. ~Guarded(q)
      BY <1>0, <1>1, <1>6, <2>4 DEF LockHeld, Guarded
    <3> QED
      BY <2>1, <2>2, <2>3, <2>4, <3>1 DEF Found, Guarded, Finding, Using
  <2>5. CASE ~Separate
    <3>1. ~Exists("sp")'
      BY <1>2, <1>3, <1>4, <2>5 DEF Dir
    <3> QED
      BY <2>1, <2>2, <2>3, <2>5, <3>1 DEF Found, Using
  <2> QED
    BY <2>4, <2>5
<1> QED
  BY <1>2, <1>3, <1>4, <1>5, <1>6

LEMMA PlaceStep ==
  ASSUME PlaceInv, [Next]_vars
  PROVE  PlaceInv'
<1>0. TypeOK' /\ TypeOK
  BY TypeStep DEF PlaceInv
<1>1. CASE UNCHANGED vars
  BY <1>0, <1>1 DEF vars, PlaceInv, LockHeld, Guarded, Found, OneDatabase, Exists
<1>2. ASSUME NEW p \in Process, Step(p) \/ Kill(p)
      PROVE  PlaceInv'
  <2>1. LockHeld'
    BY <1>0, <1>2, LockStep
  <2>2. CASE Move(p)
    <3>1. (\A q \in Process : Found(q)') /\ Separate /\ ~Exists("np")'
      BY <1>0, <2>2, MoveStep
    <3> QED
      BY <1>0, <2>1, <3>1 DEF PlaceInv, OneDatabase
  <2>3. CASE Open(p) /\ ~Exists(at[p])
    <3>1. /\ \A q \in Process : Found(q)'
          /\ \A d \in Dir \ {at[p]} : ~Exists(d)'
          /\ Separate \/ at[p] = "np"
      BY <1>0, <2>3, OpenStep
    <3> QED
      BY <1>0, <2>1, <3>1 DEF PlaceInv, OneDatabase, Dir
  <2>4. CASE ~Move(p) /\ ~(Open(p) /\ ~Exists(at[p]))
    <3>1. \A d \in Dir : Exists(d)' <=> Exists(d)
      <4>1. CASE Close(p)
        <5>1. Exists(at[p]) /\ seen[p] # Absent
          BY <1>0, <4>1, CacheAssumption DEF Close, Goto, PlaceInv, Found, Using, TypeOK
        <5> QED
          BY <1>0, <4>1, <5>1 DEF Close, Exists, TypeOK
      <4>2. CASE Open(p)
        BY <1>0, <2>4, <4>2 DEF Open, Exists, TypeOK
      <4>3. CASE ~Close(p) /\ ~Open(p)
        <5>1. main' = main
          BY <1>2, <2>4, <4>3
             DEF Step, Kill, Start, Lock, Retest, Find, CleanupSources, Cleanup, MoveLog,
                 LockDb, DbBusy, Schema, OpenFail, Use, Unlock, Commit, Release, files
        <5> QED
          BY <5>1 DEF Exists
      <4> QED
        BY <4>1, <4>2, <4>3
    <3>2. \A q \in Process : Found(q)'
      BY <1>0, <1>2, <3>1, SameFiles
    <3> QED
      BY <1>0, <2>1, <3>1, <3>2 DEF PlaceInv, OneDatabase, Dir
  <2> QED
    BY <2>2, <2>3, <2>4
<1> QED
  BY <1>1, <1>2 DEF Next

\* The invariant holds of every behaviour.
THEOREM PlaceInvariance == Spec => []PlaceInv
<1>1. Init => PlaceInv
  BY CacheAssumption
     DEF Init, PlaceInv, TypeOK, Dir, Pc, LockHeld, Guarded, Finding, Using, Found,
         OneDatabase, Exists
<1>2. PlaceInv /\ [Next]_vars => PlaceInv'
  BY PlaceStep
<1> QED
  BY <1>1, <1>2, PTL DEF Spec

\* open() and close(): every variable keeps to its type; in particular what a
\* process reads is a database that is there.
THEOREM TypeCorrect == Spec => []TypeOK
BY PlaceInvariance, PTL DEF PlaceInv

\* open(): whatever processes race to create, move and open the cache, wherever
\* they are killed, there is never a database in both directories.
THEOREM SingleDatabase == Spec => []OneDatabase
BY PlaceInvariance, PTL DEF PlaceInv

-----------------------------------------------------------------------------
(* Nothing that was committed is lost.                                     *)

\* Who owns the database sees all of it.
Owners == \A p \in Process : pc[p] \in Owning => user[at[p]] = p /\ seen[p] = committed

\* All that was committed is in the database and the log beside it, or, while
\* these are being moved, in the one that has come further.
Whole ==
    /\ (\A p \in Process : pc[p] # "move") =>
           \A d \in Dir : /\ Exists(d) => Content(d) = committed
                          /\ log[d] # Absent => Exists(d)
    /\ (\E p \in Process : pc[p] = "move") =>
           /\ log["np"] = Absent
           /\ committed = IF log["sp"] = Absent THEN main["np"] ELSE log["sp"]
    /\ (\A d \in Dir : ~Exists(d)) => committed = 0

DataInv == PlaceInv /\ Owners /\ Whole

\* While somebody moves the database, nobody uses it.
LEMMA MovedUnused ==
  ASSUME PlaceInv, NEW p \in Process, pc[p] = "move", NEW q \in Process
  PROVE  pc[q] \notin Using /\ (pc[q] = "move" => q = p)
<1>1. Found(p) /\ Found(q) /\ at[q] \in Dir /\ LockHeld
  BY DEF PlaceInv, TypeOK
<1>2. Separate /\ lock = p /\ ~Exists("sp")
  BY <1>1 DEF Found, LockHeld, Guarded, Finding
<1>3. Guarded(q) => q = p
  BY <1>1, <1>2 DEF LockHeld
<1> QED
  BY <1>1, <1>2, <1>3 DEF Found, Guarded, Finding, Using, Dir

\* Two processes never own a database.
LEMMA OneOwner ==
  ASSUME PlaceInv, Owners, NEW p \in Process, NEW q \in Process,
         pc[p] \in Owning, pc[q] \in Owning
  PROVE  p = q
<1>1. Exists(at[p]) /\ Exists(at[q]) /\ at[p] \in Dir /\ at[q] \in Dir /\ OneDatabase
  BY DEF PlaceInv, Found, Owning, Using, TypeOK
<1>2. at[p] = at[q]
  BY <1>1 DEF OneDatabase, Dir
<1> QED
  BY <1>2 DEF Owners

\* A commit by p, whose lock and place are as the invariant says.
LEMMA CommitStep ==
  ASSUME DataInv, PlaceInv', NEW p \in Process, pc[p] \in {"schema", "use"},
         Commit(p), pc'[p] \in {"use", "close"},
         \A q \in Process : q # p => pc'[q] = pc[q]
  PROVE  Owners' /\ Whole'
<1>0. TypeOK /\ PlaceInv /\ Owners /\ OneDatabase /\ Found(p)
  BY DEF DataInv, PlaceInv
<1>1. at[p] \in Dir /\ Exists(at[p]) /\ user[at[p]] = p
  BY <1>0 DEF TypeOK, Found, Using, Owners, Owning
<1>2. \A q \in Process : pc[q] # "move" /\ (q # p => pc[q] \notin Owning)
  BY <1>0, MovedUnused, OneOwner DEF Using, Owning
<1>3. at' = at /\ main' = main /\ user' = user /\ committed' = committed + 1
  BY DEF Commit
<1>4. seen'[p] = committed' /\ log'[at[p]] = committed'
      /\ \A d \in Dir \ {at[p]} : log'[d] = log[d]
  BY <1>0, <1>1 DEF Commit, TypeOK
<1>5. Owners'
  BY <1>1, <1>2, <1>3, <1>4 DEF Owners, Owning
<1>6. \A d \in Dir \ {at[p]} : ~Exists(d) /\ log[d] = Absent
  BY <1>0, <1>1, <1>2 DEF OneDatabase, Dir, DataInv, Whole
<1>7. committed' # Absent
  BY <1>0, <1>3, CacheAssumption DEF TypeOK
<1>8. \A q \in Process : pc'[q] # "move"
  BY <1>2
<1>9. \A d \in Dir : /\ Exists(d)' => Content(d)' = committed'
                     /\ log'[d] # Absent => Exists(d)'
  BY <1>1, <1>3, <1>4, <1>6, <1>7 DEF Exists, Content
<1> QED
  BY <1>1, <1>3, <1>5, <1>8, <1>9 DEF Whole, Exists

\* Steps that do not change what is in the database.
LEMMA QuietStep ==
  ASSUME DataInv, PlaceInv', NEW p \in Process, Step(p) \/ Kill(p),
         UNCHANGED <<main, log, committed>>, pc[p] # "move", pc'[p] # "move",
         \A d \in Dir, q \in Process : q # p /\ user[d] = q => user'[d] = q,
         pc'[p] \in Owning => user'[at'[p]] = p /\ seen'[p] = committed
  PROVE  Owners' /\ Whole'
<1>0. TypeOK /\ Owners /\ Whole
  BY DEF DataInv, PlaceInv
<1>1. \A q \in Process : q # p =>
          pc'[q] = pc[q] /\ at'[q] = at[q] /\ seen'[q] = seen[q] /\ at[q] \in Dir
  BY <1>0, OthersStay DEF TypeOK
<1>2. Owners'
  BY <1>0, <1>1 DEF Owners
<1>3. \A q \in Process : pc'[q] = "move" <=> pc[q] = "move"
  BY <1>1
<1>4. \A d \in Dir : (Exists(d)' <=> Exists(d)) /\ Content(d)' = Content(d)
  BY DEF Exists, Content
<1> QED
  BY <1>0, <1>2, <1>3, <1>4 DEF Whole

LEMMA DataStep ==
  ASSUME "move" \notin Killable, DataInv, PlaceInv', [Next]_vars
  PROVE  DataInv'
<1>0. TypeOK /\ PlaceInv /\ Owners /\ Whole /\ OneDatabase
  BY DEF DataInv, PlaceInv
<1>1. CASE UNCHANGED vars
  BY <1>0, <1>1 DEF vars, DataInv, Owners, Whole, Exists, Content
<1>2. ASSUME NEW p \in Process, Step(p) \/ Kill(p)
      PROVE  Owners' /\ Whole'
  <2>0. Found(p) /\ at[p] \in Dir
    BY <1>0 DEF PlaceInv, TypeOK
  <2>o. ASSUME NEW q \in Process, q # p
        PROVE  pc'[q] = pc[q] /\ at'[q] = at[q] /\ seen'[q] = seen[q] /\ at[q] \in Dir
    BY <1>0, <1>2, <2>o, OthersStay DEF TypeOK
  <2>1. CASE Start(p) \/ Lock(p) \/ Retest(p) \/ Find(p) \/ CleanupSources(p) \/ Cleanup(p)
    <3>1. UNCHANGED <<main, log, user, committed>> /\ pc[p] # "move"
          /\ pc'[p] \notin Owning \cup {"move"}
      BY <1>0, <2>1
         DEF Start, Lock, Retest, Find, CleanupSources, Cleanup, Goto, files, data, TypeOK, Owning
    <3> QED
      BY <1>2, <3>1, QuietStep
  <2>2. CASE MoveLog(p)
    <3>1. pc[p] = "move_log" /\ pc'[p] = "move" /\ ~Exists("sp") /\ Exists("np")
          /\ UNCHANGED <<main, user, committed>>
      BY <1>0, <2>0, <2>2 DEF MoveLog, Goto, Found, TypeOK, data
    <3>2. Separate /\ lock = p
      BY <1>0, <2>0, <3>1 DEF Found, PlaceInv, LockHeld, Guarded, Finding
    <3>3. \A q \in Process : pc[q] # "move"
      BY <1>0, <3>1, <3>2 DEF PlaceInv, LockHeld, Guarded, Finding
    <3>4. log["sp"] = Absent /\ Content("np") = committed
      <4>1. \A d \in Dir : /\ Exists(d) => Content(d) = committed
                           /\ log[d] # Absent => Exists(d)
        BY <1>0, <3>3 DEF Whole
      <4> QED
        BY <3>1, <4>1 DEF Dir
    <3>5. log'["np"] = Absent /\ log'["sp"] = log["np"]
      BY <1>0, <2>2, <3>4 DEF MoveLog, TypeOK, Dir
    <3>6. committed' = IF log'["sp"] = Absent THEN main'["np"] ELSE log'["sp"]
      BY <3>1, <3>4, <3>5 DEF Content
    <3>7. Whole'
      BY <3>1, <3>5, <3>6 DEF Whole, Exists, Dir
    <3>8. Owners'
      BY <1>0, <2>o, <2>2, <3>1 DEF Owners, Owning
    <3> QED
      BY <3>7, <3>8
  <2>3. CASE Move(p)
    <3>1. pc[p] = "move" /\ pc'[p] = "open" /\ UNCHANGED <<log, committed>>
      BY <1>0, <2>3 DEF Move, Goto, TypeOK, data
    <3>2. \A q \in Process : pc[q] \notin Using /\ (pc[q] = "move" => q = p)
      BY <1>0, <3>1, MovedUnused
    <3>3. \A q \in Process : pc'[q] \notin Owning \cup {"move"}
      BY <2>o, <3>1, <3>2 DEF Owning, Using
    <3>4. main'["sp"] = main["np"] /\ main'["np"] = Absent /\ Exists("np")
      BY <1>0, <2>0, <2>3, <3>1 DEF Move, TypeOK, Dir, Found
    <3>5. log["np"] = Absent
          /\ committed = IF log["sp"] = Absent THEN main["np"] ELSE log["sp"]
      BY <1>0, <3>1 DEF Whole
    <3>6. Exists("sp")' /\ ~Exists("np")' /\ Content("sp")' = committed'
      BY <3>1, <3>4, <3>5 DEF Exists, Content
    <3>7. Whole'
      BY <3>1, <3>3, <3>5, <3>6 DEF Whole, Dir
    <3> QED
      BY <3>3, <3>7 DEF Owners
  <2>4. CASE Open(p)
    <3>1. pc[p] = "open" /\ pc'[p] = "lock_db" /\ UNCHANGED <<log, user, committed, at, seen>>
      BY <1>0, <2>4 DEF Open, Goto, TypeOK, data, own
    <3>2. CASE Exists(at[p])
      <4>1. main' = main
        BY <1>0, <2>0, <2>4, <3>2 DEF Open, Exists, TypeOK
      <4> QED
        BY <1>2, <3>1, <4>1, QuietStep DEF Owning
    <3>3. CASE ~Exists(at[p])
      <4>1. (\A q \in Process : Found(q)') /\ Exists(at[p])' /\ at' = at
        BY <1>0, <2>4, <3>1, <3>3, OpenStep DEF PlaceInv
      <4>2. \A d \in Dir : ~Exists(d)
        BY <1>0, <2>0, <2>4, <3>1, <3>3 DEF Open, Found, Dir, PlaceInv
      <4>3. \A q \in Process : pc[q] \notin Using \cup {"move"}
        BY <1>0, <4>2 DEF PlaceInv, Found, TypeOK, Dir
      <4>4. committed = 0 /\ \A d \in Dir : log[d] = Absent
        BY <1>0, <4>2, <4>3 DEF Whole
      <4>5. main'[at[p]] = 0 /\ \A d \in Dir \ {at[p]} : main'[d] = Absent
        BY <1>0, <2>0, <2>4, <3>3, <4>2 DEF Open, TypeOK, Exists
      <4>6. \A q \in Process : pc'[q] \notin Owning \cup {"move"}
        BY <2>o, <3>1, <4>3 DEF Owning, Using
      <4>7. \A d \in Dir : /\ Exists(d)' => Content(d)' = committed'
                           /\ log'[d] # Absent => Exists(d)'
        BY <3>1, <4>4, <4>5 DEF Exists, Content
      <4>8. Whole'
        BY <3>1, <4>4, <4>6, <4>7 DEF Whole
      <4> QED
        BY <4>6, <4>8 DEF Owners
    <3> QED
      BY <3>2, <3>3
  <2>5. CASE LockDb(p)
    <3>1. pc[p] = "lock_db" /\ pc'[p] = "schema" /\ UNCHANGED <<main, log, committed, at>>
      BY <1>0, <2>5 DEF LockDb, Goto, TypeOK, data
    <3>2. Exists(at[p]) /\ \A q \in Process : pc[q] # "move"
      BY <1>0, <2>0, <3>1, MovedUnused DEF Found, Using
    <3>3. user'[at[p]] = p /\ seen'[p] = Content(at[p]) /\ user[at[p]] = Nobody
      BY <1>0, <2>0, <2>5 DEF LockDb, TypeOK
    <3>4. Content(at[p]) = committed
      <4>1. \A d \in Dir : Exists(d) => Content(d) = committed
        BY <1>0, <3>2 DEF Whole
      <4> QED
        BY <2>0, <3>2, <4>1
    <3>5. \A d \in Dir, q \in Process : q # p /\ user[d] = q => user'[d] = q
      BY <1>0, <2>5, CacheAssumption DEF LockDb, TypeOK
    <3> QED
      BY <1>2, <3>1, <3>3, <3>4, <3>5, QuietStep
  <2>6. CASE DbBusy(p) \/ OpenFail(p) \/ Unlock(p) \/ Kill(p)
    <3>1. UNCHANGED <<main, log, committed>> /\ pc'[p] \in {"start", "failed", "done", "killed"}
      BY <1>0, <2>6
         DEF DbBusy, OpenFail, Unlock, Kill, Release, Goto, files, data, TypeOK
    <3>2. pc[p] # "move"
      BY <1>0, <2>6 DEF DbBusy, OpenFail, Unusable, Unlock, Kill, Goto
    <3>3. \A d \in Dir, q \in Process : q # p /\ user[d] = q => user'[d] = q
      BY <1>0, <2>6
         DEF DbBusy, OpenFail, Unlock, Kill, Release, ReleaseDb, files, TypeOK
    <3> QED
      BY <1>2, <3>1, <3>2, <3>3, QuietStep DEF Owning
  <2>7. CASE Schema(p) \/ Use(p)
    <3>1. pc[p] \in {"schema", "use"} /\ pc'[p] \in {"use", "close"}
      BY <1>0, <2>7 DEF Schema, Use, Goto, TypeOK
    <3>2. CASE Commit(p)
      BY <1>2, <2>o, <3>1, <3>2, CommitStep
    <3>3. CASE ~Commit(p)
      <4>1. pc[p] = "schema" /\ UNCHANGED <<files, own, committed>>
        BY <2>7, <3>3 DEF Schema, Use, Goto
      <4>2. user[at[p]] = p /\ seen[p] = committed
        BY <1>0, <4>1 DEF Owners, Owning
      <4> QED
        BY <1>2, <3>1, <4>1, <4>2, QuietStep DEF files, own
    <3> QED
      BY <3>2, <3>3
  <2>8. CASE Close(p)
    <3>1. pc[p] = "close" /\ pc'[p] = "unlock" /\ UNCHANGED <<committed, at, seen>>
      BY <1>0, <2>8 DEF Close, Goto, TypeOK, data, own
    <3>2. Exists(at[p]) /\ seen[p] = committed /\ committed # Absent
      BY <1>0, <2>0, <3>1, CacheAssumption DEF Found, Using, Owners, Owning, TypeOK
    <3>3. \A q \in Process : pc[q] # "move" /\ (q # p => pc[q] \notin Owning)
      BY <1>0, <3>1, MovedUnused, OneOwner DEF Using, Owning
    <3>4. \A q \in Process : pc'[q] \notin Owning \cup {"move"}
      BY <2>o, <3>1, <3>3 DEF Owning
    <3>5. main'[at[p]] = committed /\ log'[at[p]] = Absent
      BY <1>0, <2>0, <2>8, <3>2 DEF Close, TypeOK
    <3>6. \A d \in Dir \ {at[p]} : main'[d] = main[d] /\ log'[d] = log[d]
      BY <1>0, <2>0, <2>8 DEF Close, TypeOK
    <3>7. \A d \in Dir : /\ Exists(d)' => Content(d)' = committed'
                         /\ log'[d] # Absent => Exists(d)'
      <4>1. \A d \in Dir : /\ Exists(d) => Content(d) = committed
                           /\ log[d] # Absent => Exists(d)
        BY <1>0, <3>3 DEF Whole
      <4>2. ASSUME NEW d \in Dir, d = at[p]
            PROVE  main'[d] = committed' /\ log'[d] = Absent
        BY <3>1, <3>5, <4>2
      <4>3. ASSUME NEW d \in Dir, d # at[p]
            PROVE  /\ main'[d] # Absent => Content(d)' = committed'
                   /\ log'[d] # Absent => main'[d] # Absent
        BY <3>1, <3>6, <4>1, <4>3 DEF Exists, Content
      <4> QED
        BY <4>2, <4>3 DEF Exists, Content
    <3>8. Exists(at[p])'
      BY <3>1, <3>2, <3>5 DEF Exists
    <3>9. Whole'
      BY <2>0, <3>1, <3>4, <3>7, <3>8 DEF Whole
    <3> QED
      BY <3>4, <3>9 DEF Owners
  <2> QED
    BY <1>2, <2>1, <2>2, <2>3, <2>4, <2>5, <2>6, <2>7, <2>8 DEF Step
<1> QED
  BY <1>1, <1>2 DEF Next, DataInv

LEMMA DataInit == Init => Owners /\ Whole
<1> SUFFICES ASSUME Init PROVE Owners /\ Whole
  OBVIOUS
<1>1. PICK d \in Dir, n \in {0, 1} :
          /\ main = [e \in Dir |-> IF e = d /\ n = 1 THEN 1 ELSE Absent]
          /\ committed = n
  BY DEF Init
<1>2. log = [e \in Dir |-> Absent] /\ pc = [p \in Process |-> "start"]
  BY DEF Init
<1>3. \A p \in Process : pc[p] \notin Owning \cup {"move"}
  BY <1>2 DEF Owning
<1>4. \A e \in Dir : log[e] = Absent /\ (main[e] # Absent => main[e] = committed)
  BY <1>1, <1>2
<1>5. n = 1 => main[d] # Absent
  BY <1>1, CacheAssumption
<1>6. Whole
  BY <1>1, <1>3, <1>4, <1>5 DEF Whole, Exists, Content
<1> QED
  BY <1>3, <1>6 DEF Owners

\* DataInv holds of every behaviour in which no process is killed between
\* moving the log and moving the database.
THEOREM DataInvariance ==
  ASSUME "move" \notin Killable
  PROVE  Spec => []DataInv
<1>1. Init /\ PlaceInv => DataInv
  BY DataInit DEF DataInv
<1>2. DataInv /\ PlaceInv' /\ [Next]_vars => DataInv'
  BY DataStep
<1> QED
  BY <1>1, <1>2, PlaceInvariance, PTL DEF Spec

\* open(), close(): if no process is killed between moving the log and moving
\* the database, whoever opens the database sees all that was ever committed.
THEOREM NoCommitLost ==
  ASSUME "move" \notin Killable
  PROVE  Spec => []NothingLost
<1>1. DataInv => NothingLost
  BY DEF DataInv, Owners, Owning, NothingLost
<1> QED
  BY <1>1, DataInvariance, PTL

-----------------------------------------------------------------------------
(* What is cleaned up has no entry.                                        *)

\* Who shares source directories has its database in sp from the start.
AtHome ==
    \A p \in Src : pc[p] \in {"cleanup", "open"} \cup Using => at[p] = "sp"

\* There is a database for what has an entry, and it is in sp if that is one
\* of a source directory.
EntriesHeld ==
    /\ tracked # {} => Exists("np") \/ Exists("sp")
    /\ tracked \cap Src # {} => Exists("sp")

KeptInv == AtHome /\ EntriesHeld /\ EntriesKept

\* A database is created and moved, to sp, but never removed.
LEMMA OnlyMoved ==
  ASSUME PlaceInv, NEW p \in Process, Step(p) \/ Kill(p), ~Move(p)
  PROVE  \A d \in Dir : Exists(d) => Exists(d)'
<1>0. TypeOK /\ at[p] \in Dir
  BY DEF PlaceInv, TypeOK
<1>1. CASE Open(p)
  BY <1>0, <1>1, CacheAssumption DEF Open, TypeOK, Exists
<1>2. CASE Close(p)
  <2>1. seen[p] # Absent
    BY <1>0, CacheAssumption DEF TypeOK
  <2> QED
    BY <1>0, <1>2, <2>1 DEF Close, TypeOK, Exists
<1>3. CASE ~Open(p) /\ ~Close(p)
  <2>1. main' = main
    BY <1>3 DEF Step, Kill, Start, Lock, Retest, Find, CleanupSources, Cleanup,
                MoveLog, LockDb, DbBusy, Schema, OpenFail, Use, Unlock, Commit,
                Release, files
  <2> QED
    BY <2>1 DEF Exists
<1> QED
  BY <1>1, <1>2, <1>3

LEMMA DatabasesStay ==
  ASSUME PlaceInv, NEW p \in Process, Step(p) \/ Kill(p)
  PROVE  /\ Exists("sp") => Exists("sp")'
         /\ Exists("np") => Exists("np")' \/ Exists("sp")'
<1>1. CASE Move(p)
  BY <1>1 DEF Move, Goto, PlaceInv, TypeOK, Dir, Found, Exists
<1>2. CASE ~Move(p)
  BY <1>2, OnlyMoved DEF Dir
<1> QED
  BY <1>1, <1>2

LEMMA AtHomeStep ==
  ASSUME Separate, PlaceInv, AtHome, NEW p \in Process, Step(p) \/ Kill(p)
  PROVE  AtHome'
<1>0. TypeOK /\ Found(p)
  BY DEF PlaceInv
<1> SUFFICES ASSUME NEW q \in Src, pc'[q] \in {"cleanup", "open"} \cup Using
             PROVE  at'[q] = "sp"
  BY DEF AtHome
<1>1. CASE q # p
  <2>1. pc'[q] = pc[q] /\ at'[q] = at[q]
    BY <1>0, <1>1, OthersStay, CacheAssumption
  <2> QED
    BY <2>1 DEF AtHome
<1>2. CASE q = p
  <2> USE <1>0, <1>2 DEF TypeOK, Using, Goto
  <2>1. CASE Start(p) \/ Retest(p)
    BY <2>1 DEF Start, Retest, OpenIn
  <2>2. CASE Find(p)
    BY <2>2 DEF Find, OpenIn, Home
  <2>3. CASE Lock(p) \/ CleanupSources(p) \/ MoveLog(p)
    BY <2>3 DEF Lock, CleanupSources, MoveLog
  <2>4. CASE Move(p)
    BY <2>4 DEF Move, Found, own
  <2>5. CASE Cleanup(p) \/ Open(p) \/ LockDb(p) \/ Schema(p) \/ Use(p)
    BY <2>5 DEF Cleanup, Open, LockDb, Schema, Use, Commit, own, AtHome
  <2>6. CASE DbBusy(p) \/ OpenFail(p) \/ Close(p) \/ Unlock(p) \/ Kill(p)
    BY <2>6 DEF DbBusy, OpenFail, Close, Unlock, Kill
  <2> QED
    BY <2>1, <2>2, <2>3, <2>4, <2>5, <2>6 DEF Step
<1> QED
  BY <1>1, <1>2

LEMMA KeptStep ==
  ASSUME Separate, PlaceInv, KeptInv, [Next]_vars
  PROVE  KeptInv'
<1>0. TypeOK /\ AtHome /\ EntriesHeld /\ EntriesKept
  BY DEF PlaceInv, KeptInv
<1>1. CASE UNCHANGED vars
  BY <1>0, <1>1 DEF vars, KeptInv, AtHome, EntriesHeld, EntriesKept, Exists
<1>2. ASSUME NEW p \in Process, Step(p) \/ Kill(p)
      PROVE  KeptInv'
  <2>0. Found(p) /\ at[p] \in Dir
    BY <1>0 DEF PlaceInv, TypeOK
  <2>1. AtHome'
    BY <1>0, <1>2, AtHomeStep
  <2>2. /\ Exists("sp") => Exists("sp")'
        /\ Exists("np") => Exists("np")' \/ Exists("sp")'
    BY <1>2, DatabasesStay
  <2>3. CASE Use(p)
    <3>1. Exists(at[p]) /\ (p \in Src => at[p] = "sp") /\ main' = main
      BY <1>0, <2>0, <2>3 DEF Use, Goto, Commit, Found, Using, AtHome
    <3>2. tracked' = tracked \cup {p} /\ stored' = stored \cup {p}
      BY <2>3 DEF Use
    <3>3. EntriesHeld'
      BY <1>0, <2>0, <3>1, <3>2 DEF EntriesHeld, Exists, Dir
    <3>4. EntriesKept'
      BY <1>0, <3>2 DEF EntriesKept
    <3> QED
      BY <2>1, <3>3, <3>4 DEF KeptInv
  <2>4. CASE Cleanup(p)
    <3>1. tracked = {}
      BY <1>0, <2>0, <2>4 DEF Cleanup, Goto, Found, EntriesHeld
    <3>2. tracked' = {}
      BY <2>4, <3>1 DEF Cleanup
    <3> QED
      BY <2>1, <3>2 DEF KeptInv, EntriesHeld, EntriesKept
  <2>5. CASE CleanupSources(p)
    <3>1. tracked \cap Src = {}
      BY <1>0, <2>0, <2>5 DEF CleanupSources, Goto, Found, EntriesHeld
    <3>2. UNCHANGED tracked /\ stored' = stored \ Src
      BY <2>5 DEF CleanupSources
    <3> QED
      BY <1>0, <2>1, <2>2, <3>1, <3>2 DEF KeptInv, EntriesHeld, EntriesKept
  <2>6. CASE ~Use(p) /\ ~Cleanup(p) /\ ~CleanupSources(p)
    <3>1. UNCHANGED <<tracked, stored>>
      BY <1>2, <2>6 DEF Step, Kill, Start, Lock, Retest, Find, MoveLog, Move,
                        Open, LockDb, DbBusy, Schema, OpenFail, Close, Unlock,
                        data
    <3> QED
      BY <1>0, <2>1, <2>2, <3>1 DEF KeptInv, EntriesHeld, EntriesKept
  <2> QED
    BY <2>3, <2>4, <2>5, <2>6
<1> QED
  BY <1>1, <1>2 DEF Next

\* open(): if the cache has two directories, and so a lock file, what is cleaned
\* up before a database is moved or created is never what another process has
\* an entry for, wherever processes are killed.  (Where it has one directory,
\* there is no lock file, and this is not so: see the README.)
THEOREM NoEntryCleanedUp ==
  ASSUME Separate
  PROVE  Spec => []EntriesKept
<1>1. Init => KeptInv
  BY CacheAssumption DEF Init, KeptInv, AtHome, Using, EntriesHeld, EntriesKept
<1>2. PlaceInv /\ KeptInv /\ [Next]_vars => KeptInv'
  BY KeptStep
<1>3. KeptInv => EntriesKept
  BY DEF KeptInv
<1> QED
  BY <1>1, <1>2, <1>3, PlaceInvariance, PTL DEF Spec

-----------------------------------------------------------------------------
(* Nobody fails to open a cache that has been created.                     *)

Creating(p) == create[p] /\ pc[p] \in {"cleanup", "open", "lock_db", "schema"}

\* A process opens a database that it has seen, or one that it creates, which
\* takes the lock and happens only before anything was ever committed.
OpensInv ==
    \A p \in Process :
        /\ pc[p] = "open" /\ ~create[p] => Exists(at[p])
        /\ Creating(p) => lock = p /\ committed = 0
        /\ pc[p] \in {"use", "close"} => committed # 0

\* For the process itself.
LEMMA OpensStepOwn ==
  ASSUME Separate, DataInv, OpensInv, TypeOK', NEW p \in Process,
         Step(p) \/ Kill(p)
  PROVE  /\ pc'[p] = "open" /\ ~create'[p] => Exists(at[p])'
         /\ Creating(p)' => lock' = p /\ committed' = 0
         /\ pc'[p] \in {"use", "close"} => committed' # 0
<1>0. TypeOK /\ Found(p) /\ at[p] \in Dir /\ Owners /\ LockHeld
  BY DEF DataInv, PlaceInv, TypeOK
<1> USE <1>0 DEF TypeOK, Goto, Creating
<1>1. CASE Start(p) \/ Retest(p)
  BY <1>1 DEF Start, Retest, OpenIn, own, files, Exists
<1>2. CASE Lock(p) \/ CleanupSources(p) \/ MoveLog(p)
  BY <1>2 DEF Lock, CleanupSources, MoveLog
<1>3. CASE Find(p)
  <2>1. lock = p /\ pc[p] = "find"
    BY <1>3 DEF Find, LockHeld, Guarded, Finding
  <2>2. ~Exists("np") => committed = 0
    BY <2>1 DEF DataInv, Whole, Found, Dir
  <2>3. UNCHANGED <<lock, committed, main>>
    BY <1>3 DEF Find, files, data
  <2>4. CASE Exists("np") /\ Home(p) = "np" /\ OpenIn(p, "np", FALSE)
    BY <1>3, <2>3, <2>4 DEF Find, OpenIn, Exists
  <2>5. CASE /\ Exists("np") /\ Home(p) = "sp"
             /\ Goto(p, "find", "cleanup_src")
    BY <2>5
  <2>6. CASE ~Exists("np") /\ Goto(p, "find", "cleanup")
    BY <2>1, <2>2, <2>3, <2>6
  <2> QED
    BY <1>3, <2>4, <2>5, <2>6 DEF Find
<1>4. CASE Move(p)
  BY <1>4 DEF Move, Found, own, Exists, Dir
<1>5. CASE Cleanup(p) \/ Open(p) \/ LockDb(p)
  <2>1. /\ pc[p] \in {"cleanup", "open", "lock_db"} /\ UNCHANGED <<lock, committed>>
        /\ UNCHANGED <<at, create>>
        /\ pc'[p] \in {"open", "lock_db", "schema"}
        /\ pc'[p] = "open" => create[p]
    BY <1>5 DEF Cleanup, Open, LockDb, own, data, Found
  <2> QED
    BY <2>1 DEF OpensInv
<1>6. CASE Schema(p)
  <2>1. pc[p] = "schema" /\ pc'[p] = "use" /\ committed \in Nat
    BY <1>6 DEF Schema
  <2>2. CASE Commit(p)
    BY <2>1, <2>2 DEF Commit
  <2>3. CASE seen[p] # 0 /\ committed' = committed
    BY <2>1, <2>3 DEF Owners, Owning
  <2> QED
    BY <1>6, <2>1, <2>2, <2>3 DEF Schema
<1>7. CASE Use(p)
  BY <1>7 DEF Use, Commit
<1>8. CASE DbBusy(p) \/ OpenFail(p) \/ Close(p) \/ Unlock(p) \/ Kill(p)
  BY <1>8 DEF DbBusy, OpenFail, Close, Unlock, Kill
<1> QED
  BY <1>1, <1>2, <1>3, <1>4, <1>5, <1>6, <1>7, <1>8 DEF Step

\* For the others: nobody commits to a database that is being created, and
\* nobody moves one that somebody has found.
LEMMA OpensStepOthers ==
  ASSUME Separate, DataInv, OpensInv, NEW p \in Process, Step(p) \/ Kill(p),
         NEW q \in Process, q # p
  PROVE  /\ pc'[q] = "open" /\ ~create'[q] => Exists(at[q])'
         /\ Creating(q)' => lock' = q /\ committed' = 0
         /\ pc'[q] \in {"use", "close"} => committed' # 0
<1>0. TypeOK /\ Found(p) /\ at[q] \in Dir /\ Owners /\ LockHeld /\ PlaceInv
  BY DEF DataInv, PlaceInv, TypeOK
<1>1. pc'[q] = pc[q] /\ at'[q] = at[q] /\ create'[q] = create[q]
  BY <1>0, OthersStay
<1>2. lock = q => lock' = q
  BY CacheAssumption
     DEF Step, Kill, Start, Lock, Retest, Find, CleanupSources, Cleanup, MoveLog,
         Move, Open, LockDb, DbBusy, Schema, OpenFail, Use, Close, Unlock,
         Release, ReleaseLock
<1>3. committed' = committed \/ (Commit(p) /\ (Schema(p) \/ Use(p)))
  BY DEF Step, Kill, Start, Lock, Retest, Find, CleanupSources, Cleanup, MoveLog,
         Move, Open, LockDb, DbBusy, Schema, OpenFail, Use, Close, Unlock, data
<1>4. ASSUME Creating(q), Schema(p) \/ Use(p), Commit(p) PROVE FALSE
  <2>1. lock = q /\ committed = 0
    BY <1>4 DEF OpensInv
  <2>2. CASE Use(p)
    BY <2>1, <2>2 DEF Use, Goto, OpensInv
  <2>3. CASE Schema(p)
    <3>1. pc[p] = "schema" /\ ~create[p]
      BY <2>1, <2>3 DEF Schema, Goto, OpensInv, Creating
    <3>2. seen[p] # 0
      BY <2>3, <3>1 DEF Schema
    <3> QED
      BY <1>0, <2>1, <3>1, <3>2 DEF Owners, Owning
  <2> QED
    BY <1>4, <2>2, <2>3
<1>5. Creating(q)' => lock' = q /\ committed' = 0
  BY <1>1, <1>2, <1>3, <1>4 DEF OpensInv, Creating
<1>6. pc'[q] \in {"use", "close"} => committed' # 0
  BY <1>0, <1>1, <1>3 DEF OpensInv, Commit, TypeOK
<1>7. ASSUME pc'[q] = "open", ~create'[q] PROVE Exists(at[q])'
  <2>1. Exists(at[q]) /\ pc[q] = "open"
    BY <1>1, <1>7 DEF OpensInv
  <2>2. CASE ~Move(p)
    BY <1>0, <1>1, <2>1, <2>2, OnlyMoved DEF Exists
  <2>3. CASE Move(p)
    <3>1. lock = p
      BY <1>0, <2>3 DEF Move, Goto, LockHeld, Guarded, Finding
    <3>2. at[q] = "sp"
      BY <1>0, <2>1, <3>1 DEF LockHeld, Guarded, Dir
    <3>3. Exists("sp")'
      BY <1>0, <2>1, <3>2, DatabasesStay
    <3> QED
      BY <1>1, <3>2, <3>3 DEF Exists
  <2> QED
    BY <2>2, <2>3
<1> QED
  BY <1>5, <1>6, <1>7

LEMMA OpensStep ==
  ASSUME Separate, DataInv, PlaceInv', OpensInv, [Next]_vars
  PROVE  OpensInv'
<1>1. CASE UNCHANGED vars
  BY <1>1 DEF vars, OpensInv, Creating, Exists
<1>2. ASSUME NEW p \in Process, Step(p) \/ Kill(p)
      PROVE  OpensInv'
  <2>1. TypeOK' /\ TypeOK
    BY DEF PlaceInv, DataInv
  <2>2. ASSUME NEW q \in Process
        PROVE  /\ pc'[q] = "open" /\ ~create'[q] => Exists(at[q])'
               /\ Creating(q)' => lock' = q /\ committed' = 0
               /\ pc'[q] \in {"use", "close"} => committed' # 0
    <3>1. CASE q = p
      BY <1>2, <2>1, <3>1, OpensStepOwn
    <3>2. CASE q # p
      BY <1>2, <3>2, OpensStepOthers
    <3> QED
      BY <3>1, <3>2
  <2> QED
    BY <2>2 DEF OpensInv
<1> QED
  BY <1>1, <1>2 DEF Next

\* open(): if the cache has two directories and no process is killed between
\* moving the log and moving the database, nobody fails to open a cache to
\* which anything was ever committed: not the processes that raced to create
\* or to move it, nor those that come when one of them was killed.
THEOREM OnlyNewFails ==
  ASSUME Separate, "move" \notin Killable
  PROVE  Spec => FailsOnlyNew
<1> DEFINE Fails == \A p \in Process :
               pc[p] # "failed" /\ pc'[p] = "failed" => committed = 0
<1>1. Init => OpensInv
  BY DEF Init, OpensInv, Creating
<1>2. DataInv /\ DataInv' /\ OpensInv /\ [Next]_vars => OpensInv'
  BY OpensStep DEF DataInv
<1>3. DataInv /\ OpensInv /\ [Next]_vars => [Fails]_vars
  <2> SUFFICES ASSUME DataInv, OpensInv, NEW p \in Process, Step(p) \/ Kill(p),
                      NEW q \in Process, pc[q] # "failed", pc'[q] = "failed"
               PROVE  committed = 0
    BY DEF Next
  <2>0. TypeOK /\ Owners
    BY DEF DataInv, PlaceInv
  <2>1. q = p
    BY <2>0, OthersStay
  <2>2. OpenFail(p)
    BY <2>0, <2>1
       DEF Step, Kill, Start, Lock, Retest, Find, CleanupSources, Cleanup,
           MoveLog, Move, Open, LockDb, DbBusy, Schema, Use, Close, Unlock, Goto,
           TypeOK
  <2>3. CASE pc[p] = "open" /\ ~Exists(at[p]) /\ ~create[p]
    BY <2>3 DEF OpensInv
  <2>4. CASE pc[p] = "schema" /\ (create[p] <=> seen[p] # 0)
    <3>1. seen[p] = committed
      BY <2>0, <2>4 DEF Owners, Owning
    <3> QED
      BY <2>4, <3>1 DEF OpensInv, Creating
  <2> QED
    BY <2>2, <2>3, <2>4 DEF OpenFail, Unusable
<1> QED
  BY <1>1, <1>2, <1>3, DataInvariance, PTL DEF Spec, FailsOnlyNew
=============================================================================
