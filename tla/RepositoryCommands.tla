-------------------------- MODULE RepositoryCommands --------------------------
(***************************************************************************)
(* The commands that change the repository graph of a configuration:       *)
(* rep-add, rep-fetch and rep-remove (bpkg/rep-*.cxx), and the masking of  *)
(* repositories, which removes them only to see what remains.              *)
(*                                                                         *)
(* A command holds the database for the whole of its transaction, but the  *)
(* directories with the state of git repositories change as it goes.       *)
(* rep-fetch visits repositories recursively, noting what is required no   *)
(* longer; rep-remove takes a repository apart recursively, dropping what  *)
(* it was the last to use.  Both have to cope with cycles and with what    *)
(* several repositories share.                                             *)
(***************************************************************************)
EXTENDS AvailablePackages, SequencesExt

CONSTANTS
    StateOf,    \* the directory with the state of each git repository
    NoState,    \* other repositories have none
    MaxArgs,    \* bound: how many repositories a command line names
    MaxAdded,   \* bound: how many there are added by the user
    ShallowAll  \* bound: whether rep-fetch --shallow is run without arguments

State == {StateOf[r] : r \in Repo} \ {NoState}

ASSUME CommandsAssumption ==
    /\ DOMAIN StateOf = Repo
    /\ MaxArgs \in Nat /\ MaxAdded \in Nat
    /\ ShallowAll \in BOOLEAN

\* A call of rep_fetch() for a repository.
Call == [repo: Repo, shallow: BOOLEAN]

\* A call of rep_remove(), the removal of a repository's state at its end,
\* and a call of rep_remove_fragment(); checked says whether the caller looks
\* first if the object is still there.
Task == [kind: {"repo", "state"}, id: Repo, checked: BOOLEAN]
        \cup [kind: {"fragment"}, id: Fragment, checked: BOOLEAN]

Command ==
    [op: {"fetch", "remove", "mask"},
     args: SUBSET Repo,
     pruning: BOOLEAN,              \* rep-fetch got to its removals
     calls: Seq(Call), todo: Seq(Task),
     fetched: SUBSET Repo,          \* fetched_repositories
     removed: SUBSET Repo,          \* removed_repositories
     parsed: SUBSET Fragment,       \* parsed_fragments
     dangling: SUBSET Fragment,     \* removed_fragments
     changed: BOOLEAN]              \* filesystem_state_changed

Idle == [op |-> "none"]

VARIABLES
    committed,  \* the graph in the database
    db,         \* the same as the running transaction sees it
    states,     \* repository state directories there are
    lost,       \* those a failed or killed command left missing
    cmd         \* the running command

vars == <<committed, db, states, lost, cmd>>

TypeOK ==
    /\ committed \in Graph
    /\ db \in Graph
    /\ states \subseteq State
    /\ lost \subseteq State
    /\ cmd = Idle \/ cmd \in Command

Init ==
    /\ committed = EmptyGraph
    /\ db = EmptyGraph
    /\ states = {}
    /\ lost = {}
    /\ cmd = Idle

StatesOf(R) == {StateOf[r] : r \in R} \ {NoState}

\* The states fetched repositories of graph g rely on.
Needed(g) == StatesOf({r \in g.repos : g.contains[r] # {}})

Arguments(S) == {R \in SUBSET S : R # {} /\ Cardinality(R) <= MaxArgs}

Calls(o, shallow) == [i \in DOMAIN o |-> [repo |-> o[i], shallow |-> shallow]]

Tasks(kind, o, checked) ==
    [i \in DOMAIN o |-> [kind |-> kind, id |-> o[i], checked |-> checked]]

Start(op, R) ==
    [op |-> op, args |-> R, pruning |-> op # "fetch", calls |-> <<>>, todo |-> <<>>,
     fetched |-> {}, removed |-> {}, parsed |-> {}, dangling |-> {}, changed |-> FALSE]
-----------------------------------------------------------------------------
Addable(R) == Cardinality(Added(committed) \cup R) <= MaxAdded

RepAdd ==
    /\ cmd = Idle
    /\ \E r \in Repo : Addable({r}) /\ committed' = AddRepos(committed, {r})
    /\ db' = committed'
    /\ UNCHANGED <<states, lost, cmd>>

StartFetch(R, g, shallow) ==
    /\ cmd = Idle
    /\ R # {}
    /\ db' = g
    /\ \E o \in SetToSeqs(R) :
        cmd' = [Start("fetch", R) EXCEPT !.calls = Calls(o, shallow)]
    /\ UNCHANGED <<committed, states, lost>>

\* Without arguments all packages are read anew.
RepFetchAll ==
    \E shallow \in {FALSE, ShallowAll} :
        StartFetch(Added(committed), ErasePackages(committed, Fragment), shallow)

\* A repository named by its location is added if need be.
RepFetch ==
    \E R \in Arguments(Repo), shallow \in BOOLEAN :
        Addable(R) /\ StartFetch(R, AddRepos(committed, R), shallow)

\* Names the repositories in the order they are removed in.
StartRemove(op, R, g) ==
    /\ cmd = Idle
    /\ db' = g
    /\ \E o \in SetToSeqs(R) :
        cmd' = [Start(op, R) EXCEPT !.todo = Tasks("repo", o, FALSE)]
    /\ UNCHANGED <<committed, states, lost>>

RepRemove ==
    \E R \in Arguments(Added(committed)) \cup {Added(committed)} :
        StartRemove("remove", R, Unreference(committed, R, {Root}))

\* With a fault: those masked are forgotten as added by the user only.
RepMaskAdded ==
    \E R \in Arguments(committed.repos) :
        StartRemove("mask", R, Unreference(committed, R, {Root}))

RepMask ==
    \E R \in Arguments(committed.repos) :
        StartRemove("mask", R, Unreference(committed, R, Node))

\* rep-remove --clean, and what a failed rep-fetch falls back on.
Clean ==
    /\ committed' = Cleaned(committed)
    /\ states' = {}
    /\ lost' = {}

RepRemoveClean ==
    /\ cmd = Idle
    /\ Clean
    /\ db' = committed'
    /\ UNCHANGED cmd
-----------------------------------------------------------------------------
\* rep-fetch.

Fetching == cmd.op = "fetch" /\ cmd.calls # <<>>
call == Head(cmd.calls)

Fetched(r) == r \in cmd.fetched

FetchAgain ==
    /\ Fetching
    /\ Fetched(call.repo)
    /\ cmd' = [cmd EXCEPT !.calls = Tail(@)]
    /\ UNCHANGED <<committed, db, states, lost>>

ChangedForgotten(r) == cmd.changed  \* with a fault

\* Fetching a git repository that was fetched before changes its state.
Changed(r) == cmd.changed \/ StateOf[r] \in states

ComplementsIn(g, r) == UNION {g.complements[f] : f \in g.contains[r]}
PrerequisitesIn(g, r) == UNION {g.prerequisites[f] : f \in g.contains[r]}

\* With a fault: only the complements are compared.
UnchangedComplements(r) == ComplementsIn(db, r) = ComplementsIn(db', r)

\* Whether the repositories r requires need not be fetched.
Unchanged(r) ==
    /\ ComplementsIn(db, r) = ComplementsIn(db', r)
    /\ PrerequisitesIn(db, r) = PrerequisitesIn(db', r)

FetchRepo(r, o) ==
    /\ Fetching
    /\ call.repo = r
    /\ ~Fetched(r)
    /\ o \in Offers[r]
    /\ db' = Parsed(db, r, o, cmd.parsed)
    /\ states' = states \cup StatesOf({r})
    /\ lost' = lost \ {StateOf[r]}
    /\ LET visited ==
             [cmd EXCEPT !.calls = Tail(@),
                         !.fetched = @ \cup {r},
                         !.removed = @ \ {r},
                         !.parsed = @ \cup DOMAIN o,
                         !.dangling = (@ \cup db.contains[r]) \ DOMAIN o,
                         !.changed = Changed(r)]
       IN  IF call.shallow /\ Unchanged(r) THEN cmd' = visited
           ELSE \E cs \in SetToSeqs(ComplementsIn(db', r) \ {RootRepo}),
                   ps \in SetToSeqs(PrerequisitesIn(db', r) \ ComplementsIn(db', r)) :
                    cmd' = [visited EXCEPT
                              !.calls = Calls(cs, FALSE) \o Calls(ps, FALSE) \o @,
                              !.removed = @ \cup (RequiredBy(db, r) \ visited.fetched)]
    /\ UNCHANGED committed

\* With a fault: fragments that are contained no longer are not considered.
StartPruningRepos ==
    /\ cmd.op = "fetch" /\ cmd.calls = <<>> /\ ~cmd.pruning
    /\ \E rs \in SetToSeqs(cmd.removed) :
        cmd' = [cmd EXCEPT !.pruning = TRUE, !.todo = Tasks("repo", rs, TRUE)]
    /\ UNCHANGED <<committed, db, states, lost>>

\* Nothing that was fetched is required any longer by now: see to what was
\* required before.
StartPruning ==
    /\ cmd.op = "fetch" /\ cmd.calls = <<>> /\ ~cmd.pruning
    /\ \E rs \in SetToSeqs(cmd.removed), fs \in SetToSeqs(cmd.dangling) :
        cmd' = [cmd EXCEPT !.pruning = TRUE,
                           !.todo = Tasks("repo", rs, TRUE) \o Tasks("fragment", fs, TRUE)]
    /\ UNCHANGED <<committed, db, states, lost>>

\* The transaction is rolled back; if states it relied on have changed, the
\* graph is cleaned.
RollBack(changed, left, missing) ==
    /\ IF changed THEN Clean
       ELSE /\ states' = left
            /\ lost' = missing
            /\ UNCHANGED committed
    /\ db' = committed'
    /\ cmd' = Idle

\* Fetching fails, before or after it started to change the state.
FetchFail ==
    /\ Fetching
    /\ ~Fetched(call.repo)
    /\ \/ RollBack(cmd.changed, states, lost)
       \/ RollBack(Changed(call.repo), states \ {StateOf[call.repo]}, lost)

\* Directory repositories are those that may do without the others but have no
\* state.
Directories(g) == UNION {g.contains[r] : r \in {r \in Lax : StateOf[r] = NoState}}

Inconsistent == ExternalsClash(db, Directories(db)) \/ TestsDisagree(db)

\* The packages do not fit together, which shows only after the removals.
CheckFail ==
    /\ cmd.op = "fetch" /\ cmd.pruning /\ cmd.todo = <<>>
    /\ Inconsistent
    /\ RollBack(cmd.changed, states, Needed(committed) \ states)
-----------------------------------------------------------------------------
\* Removal.

Removing(kind) == cmd # Idle /\ cmd.todo # <<>> /\ Head(cmd.todo).kind = kind
task == Head(cmd.todo)

Then(tasks) == cmd' = [cmd EXCEPT !.todo = tasks \o Tail(@)]

Skip ==
    /\ Then(<<>>)
    /\ UNCHANGED <<committed, db, states, lost>>

\* With a fault: a repository that can be reached is looked at again later.
KeepRepoForLater ==
    /\ Removing("repo")
    /\ IF task.id \in db.repos THEN task.id \in Reachable(db) ELSE task.checked
    /\ cmd' = [cmd EXCEPT !.todo = Tail(@) \o (IF task.id \in db.repos THEN <<task>> ELSE <<>>)]
    /\ UNCHANGED <<committed, db, states, lost>>

\* rep_remove() of a repository that can be reached, or is gone.
KeepRepo ==
    /\ Removing("repo")
    /\ IF task.id \in db.repos THEN task.id \in Reachable(db) ELSE task.checked
    /\ Skip

RemoveRepo ==
    /\ Removing("repo")
    /\ task.id \in db.repos \ Reachable(db)
    /\ db' = EraseRepo(db, task.id)
    /\ \E fs \in SetToSeqs(db.contains[task.id]) :
        Then(Tasks("fragment", fs, FALSE)
             \o (IF cmd.op = "mask" THEN <<>> ELSE Tasks("state", <<task.id>>, FALSE)))
    /\ UNCHANGED <<committed, states, lost>>

\* The state goes with the last repository it is the state of.
RemoveState ==
    /\ Removing("state")
    /\ states' = IF \E r \in db.repos : StateOf[r] = StateOf[task.id] THEN states
                 ELSE states \ {StateOf[task.id]}
    /\ Then(<<>>)
    /\ UNCHANGED <<committed, db, lost>>

Contained(f) == \E r \in db.repos : f \in db.contains[r]

\* rep_remove_fragment() of a fragment still in use, or gone.
KeepFragment ==
    /\ Removing("fragment")
    /\ IF task.id \in db.fragments THEN Contained(task.id) ELSE task.checked
    /\ Skip

RemoveFragment ==
    /\ Removing("fragment")
    /\ task.id \in db.fragments
    /\ ~Contained(task.id)
    /\ db' = EraseFragment(IF cmd.op = "mask" THEN db ELSE ErasePackages(db, {task.id}),
                           task.id)
    /\ \E cs \in SetToSeqs(db.complements[task.id] \ {RootRepo}),
          ps \in SetToSeqs(db.prerequisites[task.id]) :
        Then(Tasks("repo", cs, TRUE) \o Tasks("repo", ps, TRUE))
    /\ UNCHANGED <<committed, states, lost>>

\* Nobody looked whether the object is still there: the command fails.
RemoveFail ==
    /\ \/ Removing("repo") /\ task.id \notin db.repos
       \/ Removing("fragment") /\ task.id \notin db.fragments
    /\ ~task.checked
    /\ RollBack(FALSE, states, Needed(committed) \ states)

Finished == cmd # Idle /\ cmd.pruning /\ cmd.todo = <<>>

Commit ==
    /\ Finished /\ cmd.op # "mask"
    /\ cmd.op = "fetch" => ~Inconsistent
    /\ committed' = db
    /\ cmd' = Idle
    /\ UNCHANGED <<db, states, lost>>

\* What is left is not masked; nothing is kept of the removals.
MaskDone ==
    /\ Finished /\ cmd.op = "mask"
    /\ RollBack(FALSE, states, lost)

\* A killed command leaves the states as they are, but for the one being
\* fetched, which is in the temporary directory meanwhile.
Kill ==
    /\ cmd # Idle
    /\ \E gone \in SUBSET (IF Fetching THEN {StateOf[call.repo]} ELSE {}) :
        RollBack(FALSE, states \ gone, Needed(committed) \ (states \ gone))
-----------------------------------------------------------------------------
Proceed ==
    \/ FetchAgain
    \/ \E r \in Repo : \E o \in Offers[r] : FetchRepo(r, o)
    \/ StartPruning
    \/ KeepRepo \/ RemoveRepo \/ RemoveState \/ KeepFragment \/ RemoveFragment
    \/ RemoveFail \/ CheckFail
    \/ Commit \/ MaskDone

Next ==
    \/ RepAdd \/ RepFetchAll \/ RepFetch \/ RepRemove \/ RepMask \/ RepRemoveClean
    \/ Proceed
    \/ FetchFail \/ Kill

Spec == Init /\ [][Next]_vars

FairSpec == Spec /\ WF_vars(Proceed)
-----------------------------------------------------------------------------
\* Between commands the graph has exactly the repositories the user added and
\* what they require, with their fragments: nothing is missing, nothing is left
\* of what went.
GraphConsistent ==
    cmd = Idle => /\ committed = Pruned(committed)
                  /\ Reachable(committed) \subseteq committed.repos

\* A repository is as it was published some time: with the dependencies and all
\* the packages of every one of its fragments, whichever commands fetched it or
\* others that share them.
AsOncePublished ==
    cmd = Idle => \A r \in committed.repos :
        committed.contains[r] # {} => \E o \in Offers[r] :
            /\ DOMAIN o = committed.contains[r]
            /\ \A f \in DOMAIN o :
                /\ committed.complements[f] = ComplementsOf(r, o[f])
                /\ committed.prerequisites[f] = o[f].prerequisites
                /\ committed.packages[f] = o[f].packages

\* A fetched git repository has its state, unless a command was killed or failed
\* late, wherever rep-fetch fails and whoever shares the state with it.
StateKept == cmd = Idle => Needed(committed) \subseteq states \cup lost

\* The package found for a dependent or a user is the latest one that suits in
\* what the repositories declare to be visible, through whatever cycles there
\* are. Masked are the repositories that can be reached through those named only,
\* and what is found then is what would be if they had been removed.
SearchExact ==
    /\ cmd = Idle => FoundAsDeclared(committed, Everything, committed)
    /\ Finished /\ cmd.op = "mask" =>
          LET rest == Pruned(Unreference(committed, cmd.args, Node))
          IN  /\ db.repos = rest.repos /\ db.fragments = rest.fragments
              /\ FoundAsDeclared(committed, Unmasked(db), rest)

\* A constraint that satisfies another may stand for it: every package that is
\* available for the former suits a dependent that has the latter.
Standing == {s \in Wanted \X Wanted : s[1] # s[2] /\ Stricter(s[1], s[2])}

StricterSuits ==
    cmd = Idle => \A s \in Standing, n \in {NameOf[p] : p \in Package} :
        QueryAvailable(committed, n, s[1], FALSE) \subseteq Suiting(n, s[2], Available(committed))

\* Every command ends, whatever cycles there are.
EveryCommandEnds == cmd # Idle ~> cmd = Idle

\* The commands are the atomic steps they promise to be.
Abstract == INSTANCE Repositories WITH graph <- committed
Atomic == Abstract!Spec
=============================================================================
