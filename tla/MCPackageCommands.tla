------------------------- MODULE MCPackageCommands -------------------------
(* Small repositories for pkg-build and pkg-drop.                           *)
EXTENDS PackageCommands

MCNames == <<"a", "b", "c", "d">>
MCVersions == {1, 2, 3}

On(n, vs) == [name |-> n, allowed |-> vs]
Needs(n, vs) == <<On(n, vs)>>

In(basis, local) == [basis |-> basis, local |-> local]

\* a comes from an archive only if there is a cache, b and c always, d never.
MCSources ==
    [a |-> {In("archive", FALSE), In("version-control", FALSE)},
     b |-> {In("archive", FALSE)},
     c |-> {In("archive", TRUE), In("version-control", FALSE)},
     d |-> {In("directory", TRUE), In("archive", TRUE)}]

World(a, b, c, d) ==
    [available |-> [p \in Pkgs |-> {1, 2}],
     sources |-> MCSources,
     depends |-> [a |-> a, b |-> b, c |-> c, d |-> d],
     project |-> [p \in Pkgs |-> p]]

Nothing == <<<<>>, <<>>>>

\* a depends on b and, possibly, c, and b on c: who may have which version of c
\* differs from world to world.
Triangles ==
    {World(<<<<On("b", {1, 2})>>, <<On("b", {2})>> \o c2>>, <<b1, b2>>, Nothing, Nothing) :
        c2 \in {<<>>, Needs("c", {1})},
        b1 \in {<<>>, Needs("c", {1, 2})},
        b2 \in {Needs("c", {1}), Needs("c", {2})}}

\* The constraint that changes c goes away later, as b is downgraded itself: c
\* could be left as d has it.
Yoyo(has, wants) ==
    World(<<<<>>, <<On("c", {1, 2}), On("b", {1, 2})>>>>, << <<>>, <<On("c", wants)>> >>,
          Nothing, <<<<On("c", has)>>, <<On("b", {1}), On("c", {1, 2})>>>>)

\* c, once it is latest, brings in what does not allow it to be.
Returns ==
    World(<<<<>>, <<On("c", {1, 2})>>>>, << <<>>, <<On("c", {1})>> >>,
          <<<<>>, <<On("b", {1, 2})>>>>, Nothing)

\* Packages that depend on each other.
Loop == World(Nothing, <<<<>>, <<On("c", {1, 2})>>>>, <<<<>>, <<On("b", {1, 2})>>>>, Nothing)

\* Repositories where the latest version is 3, for the adjustments: d, which has
\* no other version, disagrees with what a or b depend on.
Adjusted(available, a, b, d) ==
    [available |-> available,
     sources |-> MCSources,
     depends |-> [a |-> a, b |-> b, c |-> <<<<>>, <<>>>>, d |-> <<<<>>, <<>>, d>>],
     project |-> [p \in Pkgs |-> p]]

MoreVersions == [a |-> {1, 3}, b |-> {1, 3}, c |-> {1, 2}, d |-> {3}]

\* Two dependents are adjusted one after the other, the first one for nothing:
\* the second alone would do.
Superfluous ==
    Adjusted(MoreVersions, <<<<>>, <<>>, Needs("c", {1})>>,
             <<Needs("c", {1, 2}), <<>>, Needs("c", {2})>>, Needs("c", {2}))

\* The latest b, which a brings in, has to go.
Downgrade ==
    Adjusted(MoreVersions, <<Needs("b", {1, 3}), <<>>, Needs("b", {1, 3})>>,
             <<<<>>, <<>>, Needs("c", {2})>>, Needs("c", {1}))

\* The same for two packages of one project, each of which has to become of
\* another version.
Project ==
    [Adjusted([MoreVersions EXCEPT !.b = {2, 3}], <<<<>>, <<>>, Needs("c", {2})>>,
              <<<<>>, <<>>, Needs("c", {2})>>, Needs("c", {1}))
        EXCEPT !.project["b"] = "a"]

MCWorlds == Triangles \cup {Yoyo({2}, {1}), Returns, Loop, Superfluous, Downgrade, Project}

Latest == [version |-> 2, allowed |-> AnyVersion, pinned |-> FALSE, variables |-> FALSE]
Newest == [Latest EXCEPT !.version = 3]
Pinned == [Latest EXCEPT !.version = 1, !.allowed = {1}, !.pinned = TRUE]
Ranged == [Newest EXCEPT !.allowed = {1, 3}, !.pinned = TRUE]
WithVariables == [Latest EXCEPT !.variables = TRUE]

Old == [allowed |-> {1}, pinned |-> TRUE, upgrade |-> FALSE]
Between == [allowed |-> {1, 3}, pinned |-> TRUE, upgrade |-> FALSE]
Upgraded == [allowed |-> AnyVersion, pinned |-> FALSE, upgrade |-> TRUE]

ToBuild(hold, expect) ==
    [kind |-> "build", hold |-> hold, expect |-> expect, keep |-> FALSE, upgrade |-> FALSE]
ToUpgrade(hold, expect) == [ToBuild(hold, expect) EXCEPT !.upgrade = TRUE]
ToDrop(names, dependents) ==
    [kind |-> "drop", names |-> names, dependents |-> dependents, keep |-> FALSE]

MCRequests ==
    {ToBuild([a |-> Latest], NoMap),
     ToBuild([a |-> Pinned], NoMap),
     ToBuild([b |-> Pinned], NoMap),
     ToBuild([a |-> Latest, b |-> Pinned], NoMap),
     ToBuild([a |-> Latest, d |-> Latest], NoMap),
     ToBuild([d |-> Pinned], NoMap),
     ToBuild([b |-> WithVariables], NoMap),
     ToBuild(NoMap, [c |-> Old]),
     ToBuild([a |-> Latest], [c |-> Old]),
     [ToBuild([b |-> Latest], NoMap) EXCEPT !.keep = TRUE],
     ToBuild([a |-> Newest], NoMap),
     ToUpgrade([a |-> Newest, d |-> Newest], NoMap),
     ToBuild([a |-> Newest, b |-> Newest, d |-> Newest], NoMap),
     ToBuild([b |-> Ranged, d |-> Newest], NoMap),
     ToBuild([a |-> Newest, d |-> Newest], [b |-> Between]),
     ToUpgrade([a |-> Newest], [b |-> Upgraded]),
     ToDrop({"a"}, FALSE),
     ToDrop({"c"}, TRUE),
     [ToDrop({"a"}, FALSE) EXCEPT !.keep = TRUE]}
---------------------------------------------------------------------------
\* a, once it is latest, does not need d any more; but c, which is then brought
\* to its latest as well, needs a as it was.
Undecided ==
    World(<<Needs("d", {1, 2}), <<>>>>, <<<<>>, Needs("c", {1, 2})>>,
          <<<<>>, Needs("a", {1})>>, Nothing)

UndecidedWorlds == {Undecided}
UndecidedRequests ==
    {ToBuild([a |-> Pinned, b |-> Latest], [c |-> Old]),
     ToBuild([a |-> Latest], [c |-> [Old EXCEPT !.allowed = {2}]])}
===========================================================================
