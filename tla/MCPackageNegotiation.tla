------------------------ MODULE MCPackageNegotiation ------------------------
(* Small builds: the user asks for some of the dependents a, b and c, which have
   clauses about the dependencies x, y and z. The values of the variables are
   numbers, 0 is the default of all.                                         *)
EXTENDS PackageNegotiation

MCNames == <<"a", "b", "c", "r", "w", "x", "y", "z">>

Plain(deps) == [deps |-> deps, enable |-> Nothing, clause |-> NoClause]
With(deps, clause) == [deps |-> deps, enable |-> Nothing, clause |-> clause]
If(cond, alternative) == [alternative EXCEPT !.enable = cond]

Clause(require, cond, set, accept) ==
    [require |-> require, when |-> cond, set |-> set, accept |-> accept]
Require(set) == Clause(TRUE, Nothing, set, Nothing)
Prefers(set, accept) == Clause(FALSE, Nothing, set, accept)
PrefersIf(cond, set) == Clause(FALSE, cond, set, Nothing)

\* Variables that may only be true (1) can be required to be.
Flag == {"x2", "y2", "z2"}
Requires(d, v) == With(<<d>>, Require(v :> 1))
Needs(d, v, k) ==
    IF v \in Flag THEN Requires(d, v) ELSE With(<<d>>, Prefers(v :> k, v :> {k}))

Owner == [x |-> "x", x2 |-> "x", y |-> "y", y2 |-> "y", z |-> "z", z2 |-> "z"]

World(hold, depends) ==
    [hold |-> hold, depends |-> depends @@ [p \in ToSet(MCNames) |-> <<>>],
     owner |-> Owner, default |-> [v \in DOMAIN Owner |-> 0], user |-> Nothing]

\* Dependents with one alternative: c has two clauses, x may lead to another
\* dependent or have a clause of its own, depending on its configuration.
OfX ==
    {<<Plain(<<"x">>)>>,
     <<Needs("x", "x", 1)>>,
     <<Needs("x", "x2", 1)>>,
     <<With(<<"x">>, PrefersIf("x" :> 1, "x2" :> 1))>>}
Clauses == OfX \cup
    {<<With(<<"y">>, Prefers("y" :> 2, "y" :> {0, 2}))>>,
     <<With(<<"x", "y">>, PrefersIf("x" :> 1, "y" :> 2))>>,
     <<With(<<"x", "y">>, PrefersIf("y" :> 1, "x" :> 1))>>}
Leads ==
    {<<>>, <<<<If("x" :> 0, Plain(<<"b">>))>>>>, <<<<If("x" :> 1, Plain(<<"b">>))>>>>,
     <<<<If("x2" :> 1, Needs("y", "y2", 1))>>>>}
Refining ==
    {World(h, ("a" :> <<a>>) @@ ("b" :> <<b>>) @@ ("c" :> c) @@ ("x" :> x)) :
       h \in {<<"c", "a">>, <<"y", "a", "c">>}, a \in Clauses, x \in Leads,
       c \in {<<<<Needs("y", "y2", 1)>>, c2>> : c2 \in OfX}
             \cup {<<c1, <<Needs("y", "y", 1)>>>> : c1 \in OfX},
       b \in {<<Needs("y", "y", 1)>>, <<With(<<"y", "z">>, Prefers("z" :> 1, Nothing))>>}}

\* Dependents that have a choice.
Options ==
    {<<Needs("x", "x", 1), Needs("y", "y", 1)>>,
     <<Needs("x", "x", 2), Plain(<<"y">>)>>,
     <<Plain(<<"x">>), Needs("y", "y", 1)>>,
     <<Needs("y", "y", 2), Needs("x", "x", 1)>>,
     <<With(<<"x", "y">>, PrefersIf("x" :> 2, "y" :> 2)), Plain(<<"z">>)>>,
     <<Needs("x", "x", 1)>>}
Choosing ==
    {World(h, ("a" :> <<a>>) @@ ("b" :> <<b>>) @@ ("c" :> <<c>>)) :
       h \in {<<"a", "b", "c">>, <<"c", "b", "a">>}, a \in Options, b \in Options, c \in Options}

\* x is collected before b turns up with a clause about it; b does not turn up
\* any more once y is negotiated.
Cancelled ==
    World(<<"x", "a", "c">>,
          ("a" :> <<<<Plain(<<"y">>)>>>>) @@ ("y" :> <<<<If("y" :> 0, Plain(<<"b">>))>>>>)
          @@ ("b" :> <<<<Needs("x", "x", 1)>>>>) @@ ("c" :> <<<<Needs("y", "y", 1)>>>>))

\* The same where the user has set a variable.
Decided ==
    {[w EXCEPT !.user = v :> 1] : w \in Choosing, v \in {"x", "y"}}
    \cup {[World(<<"a", "b">>, ("a" :> <<<<Needs("x", "x2", 1), Plain(<<"y">>)>>>>)
                               @@ ("b" :> <<b>>)) EXCEPT !.user = "x2" :> k] :
           k \in {0, 1}, b \in {<<Needs("x", "x2", 1)>>, <<Plain(<<"x">>)>>}}

\* b turns up while the cluster with x, or later the one with y, is being
\* negotiated: it extends it, merges it with others that are still waiting or
\* are being negotiated further out, or does not agree with it.
Turns ==
    {<<With(<<"x", "y">>, Prefers("x" :> 1, "x" :> {1}))>>,
     <<With(<<"x", "y">>, Require("y2" :> 1))>>,
     <<With(<<"y", "x">>, PrefersIf("x2" :> 1, "y" :> 2))>>,
     <<With(<<"y", "z">>, Prefers("z" :> 1, Nothing))>>,
     <<With(<<"x", "y", "z">>, PrefersIf("x" :> 1, "z" :> 2))>>,
     <<Needs("x", "x", 2)>>,
     <<Needs("x", "x", 2), Plain(<<"z">>)>>,
     <<Needs("x", "x", 2), Needs("y", "y", 1)>>,
     <<With(<<"x", "y">>, Prefers("y" :> 2, "y" :> {2})), Needs("z", "z", 1)>>}
Joining ==
    {World(h, ("a" :> (<<<<a>>>> \o then)) @@ ("b" :> <<b>>) @@ ("c" :> c)
              @@ ("r" :> <<<<Needs("z", "z", 1)>>>>)) :
       h \in {<<"a", "c">>, <<"c", "a">>, <<"a", "r", "c">>, <<"c", "r", "a", "b">>}, b \in Turns,
       then \in {<<>>, <<<<Plain(<<"b">>)>>>>},
       a \in {Needs("x", "x", 1), Needs("x", "x2", 1),
             With(<<"x">>, PrefersIf("x" :> 0, "x" :> 1)),
             With(<<"x", "w">>, Prefers("x" :> 2, "x" :> {0, 2}))},
       c \in {<<<<Needs("y", "y", 2)>>>>, <<<<Needs("y", "y", 2), Plain(<<"z">>)>>>>,
             <<<<Needs("y", "y2", 1)>>, <<Plain(<<"b">>)>>>>}}

MCWorlds == Refining \cup Choosing \cup Decided \cup Joining \cup {Cancelled}

\* a has two clauses about y.
MCTwice == {World(<<"a">>, "a" :> <<<<Requires("y", "y")>>, <<Requires("y", "y2")>>>>)}
=============================================================================
