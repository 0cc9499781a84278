-------------------------- MODULE MCSystemPackages --------------------------
(* Small hosts for SystemPackages: a library in two versions, that may come with
   another main package in the second, a tool, and another library. *)
EXTENDS SystemPackages

V1 == <<1, 0, 1>>
V2 == <<2, 1, 1>>

MCKind == [x1 |-> "plain", x2 |-> "plain", xdev |-> "dev", tool |-> "plain",
           y |-> "plain", ydev |-> "dev", ydoc |-> "doc"]

Nowhere == [n \in DOMAIN MCKind |-> None]
At(ns, v) == [n \in ns |-> v] @@ Nowhere

(* The development files need their library, at the same version. *)
Needs(name, form, v) == <<[name |-> name, form |-> form, version |-> v]>>

Kept == [r \in {<<"xdev", V1>>, <<"xdev", V2>>} |-> Needs("x1", "stem", r[2])]
        @@ [r \in {<<"ydev", V1>>, <<"ydev", V2>>} |-> Needs("y", "other", r[2])]
Renamed == (<<"xdev", V2>> :> Needs("x2", "stem", V2)) @@ Kept

Host(installed, index, requires) ==
    [installed |-> installed, index |-> index, requires |-> requires, cached |-> TRUE]

Mapped(names) ==
    <<[i \in DOMAIN names |->
         [kind |-> "name", id |-> "host", version |-> 0, native |-> TRUE,
          value |-> names[i]]]>>

Lib(available) ==
    [available |-> available, lib |-> TRUE, own |-> None, dev |-> "xdev",
     fallback |-> "ydev", noStub |-> FALSE]
Exe(available) ==
    [available |-> available, lib |-> FALSE, own |-> "tool", dev |-> None,
     fallback |-> None, noStub |-> TRUE]

Mappings == {<<>>, << <<<<"xdev">>>> >>, << <<<<"x1", "xdev">>>> >>, << <<<<"ydev">>>> >>,
             << <<<<"xdev">>, <<"tool">>>> >>,
             << <<<<"x1", "xdev">>>>, <<<<"y", "ydev", "ydoc">>>> >>}

Indexes == {At(DOMAIN MCKind \ {"x2"}, V1), At(DOMAIN MCKind, V2), At({"y", "ydev"}, V1)}

Hosts == {Host(i, n, r) :
            i \in {Nowhere, At({"x1"}, V1), At({"x1", "xdev", "tool"}, V1), At({"y"}, V1),
                   At({"x1", "xdev", "y", "ydev"}, V1)},
            n \in Indexes, r \in {Kept, Renamed}}

NoMetadata == [Host(Nowhere, Nowhere, Kept) EXCEPT !.cached = FALSE]

Options == {[install |-> FALSE, fetch |-> FALSE, offline |-> FALSE],
            [install |-> TRUE, fetch |-> FALSE, offline |-> FALSE],
            [install |-> TRUE, fetch |-> TRUE, offline |-> FALSE],
            [install |-> TRUE, fetch |-> TRUE, offline |-> TRUE]}

(* Named and versioned differently from one version of the distribution to another,
   in two available packages. *)
NamedBy(id, version, native, groups) ==
    [kind |-> "name", id |-> id, version |-> version, native |-> native, value |-> groups]
Versioned(id, version, value) ==
    [kind |-> "downstream", id |-> id, version |-> version, native |-> TRUE, value |-> value]

Renumbered ==
    << <<Versioned("host", 1, <<1, 0>> :> 11 @@ <<2, 0>> :> 21),
         Versioned("like", 0, <<1, 0>> :> 12 @@ <<2, 1>> :> 22),
         NamedBy("host", 1, TRUE, <<<<"y">>>>), NamedBy("host", 2, TRUE, <<<<"tool">>>>)>>,
       <<Versioned("host", 1, <<1, 0>> :> 13), Versioned("host", 2, <<2, 1>> :> 23),
         Versioned("host", 3, <<1, 0>> :> 14), NamedBy("host", 2, TRUE, <<<<"tool">>>>)>> >>
Alike ==
    << <<Versioned("like", 1, <<1, 0>> :> 11), Versioned("like", 0, <<1, 0>> :> 12),
         NamedBy("host", 3, TRUE, <<<<"y">>>>), NamedBy("host", 0, FALSE, <<<<"y">>>>)>>,
       <<Versioned("like", 0, <<1, 0>> :> 13 @@ <<2, 1>> :> 23),
         NamedBy("like", 0, TRUE, <<<<"tool">>>>)>> >>

Tools == {<<>>, Mapped(<< <<<<"tool">>, <<"x1">>>> >>), Renumbered, Alike}

MCWorlds ==
    {o @@ [manager |-> m, host |-> h, later |-> At(DOMAIN MCKind, V2),
      request |-> rq, packages |-> [p |-> Lib(Mapped(l)), q |-> Exe(e)]] :
        o \in Options, m \in {"debian", "fedora"}, h \in Hosts \cup {NoMetadata},
        l \in Mappings, e \in Tools, rq \in {<<"p">>, <<"p", "q", "p">>}}
=============================================================================
