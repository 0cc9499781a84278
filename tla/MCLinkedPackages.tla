--------------------------- MODULE MCLinkedPackages ---------------------------
(* Small installations of linked configurations for TLC.                   *)
EXTENDS LinkedPackages

CONSTANTS t1, t2, h, b, hp, p, q, m   \* configurations and packages
CONSTANTS Target

MCType == [c \in Config |-> CASE c \in {t1, t2} -> Target
                              [] c \in {h, hp} -> Host
                              [] OTHER -> Build2]
MCParent == [c \in Config |-> IF c = hp THEN t1 ELSE NoParent]

\* p needs the tool q at build time (or, in the second form, the library q);
\* q needs the build system module m, or nothing.
On(n, k) == [name |-> n, kind |-> k]
MCRequires == [n \in Name |-> CASE n = p -> {{On(q, Host)}, {On(q, "runtime")}}
                                [] n = q -> {{On(m, Build2)}, {}}
                                [] OTHER -> {{}}]

\* A target configuration with its private host configuration, a configuration
\* of build system modules, and a second target configuration linked with the
\* first either way, which is renamed. Only links to the end of a chain are
\* removed.
PrivateConfig == {t1, t2, hp, b}
PrivateLinkable == {<<t1, b>>, <<t1, t2>>, <<t2, t1>>}
PrivateUnlinkable == {<<t1, b>>, <<t1, hp>>, <<t2, b>>}
PrivateHome == {<<t1, p>>, <<t2, q>>, <<hp, q>>, <<b, m>>}
PrivateSystemHome == {<<hp, q>>}

\* Two target configurations and the host they share, every link either way. Any
\* link may be removed, those in the middle of a chain included.
SharedConfig == {t1, t2, h}
SharedSystemHome == {<<h, q>>}
ChainUnlinkable == {<<t1, t2>>, <<t1, h>>, <<t2, h>>}
ChainHome == {<<t1, p>>, <<h, q>>}
=============================================================================
