--------------------------- MODULE MCPkgLifecycle ---------------------------
(* The life of one package in two versions, for TLC.                       *)
EXTENDS PkgLifecycle

Versions == {1, 2}

\* A directory in the configuration whose name is that of the one version 2
\* would be extracted into.
Dirs == {CfgDir(2)}
=============================================================================
