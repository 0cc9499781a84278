---------------------------- MODULE MCSharedSources ----------------------------
(* Configurations on the cache's file system and off it, for TLC.          *)
EXTENDS SharedSources

CONSTANTS c1, c2, c3

Configurations == {c1, c2, c3}
OnCacheFilesystem == {c1, c2}
Renamed == {c3}
Nowhere == {}
=============================================================================
