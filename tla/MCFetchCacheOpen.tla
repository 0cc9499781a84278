--------------------------- MODULE MCFetchCacheOpen ---------------------------
(* Three processes opening the fetch cache, for TLC.                       *)
EXTENDS FetchCacheOpen

CONSTANTS p1, p2, p3

Processes == {p1, p2, p3}
Sharing == {p1, p2}

Anywhere == Pc \ Ended

\* Anywhere but where the log is moved and the database is not.
NotHalfMoved == Anywhere \ {"move"}
=============================================================================
