---------------------------- MODULE PackageStates ----------------------------
(***************************************************************************)
(* What the life of a selected package looks like from outside: the states *)
(* pkg-status reports and the changes between them that bpkg ever commits. *)
(* A package is configured only out of unpacked, or as a system package    *)
(* out of nothing; it leaves configured only through pkg-disfigure; and    *)
(* what is broken can only be purged.                                      *)
(***************************************************************************)
VARIABLE state

State == {"transient", "fetched", "unpacked", "configured", "system", "broken"}

Init == state = "transient"

Fetch     == state \in {"transient", "fetched", "unpacked"} /\ state' = "fetched"
Unpack    == state \in {"transient", "fetched", "unpacked"} /\ state' = "unpacked"
Configure == \/ state = "unpacked" /\ state' = "configured"
             \/ state = "transient" /\ state' = "system"
Disfigure == \/ state = "configured" /\ state' = "unpacked"
             \/ state = "system" /\ state' = "transient"
Purge     == state \in {"fetched", "unpacked", "broken"} /\ state' = "transient"
Break     == state \in {"fetched", "unpacked", "configured"} /\ state' = "broken"

Next == Fetch \/ Unpack \/ Configure \/ Disfigure \/ Purge \/ Break

Spec == Init /\ [][Next]_state
=============================================================================
