--------------------------- MODULE MCDatabaseHealth ---------------------------
(* A small parcel database with an audit, for TLC. *)
EXTENDS MCSnapshotStore, DatabaseHealth

\* An audit is combined with one fault; the second is explored without audit.
OneFaultAudited == audit.pc = "idle" \/ faults <= 1
===============================================================================
