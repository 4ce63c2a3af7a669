----------------------------- MODULE DatabaseHealth -----------------------------
(***************************************************************************)
(* `db health` on the parcel store: a read-only audit that runs beside the   *)
(* builds and the activations.  Its statements are read one after the other, *)
(* on a connection that opens no transaction, so that another process may    *)
(* commit between any two of them.                                           *)
(*                                                                           *)
(* Of the verdicts, "healthy" and "attention" (identities, age) are one here.*)
(***************************************************************************)
EXTENDS SnapshotStore, FiniteSetsExt

VARIABLE audit      \* what the audit has read

auditVars == <<vars, audit>>

Auditing == {"idle", "row", "pointer", "rows"}
IdleAudit == [pc |-> "idle", count |-> 0, sid |-> NoSnapshot, pointer |-> NoSnapshot, age |-> 0]

ActiveRows == {s \in SnapshotIds : state[s] = "active"}

\* The age is not read: it tells the properties what was committed since.
CountActive ==
    /\ audit.pc = "idle"
    /\ audit' = [IdleAudit EXCEPT !.pc = "row", !.count = Cardinality(ActiveRows),
                                  !.age = Len(activations)]

\* The newest of the rows in state 'active', if there is one.
ReadActiveRow ==
    /\ audit.pc = "row"
    /\ audit' = [audit EXCEPT !.pc = "pointer",
                              !.sid = IF ActiveRows = {} THEN NoSnapshot ELSE Max(ActiveRows)]

ReadPointer ==
    /\ audit.pc = "pointer"
    /\ audit' = [audit EXCEPT !.pc = "rows", !.pointer = active]

\* Rows against inventory, in number and one by one; rows without a geometry.
RowsAreWrong(s) ==
    \/ inventory[s] # Ids(parcels[s])
    \/ Cardinality(Ids(parcels[s])) # Cardinality(expected[s])
    \/ \E o \in Ids(parcels[s]) : parcels[s][o] \notin Usable

Critical ==
    \/ audit.sid = NoSnapshot
    \/ audit.count # 1
    \/ audit.pointer # audit.sid
    \/ RowsAreWrong(audit.sid)

\* The statements about the rows are one step: the rows of a finalized snapshot
\* stay as they are (FinalizedImmutable).
Judge ==
    /\ audit.pc = "rows"
    /\ audit' = IdleAudit

AuditStep == CountActive \/ ReadActiveRow \/ ReadPointer \/ Judge

AuditedNext ==
    \/ Next /\ UNCHANGED audit
    \/ AuditStep /\ UNCHANGED vars

AuditedInit == Init /\ audit = IdleAudit
AuditedSpec == AuditedInit /\ [][AuditedNext]_auditVars /\ Fairness

-------------------------------------------------------------------------------
(* Properties. *)

\* An audit that reports a critical parcel store, one without an active snapshot
\* apart, has met an activation or a rollback between its statements: the alarm is
\* never about what a build, a crash or a completed command left behind.
AlarmsAreRaces ==
    [][Judge /\ Critical => Len(activations) > audit.age \/ activations = <<>>]_auditVars
===============================================================================
