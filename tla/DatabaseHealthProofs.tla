-------------------------- MODULE DatabaseHealthProofs --------------------------
(***************************************************************************)
(* What a health audit of the parcel store may report, for any number of   *)
(* operators, snapshots, edits and faults, and one build at a time.        *)
(***************************************************************************)
EXTENDS DatabaseHealth, SnapshotStoreProofs, FiniteSetTheorems

\* An audit changes nothing that the store is made of.
LEMMA AuditReadsOnly == [AuditedNext]_auditVars => [Next]_vars
BY DEF AuditedNext, auditVars

LEMMA AuditedIsSpec == AuditedSpec => Spec
BY AuditReadsOnly, PTL DEF AuditedSpec, AuditedInit, Spec

\* A step adds a row to the history, or leaves history and pointer alone.
LEMMA PointerMoves ==
    ASSUME TypeOK, [Next]_vars
    PROVE  \/ Len(activations') = Len(activations) + 1
           \/ UNCHANGED <<activations, active>>
<1>1. ASSUME NEW p \in Operators, SwitchActive(p)
      PROVE  Len(activations') = Len(activations) + 1
  <2> DEFINE row == [sid |-> command[p].sid, open |-> TRUE]
  <2>1. Closed(activations) \in Seq(Rows) /\ Len(Closed(activations)) = Len(activations)
    <3> DEFINE n == Len(activations)
    <3>1. Closed(activations) \in [1 .. n -> Rows] /\ n \in Nat
      BY ActivationTypes DEF Closed, Rows
    <3> QED BY <3>1
  <2>2. row \in Rows
    BY <1>1 DEF SwitchActive, Waiting, TypeOK, Holding, Rows
  <2> QED BY <1>1, <2>1, <2>2 DEF SwitchActive
<1>2. ASSUME [Next]_vars, \A p \in Operators : ~SwitchActive(p)
      PROVE  UNCHANGED <<activations, active>>
  BY <1>2 DEF Next, BuildStep, CommandStep, vars, pointer,
     EditSource, RequestInventory, FindResumable, BeginSnapshot, SetInventory, ReadPersisted, FetchBatch,
     RejectBatch, InsertBatch, HashContent, RecordManifest, ValidateSnapshot, FinalizeSnapshot, CrashBuild,
     ChooseReady, ReadActive, ChoosePrevious, CrashCommand
<1> QED BY <1>1, <1>2

-------------------------------------------------------------------------------
(* What an audit knows while no activation has come between its statements.   *)

Undisturbed == audit.age = Len(activations)

Known ==
    /\ audit.pc \in {"row", "pointer", "rows"} => audit.count = Cardinality(ActiveRows)
    /\ audit.pc \in {"pointer", "rows"} =>
          audit.sid = IF ActiveRows = {} THEN NoSnapshot ELSE Max(ActiveRows)
    /\ audit.pc = "rows" => audit.pointer = active

AuditTyped ==
    /\ audit \in [pc : Auditing, count : Nat, sid : SnapshotIds \cup {NoSnapshot},
                  pointer : SnapshotIds \cup {NoSnapshot}, age : Nat]
    /\ audit.age <= Len(activations)

AuditInv == AuditTyped /\ (Undisturbed => Known)

\* The rows in state 'active' are the pointed one, or none.
LEMMA ActiveRowsArePointed ==
    ASSUME TypeOK, ActiveStateIsPointer
    PROVE  /\ ActiveRows = IF active = NoSnapshot THEN {} ELSE {active}
           /\ Cardinality(ActiveRows) = IF active = NoSnapshot THEN 0 ELSE 1
           /\ active # NoSnapshot => Max(ActiveRows) = active
<1>1. active \in SnapshotIds \/ active = NoSnapshot
  BY DEF TypeOK
<1>2. NoSnapshot \notin SnapshotIds
  BY NoSnapshotAssumption DEF SnapshotIds
<1>3. ActiveRows = IF active = NoSnapshot THEN {} ELSE {active}
  BY <1>1, <1>2 DEF ActiveRows, ActiveStateIsPointer
<1>4. Cardinality(ActiveRows) = IF active = NoSnapshot THEN 0 ELSE 1
  BY <1>3, FS_EmptySet, FS_Singleton
<1>5. active # NoSnapshot => Max(ActiveRows) = active
  BY <1>1, <1>3 DEF Max, SnapshotIds
<1> QED BY <1>3, <1>4, <1>5

LEMMA AuditInit == Init /\ audit = IdleAudit => AuditInv
<1> SUFFICES ASSUME Init, audit = IdleAudit PROVE AuditInv
  OBVIOUS
<1>1. Len(activations) = 0
  BY DEF Init
<1> QED
  BY <1>1 DEF AuditInv, AuditTyped, Undisturbed, Known, IdleAudit, Auditing

LEMMA AuditStays ==
    ASSUME TypeOK, TypeOK', ActiveStateIsPointer, ActiveStateIsPointer',
           AuditInv, [AuditedNext]_auditVars
    PROVE  AuditInv'
<1>0. Len(activations) \in Nat /\ Len(activations') \in Nat
  BY DEF TypeOK
<1>1. CASE [Next]_vars /\ UNCHANGED audit
  <2>1. CASE Len(activations') = Len(activations) + 1
    BY <1>0, <1>1, <2>1 DEF AuditInv, AuditTyped, Undisturbed
  <2>2. CASE UNCHANGED <<activations, active>>
    <3>1. ActiveRows' = ActiveRows
      BY <2>2 DEF ActiveRows, ActiveStateIsPointer
    <3> QED BY <1>1, <2>2, <3>1 DEF AuditInv, AuditTyped, Undisturbed, Known
  <2> QED BY <1>1, <2>1, <2>2, PointerMoves
<1>2. CASE AuditStep /\ UNCHANGED vars
  <2>0. UNCHANGED <<state, activations, active>> /\ ActiveRows' = ActiveRows
    BY <1>2 DEF vars, snapshots, pointer, ActiveRows
  <2>1. Cardinality(ActiveRows) \in Nat
    BY ActiveRowsArePointed
  <2>2. ActiveRows # {} => Max(ActiveRows) \in SnapshotIds
    BY ActiveRowsArePointed DEF TypeOK
  <2>3. active \in SnapshotIds \cup {NoSnapshot}
    BY DEF TypeOK
  <2>4. CASE CountActive
    <3>1. audit' = [pc |-> "row", count |-> Cardinality(ActiveRows), sid |-> NoSnapshot,
                    pointer |-> NoSnapshot, age |-> Len(activations)]
      BY <2>4 DEF CountActive, IdleAudit
    <3>2. AuditTyped'
      BY <1>0, <2>0, <2>1, <3>1 DEF AuditTyped, Auditing
    <3>3. Known'
      BY <2>0, <3>1 DEF Known
    <3> QED BY <3>2, <3>3 DEF AuditInv
  <2>5. CASE ReadActiveRow
    BY <1>0, <2>0, <2>2, <2>5
       DEF ReadActiveRow, AuditInv, AuditTyped, Undisturbed, Known, Auditing
  <2>6. CASE ReadPointer
    BY <1>0, <2>0, <2>3, <2>6
       DEF ReadPointer, AuditInv, AuditTyped, Undisturbed, Known, Auditing
  <2>7. CASE Judge
    BY <1>0, <2>0, <2>7
       DEF Judge, IdleAudit, AuditInv, AuditTyped, Undisturbed, Known, Auditing
  <2> QED BY <1>2, <2>4, <2>5, <2>6, <2>7 DEF AuditStep
<1> QED BY <1>1, <1>2 DEF AuditedNext, auditVars

-------------------------------------------------------------------------------
(* The alarm.                                                                 *)

\* The active snapshot of a complete store passes every comparison of rows.
LEMMA ActiveRowsAreRight ==
    ASSUME TypeOK, FinalizedComplete, NEW s \in SnapshotIds, state[s] = "active"
    PROVE  ~RowsAreWrong(s)
<1>1. Ids(parcels[s]) = expected[s] /\ inventory[s] = expected[s]
  BY DEF FinalizedComplete, Finalized
<1>2. \A o \in Ids(parcels[s]) : parcels[s][o] \in Usable
  BY SetsAssumption DEF FinalizedComplete, Finalized
<1> QED BY <1>1, <1>2 DEF RowsAreWrong

LEMMA UndisturbedAuditIsClear ==
    ASSUME TypeOK, ActiveStateIsPointer, PointerIsLastActivation, FinalizedComplete,
           AuditInv, audit.pc = "rows", Undisturbed, activations # <<>>
    PROVE  ~Critical
<1>1. active \in SnapshotIds
  <2>1. activations \in Seq(Rows) /\ Len(activations) \in DOMAIN activations
    BY DEF TypeOK
  <2>2. activations[Len(activations)] \in Rows
    BY <2>1
  <2> QED BY <2>2 DEF PointerIsLastActivation, Rows
<1>2. active # NoSnapshot /\ state[active] = "active"
  BY <1>1, NoSnapshotAssumption DEF ActiveStateIsPointer, SnapshotIds
<1>3. ActiveRows # {} /\ Cardinality(ActiveRows) = 1 /\ Max(ActiveRows) = active
  BY <1>2, ActiveRowsArePointed
<1>4. audit.count = 1 /\ audit.sid = active /\ audit.pointer = active
  BY <1>3 DEF AuditInv, Known
<1>5. ~RowsAreWrong(active)
  BY <1>1, <1>2, ActiveRowsAreRight
<1> QED BY <1>2, <1>4, <1>5 DEF Critical

\* One builder at a time: database_health never reports a critical parcel store, one
\* that was never activated apart, unless an activation or a rollback was committed
\* between its statements.
THEOREM AlarmsAreOnlyRaces ==
    ASSUME OneBuilder
    PROVE  AuditedSpec => AlarmsAreRaces
<1> DEFINE Sure == TypeOK /\ ActiveStateIsPointer /\ PointerIsLastActivation /\ FinalizedComplete
<1>1. AuditedSpec => []Sure
  BY AuditedIsSpec, TypeCorrect, PointerIsSound, FinalizedIsComplete, PTL DEF PointersAgree
<1>2. Sure /\ Sure' /\ AuditInv /\ [AuditedNext]_auditVars => AuditInv'
  BY AuditStays
<1>3. AuditedSpec => []AuditInv
  BY <1>1, <1>2, AuditInit, PTL DEF AuditedSpec, AuditedInit
<1>4. Sure /\ AuditInv =>
        (Judge /\ Critical => Len(activations) > audit.age \/ activations = <<>>)
  <2> SUFFICES ASSUME Sure, AuditInv, Judge, Critical,
                      activations # <<>>, ~(Len(activations) > audit.age)
               PROVE  FALSE
    OBVIOUS
  <2>1. audit.pc = "rows"
    BY DEF Judge
  <2>2. Undisturbed
    BY DEF AuditInv, AuditTyped, Undisturbed, TypeOK
  <2> QED BY <2>1, <2>2, UndisturbedAuditIsClear
<1> QED BY <1>1, <1>3, <1>4, PTL DEF AlarmsAreRaces
===============================================================================
