-------------------------- MODULE SnapshotStoreProofs --------------------------
(***************************************************************************)
(* What holds of the parcel store for every number of processes, ObjectIDs *)
(* and snapshots.                                                          *)
(***************************************************************************)
EXTENDS SnapshotStore, TLAPS

-------------------------------------------------------------------------------
(* Type correctness. *)

LEMMA RowsAreContents == NoRows \in Contents
BY DEF NoRows, Contents

LEMMA IdleTypes == IdleBuild \in Builds /\ IdleCommand \in Commands
<1>1. IdleBuild \in Builds
  BY RowsAreContents DEF IdleBuild, Builds, BuildPcs
<1>2. IdleCommand \in Commands
  BY DEF IdleCommand, Commands
<1> QED BY <1>1, <1>2

LEMMA TypeInit == Init => TypeOK
<1> SUFFICES ASSUME Init PROVE TypeOK
  OBVIOUS
<1> USE RowsAreContents, IdleTypes DEF Init
<1>1. upstream \in Contents /\ edits \in Nat /\ faults \in Nat
  OBVIOUS
<1>2. begun \in 0 .. MaxSnapshots
  BY BoundsAssumption
<1>3. state \in [SnapshotIds -> States]
  BY DEF States
<1>4. /\ expected \in [SnapshotIds -> SUBSET ObjectIds]
      /\ inventory \in [SnapshotIds -> SUBSET ObjectIds]
      /\ parcels \in [SnapshotIds -> Contents]
      /\ recorded \in [SnapshotIds -> Contents \cup {NotRecorded}]
  OBVIOUS
<1>5. activations \in Seq(Rows)
  OBVIOUS
<1>6. active \in SnapshotIds \cup {NoSnapshot}
  OBVIOUS
<1>7. build \in [Builders -> Builds] /\ command \in [Operators -> Commands]
  OBVIOUS
<1>8. Holding
  BY DEF Holding, IdleBuild, IdleCommand, Unchosen
<1> QED BY <1>1, <1>2, <1>3, <1>4, <1>5, <1>6, <1>7, <1>8 DEF TypeOK



LEMMA ActivationTypes ==
    ASSUME TypeOK
    PROVE  /\ Len(activations) \in Nat
           /\ DOMAIN activations = 1 .. Len(activations)
           /\ \A i \in DOMAIN activations : activations[i] \in Rows
<1>1. activations \in Seq(Rows)
  BY DEF TypeOK
<1> QED BY <1>1

\* What a builder holds after a step.
BuildFits(r) == r \in Builds /\ (r.pc \notin Unchosen => r.sid \in SnapshotIds)

LEMMA HoldsFits ==
    ASSUME TypeOK, NEW b \in Builders, NEW r, BuildFits(r), Holds(b, r),
           UNCHANGED command
    PROVE  /\ build' \in [Builders -> Builds]
           /\ command' \in [Operators -> Commands]
           /\ Holding'
BY DEF TypeOK, Holding, Holds, BuildFits

\* What an operator holds after a step.
CommandFits(r) == r \in Commands /\ (r.pc = "switch" => r.sid \in SnapshotIds)

LEMMA FollowsFits ==
    ASSUME TypeOK, NEW p \in Operators, NEW r, CommandFits(r), Follows(p, r),
           UNCHANGED build
    PROVE  /\ build' \in [Builders -> Builds]
           /\ command' \in [Operators -> Commands]
           /\ Holding'
BY DEF TypeOK, Holding, Follows, CommandFits

LEMMA TypeStep == TypeOK /\ [Next]_vars => TypeOK'
<1> SUFFICES ASSUME TypeOK, [Next]_vars PROVE TypeOK'
  OBVIOUS
<1> USE RowsAreContents, IdleTypes
<1>1. CASE EditSource
  BY <1>1 DEF EditSource, Contents, snapshots, pointer, TypeOK, Holding
<1>2. ASSUME NEW b \in Builders, RequestInventory(b) PROVE TypeOK'
  <2>1. \E r : BuildFits(r) /\ Holds(b, r)
    BY <1>2 DEF RequestInventory, Ids, IdleBuild, BuildFits, At, Builds, BuildPcs, TypeOK, Holding, Unchosen
  <2> QED
    BY <1>2, <2>1, HoldsFits, BoundsAssumption
    DEF RequestInventory, At, Builds, TypeOK, Holding, Unchosen, source, snapshots, pointer
<1>3. ASSUME NEW b \in Builders, FindResumable(b) PROVE TypeOK'
  <2>1. \E r : BuildFits(r) /\ Holds(b, r)
    BY <1>3 DEF FindResumable, Resumable, BuildFits, At, Builds, BuildPcs, TypeOK, Holding, Unchosen
  <2> QED
    BY <1>3, <2>1, HoldsFits, BoundsAssumption
    DEF FindResumable, At, Builds, TypeOK, Holding, Unchosen, source, snapshots, pointer
<1>4. ASSUME NEW b \in Builders, BeginSnapshot(b) PROVE TypeOK'
  <2>1. \E r : BuildFits(r) /\ Holds(b, r)
    <3> DEFINE s == begun + 1
               q == [build[b] EXCEPT !.pc = "inventory", !.sid = s]
    <3>1. s \in SnapshotIds
      BY <1>4, BoundsAssumption DEF BeginSnapshot, SnapshotIds, TypeOK
    <3>2. BuildFits(q)
      BY <3>1 DEF BuildFits, Builds, BuildPcs, TypeOK
    <3> QED BY <1>4, <3>2 DEF BeginSnapshot
  <2> QED
    BY <1>4, <2>1, HoldsFits, BoundsAssumption
    DEF BeginSnapshot, SnapshotIds, States, At, Builds, TypeOK, Holding, Unchosen, source, snapshots, pointer
<1>5. ASSUME NEW b \in Builders, SetInventory(b) PROVE TypeOK'
  <2>1. \E r : BuildFits(r) /\ Holds(b, r)
    BY <1>5 DEF SetInventory, Leave, IdleBuild, BuildFits, At, Builds, BuildPcs, TypeOK, Holding, Unchosen
  <2> QED
    BY <1>5, <2>1, HoldsFits, BoundsAssumption
    DEF SetInventory, At, Builds, TypeOK, Holding, Unchosen, source, snapshots, pointer
<1>6. ASSUME NEW b \in Builders, ReadPersisted(b) PROVE TypeOK'
  <2>1. \E r : BuildFits(r) /\ Holds(b, r)
    BY <1>6 DEF ReadPersisted, Leave, IdleBuild, Ids, BuildFits, At, Builds, BuildPcs, TypeOK, Holding, Unchosen
  <2> QED
    BY <1>6, <2>1, HoldsFits, BoundsAssumption
    DEF ReadPersisted, At, Builds, TypeOK, Holding, Unchosen, source, snapshots, pointer
<1>7. ASSUME NEW b \in Builders, FetchBatch(b) PROVE TypeOK'
  <2>1. \E r : BuildFits(r) /\ Holds(b, r)
    <3>1. CASE Leave(b)
      BY <3>1 DEF Leave, IdleBuild, BuildFits, Builds, Unchosen
    <3>2. CASE ~Leave(b)
      <4> DEFINE batch == NextBatch(build[b].todo)
                 q(A, answer) ==
                   [build[b] EXCEPT
                     !.pc = IF A = {} THEN "fetch" ELSE "insert",
                     !.known = @ \cup A,
                     !.todo = @ \ batch,
                     !.rows = [o \in ObjectIds |-> IF o \in A THEN upstream[o] ELSE NoFeature],
                     !.flawed = @ \/ Extra(b, answer) # {}]
      <4>1. PICK answer \in SUBSET Ids(upstream) : Holds(b, q(Accepted(b, answer), answer))
        BY <1>7, <3>2 DEF FetchBatch
      <4>2. Accepted(b, answer) \subseteq ObjectIds
        BY DEF Accepted, Ids
      <4>3. [o \in ObjectIds |-> IF o \in Accepted(b, answer) THEN upstream[o] ELSE NoFeature]
              \in Contents
        BY DEF Contents, TypeOK
      <4>4. build[b] \in Builds /\ build[b].sid \in SnapshotIds
        BY <1>7 DEF FetchBatch, At, TypeOK, Holding, Unchosen
      <4>5. BuildFits(q(Accepted(b, answer), answer))
        BY <4>2, <4>3, <4>4 DEF BuildFits, Builds, BuildPcs
      <4> QED BY <4>1, <4>5
    <3> QED BY <3>1, <3>2
  <2> QED
    BY <1>7, <2>1, HoldsFits, BoundsAssumption
    DEF FetchBatch, At, Builds, TypeOK, Holding, Unchosen, source, snapshots, pointer
<1>8. ASSUME NEW b \in Builders, RejectBatch(b) PROVE TypeOK'
  <2>1. \E r : BuildFits(r) /\ Holds(b, r)
    BY <1>8 DEF RejectBatch, BuildFits, At, Builds, BuildPcs, TypeOK, Holding, Unchosen
  <2> QED
    BY <1>8, <2>1, HoldsFits, BoundsAssumption
    DEF RejectBatch, At, Builds, TypeOK, Holding, Unchosen, source, snapshots, pointer
<1>9. ASSUME NEW b \in Builders, InsertBatch(b) PROVE TypeOK'
  <2>1. \E r : BuildFits(r) /\ Holds(b, r)
    BY <1>9 DEF InsertBatch, Upserted, BuildFits, At, Builds, BuildPcs, TypeOK, Holding, Unchosen
  <2>2. [o \in ObjectIds |->
           IF build[b].rows[o] # NoFeature THEN build[b].rows[o] ELSE parcels[build[b].sid][o]]
          \in Contents
    <3>1. build[b].rows \in Contents /\ build[b].sid \in SnapshotIds
      BY <1>9 DEF InsertBatch, Upserted, At, Builds, TypeOK, Holding, Unchosen
    <3>2. parcels[build[b].sid] \in Contents
      BY <3>1 DEF TypeOK
    <3> QED BY <3>1, <3>2 DEF Contents
  <2>3. parcels' \in [SnapshotIds -> Contents]
    BY <1>9, <2>2 DEF InsertBatch, Upserted, TypeOK
  <2> QED
    BY <1>9, <2>1, <2>3, HoldsFits DEF InsertBatch, Upserted, TypeOK, source, pointer
<1>10. ASSUME NEW b \in Builders, HashContent(b) PROVE TypeOK'
  <2>1. \E r : BuildFits(r) /\ Holds(b, r)
    BY <1>10 DEF HashContent, Leave, IdleBuild, BuildFits, At, Builds, BuildPcs, TypeOK, Holding, Unchosen
  <2> QED
    BY <1>10, <2>1, HoldsFits, BoundsAssumption
    DEF HashContent, At, Builds, TypeOK, Holding, Unchosen, source, snapshots, pointer
<1>11. ASSUME NEW b \in Builders, RecordManifest(b) PROVE TypeOK'
  <2>1. \E r : BuildFits(r) /\ Holds(b, r)
    BY <1>11 DEF RecordManifest, Leave, IdleBuild, BuildFits, At, Builds, BuildPcs, TypeOK, Holding, Unchosen
  <2> QED
    BY <1>11, <2>1, HoldsFits, BoundsAssumption
    DEF RecordManifest, At, Builds, TypeOK, Holding, Unchosen, source, snapshots, pointer
<1>12. ASSUME NEW b \in Builders, ValidateSnapshot(b) PROVE TypeOK'
  <2>1. \E r : BuildFits(r) /\ Holds(b, r)
    BY <1>12 DEF ValidateSnapshot, Leave, IdleBuild, Valid, BuildFits, At, Builds, BuildPcs, TypeOK, Holding, Unchosen
  <2> QED
    BY <1>12, <2>1, HoldsFits, BoundsAssumption
    DEF ValidateSnapshot, At, Builds, TypeOK, Holding, Unchosen, source, snapshots, pointer
<1>13. ASSUME NEW b \in Builders, FinalizeSnapshot(b) PROVE TypeOK'
  <2>1. \E r : BuildFits(r) /\ Holds(b, r)
    BY <1>13 DEF FinalizeSnapshot, Leave, IdleBuild, BuildFits, At, Builds, BuildPcs, TypeOK, Holding, Unchosen
  <2> QED
    BY <1>13, <2>1, HoldsFits, BoundsAssumption
    DEF FinalizeSnapshot, States, At, Builds, TypeOK, Holding, Unchosen, source, snapshots, pointer
<1>14. ASSUME NEW b \in Builders, CrashBuild(b) PROVE TypeOK'
  <2>1. \E r : BuildFits(r) /\ Holds(b, r)
    BY <1>14 DEF CrashBuild, Leave, IdleBuild, BuildFits, At, Builds, BuildPcs, TypeOK, Holding, Unchosen
  <2> QED
    BY <1>14, <2>1, HoldsFits, BoundsAssumption
    DEF CrashBuild, At, Builds, TypeOK, Holding, Unchosen, source, snapshots, pointer
<1>15. ASSUME NEW p \in Operators, ChooseReady(p) PROVE TypeOK'
  <2>1. \E r : CommandFits(r) /\ Follows(p, r)
    BY <1>15 DEF ChooseReady, LastReady, CommandFits, Waiting, Commands, TypeOK, Holding
  <2> QED
    BY <1>15, <2>1, FollowsFits DEF ChooseReady, LastReady, Waiting, TypeOK, Holding, source, snapshots, pointer
<1>16. ASSUME NEW p \in Operators, ReadActive(p) PROVE TypeOK'
  <2>1. \E r : CommandFits(r) /\ Follows(p, r)
    BY <1>16 DEF ReadActive, CommandFits, Waiting, Commands, TypeOK, Holding
  <2> QED
    BY <1>16, <2>1, FollowsFits DEF ReadActive, Waiting, TypeOK, Holding, source, snapshots, pointer
<1>17. ASSUME NEW p \in Operators, ChoosePrevious(p) PROVE TypeOK'
  <2>1. \E r : CommandFits(r) /\ Follows(p, r)
    <3>1. CASE Follows(p, IdleCommand)
      BY <3>1 DEF IdleCommand, CommandFits
    <3>2. CASE ~Follows(p, IdleCommand)
      <4>1. PICK i \in DOMAIN activations :
              Follows(p, [command[p] EXCEPT !.pc = "switch", !.sid = activations[i].sid])
        BY <1>17, <3>2 DEF ChoosePrevious
      <4>2. activations[i].sid \in SnapshotIds
        BY <4>1, ActivationTypes DEF Rows
      <4>3. CommandFits([command[p] EXCEPT !.pc = "switch", !.sid = activations[i].sid])
        BY <4>2 DEF CommandFits, Commands, TypeOK
      <4> QED BY <4>1, <4>3
    <3> QED BY <3>1, <3>2
  <2> QED
    BY <1>17, <2>1, FollowsFits DEF ChoosePrevious, PreviousRow, Waiting, TypeOK, Holding, source, snapshots, pointer
<1>18. ASSUME NEW p \in Operators, SwitchActive(p) PROVE TypeOK'
  <2>1. \E r : CommandFits(r) /\ Follows(p, r)
    BY <1>18 DEF SwitchActive, Activated, Closed, IdleCommand, CommandFits, Waiting, Commands, TypeOK, Holding
  <2> DEFINE s == command[p].sid
             n == Len(activations)
             closed == [i \in DOMAIN activations |-> [activations[i] EXCEPT !.open = FALSE]]
             opened == [sid |-> s, open |-> TRUE]
  <2>2. s \in SnapshotIds
    BY <1>18 DEF SwitchActive, Activated, Closed, Waiting, TypeOK, Holding
  <2>3. closed \in Seq(Rows)
    <3>1. closed \in [1 .. n -> Rows]
      BY ActivationTypes DEF Rows
    <3>2. n \in Nat
      BY ActivationTypes
    <3> HIDE DEF closed
    <3> QED BY <3>1, <3>2
  <2>4. activations' \in Seq(Rows)
    <3>1. opened \in Rows
      BY <2>2 DEF Rows
    <3>2. activations' = Append(closed, opened)
      BY <1>18 DEF SwitchActive, Activated, Closed
    <3> HIDE DEF closed, opened
    <3> QED BY <3>1, <3>2, <2>3
  <2>5. state' \in [SnapshotIds -> States]
    BY <1>18 DEF SwitchActive, Activated, Closed, States, TypeOK
  <2> HIDE DEF closed
  <2>6. active' \in SnapshotIds
    BY <1>18, <2>2 DEF SwitchActive, Activated, Closed
  <2> QED
    BY <1>18, <2>1, <2>4, <2>5, <2>6, FollowsFits DEF SwitchActive, Activated, Closed, TypeOK, source
<1>19. ASSUME NEW p \in Operators, CrashCommand(p) PROVE TypeOK'
  <2>1. \E r : CommandFits(r) /\ Follows(p, r)
    BY <1>19 DEF CrashCommand, IdleCommand, CommandFits, Waiting, Commands, TypeOK, Holding
  <2> QED
    BY <1>19, <2>1, FollowsFits DEF CrashCommand, Waiting, TypeOK, Holding, source, snapshots, pointer
<1>20. CASE UNCHANGED vars
  BY <1>20 DEF vars, source, snapshots, pointer, TypeOK, Holding
<1> QED
  BY <1>1, <1>2, <1>3, <1>4, <1>5, <1>6, <1>7, <1>8, <1>9, <1>10, <1>11, <1>12, <1>13, <1>14, <1>15, <1>16, <1>17, <1>18, <1>19, <1>20
     DEF Next, BuildStep, CommandStep

\* The database's columns and what the processes hold have the declared types,
\* for any number of processes and whatever the source does.
THEOREM TypeCorrect == Spec => []TypeOK
<1>1. Init => TypeOK
  BY TypeInit
<1>2. TypeOK /\ [Next]_vars => TypeOK'
  BY TypeStep
<1> QED BY <1>1, <1>2, PTL DEF Spec

-------------------------------------------------------------------------------
(* The pointer, for any number of processes. *)

LEMMA PointerStep ==
    ASSUME TypeOK, PointerIsLastActivation, [Next]_vars
    PROVE  PointerIsLastActivation'
<1>1. CASE UNCHANGED pointer
  BY <1>1 DEF PointerIsLastActivation, pointer
<1>2. ASSUME NEW p \in Operators, SwitchActive(p) PROVE PointerIsLastActivation'
  <2> DEFINE s == command[p].sid
             n == Len(activations)
             closed == [i \in DOMAIN activations |-> [activations[i] EXCEPT !.open = FALSE]]
             opened == [sid |-> s, open |-> TRUE]
  <2>1. /\ n \in Nat
        /\ closed \in Seq(Rows)
        /\ Len(closed) = n
        /\ \A i \in 1 .. n : closed[i].open = FALSE
    <3>1. closed \in [1 .. n -> Rows]
      BY ActivationTypes DEF Rows
    <3>2. \A i \in 1 .. n : closed[i].open = FALSE
      BY ActivationTypes DEF Rows
    <3>3. n \in Nat
      BY ActivationTypes
    <3> HIDE DEF closed, n
    <3> QED BY <3>1, <3>2, <3>3
  <2>2. activations' = Append(closed, opened) /\ active' = s
    BY <1>2 DEF SwitchActive, Activated, Closed
  <2> HIDE DEF closed, n
  <2>3. /\ Len(activations') = n + 1
        /\ activations'[n + 1] = opened
        /\ \A i \in 1 .. n : activations'[i] = closed[i]
        /\ DOMAIN activations' = 1 .. n + 1
        /\ activations' # <<>>
    BY <2>1, <2>2
  <2> QED BY <2>1, <2>2, <2>3 DEF PointerIsLastActivation
<1> QED
  BY <1>1, <1>2 DEF Next, BuildStep, CommandStep, vars, EditSource, RequestInventory,
     FindResumable, BeginSnapshot, SetInventory, ReadPersisted, FetchBatch, RejectBatch,
     InsertBatch, Upserted, HashContent, RecordManifest, ValidateSnapshot, FinalizeSnapshot,
     CrashBuild, ChooseReady, LastReady, ReadActive, ChoosePrevious, CrashCommand

\* However many operators activate and roll back at once, and wherever they crash,
\* the pointer lookups read is the newest activation row, the only open one.
THEOREM PointerFollowsHistory == Spec => []PointerIsLastActivation
<1>1. Init => PointerIsLastActivation
  BY DEF Init, PointerIsLastActivation
<1>2. TypeOK /\ PointerIsLastActivation /\ [Next]_vars => PointerIsLastActivation'
  BY PointerStep
<1> QED BY <1>1, <1>2, TypeCorrect, PTL DEF Spec

-------------------------------------------------------------------------------
(* Coverage, for any number of processes.                                  *)
(*                                                                         *)
(* Two builders may resume one snapshot, and the checks they make before   *)
(* their transactions may be stale.  Coverage survives because all of them *)
(* work for the inventory the snapshot was begun for, and because rows are *)
(* only ever added.                                                        *)

\* Snapshot s is begun and holds exactly its inventory.
Covered(s) ==
    /\ s \in 1 .. begun
    /\ Ids(parcels[s]) = expected[s]
    /\ inventory[s] = expected[s]

RowsInv ==
    \A s \in SnapshotIds :
        /\ s \notin 1 .. begun => state[s] = "none"
        /\ Ids(parcels[s]) \subseteq expected[s]
        /\ inventory[s] \in {{}, expected[s]}
        /\ s \notin 1 .. begun => expected[s] = {}
        /\ s \in 1 .. begun => expected[s] # {}
        /\ state[s] \in Finalized => Covered(s)

\* A builder that holds r works for the inventory of its snapshot.
Serves(r) ==
    /\ r.pc # "idle" => r.want # {}
    /\ r.pc \notin Unchosen => r.sid \in 1 .. begun /\ expected[r.sid] = r.want
    /\ r.pc \notin Unchosen \cup {"inventory"} => inventory[r.sid] = r.want
    /\ r.pc = "insert" => Ids(r.rows) \subseteq r.want
    /\ r.pc = "finalize" /\ r.passed => Covered(r.sid)

\* An operator that holds q is about to activate a covered snapshot.
Switches(q) == q.pc = "switch" => Covered(q.sid)

CoverInv ==
    /\ RowsInv
    /\ \A b \in Builders : Serves(build[b])
    /\ \A p \in Operators : Switches(command[p])

LEMMA CoverInit == Init => CoverInv
BY BoundsAssumption
DEF Init, CoverInv, RowsInv, Serves, Switches, Covered, Ids, NoRows, IdleBuild, IdleCommand,
    Finalized, Unchosen, SnapshotIds

\* Steps that leave the snapshots' rows alone only have to justify what the
\* moving process holds.
LEMMA QuietBuild ==
    ASSUME TypeOK, CoverInv, NEW b \in Builders, NEW r, Holds(b, r), Serves(r),
           UNCHANGED <<begun, state, expected, inventory, parcels, command>>
    PROVE  CoverInv'
<1>1. RowsInv'
  BY DEF CoverInv, RowsInv, Covered, Ids
<1>2. \A c \in Builders : Serves(build[c])'
  BY DEF CoverInv, Serves, Covered, Ids, Holds, TypeOK
<1>3. \A p \in Operators : Switches(command[p])'
  BY DEF CoverInv, Switches, Covered, Ids
<1> QED BY <1>1, <1>2, <1>3 DEF CoverInv

LEMMA QuietCommand ==
    ASSUME TypeOK, CoverInv, NEW p \in Operators, NEW q, Follows(p, q), Switches(q),
           UNCHANGED <<begun, state, expected, inventory, parcels, build>>
    PROVE  CoverInv'
<1>1. RowsInv'
  BY DEF CoverInv, RowsInv, Covered, Ids
<1>2. \A c \in Builders : Serves(build[c])'
  BY DEF CoverInv, Serves, Covered, Ids
<1>3. \A c \in Operators : Switches(command[c])'
  BY DEF CoverInv, Switches, Covered, Ids, Follows, TypeOK
<1> QED BY <1>1, <1>2, <1>3 DEF CoverInv

\* What a covered snapshot's rows go through in a step of another process.
LEMMA Grown ==
    ASSUME TypeOK, CoverInv, NEW b \in Builders, NEW r, Holds(b, r),
           RowsInv', Serves(r)',
           UNCHANGED command,
           \A s \in SnapshotIds : s \in 1 .. begun =>
               /\ s \in 1 .. begun'
               /\ expected'[s] = expected[s]
               /\ inventory[s] = expected[s] => inventory'[s] = expected[s]
               /\ Covered(s) => Covered(s)'
    PROVE  CoverInv'
<1>1. \A c \in Builders : Serves(build[c])'
  <2> SUFFICES ASSUME NEW c \in Builders, c # b PROVE Serves(build[c])'
    BY DEF Holds, TypeOK
  <2>1. build'[c] = build[c]
    BY DEF Holds, TypeOK
  <2>2. Serves(build[c])
    BY DEF CoverInv
  <2>3. build[c].pc \notin Unchosen => build[c].sid \in SnapshotIds
    BY DEF TypeOK, Holding
  <2> QED BY <2>1, <2>2, <2>3 DEF Serves, Unchosen
<1>2. \A p \in Operators : Switches(command[p])'
  <2> SUFFICES ASSUME NEW p \in Operators, command[p].pc = "switch"
               PROVE  Covered(command[p].sid)'
    BY DEF Switches
  <2>1. Covered(command[p].sid) /\ command[p].sid \in SnapshotIds
    BY DEF CoverInv, Switches, TypeOK, Holding
  <2>2. command[p].sid \in 1 .. begun
    BY <2>1 DEF Covered
  <2> QED BY <2>1, <2>2
<1> QED BY <1>1, <1>2 DEF CoverInv

LEMMA CoverStep == TypeOK /\ TypeOK' /\ CoverInv /\ [Next]_vars => CoverInv'
<1> SUFFICES ASSUME TypeOK, TypeOK', CoverInv, [Next]_vars PROVE CoverInv'
  OBVIOUS
<1>1. CASE EditSource
  BY <1>1 DEF EditSource, snapshots, pointer, CoverInv, RowsInv, Serves, Switches, Covered, Ids
<1>2. ASSUME NEW b \in Builders, RequestInventory(b) PROVE CoverInv'
  <2> DEFINE r == [IdleBuild EXCEPT !.pc = "find", !.want = Ids(upstream)]
  <2>1. r.pc = "find" /\ r.want = Ids(upstream)
    BY DEF IdleBuild
  <2>2. Holds(b, r) /\ r.want # {}
    BY <1>2, <2>1 DEF RequestInventory
  <2>3. Serves(r)
    BY <2>1, <2>2 DEF Serves, Unchosen
  <2> QED BY <1>2, <2>2, <2>3, QuietBuild DEF RequestInventory, snapshots
<1>3. ASSUME NEW b \in Builders, FindResumable(b) PROVE CoverInv'
  <2>1. \E r : Holds(b, r) /\ Serves(r)
    <3>1. build[b] \in Builds /\ build[b].want # {}
      BY <1>3 DEF FindResumable, At, TypeOK, CoverInv, Serves
    <3>2. \A s \in Resumable(build[b].want) : s \in 1 .. begun /\ expected[s] = build[b].want
      BY DEF Resumable, CoverInv, RowsInv
    <3>3. CASE Holds(b, [build[b] EXCEPT !.pc = "begin"])
      <4>1. Serves([build[b] EXCEPT !.pc = "begin"])
        BY <3>1 DEF Serves, Unchosen, Builds
      <4> QED BY <3>3, <4>1
    <3>4. ASSUME NEW s \in Resumable(build[b].want),
                 Holds(b, [build[b] EXCEPT !.pc = "inventory", !.sid = s])
          PROVE  \E r : Holds(b, r) /\ Serves(r)
      <4>1. Serves([build[b] EXCEPT !.pc = "inventory", !.sid = s])
        BY <3>1, <3>2 DEF Serves, Unchosen, Builds
      <4> QED BY <3>4, <4>1
    <3> QED BY <1>3, <3>3, <3>4 DEF FindResumable
  <2> QED BY <1>3, <2>1, QuietBuild DEF FindResumable, snapshots
<1>4. ASSUME NEW b \in Builders, BeginSnapshot(b) PROVE CoverInv'
  <2> DEFINE s == begun + 1
  <2> PICK r : r = [build[b] EXCEPT !.pc = "inventory", !.sid = s]
    OBVIOUS
  <2>1. /\ s \in SnapshotIds /\ s \notin 1 .. begun /\ begun \in Nat
        /\ begun' = s /\ 1 .. begun' = (1 .. begun) \cup {s}
        /\ state' = [state EXCEPT ![s] = "building"]
        /\ expected' = [expected EXCEPT ![s] = build[b].want]
        /\ UNCHANGED <<inventory, parcels, command>>
        /\ Holds(b, r)
        /\ r.pc = "inventory" /\ r.sid = s /\ r.want = build[b].want
        /\ build[b].want # {}
    <3>1. begun \in Nat /\ MaxSnapshots \in Nat /\ build[b] \in Builds
      BY BoundsAssumption DEF TypeOK
    <3>2. begun < MaxSnapshots /\ build[b].pc = "begin"
      BY <1>4 DEF BeginSnapshot, At
    <3>3. build[b].want # {}
      BY <3>2 DEF CoverInv, Serves
    <3>4. r.pc = "inventory" /\ r.sid = s /\ r.want = build[b].want
      BY <3>1 DEF Builds
    <3> QED BY <1>4, <3>1, <3>2, <3>3, <3>4 DEF BeginSnapshot, SnapshotIds
  <2>2. Ids(parcels[s]) = {} /\ inventory[s] = {}
    BY <2>1 DEF CoverInv, RowsInv
  <2>3. \A t \in SnapshotIds : t \in 1 .. begun =>
               /\ t \in 1 .. begun'
               /\ expected'[t] = expected[t]
               /\ inventory'[t] = inventory[t]
               /\ Covered(t) => Covered(t)'
    BY <2>1 DEF Covered, TypeOK, Ids
  <2>4. RowsInv'
    <3> SUFFICES ASSUME NEW t \in SnapshotIds
                 PROVE  /\ t \notin 1 .. begun' => state'[t] = "none"
                        /\ Ids(parcels'[t]) \subseteq expected'[t]
                        /\ inventory'[t] \in {{}, expected'[t]}
                        /\ t \notin 1 .. begun' => expected'[t] = {}
                        /\ t \in 1 .. begun' => expected'[t] # {}
                        /\ state'[t] \in Finalized => Covered(t)'
      BY DEF RowsInv, Ids
    <3>1. CASE t = s
      BY <2>1, <2>2, <3>1 DEF TypeOK, Finalized
    <3>2. CASE t # s
      BY <2>1, <2>3, <3>2 DEF TypeOK, CoverInv, RowsInv, Covered
    <3> QED BY <3>1, <3>2
  <2>5. Serves(r)'
    BY <2>1 DEF Serves, Unchosen, TypeOK
  <2> QED BY <2>1, <2>3, <2>4, <2>5, Grown
<1>5. ASSUME NEW b \in Builders, SetInventory(b) PROVE CoverInv'
  <2> DEFINE s == build[b].sid
  <2>1. /\ build[b] \in Builds /\ build[b].pc = "inventory"
        /\ s \in SnapshotIds /\ s \in 1 .. begun
        /\ expected[s] = build[b].want /\ build[b].want # {}
    BY <1>5 DEF SetInventory, At, TypeOK, Holding, CoverInv, Serves, Unchosen
  <2>2. CASE Leave(b) /\ UNCHANGED inventory
    <3>1. Serves(IdleBuild)
      BY DEF IdleBuild, Serves, Unchosen
    <3> QED BY <1>5, <2>2, <3>1, QuietBuild DEF SetInventory, Leave
  <2>3. CASE inventory' = [inventory EXCEPT ![s] = build[b].want]
             /\ Holds(b, [build[b] EXCEPT !.pc = "persisted"])
    <3> PICK r : r = [build[b] EXCEPT !.pc = "persisted"]
      OBVIOUS
    <3>1. r.pc = "persisted" /\ r.sid = s /\ r.want = build[b].want
      BY <2>1 DEF Builds
    <3>2. UNCHANGED <<begun, state, expected, parcels, command>>
      BY <1>5 DEF SetInventory
    <3>3. inventory'[s] = expected[s] /\ \A t \in SnapshotIds \ {s} : inventory'[t] = inventory[t]
      BY <2>1, <2>3 DEF TypeOK
    <3>4. \A t \in SnapshotIds : Covered(t) => Covered(t)'
      BY <3>2, <3>3 DEF Covered, Ids
    <3>5. RowsInv'
      BY <3>2, <3>3, <3>4 DEF CoverInv, RowsInv, Ids
    <3>6. Serves(r)'
      BY <2>1, <3>1, <3>2, <3>3 DEF Serves, Unchosen
    <3>7. \A t \in SnapshotIds : inventory[t] = expected[t] => inventory'[t] = expected[t]
      BY <3>3
    <3> QED BY <2>3, <3>2, <3>4, <3>5, <3>6, <3>7, Grown
  <2> QED BY <1>5, <2>2, <2>3 DEF SetInventory
<1>6. ASSUME NEW b \in Builders, ReadPersisted(b) PROVE CoverInv'
  <2>1. \E r : Holds(b, r) /\ Serves(r)
    <3>1. CASE Leave(b)
      BY <3>1 DEF Leave, IdleBuild, Serves, Unchosen
    <3>2. CASE ~Leave(b)
      <4>1. /\ build[b] \in Builds /\ build[b].sid \in SnapshotIds
            /\ build[b].pc = "persisted" /\ Serves(build[b])
        BY <1>6 DEF ReadPersisted, At, TypeOK, Holding, Unchosen, CoverInv
      <4>2. PICK stored : Holds(b, [build[b] EXCEPT !.pc = "fetch", !.known = stored,
                                                    !.todo = build[b].want \ stored])
        BY <1>6, <3>2 DEF ReadPersisted
      <4>3. Serves([build[b] EXCEPT !.pc = "fetch", !.known = stored,
                                    !.todo = build[b].want \ stored])
        BY <4>1 DEF Serves, Unchosen, Builds
      <4> QED BY <4>2, <4>3
    <3> QED BY <3>1, <3>2
  <2> QED BY <1>6, <2>1, QuietBuild DEF ReadPersisted, snapshots
<1>7. ASSUME NEW b \in Builders, FetchBatch(b) PROVE CoverInv'
  <2>1. \E r : Holds(b, r) /\ Serves(r)
    <3>1. CASE Leave(b)
      BY <3>1 DEF Leave, IdleBuild, Serves, Unchosen
    <3>2. CASE ~Leave(b)
      <4>1. /\ build[b] \in Builds /\ build[b].sid \in SnapshotIds
            /\ build[b].pc = "fetch" /\ Serves(build[b])
        BY <1>7 DEF FetchBatch, At, TypeOK, Holding, Unchosen, CoverInv
      <4> DEFINE q(A, answer) ==
                   [build[b] EXCEPT
                     !.pc = IF A = {} THEN "fetch" ELSE "insert",
                     !.known = @ \cup A,
                     !.todo = @ \ NextBatch(build[b].todo),
                     !.rows = [o \in ObjectIds |-> IF o \in A THEN upstream[o] ELSE NoFeature],
                     !.flawed = @ \/ Extra(b, answer) # {}]
      <4>2. PICK answer \in SUBSET Ids(upstream) : Holds(b, q(Accepted(b, answer), answer))
        BY <1>7, <3>2 DEF FetchBatch
      <4> DEFINE r == q(Accepted(b, answer), answer)
      <4>3. /\ r.pc \in {"fetch", "insert"} /\ r.sid = build[b].sid /\ r.want = build[b].want
            /\ r.rows = [o \in ObjectIds |->
                           IF o \in Accepted(b, answer) THEN upstream[o] ELSE NoFeature]
        BY <4>1 DEF Builds
      <4>4. Ids(r.rows) \subseteq Accepted(b, answer)
        BY <4>3 DEF Ids
      <4>5. Accepted(b, answer) \subseteq build[b].want
        BY DEF Accepted
      <4> HIDE DEF r
      <4>6. Serves(r)
        BY <4>1, <4>3, <4>4, <4>5 DEF Serves, Unchosen
      <4> QED BY <4>2, <4>6 DEF r
    <3> QED BY <3>1, <3>2
  <2> QED BY <1>7, <2>1, QuietBuild DEF FetchBatch, snapshots
<1>8. ASSUME NEW b \in Builders, RejectBatch(b) PROVE CoverInv'
  <2>1. \E r : Holds(b, r) /\ Serves(r)
    <3> DEFINE r == [build[b] EXCEPT !.todo = @ \ NextBatch(@), !.flawed = TRUE]
    <3>1. build[b] \in Builds /\ build[b].pc = "fetch" /\ Serves(build[b])
      BY <1>8 DEF RejectBatch, At, TypeOK, CoverInv
    <3>2. Serves(r)
      BY <3>1 DEF Serves, Unchosen, Builds
    <3> QED BY <1>8, <3>2 DEF RejectBatch
  <2> QED BY <1>8, <2>1, QuietBuild DEF RejectBatch, snapshots
<1>9. ASSUME NEW b \in Builders, InsertBatch(b) PROVE CoverInv'
  <2> DEFINE s == build[b].sid
  <2> PICK r : r = [build[b] EXCEPT !.pc = "fetch", !.rows = NoRows]
    OBVIOUS
  <2>1. /\ build[b] \in Builds /\ build[b].pc = "insert" /\ s \in SnapshotIds
        /\ Serves(build[b])
    BY <1>9 DEF InsertBatch, Upserted, At, TypeOK, Holding, CoverInv, Unchosen
  <2>2. r.pc = "fetch" /\ r.sid = s /\ r.want = build[b].want
    BY <2>1 DEF Builds
  <2>3. /\ UNCHANGED <<begun, state, expected, inventory, command>>
        /\ Holds(b, r)
    BY <1>9 DEF InsertBatch, Upserted
  <2>4. /\ \A t \in SnapshotIds \ {s} : parcels'[t] = parcels[t]
        /\ parcels'[s] = [o \in ObjectIds |->
              IF build[b].rows[o] # NoFeature THEN build[b].rows[o] ELSE parcels[s][o]]
    BY <1>9, <2>1 DEF InsertBatch, Upserted, TypeOK
  <2>5. Ids(parcels'[s]) = Ids(parcels[s]) \cup Ids(build[b].rows)
    BY <2>4 DEF Ids
  <2>6. Ids(build[b].rows) \subseteq expected[s] /\ s \in 1 .. begun /\ inventory[s] = expected[s]
    BY <2>1 DEF Serves, Unchosen
  <2>7. /\ Ids(parcels'[s]) \subseteq expected[s]
        /\ Ids(parcels[s]) = expected[s] => Ids(parcels'[s]) = expected[s]
    BY <2>1, <2>5, <2>6 DEF CoverInv, RowsInv
  <2>8. \A t \in SnapshotIds : Covered(t) => Covered(t)'
    BY <2>3, <2>4, <2>7 DEF Covered, Ids
  <2>9. RowsInv'
    <3> SUFFICES ASSUME NEW t \in SnapshotIds
                 PROVE  /\ t \notin 1 .. begun' => state'[t] = "none"
                        /\ Ids(parcels'[t]) \subseteq expected'[t]
                        /\ inventory'[t] \in {{}, expected'[t]}
                        /\ t \notin 1 .. begun' => expected'[t] = {}
                        /\ t \in 1 .. begun' => expected'[t] # {}
                        /\ state'[t] \in Finalized => Covered(t)'
      BY DEF RowsInv, Ids
    <3>1. Ids(parcels'[t]) \subseteq expected[t]
      BY <2>4, <2>7 DEF CoverInv, RowsInv
    <3> QED BY <2>3, <2>8, <3>1 DEF CoverInv, RowsInv
  <2>10. Serves(r)'
    BY <2>1, <2>2, <2>3 DEF Serves, Unchosen
  <2> QED BY <2>3, <2>8, <2>9, <2>10, Grown
<1>10. ASSUME NEW b \in Builders, HashContent(b) PROVE CoverInv'
  <2>1. \E r : Holds(b, r) /\ Serves(r)
    <3>1. CASE Leave(b)
      BY <3>1 DEF Leave, IdleBuild, Serves, Unchosen
    <3>2. CASE ~Leave(b)
      <4>1. /\ build[b] \in Builds /\ build[b].sid \in SnapshotIds
            /\ build[b].pc = "fetch" /\ Serves(build[b])
        BY <1>10 DEF HashContent, At, TypeOK, Holding, Unchosen, CoverInv
      <4>2. PICK h : Holds(b, [build[b] EXCEPT !.pc = "record", !.hash = h])
        BY <1>10, <3>2 DEF HashContent
      <4>3. Serves([build[b] EXCEPT !.pc = "record", !.hash = h])
        BY <4>1 DEF Serves, Unchosen, Builds
      <4> QED BY <4>2, <4>3
    <3> QED BY <3>1, <3>2
  <2> QED BY <1>10, <2>1, QuietBuild DEF HashContent, snapshots
<1>11. ASSUME NEW b \in Builders, RecordManifest(b) PROVE CoverInv'
  <2>1. \E r : Holds(b, r) /\ Serves(r)
    <3>1. CASE Leave(b)
      BY <3>1 DEF Leave, IdleBuild, Serves, Unchosen
    <3>2. CASE ~Leave(b)
      <4>1. /\ build[b] \in Builds /\ build[b].sid \in SnapshotIds
            /\ build[b].pc = "record" /\ Serves(build[b])
        BY <1>11 DEF RecordManifest, At, TypeOK, Holding, Unchosen, CoverInv
      <4>2. Holds(b, [build[b] EXCEPT !.pc = "validate"])
        BY <1>11, <3>2 DEF RecordManifest
      <4>3. Serves([build[b] EXCEPT !.pc = "validate"])
        BY <4>1 DEF Serves, Unchosen, Builds
      <4> QED BY <4>2, <4>3
    <3> QED BY <3>1, <3>2
  <2> QED BY <1>11, <2>1, QuietBuild DEF RecordManifest, snapshots
<1>12. ASSUME NEW b \in Builders, ValidateSnapshot(b) PROVE CoverInv'
  <2>1. \E r : Holds(b, r) /\ Serves(r)
    <3>1. CASE Leave(b)
      BY <3>1 DEF Leave, IdleBuild, Serves, Unchosen
    <3>2. CASE ~Leave(b)
      <4>1. /\ build[b] \in Builds /\ build[b].sid \in SnapshotIds
            /\ build[b].pc = "validate" /\ Serves(build[b])
        BY <1>12 DEF ValidateSnapshot, At, TypeOK, Holding, Unchosen, CoverInv
      <4> DEFINE s == build[b].sid
      <4>2. Holds(b, [build[b] EXCEPT !.pc = "finalize", !.passed = Valid(s)])
        BY <1>12, <3>2 DEF ValidateSnapshot
      <4>3. Valid(s) => Covered(s)
        BY <4>1 DEF Valid, Covered, Serves, Unchosen
      <4>4. Serves([build[b] EXCEPT !.pc = "finalize", !.passed = Valid(s)])
        BY <4>1, <4>3 DEF Serves, Unchosen, Builds
      <4> QED BY <4>2, <4>4
    <3> QED BY <3>1, <3>2
  <2> QED BY <1>12, <2>1, QuietBuild DEF ValidateSnapshot, snapshots
<1>13. ASSUME NEW b \in Builders, FinalizeSnapshot(b) PROVE CoverInv'
  <2> DEFINE s == build[b].sid
  <2>1. /\ build[b] \in Builds /\ build[b].pc = "finalize" /\ s \in SnapshotIds
        /\ Serves(build[b])
    BY <1>13 DEF FinalizeSnapshot, At, TypeOK, Holding, CoverInv, Unchosen
  <2>2. /\ UNCHANGED <<begun, expected, inventory, parcels, command>>
        /\ Holds(b, IdleBuild)
        /\ state' = [state EXCEPT ![s] = IF build[b].passed THEN "ready" ELSE "failed"]
    BY <1>13 DEF FinalizeSnapshot, Leave
  <2>3. \A t \in SnapshotIds : Covered(t) => Covered(t)'
    BY <2>2 DEF Covered, Ids
  <2>4. s \in 1 .. begun /\ (build[b].passed => Covered(s))
    BY <2>1 DEF Serves, Unchosen
  <2>5. RowsInv'
    BY <2>1, <2>2, <2>3, <2>4 DEF CoverInv, RowsInv, Ids, Finalized, TypeOK
  <2>6. Serves(IdleBuild)'
    BY DEF Serves, IdleBuild, Unchosen
  <2> PICK r : r = IdleBuild
    OBVIOUS
  <2> QED BY <2>2, <2>3, <2>5, <2>6, Grown DEF IdleBuild
<1>14. ASSUME NEW b \in Builders, CrashBuild(b) PROVE CoverInv'
  <2>1. \E r : Holds(b, r) /\ Serves(r)
    BY <1>14 DEF CrashBuild, Leave, IdleBuild, Serves, Unchosen
  <2> QED BY <1>14, <2>1, QuietBuild DEF CrashBuild, snapshots
<1>15. ASSUME NEW p \in Operators, ChooseReady(p) PROVE CoverInv'
  <2>1. \E q : Follows(p, q) /\ Switches(q)
    BY <1>15 DEF ChooseReady, LastReady, CoverInv, RowsInv, Finalized, Switches
  <2> QED BY <1>15, <2>1, QuietCommand DEF ChooseReady, LastReady, snapshots
<1>16. ASSUME NEW p \in Operators, ReadActive(p) PROVE CoverInv'
  <2>1. \E q : Follows(p, q) /\ Switches(q)
    BY <1>16 DEF ReadActive, Switches
  <2> QED BY <1>16, <2>1, QuietCommand DEF ReadActive, snapshots
<1>17. ASSUME NEW p \in Operators, ChoosePrevious(p) PROVE CoverInv'
  <2>1. \E q : Follows(p, q) /\ Switches(q)
    <3>1. CASE Follows(p, IdleCommand)
      BY <3>1 DEF IdleCommand, Switches
    <3>2. CASE ~Follows(p, IdleCommand)
      <4>1. PICK i \in DOMAIN activations :
              /\ state[activations[i].sid] \in Finalized
              /\ Follows(p, [command[p] EXCEPT !.pc = "switch", !.sid = activations[i].sid])
        BY <1>17, <3>2 DEF ChoosePrevious
      <4>2. Covered(activations[i].sid)
        BY <4>1, ActivationTypes DEF Rows, CoverInv, RowsInv
      <4>3. Switches([command[p] EXCEPT !.pc = "switch", !.sid = activations[i].sid])
        BY <4>2 DEF Switches, TypeOK, Commands
      <4> QED BY <4>1, <4>3
    <3> QED BY <3>1, <3>2
  <2> QED BY <1>17, <2>1, QuietCommand DEF ChoosePrevious, snapshots
<1>18. ASSUME NEW p \in Operators, SwitchActive(p) PROVE CoverInv'
  <2> DEFINE s == command[p].sid
  <2>1. /\ UNCHANGED <<begun, expected, inventory, parcels, build>>
        /\ Follows(p, IdleCommand)
        /\ state' = [t \in SnapshotIds |->
                       IF t = s THEN "active"
                       ELSE IF state[t] = "active" THEN "retired" ELSE state[t]]
    BY <1>18 DEF SwitchActive, Activated, Closed
  <2>2. Covered(s)
    BY <1>18 DEF SwitchActive, Activated, Closed, Waiting, CoverInv, Switches
  <2>3. RowsInv'
    BY <2>1, <2>2 DEF CoverInv, RowsInv, Covered, Ids, Finalized
  <2>4. \A c \in Builders : Serves(build[c])'
    BY <2>1 DEF CoverInv, Serves, Covered, Ids
  <2>5. \A c \in Operators : Switches(command[c])'
    BY <2>1 DEF CoverInv, Switches, Covered, Ids, Follows, IdleCommand, TypeOK
  <2> QED BY <2>3, <2>4, <2>5 DEF CoverInv
<1>19. ASSUME NEW p \in Operators, CrashCommand(p) PROVE CoverInv'
  <2>1. \E q : Follows(p, q) /\ Switches(q)
    BY <1>19 DEF CrashCommand, IdleCommand, Switches
  <2> QED BY <1>19, <2>1, QuietCommand DEF CrashCommand, snapshots
<1>20. CASE UNCHANGED vars
  BY <1>20 DEF vars, snapshots, CoverInv, RowsInv, Serves, Switches, Covered, Ids
<1> QED
  BY <1>1, <1>2, <1>3, <1>4, <1>5, <1>6, <1>7, <1>8, <1>9, <1>10, <1>11, <1>12, <1>13,
     <1>14, <1>15, <1>16, <1>17, <1>18, <1>19, <1>20 DEF Next, BuildStep, CommandStep

\* However many builders share a snapshot, and wherever they crash, a finalized
\* snapshot holds exactly the ObjectIDs it was begun for.
THEOREM CoverageIsKept == Spec => []CoverageSurvives
<1>1. Init => CoverInv
  BY CoverInit
<1>2. TypeOK /\ TypeOK' /\ CoverInv /\ [Next]_vars => CoverInv'
  BY CoverStep
<1>3. CoverInv => CoverageSurvives
  BY DEF CoverInv, RowsInv, Covered, CoverageSurvives
<1> QED BY <1>1, <1>2, <1>3, TypeCorrect, PTL DEF Spec

-------------------------------------------------------------------------------
(* The lifecycle column, for any number of processes. *)

LEMMA ActiveStep == TypeOK /\ AtMostOneActive /\ [Next]_vars => AtMostOneActive'
<1> SUFFICES ASSUME TypeOK, AtMostOneActive, [Next]_vars PROVE AtMostOneActive'
  OBVIOUS
<1>1. CASE UNCHANGED <<state, active>>
  BY <1>1 DEF AtMostOneActive
<1>2. ASSUME NEW b \in Builders, BeginSnapshot(b) PROVE AtMostOneActive'
  BY <1>2 DEF BeginSnapshot, AtMostOneActive, TypeOK, pointer
<1>3. ASSUME NEW b \in Builders, FinalizeSnapshot(b) PROVE AtMostOneActive'
  BY <1>3 DEF FinalizeSnapshot, AtMostOneActive, TypeOK, pointer
<1>4. ASSUME NEW p \in Operators, SwitchActive(p) PROVE AtMostOneActive'
  BY <1>4 DEF SwitchActive, Activated, Closed, AtMostOneActive, TypeOK
<1> QED
  BY <1>1, <1>2, <1>3, <1>4 DEF Next, BuildStep, CommandStep, vars, snapshots, pointer,
     EditSource, RequestInventory, FindResumable, SetInventory, ReadPersisted, FetchBatch,
     RejectBatch, InsertBatch, Upserted, HashContent, RecordManifest, ValidateSnapshot, CrashBuild,
     ChooseReady, LastReady, ReadActive, ChoosePrevious, CrashCommand

\* However many builders and operators run, no two rows are 'active', and an
\* 'active' row is the one the pointer names.
THEOREM OneActiveRow == Spec => []AtMostOneActive
<1>1. Init => AtMostOneActive
  BY DEF Init, AtMostOneActive
<1>2. TypeOK /\ AtMostOneActive /\ [Next]_vars => AtMostOneActive'
  BY ActiveStep
<1> QED BY <1>1, <1>2, TypeCorrect, PTL DEF Spec

-------------------------------------------------------------------------------
(* One builder at a time, any number of operators.                         *)
(*                                                                         *)
(* Then the snapshot a build works on stays 'building' until that build    *)
(* finalizes it, which the checks before the transactions rely on.         *)

OneBuilder == \A b, c \in Builders : b = c

\* What a builder that holds r may count on.
Owns(r) ==
    r.pc \notin Unchosen =>
        /\ state[r.sid] = "building"
        /\ r.pc = "record" /\ r.want \subseteq r.known /\ ~r.flawed =>
              r.hash = parcels[r.sid]
        /\ r.pc \in {"validate", "finalize"} => recorded[r.sid] = parcels[r.sid]
        /\ r.pc = "finalize" /\ r.passed =>
              \A o \in Ids(parcels[r.sid]) : parcels[r.sid][o] \in WellFormed

\* What a reader of finalized snapshot s may count on.
Sound(s) ==
    /\ \A o \in Ids(parcels[s]) : parcels[s][o] \in WellFormed
    /\ recorded[s] = parcels[s]

SingleInv ==
    /\ \A b \in Builders : Owns(build[b])
    /\ \A s \in SnapshotIds : state[s] \in Finalized => Sound(s)
    /\ \A p \in Operators : command[p].pc = "switch" => state[command[p].sid] \in Finalized
    /\ HistoryFinalized
    /\ ActiveStateIsPointer

LEMMA SingleInit == Init => SingleInv
BY NoSnapshotAssumption
DEF Init, SingleInv, Owns, HistoryFinalized, ActiveStateIsPointer, IdleBuild, IdleCommand,
    Unchosen, Finalized, SnapshotIds

\* A step of the one builder that changes no lifecycle state of a finalized row.
LEMMA SingleBuild ==
    ASSUME OneBuilder, TypeOK, SingleInv, NEW b \in Builders, NEW r,
           Holds(b, r), Owns(r)',
           UNCHANGED <<activations, active, command>>,
           \A s \in SnapshotIds : state[s] \in Finalized =>
              state'[s] = state[s] /\ parcels'[s] = parcels[s] /\ recorded'[s] = recorded[s],
           \A s \in SnapshotIds : state[s] \notin Finalized =>
              /\ state'[s] # "active"
              /\ state'[s] \in Finalized => Sound(s)'
    PROVE  SingleInv'
<1>1. \A c \in Builders : Owns(build[c])'
  BY DEF OneBuilder, Holds, TypeOK
<1>2. \A s \in SnapshotIds : state'[s] \in Finalized => Sound(s)'
  BY DEF SingleInv, Sound, Ids
<1>3. \A p \in Operators : command'[p].pc = "switch" => state'[command'[p].sid] \in Finalized
  BY DEF SingleInv, TypeOK, Holding
<1>4. HistoryFinalized'
  BY ActivationTypes DEF SingleInv, HistoryFinalized, Rows
<1>5. ActiveStateIsPointer'
  BY DEF SingleInv, ActiveStateIsPointer, Finalized
<1> QED BY <1>1, <1>2, <1>3, <1>4, <1>5 DEF SingleInv

\* A step of an operator that only changes what the operator holds.
LEMMA SingleCommand ==
    ASSUME TypeOK, SingleInv, NEW p \in Operators, NEW q, Follows(p, q),
           q.pc = "switch" => state[q.sid] \in Finalized,
           UNCHANGED <<snapshots, pointer, build>>
    PROVE  SingleInv'
<1>1. /\ \A c \in Builders : Owns(build[c])'
      /\ \A s \in SnapshotIds : state'[s] \in Finalized => Sound(s)'
      /\ HistoryFinalized' /\ ActiveStateIsPointer'
  BY DEF SingleInv, Owns, Sound, HistoryFinalized, ActiveStateIsPointer, Ids, snapshots, pointer
<1>2. \A c \in Operators : command'[c].pc = "switch" => state'[command'[c].sid] \in Finalized
  BY DEF SingleInv, Follows, TypeOK, snapshots
<1> QED BY <1>1, <1>2 DEF SingleInv

\* A step of the one builder that only changes what the builder holds.
LEMMA SingleHold ==
    ASSUME OneBuilder, TypeOK, SingleInv, NEW b \in Builders, NEW r,
           Holds(b, r), Owns(r), UNCHANGED <<snapshots, pointer, command>>
    PROVE  SingleInv'
<1>1. Owns(r)'
  BY DEF Owns, Ids, snapshots
<1> QED BY <1>1, SingleBuild DEF SingleInv, Finalized, snapshots, pointer

LEMMA SingleStep ==
    ASSUME OneBuilder
    PROVE  TypeOK /\ TypeOK' /\ CoverInv /\ SingleInv /\ [Next]_vars => SingleInv'
<1> SUFFICES ASSUME TypeOK, TypeOK', CoverInv, SingleInv, [Next]_vars PROVE SingleInv'
  OBVIOUS
<1> Owns(IdleBuild)
  BY DEF Owns, IdleBuild, Unchosen
<1>1. CASE EditSource
  BY <1>1 DEF EditSource, snapshots, pointer, SingleInv, Owns, Sound, Ids, HistoryFinalized,
     ActiveStateIsPointer
<1>2. ASSUME NEW b \in Builders, RequestInventory(b) PROVE SingleInv'
  <2>1. Owns([IdleBuild EXCEPT !.pc = "find", !.want = Ids(upstream)])
    BY DEF Owns, IdleBuild, Unchosen
  <2> QED BY <1>2, <2>1, SingleHold DEF RequestInventory
<1>3. ASSUME NEW b \in Builders, FindResumable(b) PROVE SingleInv'
  <2>1. \E r : Holds(b, r) /\ Owns(r)
    <3>1. build[b] \in Builds
      BY DEF TypeOK
    <3>2. CASE Holds(b, [build[b] EXCEPT !.pc = "begin"])
      <4>1. Owns([build[b] EXCEPT !.pc = "begin"])
        BY <3>1 DEF Owns, Unchosen, Builds
      <4> QED BY <3>2, <4>1
    <3>3. ASSUME NEW s \in Resumable(build[b].want),
                 Holds(b, [build[b] EXCEPT !.pc = "inventory", !.sid = s])
          PROVE  \E r : Holds(b, r) /\ Owns(r)
      <4>1. state[s] = "building"
        BY DEF Resumable
      <4>2. Owns([build[b] EXCEPT !.pc = "inventory", !.sid = s])
        BY <3>1, <4>1 DEF Owns, Unchosen, Builds
      <4> QED BY <3>3, <4>2
    <3> QED BY <1>3, <3>2, <3>3 DEF FindResumable
  <2> QED BY <1>3, <2>1, SingleHold DEF FindResumable
<1>4. ASSUME NEW b \in Builders, BeginSnapshot(b) PROVE SingleInv'
  <2> DEFINE s == begun + 1
  <2> PICK r : r = [build[b] EXCEPT !.pc = "inventory", !.sid = s]
    OBVIOUS
  <2>1. /\ Holds(b, r)
        /\ state' = [state EXCEPT ![s] = "building"]
        /\ UNCHANGED <<parcels, recorded, activations, active, command>>
        /\ begun \in Nat
    BY <1>4, BoundsAssumption DEF BeginSnapshot, pointer, TypeOK
  <2>2. build[b] \in Builds /\ s \in SnapshotIds
    BY <1>4, BoundsAssumption DEF BeginSnapshot, TypeOK, SnapshotIds
  <2>3. r.pc = "inventory" /\ r.sid = s
    BY <2>2 DEF Builds
  <2>4. state[s] = "none"
    BY <2>1, <2>2 DEF CoverInv, RowsInv
  <2>5. state'[s] = "building" /\ \A t \in SnapshotIds \ {s} : state'[t] = state[t]
    BY <2>1, <2>2 DEF TypeOK
  <2>6. Owns(r)'
    BY <2>3, <2>5 DEF Owns, Unchosen
  <2> QED BY <2>1, <2>4, <2>5, <2>6, SingleBuild DEF Finalized
<1>5. ASSUME NEW b \in Builders, SetInventory(b) PROVE SingleInv'
  <2>1. \E r : Holds(b, r) /\ Owns(r)'
    <3>1. /\ build[b] \in Builds /\ build[b].pc = "inventory" /\ Owns(build[b])
      BY <1>5 DEF SetInventory, At, TypeOK, SingleInv
    <3>2. CASE Leave(b)
      <4>1. Owns(IdleBuild)'
        BY DEF Owns, IdleBuild, Unchosen
      <4> QED BY <3>2, <4>1 DEF Leave
    <3>3. CASE ~Leave(b)
      <4> PICK r : r = [build[b] EXCEPT !.pc = "persisted"]
        OBVIOUS
      <4>1. Holds(b, r) /\ UNCHANGED <<state, parcels, recorded>>
        BY <1>5, <3>3 DEF SetInventory
      <4>2. r.pc = "persisted" /\ r.sid = build[b].sid
        BY <3>1 DEF Builds
      <4>3. state[r.sid] = "building"
        BY <3>1, <4>2 DEF Owns, Unchosen
      <4>4. Owns(r)'
        BY <4>1, <4>2, <4>3 DEF Owns, Unchosen
      <4> QED BY <4>1, <4>4
    <3> QED BY <3>2, <3>3
  <2> QED BY <1>5, <2>1, SingleBuild DEF SetInventory, pointer, SingleInv, Finalized
<1>6. ASSUME NEW b \in Builders, ReadPersisted(b) PROVE SingleInv'
  <2>1. \E r : Holds(b, r) /\ Owns(r)
    <3>1. /\ build[b] \in Builds /\ build[b].pc = "persisted" /\ Owns(build[b])
      BY <1>6 DEF ReadPersisted, At, TypeOK, SingleInv
    <3>2. CASE Leave(b)
      BY <3>2 DEF Leave
    <3>3. CASE ~Leave(b)
      <4>1. Holds(b, [build[b] EXCEPT !.pc = "fetch", !.known = Ids(parcels[build[b].sid]),
                      !.todo = build[b].want \ Ids(parcels[build[b].sid])])
        BY <1>6, <3>3 DEF ReadPersisted
      <4>2. Owns([build[b] EXCEPT !.pc = "fetch", !.known = Ids(parcels[build[b].sid]),
                      !.todo = build[b].want \ Ids(parcels[build[b].sid])])
        BY <3>1 DEF Owns, Unchosen, Builds
      <4> QED BY <4>1, <4>2
    <3> QED BY <3>2, <3>3
  <2> QED BY <1>6, <2>1, SingleHold DEF ReadPersisted
<1>7. ASSUME NEW b \in Builders, FetchBatch(b) PROVE SingleInv'
  <2>1. \E r : Holds(b, r) /\ Owns(r)
    <3>1. /\ build[b] \in Builds /\ build[b].pc = "fetch" /\ Owns(build[b])
      BY <1>7 DEF FetchBatch, At, TypeOK, SingleInv
    <3>2. CASE Leave(b)
      BY <3>2 DEF Leave
    <3>3. CASE ~Leave(b)
      <4>1. PICK known, todo, rows, flawed, pc :
              /\ pc \in {"fetch", "insert"}
              /\ Holds(b, [build[b] EXCEPT !.pc = pc, !.known = known, !.todo = todo,
                                            !.rows = rows, !.flawed = flawed])
        BY <1>7, <3>3 DEF FetchBatch
      <4>2. Owns([build[b] EXCEPT !.pc = pc, !.known = known, !.todo = todo,
                                  !.rows = rows, !.flawed = flawed])
        BY <3>1, <4>1 DEF Owns, Unchosen, Builds
      <4> QED BY <4>1, <4>2
    <3> QED BY <3>2, <3>3
  <2> QED BY <1>7, <2>1, SingleHold DEF FetchBatch
<1>8. ASSUME NEW b \in Builders, RejectBatch(b) PROVE SingleInv'
  <2>1. \E r : Holds(b, r) /\ Owns(r)
    <3>1. /\ build[b] \in Builds /\ build[b].pc = "fetch" /\ Owns(build[b])
      BY <1>8 DEF RejectBatch, At, TypeOK, SingleInv
    <3>2. Owns([build[b] EXCEPT !.todo = @ \ NextBatch(@), !.flawed = TRUE])
      BY <3>1 DEF Owns, Unchosen, Builds
    <3> QED BY <1>8, <3>2 DEF RejectBatch
  <2> QED BY <1>8, <2>1, SingleHold DEF RejectBatch
<1>9. ASSUME NEW b \in Builders, InsertBatch(b) PROVE SingleInv'
  <2> DEFINE s == build[b].sid
  <2> PICK r : r = [build[b] EXCEPT !.pc = "fetch", !.rows = NoRows]
    OBVIOUS
  <2>1. /\ build[b] \in Builds /\ build[b].pc = "insert" /\ s \in SnapshotIds
        /\ Owns(build[b])
    BY <1>9 DEF InsertBatch, Upserted, At, TypeOK, Holding, Unchosen, SingleInv
  <2>2. state[s] = "building" /\ r.pc = "fetch" /\ r.sid = s
    BY <2>1 DEF Owns, Unchosen, Builds
  <2>3. /\ Holds(b, r) /\ UNCHANGED <<state, recorded, activations, active, command>>
        /\ \A t \in SnapshotIds \ {s} : parcels'[t] = parcels[t]
    BY <1>9 DEF InsertBatch, Upserted, TypeOK, pointer
  <2>4. Owns(r)'
    BY <2>2, <2>3 DEF Owns
  <2> QED BY <2>2, <2>3, <2>4, SingleBuild DEF Finalized
<1>10. ASSUME NEW b \in Builders, HashContent(b) PROVE SingleInv'
  <2>1. \E r : Holds(b, r) /\ Owns(r)
    <3>1. /\ build[b] \in Builds /\ build[b].pc = "fetch" /\ Owns(build[b])
      BY <1>10 DEF HashContent, At, TypeOK, SingleInv
    <3>2. CASE Leave(b)
      BY <3>2 DEF Leave
    <3>3. CASE ~Leave(b)
      <4> DEFINE h == IF Complete(b) THEN parcels[build[b].sid] ELSE NotRecorded
                 r == [build[b] EXCEPT !.pc = "record", !.hash = h]
      <4>1. Holds(b, r)
        BY <1>10, <3>3 DEF HashContent
      <4>2. /\ r.pc = "record" /\ r.hash = h /\ r.sid = build[b].sid
            /\ r.want = build[b].want /\ r.known = build[b].known /\ r.flawed = build[b].flawed
        BY <3>1 DEF Builds
      <4>3. state[r.sid] = "building"
        BY <3>1, <4>2 DEF Owns, Unchosen
      <4>4. Owns(r)
        BY <4>2, <4>3 DEF Owns, Complete
      <4> QED BY <4>1, <4>4
    <3> QED BY <3>2, <3>3
  <2> QED BY <1>10, <2>1, SingleHold DEF HashContent
<1>11. ASSUME NEW b \in Builders, RecordManifest(b) PROVE SingleInv'
  <2> DEFINE s == build[b].sid
  <2>1. /\ build[b] \in Builds /\ build[b].pc = "record" /\ s \in SnapshotIds
        /\ Owns(build[b])
    BY <1>11 DEF RecordManifest, At, TypeOK, Holding, Unchosen, SingleInv
  <2>2. state[s] = "building"
    BY <2>1 DEF Owns, Unchosen
  <2>3. /\ UNCHANGED <<state, parcels, activations, active, command>>
        /\ recorded'[s] = build[b].hash
        /\ \A t \in SnapshotIds \ {s} : recorded'[t] = recorded[t]
    BY <1>11, <2>1 DEF RecordManifest, TypeOK, pointer
  <2>4. \E r : Holds(b, r) /\ Owns(r)'
    <3>1. CASE Leave(b)
      <4>1. Owns(IdleBuild)'
        BY DEF Owns, IdleBuild, Unchosen
      <4> QED BY <3>1, <4>1 DEF Leave
    <3>2. CASE ~Leave(b)
      <4> PICK r : r = [build[b] EXCEPT !.pc = "validate"]
        OBVIOUS
      <4>1. Complete(b) /\ Holds(b, r)
        BY <1>11, <3>2 DEF RecordManifest
      <4>2. r.pc = "validate" /\ r.sid = s
        BY <2>1 DEF Builds
      <4>3. build[b].hash = parcels[s]
        BY <2>1, <4>1 DEF Owns, Unchosen, Complete
      <4>4. Owns(r)'
        BY <2>2, <2>3, <4>2, <4>3 DEF Owns
      <4> QED BY <4>1, <4>4
    <3> QED BY <3>1, <3>2
  <2> QED BY <2>2, <2>3, <2>4, SingleBuild DEF Finalized
<1>12. ASSUME NEW b \in Builders, ValidateSnapshot(b) PROVE SingleInv'
  <2>1. \E r : Holds(b, r) /\ Owns(r)
    <3>1. /\ build[b] \in Builds /\ build[b].pc = "validate" /\ Owns(build[b])
      BY <1>12 DEF ValidateSnapshot, At, TypeOK, SingleInv
    <3>2. CASE Leave(b)
      BY <3>2 DEF Leave
    <3>3. CASE ~Leave(b)
      <4> DEFINE r == [build[b] EXCEPT !.pc = "finalize", !.passed = Valid(build[b].sid)]
      <4>1. Holds(b, r)
        BY <1>12, <3>3 DEF ValidateSnapshot
      <4>2. r.pc = "finalize" /\ r.passed = Valid(build[b].sid) /\ r.sid = build[b].sid
        BY <3>1 DEF Builds
      <4>3. state[r.sid] = "building" /\ recorded[r.sid] = parcels[r.sid]
        BY <3>1, <4>2 DEF Owns, Unchosen
      <4>4. r.passed => \A o \in Ids(parcels[r.sid]) : parcels[r.sid][o] \in WellFormed
        BY <4>2 DEF Valid
      <4>5. Owns(r)
        BY <4>2, <4>3, <4>4 DEF Owns
      <4> QED BY <4>1, <4>5
    <3> QED BY <3>2, <3>3
  <2> QED BY <1>12, <2>1, SingleHold DEF ValidateSnapshot
<1>13. ASSUME NEW b \in Builders, FinalizeSnapshot(b) PROVE SingleInv'
  <2> DEFINE s == build[b].sid
  <2>1. /\ build[b] \in Builds /\ build[b].pc = "finalize" /\ s \in SnapshotIds
        /\ Owns(build[b])
    BY <1>13 DEF FinalizeSnapshot, At, TypeOK, Holding, Unchosen, SingleInv
  <2>2. /\ state[s] = "building" /\ recorded[s] = parcels[s]
        /\ build[b].passed => Sound(s)
    BY <2>1 DEF Owns, Unchosen, Sound
  <2>3. /\ UNCHANGED <<parcels, recorded, activations, active, command>>
        /\ state'[s] = IF build[b].passed THEN "ready" ELSE "failed"
        /\ \A t \in SnapshotIds \ {s} : state'[t] = state[t]
        /\ Holds(b, IdleBuild)
    BY <1>13, <2>1 DEF FinalizeSnapshot, Leave, TypeOK, pointer
  <2>4. Owns(IdleBuild)'
    BY DEF Owns, IdleBuild, Unchosen
  <2>5. \A t \in SnapshotIds : Sound(t) => Sound(t)'
    BY <2>3 DEF Sound, Ids
  <2>6. \A t \in SnapshotIds : state[t] \notin Finalized =>
           /\ state'[t] # "active"
           /\ state'[t] \in Finalized => Sound(t)'
    BY <2>2, <2>3, <2>5 DEF Finalized
  <2>7. \A t \in SnapshotIds : state[t] \in Finalized =>
           state'[t] = state[t] /\ parcels'[t] = parcels[t] /\ recorded'[t] = recorded[t]
    BY <2>2, <2>3 DEF Finalized
  <2> PICK r : r = IdleBuild
    OBVIOUS
  <2> QED BY <2>3, <2>4, <2>6, <2>7, SingleBuild DEF IdleBuild
<1>14. ASSUME NEW b \in Builders, CrashBuild(b) PROVE SingleInv'
  BY <1>14, SingleHold DEF CrashBuild, Leave
<1>15. ASSUME NEW p \in Operators, ChooseReady(p) PROVE SingleInv'
  <2>1. \E q : Follows(p, q) /\ (q.pc = "switch" => state[q.sid] \in Finalized)
    BY <1>15 DEF ChooseReady, LastReady, Finalized
  <2> QED BY <1>15, <2>1, SingleCommand DEF ChooseReady, LastReady
<1>16. ASSUME NEW p \in Operators, ReadActive(p) PROVE SingleInv'
  <2>1. \E q : Follows(p, q) /\ (q.pc = "switch" => state[q.sid] \in Finalized)
    BY <1>16 DEF ReadActive
  <2> QED BY <1>16, <2>1, SingleCommand DEF ReadActive
<1>17. ASSUME NEW p \in Operators, ChoosePrevious(p) PROVE SingleInv'
  <2>1. \E q : Follows(p, q) /\ (q.pc = "switch" => state[q.sid] \in Finalized)
    <3>1. CASE Follows(p, IdleCommand)
      BY <3>1 DEF IdleCommand
    <3>2. CASE ~Follows(p, IdleCommand)
      <4>1. PICK i \in DOMAIN activations :
              /\ state[activations[i].sid] \in Finalized
              /\ Follows(p, [command[p] EXCEPT !.pc = "switch", !.sid = activations[i].sid])
        BY <1>17, <3>2 DEF ChoosePrevious
      <4> DEFINE q == [command[p] EXCEPT !.pc = "switch", !.sid = activations[i].sid]
      <4>2. q.sid = activations[i].sid
        BY DEF TypeOK, Commands
      <4> QED BY <4>1, <4>2
    <3> QED BY <3>1, <3>2
  <2> QED BY <1>17, <2>1, SingleCommand DEF ChoosePrevious
<1>18. ASSUME NEW p \in Operators, SwitchActive(p) PROVE SingleInv'
  <2> DEFINE s == command[p].sid
  <2>1. /\ UNCHANGED <<parcels, recorded, build>>
        /\ Follows(p, IdleCommand)
        /\ active' = s
        /\ \A t \in SnapshotIds :
              state'[t] = IF t = s THEN "active"
                          ELSE IF state[t] = "active" THEN "retired" ELSE state[t]
    BY <1>18 DEF SwitchActive, Activated, Closed
  <2>2. state[s] \in Finalized /\ s \in SnapshotIds
    BY <1>18 DEF SwitchActive, Activated, Closed, Waiting, SingleInv, TypeOK, Holding
  <2>3. \A t \in SnapshotIds : /\ state'[t] \in Finalized <=> state[t] \in Finalized
                               /\ state[t] = "building" <=> state'[t] = "building"
    BY <2>1, <2>2 DEF Finalized
  <2>4. \A c \in Builders : Owns(build[c])'
    <3> SUFFICES ASSUME NEW c \in Builders PROVE Owns(build[c])'
      OBVIOUS
    <3>1. Owns(build[c]) /\ (build[c].pc \notin Unchosen => build[c].sid \in SnapshotIds)
      BY DEF SingleInv, TypeOK, Holding
    <3> QED BY <2>1, <2>3, <3>1 DEF Owns, Ids
  <2>5. \A t \in SnapshotIds : state'[t] \in Finalized => Sound(t)'
    BY <2>1, <2>3 DEF SingleInv, Sound, Ids
  <2>6. \A c \in Operators : command'[c].pc = "switch" => state'[command'[c].sid] \in Finalized
    BY <2>1, <2>3 DEF SingleInv, Follows, IdleCommand, TypeOK, Holding
  <2>7. HistoryFinalized'
    <3> DEFINE closed == [i \in DOMAIN activations |-> [activations[i] EXCEPT !.open = FALSE]]
               n == Len(activations)
    <3>1. /\ n \in Nat /\ closed \in Seq(Rows) /\ Len(closed) = n
          /\ \A i \in 1 .. n : closed[i].sid = activations[i].sid
      <4>1. /\ closed \in [1 .. n -> Rows] /\ n \in Nat
            /\ \A i \in 1 .. n : closed[i].sid = activations[i].sid
        BY ActivationTypes DEF Rows
      <4> HIDE DEF closed, n
      <4> QED BY <4>1
    <3>2. activations' = Append(closed, [sid |-> s, open |-> TRUE])
      BY <1>18 DEF SwitchActive, Activated, Closed
    <3>3. \A i \in 1 .. n : activations[i].sid \in SnapshotIds /\ state[activations[i].sid] \in Finalized
      BY ActivationTypes DEF SingleInv, HistoryFinalized, Rows
    <3> HIDE DEF closed, n
    <3>4. \A i \in DOMAIN activations' :
            activations'[i].sid \in SnapshotIds /\ state[activations'[i].sid] \in Finalized
      BY <2>2, <3>1, <3>2, <3>3
    <3> QED BY <2>3, <3>4 DEF HistoryFinalized
  <2>8. ActiveStateIsPointer'
    BY <2>1, <2>2 DEF ActiveStateIsPointer
  <2> QED BY <2>4, <2>5, <2>6, <2>7, <2>8 DEF SingleInv
<1>19. ASSUME NEW p \in Operators, CrashCommand(p) PROVE SingleInv'
  BY <1>19, SingleCommand DEF CrashCommand, IdleCommand
<1>20. CASE UNCHANGED vars
  BY <1>20 DEF vars, snapshots, pointer, SingleInv, Owns, Sound, Ids, HistoryFinalized,
     ActiveStateIsPointer
<1> QED
  BY <1>1, <1>2, <1>3, <1>4, <1>5, <1>6, <1>7, <1>8, <1>9, <1>10, <1>11, <1>12, <1>13,
     <1>14, <1>15, <1>16, <1>17, <1>18, <1>19, <1>20 DEF Next, BuildStep, CommandStep

\* With one builder at a time the strengthening is an invariant.
THEOREM SingleBuilderInvariant ==
    ASSUME OneBuilder
    PROVE  Spec => [](TypeOK /\ CoverInv /\ SingleInv)
<1>1. Init => CoverInv /\ SingleInv
  BY CoverInit, SingleInit
<1>2. TypeOK /\ TypeOK' /\ CoverInv /\ SingleInv /\ [Next]_vars => CoverInv' /\ SingleInv'
  BY CoverStep, SingleStep
<1> QED BY <1>1, <1>2, TypeCorrect, PTL DEF Spec

\* One builder at a time: what a lookup can read is complete, well formed, and
\* what the recorded content hash says.
THEOREM FinalizedIsComplete ==
    ASSUME OneBuilder
    PROVE  Spec => []FinalizedComplete
<1>1. CoverInv /\ SingleInv => FinalizedComplete
  BY DEF CoverInv, RowsInv, Covered, SingleInv, Sound, FinalizedComplete
<1> QED BY <1>1, SingleBuilderInvariant, PTL

\* One builder at a time: the pointer, the newest activation and the 'active' row name
\* the same snapshot, and rollback finds only finalized snapshots in the history.
THEOREM PointerIsSound ==
    ASSUME OneBuilder
    PROVE  Spec => [](PointersAgree /\ HistoryFinalized)
<1>1. SingleInv /\ PointerIsLastActivation => PointersAgree /\ HistoryFinalized
  BY DEF SingleInv, PointersAgree
<1> QED BY <1>1, SingleBuilderInvariant, PointerFollowsHistory, PTL

\* What a step does to a snapshot that is finalized.
LEMMA ImmutableStep ==
    ASSUME OneBuilder
    PROVE  TypeOK /\ CoverInv /\ SingleInv /\ [Next]_vars => Immutable
<1> SUFFICES ASSUME TypeOK, CoverInv, SingleInv, [Next]_vars PROVE Immutable
  OBVIOUS
<1>1. CASE UNCHANGED <<state, parcels, inventory, recorded>>
  BY <1>1 DEF Immutable
<1>2. ASSUME NEW b \in Builders,
             BeginSnapshot(b) \/ SetInventory(b) \/ InsertBatch(b)
               \/ RecordManifest(b) \/ FinalizeSnapshot(b)
      PROVE  Immutable
  <2> DEFINE s == build[b].sid
  <2>1. CASE BeginSnapshot(b)
    <3>1. begun + 1 \in SnapshotIds /\ begun \in Nat
      BY <2>1, BoundsAssumption DEF BeginSnapshot, TypeOK, SnapshotIds
    <3>2. state[begun + 1] = "none"
      BY <3>1 DEF CoverInv, RowsInv
    <3> QED BY <2>1, <3>1, <3>2 DEF BeginSnapshot, Immutable, Finalized, TypeOK
  <2>2. CASE ~BeginSnapshot(b)
    <3>1. build[b].pc \notin Unchosen
      BY <1>2, <2>2 DEF SetInventory, InsertBatch, Upserted, RecordManifest, FinalizeSnapshot, At, Unchosen
    <3>2. s \in SnapshotIds /\ state[s] = "building"
      BY <3>1 DEF SingleInv, Owns, TypeOK, Holding
    <3>3. \A t \in SnapshotIds \ {s} :
            /\ parcels'[t] = parcels[t] /\ inventory'[t] = inventory[t]
            /\ recorded'[t] = recorded[t] /\ state'[t] = state[t]
      BY <1>2, <2>2 DEF SetInventory, InsertBatch, Upserted, RecordManifest, FinalizeSnapshot, TypeOK
    <3> QED BY <3>2, <3>3 DEF Immutable, Finalized
  <2> QED BY <2>1, <2>2
<1>3. ASSUME NEW p \in Operators, SwitchActive(p) PROVE Immutable
  BY <1>3 DEF SwitchActive, Activated, Closed, Waiting, Immutable, Finalized, SingleInv
<1> QED
  BY <1>1, <1>2, <1>3 DEF Next, BuildStep, CommandStep, vars, snapshots,
     EditSource, RequestInventory, FindResumable, ReadPersisted, FetchBatch, RejectBatch,
     HashContent, ValidateSnapshot, CrashBuild, ChooseReady, LastReady, ReadActive, ChoosePrevious,
     CrashCommand

\* One builder at a time: "a ready or active snapshot cannot be edited".
THEOREM FinalizedIsImmutable ==
    ASSUME OneBuilder
    PROVE  Spec => FinalizedImmutable
<1>1. TypeOK /\ CoverInv /\ SingleInv /\ [Next]_vars => [Immutable]_vars
  BY ImmutableStep
<1> QED BY <1>1, SingleBuilderInvariant, PTL DEF Spec, FinalizedImmutable

-------------------------------------------------------------------------------
(* Rollback.  It reads the pointer, then the history, then moves the       *)
(* pointer: three statements that another operator could come between.     *)

OneOperator == \A p, q \in Operators : p = q

\* A rollback under way has read the pointer as it still is, and is about to
\* switch to the newest activation of another snapshot.
RollingBack(r) ==
    /\ r.pc \in {"history", "switch"}
    /\ r.was = active
    /\ r.pc = "switch" =>
          \E i \in DOMAIN activations : PreviousRow(i, active) /\ activations[i].sid = r.sid

RollbackInv == \A p \in Operators : command[p].name = "rollback" => RollingBack(command[p])

LEMMA RollbackStep ==
    ASSUME OneOperator, TypeOK, RollbackInv, [Next]_vars
    PROVE  RollbackInv'
<1>1. CASE UNCHANGED <<pointer, command>>
  BY <1>1 DEF RollbackInv, RollingBack, PreviousRow, pointer
<1>2. ASSUME NEW p \in Operators, NEW r, Follows(p, r), UNCHANGED pointer,
             r.name = "rollback" => RollingBack(r)
      PROVE  RollbackInv'
  <2>1. command' = [command EXCEPT ![p] = r]
    BY <1>2 DEF Follows
  <2>2. \A q \in Operators : q = p
    BY DEF OneOperator
  <2>3. command'[p] = r
    BY <2>1 DEF TypeOK
  <2>4. r.name = "rollback" => RollingBack(r)'
    BY <1>2 DEF RollingBack, PreviousRow, pointer
  <2> QED BY <2>2, <2>3, <2>4 DEF RollbackInv, RollingBack
<1>3. ASSUME NEW p \in Operators, Follows(p, IdleCommand) PROVE RollbackInv'
  <2>1. command'[p] = IdleCommand
    BY <1>3 DEF Follows, TypeOK
  <2>2. IdleCommand.name # "rollback"
    BY DEF IdleCommand
  <2> QED BY <2>1, <2>2 DEF RollbackInv, OneOperator
<1>4. ASSUME NEW p \in Operators, ChooseReady(p) PROVE RollbackInv'
  <2>1. PICK s \in SnapshotIds :
          Follows(p, [pc |-> "switch", name |-> "activate", sid |-> s, was |-> active])
    BY <1>4 DEF ChooseReady
  <2>2. UNCHANGED pointer
    BY <1>4 DEF ChooseReady
  <2> QED BY <1>2, <2>1, <2>2
<1>5. ASSUME NEW p \in Operators, ReadActive(p) PROVE RollbackInv'
  <2> DEFINE r == [pc |-> "history", name |-> "rollback", sid |-> NoSnapshot, was |-> active]
  <2>1. Follows(p, r) /\ UNCHANGED pointer
    BY <1>5 DEF ReadActive
  <2>2. RollingBack(r)
    BY DEF RollingBack
  <2> QED BY <1>2, <2>1, <2>2
<1>6. ASSUME NEW p \in Operators, ChoosePrevious(p) PROVE RollbackInv'
  <2> DEFINE w == command[p].was
  <2>1. CASE Follows(p, IdleCommand)
    BY <1>3, <2>1
  <2>2. CASE ~Follows(p, IdleCommand)
    <3>1. PICK i \in DOMAIN activations :
            /\ PreviousRow(i, w)
            /\ Follows(p, [command[p] EXCEPT !.pc = "switch", !.sid = activations[i].sid])
      BY <1>6, <2>2 DEF ChoosePrevious
    <3>2. PICK r : r = [command[p] EXCEPT !.pc = "switch", !.sid = activations[i].sid]
      OBVIOUS
    <3>3. command[p] \in Commands
      BY DEF TypeOK
    <3>4. /\ r.pc = "switch" /\ r.sid = activations[i].sid
          /\ r.was = w /\ r.name = command[p].name
      BY <3>2, <3>3 DEF Commands
    <3>5. r.name = "rollback" => RollingBack(r)
      BY <3>1, <3>4 DEF RollbackInv, RollingBack
    <3>6. Follows(p, r) /\ UNCHANGED pointer
      BY <1>6, <3>1, <3>2 DEF ChoosePrevious
    <3> QED BY <1>2, <3>5, <3>6
  <2> QED BY <2>1, <2>2
<1>7. ASSUME NEW p \in Operators, SwitchActive(p) \/ CrashCommand(p) PROVE RollbackInv'
  BY <1>3, <1>7 DEF SwitchActive, CrashCommand
<1> QED
  BY <1>1, <1>4, <1>5, <1>6, <1>7 DEF Next, BuildStep, CommandStep, vars,
     EditSource, RequestInventory, FindResumable, BeginSnapshot, SetInventory, ReadPersisted,
     FetchBatch, RejectBatch, InsertBatch, HashContent, RecordManifest, ValidateSnapshot,
     FinalizeSnapshot, CrashBuild

\* Only activate's transaction adds to the history.
LEMMA OnlySwitchActivates ==
    ASSUME [Next]_vars, activations' # activations
    PROVE  \E p \in Operators : SwitchActive(p)
BY DEF Next, BuildStep, CommandStep, vars, pointer, EditSource, RequestInventory,
   FindResumable, BeginSnapshot, SetInventory, ReadPersisted, FetchBatch, RejectBatch,
   InsertBatch, HashContent, RecordManifest, ValidateSnapshot, FinalizeSnapshot, CrashBuild,
   ChooseReady, ReadActive, ChoosePrevious, CrashCommand

\* With one operator at a time, whatever the builders do: a rollback goes to the
\* snapshot that was active just before the active one, and never leaves the
\* pointer where it is.
THEOREM RollbackGoesBack ==
    ASSUME OneOperator
    PROVE  Spec => RollbackReturns
<1> DEFINE Returns ==
      \A p \in Operators :
         command[p].name = "rollback" /\ activations' # activations =>
            /\ active' # active
            /\ \E i \in DOMAIN activations :
                  /\ activations[i].sid = active'
                  /\ \A j \in DOMAIN activations : j > i => activations[j].sid = active
<1>1. Init => RollbackInv
  BY DEF Init, RollbackInv, IdleCommand
<1>2. TypeOK /\ RollbackInv /\ [Next]_vars => RollbackInv'
  BY RollbackStep
<1>3. ASSUME TypeOK, RollbackInv, [Next]_vars PROVE Returns
  <2> SUFFICES ASSUME NEW p \in Operators, command[p].name = "rollback",
                      activations' # activations
               PROVE  /\ active' # active
                      /\ \E i \in DOMAIN activations :
                            /\ activations[i].sid = active'
                            /\ \A j \in DOMAIN activations : j > i => activations[j].sid = active
    OBVIOUS
  <2>1. SwitchActive(p)
    BY <1>3, OnlySwitchActivates DEF OneOperator
  <2>2. active' = command[p].sid /\ command[p].pc = "switch"
    BY <2>1 DEF SwitchActive, Waiting
  <2>3. PICK i \in DOMAIN activations :
          PreviousRow(i, active) /\ activations[i].sid = command[p].sid
    BY <1>3, <2>2 DEF RollbackInv, RollingBack
  <2> QED BY <2>2, <2>3 DEF PreviousRow
<1>4. TypeOK /\ RollbackInv /\ [Next]_vars => [Returns]_vars
  BY <1>3
<1> QED BY <1>1, <1>2, <1>4, TypeCorrect, PTL DEF Spec, RollbackReturns

-------------------------------------------------------------------------------
(* The store implements PublishedSnapshots. *)

LEMMA PromiseInit == Init => Promise!Init
BY DEF Init, Promise!Init, Finalized

LEMMA PromiseStep ==
    ASSUME OneBuilder
    PROVE  TypeOK /\ TypeOK' /\ CoverInv /\ SingleInv /\ SingleInv' /\ CoverInv' /\ [Next]_vars
             => [Promise!Next]_(Promise!vars)
<1> SUFFICES ASSUME TypeOK, TypeOK', CoverInv, SingleInv, SingleInv', CoverInv', [Next]_vars
             PROVE  Promise!Next \/ UNCHANGED Promise!vars
  OBVIOUS
<1> DEFINE visible == [s \in SnapshotIds |->
                         IF state[s] \in Finalized THEN parcels[s] ELSE NotRecorded]
<1>1. Immutable
  BY ImmutableStep
<1>2. ASSUME visible' = visible, UNCHANGED active
      PROVE  UNCHANGED Promise!vars
  BY <1>2 DEF Promise!vars
<1>3. ASSUME \A s \in SnapshotIds : state'[s] \in Finalized <=> state[s] \in Finalized
      PROVE  visible' = visible
  BY <1>1, <1>3 DEF Immutable
<1>4. ASSUME NEW b \in Builders, FinalizeSnapshot(b)
      PROVE  Promise!Next \/ UNCHANGED Promise!vars
  <2> PICK s, c : s = build[b].sid /\ c = parcels[s]
    OBVIOUS
  <2>1. s \in SnapshotIds /\ state[s] = "building"
    BY <1>4 DEF FinalizeSnapshot, At, SingleInv, Owns, TypeOK, Holding, Unchosen
  <2>2. /\ UNCHANGED <<parcels, active>>
        /\ state'[s] = IF build[b].passed THEN "ready" ELSE "failed"
        /\ \A t \in SnapshotIds \ {s} : state'[t] = state[t]
    BY <1>4, <2>1 DEF FinalizeSnapshot, TypeOK, pointer
  <2>3. CASE ~build[b].passed
    <3>1. \A t \in SnapshotIds : state'[t] \in Finalized <=> state[t] \in Finalized
      BY <2>1, <2>2, <2>3 DEF Finalized
    <3> QED BY <1>2, <1>3, <2>2, <3>1
  <2>4. CASE build[b].passed
    <3>1. state'[s] \in Finalized /\ state[s] \notin Finalized
      BY <2>1, <2>2, <2>4 DEF Finalized
    <3>2. c \in Publishable
      <4>1. Covered(s)' /\ (s \in 1 .. begun' => expected'[s] # {})
        BY <2>1, <3>1 DEF CoverInv, RowsInv
      <4>2. Sound(s)'
        BY <2>1, <3>1 DEF SingleInv
      <4>3. parcels'[s] = c
        BY <2>2
      <4>4. Ids(c) # {} /\ \A o \in Ids(c) : c[o] \in WellFormed
        BY <4>1, <4>2, <4>3 DEF Covered, Sound, Ids
      <4> QED BY <2>1, <4>4 DEF Publishable, TypeOK
    <3>3. visible[s] = NotRecorded
      BY <2>1, <3>1
    <3>4. visible' = [visible EXCEPT ![s] = c]
      BY <2>1, <2>2, <3>1
    <3>5. Promise!Publish(s, c)
      BY <2>2, <3>3, <3>4 DEF Promise!Publish
    <3> QED BY <2>1, <3>2, <3>5 DEF Promise!Next
  <2> QED BY <2>3, <2>4
<1>5. ASSUME NEW p \in Operators, SwitchActive(p)
      PROVE  Promise!Next \/ UNCHANGED Promise!vars
  <2> DEFINE s == command[p].sid
  <2>1. s \in SnapshotIds /\ state[s] \in Finalized
    BY <1>5 DEF SwitchActive, Activated, Closed, Waiting, SingleInv, TypeOK, Holding
  <2>2. active' = s /\ \A t \in SnapshotIds : state'[t] \in Finalized <=> state[t] \in Finalized
    BY <1>5, <2>1 DEF SwitchActive, Activated, Closed, Finalized
  <2>3. visible' = visible
    BY <1>3, <2>2
  <2>4. visible[s] # NotRecorded
    BY <2>1, NotRecordedAssumption DEF TypeOK, Contents
  <2>5. Promise!Switch(s)
    BY <2>2, <2>3, <2>4 DEF Promise!Switch
  <2> QED BY <2>1, <2>5 DEF Promise!Next
<1>6. ASSUME NEW b \in Builders, BeginSnapshot(b)
      PROVE  UNCHANGED Promise!vars
  <2>1. begun + 1 \in SnapshotIds /\ begun \in Nat
    BY <1>6, BoundsAssumption DEF BeginSnapshot, TypeOK, SnapshotIds
  <2>2. state[begun + 1] = "none"
    BY <2>1 DEF CoverInv, RowsInv
  <2>3. \A t \in SnapshotIds : state'[t] \in Finalized <=> state[t] \in Finalized
    BY <1>6, <2>1, <2>2 DEF BeginSnapshot, Finalized, TypeOK
  <2>4. UNCHANGED active
    BY <1>6 DEF BeginSnapshot, pointer
  <2> QED BY <1>2, <1>3, <2>3, <2>4
<1>7. CASE UNCHANGED <<state, active>>
  BY <1>2, <1>3, <1>7
<1> QED
  BY <1>4, <1>5, <1>6, <1>7 DEF Next, BuildStep, CommandStep, vars, snapshots, pointer,
     EditSource, RequestInventory, FindResumable, SetInventory, ReadPersisted, FetchBatch,
     RejectBatch, InsertBatch, Upserted, HashContent, RecordManifest, ValidateSnapshot, CrashBuild,
     ChooseReady, LastReady, ReadActive, ChoosePrevious, CrashCommand

\* One builder at a time: the parcel store keeps the promise of PublishedSnapshots.
THEOREM StoreKeepsPromise ==
    ASSUME OneBuilder
    PROVE  Spec => KeepsPromise
<1>1. Init => Promise!Init
  BY PromiseInit
<1>2. TypeOK /\ TypeOK' /\ CoverInv /\ SingleInv /\ SingleInv' /\ CoverInv' /\ [Next]_vars
        => [Promise!Next]_(Promise!vars)
  BY PromiseStep
<1> QED BY <1>1, <1>2, SingleBuilderInvariant, PTL DEF Spec, KeepsPromise, Promise!Spec
===============================================================================
