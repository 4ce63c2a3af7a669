----------------------------- MODULE SnapshotStore -----------------------------
(***************************************************************************)
(* The parcel snapshot store and the commands that use it.                 *)
(*                                                                         *)
(* One SQLite file is shared by processes: builders run "db parcels build" *)
(* (inventory request, resume or begin, batches, finalize), operators run  *)
(* "db parcels activate" and "db parcels rollback".  A step is one SQLite  *)
(* transaction, or the reads and source answer between two transactions.   *)
(* A check that a method makes before its transaction therefore belongs to *)
(* the step before it, and another process may run in between.             *)
(*                                                                         *)
(* Warnings, timestamps and manifest wording are left out: no condition of *)
(* the code reads them.  The counts received_count and expected_count are  *)
(* those of the sets kept here.                                            *)
(***************************************************************************)
EXTENDS Integers, Sequences, FiniteSets

CONSTANTS
    Builders,       \* processes that run build
    Operators,      \* processes that run activate and rollback
    ObjectIds,      \* the ObjectIDs Layer 13 may contain
    Payloads,       \* contents a source feature may have
    Usable,         \* payloads the importer accepts
    WellFormed,     \* usable payloads the store's validation accepts
    NoFeature,      \* no row, or no source feature, under an ObjectID
    NoSnapshot,     \* no snapshot
    NotRecorded,    \* no content hash in the metadata yet
    BatchSize,      \* SnapshotIngestionConfig.batch_size
    MaxSnapshots,   \* bound: snapshots ever begun
    MaxActivations, \* bound: activation rows, counting the commands under way
    MaxEdits,       \* bound: changes of the source
    MaxFaults       \* bound: crashes and defective answers of the source

ASSUME SetsAssumption ==
    /\ ObjectIds \subseteq Nat
    /\ WellFormed \subseteq Usable
    /\ Usable \subseteq Payloads
    /\ NoFeature \notin Payloads
ASSUME BoundsAssumption ==
    /\ BatchSize \in Nat \ {0}
    /\ MaxSnapshots \in Nat
    /\ MaxActivations \in Nat
    /\ MaxEdits \in Nat
    /\ MaxFaults \in Nat
ASSUME NoSnapshotAssumption == NoSnapshot \notin Nat
ASSUME NotRecordedAssumption ==
    NotRecorded \notin [ObjectIds -> Payloads \cup {NoFeature}]
ASSUME ProcessesAssumption == Builders \cap Operators = {}

SnapshotIds == 1 .. MaxSnapshots
Contents == [ObjectIds -> Payloads \cup {NoFeature}]
NoRows == [o \in ObjectIds |-> NoFeature]

\* The ObjectIDs that have a feature in content c.
Ids(c) == {o \in ObjectIds : c[o] # NoFeature}

\* The CHECK constraint of the snapshots table, and a row not yet inserted.
States == {"none", "building", "ready", "active", "retired", "failed"}
Finalized == {"ready", "active", "retired"}

VARIABLES
    upstream,       \* the features Layer 13 has now
    edits,          \* changes of the source so far
    faults,         \* crashes and defective answers so far
    begun,          \* the last AUTOINCREMENT identifier handed out
    state,          \* snapshots.state
    expected,       \* the inventory of begin_snapshot: inventory_hash and expected_count
    inventory,      \* snapshot_inventory rows
    parcels,        \* parcels rows
    recorded,       \* manifest content_hash in metadata_json
    activations,    \* snapshot_activations rows
    active,         \* meta.active_snapshot_id
    build,          \* what each builder process holds
    command         \* what each operator process holds

source == <<upstream, edits>>
snapshots == <<begun, state, expected, inventory, parcels, recorded>>
pointer == <<activations, active>>
vars == <<source, faults, snapshots, pointer, build, command>>

IdleBuild ==
    [pc |-> "idle", sid |-> NoSnapshot, want |-> {}, known |-> {}, todo |-> {},
     rows |-> NoRows, hash |-> NotRecorded, flawed |-> FALSE, passed |-> FALSE]
IdleCommand == [pc |-> "idle", name |-> "none", sid |-> NoSnapshot, was |-> NoSnapshot]

Init ==
    /\ upstream \in Contents
    /\ edits = 0
    /\ faults = 0
    /\ begun = 0
    /\ state = [s \in SnapshotIds |-> "none"]
    /\ expected = [s \in SnapshotIds |-> {}]
    /\ inventory = [s \in SnapshotIds |-> {}]
    /\ parcels = [s \in SnapshotIds |-> NoRows]
    /\ recorded = [s \in SnapshotIds |-> NotRecorded]
    /\ activations = <<>>
    /\ active = NoSnapshot
    /\ build = [b \in Builders |-> IdleBuild]
    /\ command = [p \in Operators |-> IdleCommand]

-------------------------------------------------------------------------------
(* The official source. *)

\* MCGM adds, removes or edits one feature.
EditSource ==
    /\ edits < MaxEdits
    /\ \E o \in ObjectIds, x \in Payloads \cup {NoFeature} :
          /\ x # upstream[o]
          /\ upstream' = [upstream EXCEPT ![o] = x]
    /\ edits' = edits + 1
    /\ UNCHANGED <<faults, snapshots, pointer, build, command>>

-------------------------------------------------------------------------------
(* Build: import the source into a building snapshot and finalize it. *)

At(b, pc) == build[b].pc = pc
Holds(b, r) == build' = [build EXCEPT ![b] = r]
Leave(b) == Holds(b, IdleBuild)

\* Mutant: an interrupted build is recognised by its persisted inventory rows.
ResumableByRows(ids) == {s \in SnapshotIds : state[s] = "building" /\ inventory[s] = ids}

\* A building snapshot that was begun for exactly these ObjectIDs.
Resumable(ids) == {s \in SnapshotIds : state[s] = "building" /\ expected[s] = ids}

\* The inventory request; an empty inventory is refused.
RequestInventory(b) ==
    /\ At(b, "idle")
    /\ Ids(upstream) # {}
    /\ begun < MaxSnapshots \/ Resumable(Ids(upstream)) # {}
    /\ Holds(b, [IdleBuild EXCEPT !.pc = "find", !.want = Ids(upstream)])
    /\ UNCHANGED <<source, faults, snapshots, pointer, command>>

\* find_resumable_snapshot takes the newest one.
FindResumable(b) ==
    /\ At(b, "find")
    /\ LET found == Resumable(build[b].want) IN
         \/ /\ found = {}
            /\ Holds(b, [build[b] EXCEPT !.pc = "begin"])
         \/ \E s \in found :
              /\ \A t \in found : t <= s
              /\ Holds(b, [build[b] EXCEPT !.pc = "inventory", !.sid = s])
    /\ UNCHANGED <<source, faults, snapshots, pointer, command>>

BeginSnapshot(b) ==
    /\ At(b, "begin")
    /\ begun < MaxSnapshots
    /\ LET s == begun + 1 IN
         /\ begun' = s
         /\ state' = [state EXCEPT ![s] = "building"]
         /\ expected' = [expected EXCEPT ![s] = build[b].want]
         /\ Holds(b, [build[b] EXCEPT !.pc = "inventory", !.sid = s])
    /\ UNCHANGED <<source, faults, inventory, parcels, recorded, pointer, command>>

\* set_inventory: the first writer persists the ObjectIDs, a later one must agree.
SetInventory(b) ==
    LET s == build[b].sid IN
    /\ At(b, "inventory")
    /\ \/ /\ inventory[s] \in {{}, build[b].want}
          /\ inventory' = [inventory EXCEPT ![s] = build[b].want]
          /\ Holds(b, [build[b] EXCEPT !.pc = "persisted"])
       \/ /\ inventory[s] \notin {{}, build[b].want}
          /\ Leave(b)
          /\ UNCHANGED inventory
    /\ UNCHANGED <<source, faults, begun, state, expected, parcels, recorded, pointer, command>>

\* object_ids: rows already committed are skipped by this run.
ReadPersisted(b) ==
    LET stored == Ids(parcels[build[b].sid]) IN
    /\ At(b, "persisted")
    /\ \/ /\ stored \subseteq build[b].want
          /\ Holds(b, [build[b] EXCEPT !.pc = "fetch", !.known = stored,
                                        !.todo = build[b].want \ stored])
       \/ /\ ~(stored \subseteq build[b].want)
          /\ Leave(b)
    /\ UNCHANGED <<source, faults, snapshots, pointer, command>>

\* The next bounded batch: the smallest ObjectIDs still to request.
NextBatch(todo) == {o \in todo : Cardinality({p \in todo : p < o}) < BatchSize}

\* What the importer accepts of an answer: usable, expected and not yet received.
Accepted(b, answer) ==
    {o \in answer : /\ upstream[o] \in Usable
                    /\ o \in build[b].want
                    /\ o \notin build[b].known}
Extra(b, answer) == {o \in answer : upstream[o] \in Usable /\ o \notin build[b].want}

\* One POST batch is answered.  A defective answer misses requested features or
\* contains features nobody asked for.
FetchBatch(b) ==
    LET batch == NextBatch(build[b].todo) IN
    /\ At(b, "fetch")
    /\ build[b].todo # {}
    /\ \E answer \in SUBSET Ids(upstream) :
         LET accepted == Accepted(b, answer)
             exact == answer = batch \cap Ids(upstream)
         IN
         /\ exact \/ faults < MaxFaults
         /\ faults' = IF exact THEN faults ELSE faults + 1
         /\ \/ /\ accepted = {} \/ state[build[b].sid] = "building"
               /\ Holds(b, [build[b] EXCEPT
                    !.pc = IF accepted = {} THEN "fetch" ELSE "insert",
                    !.known = @ \cup accepted,
                    !.todo = @ \ batch,
                    !.rows = [o \in ObjectIds |->
                                IF o \in accepted THEN upstream[o] ELSE NoFeature],
                    !.flawed = @ \/ Extra(b, answer) # {}])
            \/ /\ accepted # {} /\ state[build[b].sid] # "building"
               /\ Leave(b)
    /\ UNCHANGED <<source, snapshots, pointer, command>>

\* The retries of a batch are exhausted: its ObjectIDs are rejected, the run goes on.
RejectBatch(b) ==
    /\ At(b, "fetch")
    /\ build[b].todo # {}
    /\ faults < MaxFaults
    /\ faults' = faults + 1
    /\ Holds(b, [build[b] EXCEPT !.todo = @ \ NextBatch(@), !.flawed = TRUE])
    /\ UNCHANGED <<source, snapshots, pointer, command>>

\* INSERT ... ON CONFLICT DO UPDATE
Upserted(rows, batch) ==
    [o \in ObjectIds |-> IF batch[o] # NoFeature THEN batch[o] ELSE rows[o]]

\* insert_batch's transaction, which does not look at the state again.
InsertBatch(b) ==
    LET s == build[b].sid IN
    /\ At(b, "insert")
    /\ parcels' = [parcels EXCEPT ![s] = Upserted(@, build[b].rows)]
    /\ Holds(b, [build[b] EXCEPT !.pc = "fetch", !.rows = NoRows])
    /\ UNCHANGED <<source, faults, begun, state, expected, inventory, recorded, pointer, command>>

\* SnapshotManifest.complete
Complete(b) == build[b].want \subseteq build[b].known /\ ~build[b].flawed

\* A complete run hashes what the store holds now; an incomplete one has no hash.
HashContent(b) ==
    LET s == build[b].sid IN
    /\ At(b, "fetch")
    /\ build[b].todo = {}
    /\ \/ /\ state[s] = "building"
          /\ Holds(b, [build[b] EXCEPT !.pc = "record",
                !.hash = IF Complete(b) THEN parcels[s] ELSE NotRecorded])
       \/ /\ state[s] # "building"
          /\ Leave(b)
    /\ UNCHANGED <<source, faults, snapshots, pointer, command>>

\* update_snapshot_metadata.  An incomplete run then ends with an error; its
\* metadata keeps the inventory hash, so the snapshot stays resumable.
RecordManifest(b) ==
    /\ At(b, "record")
    /\ recorded' = [recorded EXCEPT ![build[b].sid] = build[b].hash]
    /\ \/ /\ Complete(b)
          /\ Holds(b, [build[b] EXCEPT !.pc = "validate"])
       \/ /\ ~Complete(b)
          /\ Leave(b)
    /\ UNCHANGED <<source, faults, begun, state, expected, inventory, parcels, pointer, command>>

\* Mutant: geometries are not validated.
ValidCounts(s) ==
    /\ Cardinality(Ids(parcels[s])) = Cardinality(expected[s])
    /\ inventory[s] # {} => Ids(parcels[s]) = inventory[s]

\* validate_snapshot: counts, set equality with the inventory, every geometry.
Valid(s) ==
    /\ Cardinality(Ids(parcels[s])) = Cardinality(expected[s])
    /\ inventory[s] # {} => /\ Cardinality(inventory[s]) = Cardinality(expected[s])
                            /\ Ids(parcels[s]) = inventory[s]
    /\ \A o \in Ids(parcels[s]) : parcels[s][o] \in WellFormed

\* finalize_snapshot up to its transaction.
ValidateSnapshot(b) ==
    LET s == build[b].sid IN
    /\ At(b, "validate")
    /\ \/ /\ state[s] = "building"
          /\ Holds(b, [build[b] EXCEPT !.pc = "finalize", !.passed = Valid(s)])
       \/ /\ state[s] # "building"
          /\ Leave(b)
    /\ UNCHANGED <<source, faults, snapshots, pointer, command>>

\* finalize_snapshot's transaction.
FinalizeSnapshot(b) ==
    /\ At(b, "finalize")
    /\ state' = [state EXCEPT ![build[b].sid] =
                   IF build[b].passed THEN "ready" ELSE "failed"]
    /\ Leave(b)
    /\ UNCHANGED <<source, faults, begun, expected, inventory, parcels, recorded, pointer, command>>

\* The process dies, or a statement raises: SQLite rolls the open transaction
\* back, so exactly the committed steps remain.
CrashBuild(b) ==
    /\ ~At(b, "idle")
    /\ faults < MaxFaults
    /\ faults' = faults + 1
    /\ Leave(b)
    /\ UNCHANGED <<source, snapshots, pointer, command>>

-------------------------------------------------------------------------------
(* Activate and rollback: move the pointer. *)

Waiting(p, pc) == command[p].pc = pc
Follows(p, r) == command' = [command EXCEPT ![p] = r]

\* The bound MaxActivations, kept so that every command that starts can finish.
MayCommand ==
    Len(activations) + Cardinality({p \in Operators : ~Waiting(p, "idle")}) < MaxActivations

LastReady(s) ==
    /\ state[s] = "ready"
    /\ \A t \in SnapshotIds : state[t] = "ready" => t <= s

\* "activate" takes the last ready snapshot of status().
ChooseReady(p) ==
    /\ Waiting(p, "idle")
    /\ MayCommand
    /\ \E s \in SnapshotIds :
         /\ LastReady(s)
         /\ Follows(p, [pc |-> "switch", name |-> "activate", sid |-> s, was |-> active])
    /\ UNCHANGED <<source, faults, snapshots, pointer, build>>

\* Mutant: rollback goes to its transaction before it has a target.
ReadActiveOnly(p) ==
    /\ Waiting(p, "idle")
    /\ MayCommand
    /\ Follows(p, [pc |-> "switch", name |-> "rollback", sid |-> NoSnapshot, was |-> active])
    /\ UNCHANGED <<source, faults, snapshots, pointer, build>>

\* "rollback" first reads the pointer ...
ReadActive(p) ==
    /\ Waiting(p, "idle")
    /\ MayCommand
    /\ Follows(p, [pc |-> "history", name |-> "rollback", sid |-> NoSnapshot, was |-> active])
    /\ UNCHANGED <<source, faults, snapshots, pointer, build>>

\* Mutant: the newest activation, the active snapshot's own included.
NewestRow(i, w) == i \in DOMAIN activations /\ i = Len(activations)

\* The newest activation of another snapshot than w.
PreviousRow(i, w) ==
    /\ i \in DOMAIN activations
    /\ activations[i].sid # w
    /\ \A j \in DOMAIN activations : j > i => activations[j].sid = w

\* ... and then the history; activate() checks the state it finds.
ChoosePrevious(p) ==
    LET w == command[p].was IN
    /\ Waiting(p, "history")
    /\ \/ \E i \in DOMAIN activations :
            /\ PreviousRow(i, w)
            /\ state[activations[i].sid] \in Finalized
            /\ Follows(p, [command[p] EXCEPT !.pc = "switch", !.sid = activations[i].sid])
       \/ /\ \A i \in DOMAIN activations :
               PreviousRow(i, w) => state[activations[i].sid] \notin Finalized
          /\ Follows(p, IdleCommand)
    /\ UNCHANGED <<source, faults, snapshots, pointer, build>>

\* Mutants: the superseded snapshot stays active; it becomes ready again; the
\* superseded rows stay open.
ActivatedBeside(s) == [state EXCEPT ![s] = "active"]
ActivatedReady(s) ==
    [t \in SnapshotIds |->
       IF t = s THEN "active" ELSE IF state[t] = "active" THEN "ready" ELSE state[t]]
StillOpen(rows) == rows

Activated(s) ==
    [t \in SnapshotIds |->
       IF t = s THEN "active" ELSE IF state[t] = "active" THEN "retired" ELSE state[t]]
Closed(rows) == [i \in DOMAIN rows |-> [rows[i] EXCEPT !.open = FALSE]]

\* activate's transaction.
SwitchActive(p) ==
    LET s == command[p].sid IN
    /\ Waiting(p, "switch")
    /\ state' = Activated(s)
    /\ activations' = Append(Closed(activations), [sid |-> s, open |-> TRUE])
    /\ active' = s
    /\ Follows(p, IdleCommand)
    /\ UNCHANGED <<source, faults, begun, expected, inventory, parcels, recorded, build>>

CrashCommand(p) ==
    /\ ~Waiting(p, "idle")
    /\ faults < MaxFaults
    /\ faults' = faults + 1
    /\ Follows(p, IdleCommand)
    /\ UNCHANGED <<source, snapshots, pointer, build>>

-------------------------------------------------------------------------------

BuildStep(b) ==
    \/ FindResumable(b) \/ BeginSnapshot(b) \/ SetInventory(b) \/ ReadPersisted(b)
    \/ FetchBatch(b) \/ RejectBatch(b) \/ InsertBatch(b)
    \/ HashContent(b) \/ RecordManifest(b)
    \/ ValidateSnapshot(b) \/ FinalizeSnapshot(b)

CommandStep(p) == ChoosePrevious(p) \/ SwitchActive(p)

Next ==
    \/ EditSource
    \/ \E b \in Builders : RequestInventory(b) \/ BuildStep(b) \/ CrashBuild(b)
    \/ \E p \in Operators :
         ChooseReady(p) \/ ReadActive(p) \/ CommandStep(p) \/ CrashCommand(p)

Spec == Init /\ [][Next]_vars

\* A started command is straight-line code: it goes on unless it crashes.  An
\* operator whose build did not publish runs the same command again.
Fairness ==
    /\ \A b \in Builders : WF_vars(BuildStep(b)) /\ WF_vars(RequestInventory(b))
    /\ \A p \in Operators : WF_vars(CommandStep(p))
FairSpec == Spec /\ Fairness

-------------------------------------------------------------------------------
(* Properties. *)

BuildPcs == {"idle", "find", "begin", "inventory", "persisted", "fetch", "insert",
             "record", "validate", "finalize"}
Builds == [pc: BuildPcs, sid: SnapshotIds \cup {NoSnapshot}, want: SUBSET ObjectIds,
           known: SUBSET ObjectIds, todo: SUBSET ObjectIds, rows: Contents,
           hash: Contents \cup {NotRecorded}, flawed: BOOLEAN, passed: BOOLEAN]
Commands == [pc: {"idle", "history", "switch"}, name: {"none", "activate", "rollback"},
             sid: SnapshotIds \cup {NoSnapshot}, was: SnapshotIds \cup {NoSnapshot}]

\* A process that has chosen a snapshot holds its identifier.
Unchosen == {"idle", "find", "begin"}
Holding ==
    /\ \A b \in Builders : build[b].pc \notin Unchosen => build[b].sid \in SnapshotIds
    /\ \A p \in Operators : command[p].pc = "switch" => command[p].sid \in SnapshotIds

Rows == [sid: SnapshotIds, open: BOOLEAN]

\* The types of the database's columns and of what the processes hold.
TypeOK ==
    /\ upstream \in Contents
    /\ edits \in Nat
    /\ faults \in Nat
    /\ begun \in 0 .. MaxSnapshots
    /\ state \in [SnapshotIds -> States]
    /\ expected \in [SnapshotIds -> SUBSET ObjectIds]
    /\ inventory \in [SnapshotIds -> SUBSET ObjectIds]
    /\ parcels \in [SnapshotIds -> Contents]
    /\ recorded \in [SnapshotIds -> Contents \cup {NotRecorded}]
    /\ activations \in Seq(Rows)
    /\ active \in SnapshotIds \cup {NoSnapshot}
    /\ build \in [Builders -> Builds]
    /\ command \in [Operators -> Commands]
    /\ Holding

\* meta.active_snapshot_id, which lookups read, names the snapshot of the one
\* activation row that is still open, and that is the newest row.
PointerIsLastActivation ==
    /\ active = IF activations = <<>> THEN NoSnapshot ELSE activations[Len(activations)].sid
    /\ \A i \in DOMAIN activations : activations[i].open <=> i = Len(activations)

\* The lifecycle column agrees with the pointer: the pointed snapshot, and no
\* other, has state 'active'.
ActiveStateIsPointer == \A s \in SnapshotIds : state[s] = "active" <=> s = active

\* However commands interleave and crash: the pointer that lookups read, the history
\* that rollback searches and the lifecycle column name the same snapshot.
PointersAgree == PointerIsLastActivation /\ ActiveStateIsPointer

\* A snapshot a lookup may read holds exactly the inventory it was begun for,
\* every geometry passes validation, and the recorded hash is that of its rows.
FinalizedComplete ==
    \A s \in SnapshotIds : state[s] \in Finalized =>
        /\ expected[s] # {}
        /\ Ids(parcels[s]) = expected[s]
        /\ inventory[s] = expected[s]
        /\ \A o \in Ids(parcels[s]) : parcels[s][o] \in WellFormed
        /\ recorded[s] = parcels[s]

\* Rollback can reach only snapshots that were validated, so it never fails on
\* a row of the activation history.
HistoryFinalized == \A i \in DOMAIN activations : state[activations[i].sid] \in Finalized

\* Even when two builders work on one snapshot: once it is finalized it holds
\* exactly the inventory it was begun for, and never again another set of ObjectIDs.
CoverageSurvives ==
    \A s \in SnapshotIds : state[s] \in Finalized =>
        Ids(parcels[s]) = expected[s] /\ inventory[s] = expected[s]

\* Even when two builders work on one snapshot: at most one row has state
\* 'active', and it is the pointed one.
AtMostOneActive == \A s \in SnapshotIds : state[s] = "active" => s = active

Immutable ==
    \A s \in SnapshotIds : state[s] \in Finalized =>
        /\ parcels'[s] = parcels[s]
        /\ inventory'[s] = inventory[s]
        /\ recorded'[s] = recorded[s]
        /\ state'[s] \in Finalized
        /\ state'[s] = "ready" => state[s] = "ready"

\* "A ready or active snapshot cannot be edited": neither its rows, nor its
\* inventory or hash, and it never leaves the finalized states or becomes ready again.
FinalizedImmutable == [][Immutable]_vars

\* With one operator, a rollback returns to the snapshot that was active just
\* before the active one, and never leaves the pointer where it is.
RollbackReturns ==
    [][\A p \in Operators :
          command[p].name = "rollback" /\ activations' # activations =>
             /\ active' # active
             /\ \E i \in DOMAIN activations :
                   /\ activations[i].sid = active'
                   /\ \A j \in DOMAIN activations : j > i => activations[j].sid = active]_vars

\* "If interrupted, rerun the same command": whatever was committed before a
\* crash or an incomplete answer, the reruns finish that very snapshot, unless the
\* source's inventory changed or has a feature the importer must drop.
InterruptedBuildFinishes ==
    \A s \in SnapshotIds :
        state[s] = "building" ~>
            \/ state[s] # "building"
            \/ expected[s] # Ids(upstream)
            \/ \E o \in Ids(upstream) : upstream[o] \notin Usable

Publishable == {c \in Contents : Ids(c) # {} /\ \A o \in Ids(c) : c[o] \in WellFormed}
Promise == INSTANCE PublishedSnapshots WITH
    Contents <- Publishable,
    Unpublished <- NotRecorded,
    visible <- [s \in SnapshotIds |->
                  IF state[s] \in Finalized THEN parcels[s] ELSE NotRecorded],
    current <- active

\* With one builder at a time, the store keeps the promise of PublishedSnapshots:
\* a snapshot becomes visible once, complete, and stays as it is.
KeepsPromise == Promise!Spec
===============================================================================
