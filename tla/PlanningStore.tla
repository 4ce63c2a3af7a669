----------------------------- MODULE PlanningStore -----------------------------
(***************************************************************************)
(* The planning snapshot store and the commands that use it.               *)
(*                                                                         *)
(* A planning snapshot holds one inventory and one set of features per     *)
(* canonical layer.  A full build downloads every layer; an incremental    *)
(* build downloads the layers it was asked to refresh, copies the others   *)
(* from the active snapshot, and compares the source with that snapshot    *)
(* before and after.  Both can be interrupted and are resumed by running   *)
(* the same command again.                                                 *)
(*                                                                         *)
(* One build runs at a time, next to operators that activate and roll      *)
(* back: only the build moves a snapshot out of 'building', so the state   *)
(* check of a store method and its transaction are one step here.  (Module *)
(* SnapshotStore shows what concurrent builds can do.)  A request for the  *)
(* source is a step of its own; an upstream check, one request per layer,  *)
(* is taken at one instant.  Edit dates and layer metadata are left out of *)
(* the check: a layer need not have them, and inventories are what every   *)
(* layer is compared by.                                                   *)
(***************************************************************************)
EXTENDS Integers, Sequences, FiniteSets

CONSTANTS
    Layers,         \* the canonical layers of the registry
    ObjectIds,      \* the object IDs a layer may contain
    Payloads,       \* contents a source feature may have
    Jobs,           \* the layer sets an operator asks to refresh; {} is a full build
    Operators,      \* processes that run activate and rollback
    NoFeature,      \* no row, or no source feature, under an object ID
    NoSnapshot,     \* no snapshot
    NotRecorded,    \* no content hash yet
    BatchSize,      \* PlanningIngestionConfig.batch_size
    MaxSnapshots,   \* bound: snapshots ever begun
    MaxActivations, \* bound: activation rows, counting the commands under way
    MaxEdits,       \* bound: changes of the source
    MaxFaults       \* bound: crashes, failed requests and defective answers

ASSUME PlanningSets ==
    /\ Layers \subseteq Nat
    /\ ObjectIds \subseteq Nat /\ IsFiniteSet(ObjectIds)
    /\ Jobs \subseteq SUBSET Layers
    /\ NoFeature \notin Payloads
ASSUME PlanningBounds ==
    /\ BatchSize \in Nat \ {0}
    /\ MaxSnapshots \in Nat
    /\ MaxActivations \in Nat
    /\ MaxEdits \in Nat
    /\ MaxFaults \in Nat
ASSUME PlanningNoSnapshot == NoSnapshot \notin Nat

SnapshotIds == 1 .. MaxSnapshots
Contents == [ObjectIds -> Payloads \cup {NoFeature}]
NoRows == [o \in ObjectIds |-> NoFeature]
Ids(c) == {o \in ObjectIds : c[o] # NoFeature}
Inventories(c) == [l \in Layers |-> Ids(c[l])]

States == {"none", "building", "ready", "active", "retired", "failed"}
Finalized == {"ready", "active", "retired"}

ASSUME PlanningNotRecorded ==
    /\ NotRecorded \notin Contents
    /\ NotRecorded \notin [Layers -> [inventory : SUBSET ObjectIds, rows : Contents]]

VARIABLES
    upstream,       \* upstream[l]: the features layer l has at the source
    edits,          \* changes of the source so far
    faults,         \* crashes, failed requests and defective answers so far
    begun,          \* the last snapshot_id, which is also the last version
    state,          \* planning_snapshots.state
    contract,       \* source_metadata_json: base, refreshed layers, fingerprints
    layers,         \* rows of planning_layers, their inventory and their features
    activations,    \* planning_activations rows
    build,          \* what the build process holds
    command         \* what each operator process holds

source == <<upstream, edits>>
snapshots == <<begun, state, contract, layers>>
vars == <<source, faults, snapshots, activations, build, command>>

\* hash is the content_hash column, which a copy does not inherit.
NoLayer == [registered |-> FALSE, count |-> 0, inventory |-> {}, rows |-> NoRows,
            from |-> NoSnapshot, hash |-> NotRecorded]
NoContract == [base |-> NoSnapshot, refresh |-> {}, prints |-> [l \in Layers |-> {}]]
IdleBuild == [pc |-> "idle", sid |-> NoSnapshot, terms |-> NoContract, left |-> {},
              layer |-> NoSnapshot, want |-> {}, known |-> {}, todo |-> {},
              rows |-> NoRows, flawed |-> FALSE, incomplete |-> FALSE]
IdleCommand == [pc |-> "idle", sid |-> NoSnapshot, was |-> NoSnapshot]

Init ==
    /\ upstream \in [Layers -> Contents]
    /\ edits = 0
    /\ faults = 0
    /\ begun = 0
    /\ state = [s \in SnapshotIds |-> "none"]
    /\ contract = [s \in SnapshotIds |-> NoContract]
    /\ layers = [s \in SnapshotIds |-> [l \in Layers |-> NoLayer]]
    /\ activations = <<>>
    /\ build = IdleBuild
    /\ command = [p \in Operators |-> IdleCommand]

-------------------------------------------------------------------------------
(* The official source. *)

\* MCGM adds, removes or edits one feature of one layer.
EditSource ==
    /\ edits < MaxEdits
    /\ \E l \in Layers, o \in ObjectIds, x \in Payloads \cup {NoFeature} :
          /\ x # upstream[l][o]
          /\ upstream' = [upstream EXCEPT ![l][o] = x]
    /\ edits' = edits + 1
    /\ UNCHANGED <<faults, snapshots, activations, build, command>>

Fault ==
    /\ faults < MaxFaults
    /\ faults' = faults + 1

-------------------------------------------------------------------------------
(* Which snapshot a build works on. *)

At(pc) == build.pc = pc
Leave == build' = IdleBuild
Incremental == build.terms.base # NoSnapshot

\* active_snapshot_id: the newest activation that is still open.
Open == {i \in DOMAIN activations : activations[i].open}
ActiveId ==
    IF Open = {} THEN NoSnapshot
    ELSE activations[CHOOSE i \in Open : \A j \in Open : j <= i].sid

\* Mutant: a build is recognised once its first layer is registered.
ResumableOnceRegistered(terms) ==
    {s \in SnapshotIds : /\ state[s] = "building"
                         /\ contract[s].base = terms.base
                         /\ contract[s].refresh = terms.refresh
                         /\ \E l \in Layers : layers[s][l].registered}

\* Building snapshots of the same kind: full, or of the same base and layers.
Resumable(terms) ==
    {s \in SnapshotIds : /\ state[s] = "building"
                         /\ contract[s].base = terms.base
                         /\ contract[s].refresh = terms.refresh}

\* The bound MaxSnapshots, kept so that every build that starts can go on.
MayBuild(terms) == begun < MaxSnapshots \/ Resumable(terms) # {}

\* The layers this build downloads; the others it copies.
Downloaded == IF Incremental THEN build.terms.refresh ELSE Layers
Copied == Layers \ Downloaded

StartFull ==
    /\ At("idle")
    /\ {} \in Jobs
    /\ MayBuild(NoContract)
    /\ build' = [IdleBuild EXCEPT !.pc = "find"]
    /\ UNCHANGED <<source, faults, snapshots, activations, command>>

\* An incremental build needs an active snapshot with every layer of the registry.
StartIncremental(refresh) ==
    LET terms == [NoContract EXCEPT !.base = ActiveId, !.refresh = refresh] IN
    /\ At("idle")
    /\ refresh # {}
    /\ ActiveId # NoSnapshot
    /\ \A l \in Layers : layers[ActiveId][l].registered
    /\ MayBuild(terms)
    /\ build' = [IdleBuild EXCEPT !.pc = "before", !.terms = terms]
    /\ UNCHANGED <<source, faults, snapshots, activations, command>>

\* Mutant: the check asks about the layers to refresh only.
OmittedIgnored(base, refresh) == TRUE

\* Every layer that is not to be refreshed still has the inventory of the base.
OmittedUnchanged(base, refresh) ==
    \A l \in Layers \ refresh : Ids(upstream[l]) = layers[base][l].inventory

\* The upstream check before the download compares the source with the snapshot in
\* state 'active', which must be the base, and takes the fingerprints.
CheckBefore ==
    LET base == build.terms.base
        refresh == build.terms.refresh
        passes == state[base] = "active" /\ OmittedUnchanged(base, refresh)
    IN
    /\ At("before")
    /\ \/ /\ passes
          /\ build' = [build EXCEPT !.pc = "find", !.terms.prints = Inventories(upstream)]
       \/ /\ ~passes
          /\ Leave
    /\ UNCHANGED <<source, faults, snapshots, activations, command>>

\* find_resumable_snapshot takes the newest one; an incremental build whose
\* fingerprints differ from the recorded ones gives it up.
FindResumable ==
    LET found == Resumable(build.terms) IN
    /\ At("find")
    /\ \/ /\ found = {}
          /\ build' = [build EXCEPT !.pc = "begin"]
       \/ \E s \in found :
            /\ \A t \in found : t <= s
            /\ build' = [build EXCEPT !.sid = s, !.left = Downloaded,
                 !.pc = IF ~Incremental THEN "layer"
                        ELSE IF contract[s].prints = build.terms.prints THEN "copy"
                        ELSE "fail"]
    /\ UNCHANGED <<source, faults, snapshots, activations, command>>

BeginSnapshot ==
    LET s == begun + 1 IN
    /\ At("begin")
    /\ begun < MaxSnapshots
    /\ begun' = s
    /\ state' = [state EXCEPT ![s] = "building"]
    /\ contract' = [contract EXCEPT ![s] = build.terms]
    /\ build' = [build EXCEPT !.sid = s, !.left = Downloaded,
                               !.pc = IF Incremental THEN "copy" ELSE "layer"]
    /\ UNCHANGED <<source, faults, layers, activations, command>>

\* What copy_layers inserts for a layer the target does not have yet.
Inherited(base, l) == [layers[base][l] EXCEPT !.from = base, !.hash = NotRecorded]

\* copy_layers, before the download and again before finalizing: a layer that is
\* there must have been inherited from the same base, with the same features.
CopyLayers ==
    LET base == build.terms.base
        s == build.sid
        old(l) == layers[s][l]
        sound == \A l \in Copied : old(l).registered =>
                    old(l).from = base /\ old(l).rows = layers[base][l].rows
    IN
    /\ build.pc \in {"copy", "recopy"}
    /\ state[base] \in Finalized
    /\ sound
    /\ layers' = [layers EXCEPT ![s] = [l \in Layers |->
                    IF l \in Copied /\ ~old(l).registered THEN Inherited(base, l)
                    ELSE old(l)]]
    /\ build' = [build EXCEPT !.pc = IF @ = "copy" THEN "layer" ELSE "finalize"]
    /\ UNCHANGED <<source, faults, begun, state, contract, activations, command>>

-------------------------------------------------------------------------------
(* Import one layer after the other. *)

\* The next layer's inventory request is answered.
FetchInventory ==
    /\ At("layer")
    /\ \E l \in build.left :
         /\ \A k \in build.left : l <= k
         /\ build' = [build EXCEPT !.pc = "register", !.layer = l,
                                    !.left = @ \ {l}, !.want = Ids(upstream[l])]
    /\ UNCHANGED <<source, faults, snapshots, activations, command>>

\* It fails for good: the layer stays incomplete and the next one is tried.
InventoryFails ==
    /\ At("layer")
    /\ Fault
    /\ \E l \in build.left :
         /\ \A k \in build.left : l <= k
         /\ build' = [build EXCEPT !.left = @ \ {l}, !.incomplete = TRUE]
    /\ UNCHANGED <<source, snapshots, activations, command>>

\* register_layer keeps the expected_count of the first registration.
RegisterLayer ==
    LET s == build.sid
        l == build.layer
    IN
    /\ At("register")
    /\ layers' = IF layers[s][l].registered THEN layers
                 ELSE [layers EXCEPT ![s][l].registered = TRUE,
                                     ![s][l].count = Cardinality(build.want)]
    /\ build' = [build EXCEPT !.pc = "inventory"]
    /\ UNCHANGED <<source, faults, begun, state, contract, activations, command>>

\* An exception of the importer: the message "layer inventory differs from its
\* persisted inventory" fails an incremental build; a full build looks for "different
\* inventory" only, and leaves the snapshot building.
AbandonOnDrift ==
    IF Incremental THEN build' = [build EXCEPT !.pc = "fail"] ELSE Leave

\* Mutant: the inventory rows are never written.
SetLayerInventoryForgotten ==
    /\ At("inventory")
    /\ build' = [build EXCEPT !.pc = "persisted"]
    /\ UNCHANGED <<source, faults, snapshots, activations, command>>

\* set_layer_inventory: an inventory once persisted must be met exactly.
SetLayerInventory ==
    LET s == build.sid
        l == build.layer
    IN
    /\ At("inventory")
    /\ \/ /\ layers[s][l].inventory \in {{}, build.want}
          /\ layers' = [layers EXCEPT ![s][l].inventory = build.want]
          /\ build' = [build EXCEPT !.pc = "persisted"]
       \/ /\ layers[s][l].inventory \notin {{}, build.want}
          /\ AbandonOnDrift
          /\ UNCHANGED layers
    /\ UNCHANGED <<source, faults, begun, state, contract, activations, command>>

\* object_ids: features already stored are skipped; IDs outside the inventory make
\* the layer incomplete without a download.
ReadPersisted ==
    LET stored == Ids(layers[build.sid][build.layer].rows)
        within == stored \subseteq build.want
    IN
    /\ At("persisted")
    /\ build' = [build EXCEPT !.pc = "fetch", !.known = stored,
                               !.todo = IF within THEN build.want \ stored ELSE {},
                               !.flawed = ~within]
    /\ UNCHANGED <<source, faults, snapshots, activations, command>>

NextBatch(todo) == {o \in todo : Cardinality({p \in todo : p < o}) < BatchSize}

\* One POST batch is answered; a defective answer misses requested features or
\* contains features nobody asked for.  Every feature with an object ID is accepted,
\* whatever its geometry.
FetchBatch ==
    LET batch == NextBatch(build.todo)
        present == Ids(upstream[build.layer])
    IN
    /\ At("fetch")
    /\ build.todo # {}
    /\ \E answer \in SUBSET present :
         LET accepted == (answer \cap build.want) \ build.known IN
         /\ \/ answer = batch \cap present /\ UNCHANGED faults
            \/ answer # batch \cap present /\ Fault
         /\ build' = [build EXCEPT
              !.pc = IF accepted = {} THEN "fetch" ELSE "insert",
              !.known = @ \cup accepted,
              !.todo = @ \ batch,
              !.rows = [o \in ObjectIds |->
                          IF o \in accepted THEN upstream[build.layer][o] ELSE NoFeature],
              !.flawed = @ \/ ~(answer \subseteq build.want)]
    /\ UNCHANGED <<source, snapshots, activations, command>>

\* The retries of a batch are exhausted: its object IDs are rejected.
RejectBatch ==
    /\ At("fetch")
    /\ build.todo # {}
    /\ Fault
    /\ build' = [build EXCEPT !.todo = @ \ NextBatch(@), !.flawed = TRUE]
    /\ UNCHANGED <<source, snapshots, activations, command>>

\* Rows already stored are kept; a batch holds none of them.
Inserted(rows, batch) ==
    [o \in ObjectIds |-> IF rows[o] # NoFeature THEN rows[o] ELSE batch[o]]

InsertBatch ==
    /\ At("insert")
    /\ layers' = [layers EXCEPT ![build.sid][build.layer].rows = Inserted(@, build.rows)]
    /\ build' = [build EXCEPT !.pc = "fetch", !.rows = NoRows]
    /\ UNCHANGED <<source, faults, begun, state, contract, activations, command>>

\* PlanningLayerManifest.complete decides whether the run can still be complete.
EndLayer ==
    /\ At("fetch")
    /\ build.todo = {}
    /\ build' = [build EXCEPT !.pc = "layer", !.layer = NoSnapshot, !.want = {},
                   !.known = {}, !.flawed = FALSE,
                   !.incomplete = @ \/ build.flawed \/ ~(build.want \subseteq build.known)]
    /\ UNCHANGED <<source, faults, snapshots, activations, command>>

\* The manifest is recorded.  An incomplete run ends with an error and stays
\* resumable; a complete full build finalizes, an incremental one checks first.
RecordManifest ==
    /\ At("layer")
    /\ build.left = {}
    /\ \/ /\ ~build.incomplete
          /\ build' = [build EXCEPT !.pc = IF Incremental THEN "after" ELSE "finalize"]
       \/ /\ build.incomplete
          /\ Leave
    /\ UNCHANGED <<source, faults, snapshots, activations, command>>

-------------------------------------------------------------------------------
(* Finish or give up. *)

\* The second upstream check sees the fingerprints of the first, and the base is
\* still the active snapshot.
StillCurrent ==
    /\ state[build.terms.base] = "active"
    /\ ActiveId = build.terms.base
    /\ OmittedUnchanged(build.terms.base, build.terms.refresh)
    /\ Inventories(upstream) = build.terms.prints

\* Whatever else happens, the staged snapshot is failed.
CheckAfter ==
    /\ At("after")
    /\ \/ /\ StillCurrent
          /\ build' = [build EXCEPT !.pc = "recopy"]
       \/ /\ ~StillCurrent
          /\ build' = [build EXCEPT !.pc = "fail"]
    /\ UNCHANGED <<source, faults, snapshots, activations, command>>

\* A layer's probe fails: its state is unknown, which is an exception too.
CheckAfterFails ==
    /\ At("after")
    /\ Fault
    /\ build' = [build EXCEPT !.pc = "fail"]
    /\ UNCHANGED <<source, snapshots, activations, command>>

FailSnapshot ==
    /\ At("fail")
    /\ state' = [state EXCEPT ![build.sid] = "failed"]
    /\ Leave
    /\ UNCHANGED <<source, faults, begun, contract, layers, activations, command>>

\* Mutant: the expected counts are compared with nothing.
ValidInventories(s) ==
    \A l \in Layers :
        layers[s][l].inventory # {} => Ids(layers[s][l].rows) = layers[s][l].inventory

\* validate_snapshot, over the layers that are registered.
Valid(s) ==
    \A l \in Layers : layers[s][l].registered =>
        /\ Cardinality(Ids(layers[s][l].rows)) = layers[s][l].count
        /\ layers[s][l].inventory # {} => Ids(layers[s][l].rows) = layers[s][l].inventory

Finalize ==
    LET s == build.sid IN
    /\ At("finalize")
    /\ \/ /\ Valid(s)
          /\ state' = [state EXCEPT ![s] = "ready"]
          /\ layers' = [layers EXCEPT ![s] = [l \in Layers |->
                          [layers[s][l] EXCEPT !.hash = layers[s][l].rows]]]
       \/ /\ ~Valid(s)
          /\ state' = [state EXCEPT ![s] = "failed"]
          /\ UNCHANGED layers
    /\ Leave
    /\ UNCHANGED <<source, faults, begun, contract, activations, command>>

\* The process dies, or a statement or the first upstream check raises: the open
\* transaction is rolled back and the snapshot keeps its state.
CrashBuild ==
    /\ ~At("idle")
    /\ Fault
    /\ Leave
    /\ UNCHANGED <<source, snapshots, activations, command>>

-------------------------------------------------------------------------------
(* Activate and rollback. *)

Waiting(p, pc) == command[p].pc = pc
Follows(p, r) == command' = [command EXCEPT ![p] = r]

MayCommand ==
    Len(activations) + Cardinality({p \in Operators : ~Waiting(p, "idle")}) < MaxActivations

LastReady(s) ==
    /\ state[s] = "ready"
    /\ \A t \in SnapshotIds : state[t] = "ready" => t <= s

\* "activate-planning" takes the last ready snapshot of status().
ChooseReady(p) ==
    /\ Waiting(p, "idle")
    /\ MayCommand
    /\ \E s \in SnapshotIds :
         /\ LastReady(s)
         /\ Follows(p, [pc |-> "switch", sid |-> s, was |-> NoSnapshot])
    /\ UNCHANGED <<source, faults, snapshots, activations, build>>

\* "rollback-planning" first reads the pointer ...
ReadActive(p) ==
    /\ Waiting(p, "idle")
    /\ MayCommand
    /\ Follows(p, [pc |-> "history", sid |-> NoSnapshot, was |-> ActiveId])
    /\ UNCHANGED <<source, faults, snapshots, activations, build>>

\* ... and then the newest activation of another snapshot.
PreviousRow(i, w) ==
    /\ i \in DOMAIN activations
    /\ activations[i].sid # w
    /\ \A j \in DOMAIN activations : j > i => activations[j].sid = w

\* Every row names a finalized snapshot, so activate's own check passes.
ChoosePrevious(p) ==
    LET w == command[p].was IN
    /\ Waiting(p, "history")
    /\ \/ \E i \in DOMAIN activations :
            /\ PreviousRow(i, w)
            /\ state[activations[i].sid] \in Finalized
            /\ Follows(p, [command[p] EXCEPT !.pc = "switch", !.sid = activations[i].sid])
       \/ /\ \A i \in DOMAIN activations : ~PreviousRow(i, w)
          /\ Follows(p, IdleCommand)
    /\ UNCHANGED <<source, faults, snapshots, activations, build>>

Activated(s) ==
    [t \in SnapshotIds |->
       IF t = s THEN "active" ELSE IF state[t] = "active" THEN "retired" ELSE state[t]]

SwitchActive(p) ==
    LET s == command[p].sid IN
    /\ Waiting(p, "switch")
    /\ state' = Activated(s)
    /\ activations' = Append([i \in DOMAIN activations |->
                                [activations[i] EXCEPT !.open = FALSE]],
                             [sid |-> s, open |-> TRUE])
    /\ Follows(p, IdleCommand)
    /\ UNCHANGED <<source, faults, begun, contract, layers, build>>

CrashCommand(p) ==
    /\ ~Waiting(p, "idle")
    /\ Fault
    /\ Follows(p, IdleCommand)
    /\ UNCHANGED <<source, snapshots, activations, build>>

-------------------------------------------------------------------------------

BuildStep ==
    \/ CheckBefore \/ FindResumable \/ BeginSnapshot \/ CopyLayers
    \/ FetchInventory \/ InventoryFails \/ RegisterLayer \/ SetLayerInventory \/ ReadPersisted
    \/ FetchBatch \/ RejectBatch \/ InsertBatch \/ EndLayer \/ RecordManifest
    \/ CheckAfter \/ CheckAfterFails \/ FailSnapshot \/ Finalize

CommandStep(p) == ChoosePrevious(p) \/ SwitchActive(p)

Next ==
    \/ EditSource
    \/ StartFull
    \/ \E refresh \in Jobs : StartIncremental(refresh)
    \/ BuildStep
    \/ CrashBuild
    \/ \E p \in Operators :
         ChooseReady(p) \/ ReadActive(p) \/ CommandStep(p) \/ CrashCommand(p)

Spec == Init /\ [][Next]_vars

\* A started command goes on unless it crashes, and the operator runs each of the
\* wanted builds again and again, as the incomplete build's message asks.
Fairness ==
    /\ WF_vars(BuildStep)
    /\ SF_vars(StartFull)
    /\ \A refresh \in Jobs : SF_vars(StartIncremental(refresh))
    /\ \A p \in Operators : WF_vars(CommandStep(p))
FairSpec == Spec /\ Fairness

-------------------------------------------------------------------------------
(* Properties. *)

LayerRows ==
    [registered: BOOLEAN, count: Nat, inventory: SUBSET ObjectIds, rows: Contents,
     from: SnapshotIds \cup {NoSnapshot}, hash: Contents \cup {NotRecorded}]
Contracts == [base: SnapshotIds \cup {NoSnapshot}, refresh: SUBSET Layers,
              prints: [Layers -> SUBSET ObjectIds]]
BuildPcs == {"idle", "before", "find", "begin", "copy", "layer", "register", "inventory",
             "persisted", "fetch", "insert", "after", "recopy", "finalize", "fail"}
Builds == [pc: BuildPcs, sid: SnapshotIds \cup {NoSnapshot}, terms: Contracts,
           left: SUBSET Layers, layer: Layers \cup {NoSnapshot}, want: SUBSET ObjectIds,
           known: SUBSET ObjectIds, todo: SUBSET ObjectIds, rows: Contents,
           flawed: BOOLEAN, incomplete: BOOLEAN]
Commands == [pc: {"idle", "history", "switch"}, sid: SnapshotIds \cup {NoSnapshot},
             was: SnapshotIds \cup {NoSnapshot}]
Rows == [sid: SnapshotIds, open: BOOLEAN]
OnLayer == {"register", "inventory", "persisted", "fetch", "insert"}

\* The types of the database's columns and of what the processes hold; a build that
\* has found its snapshot, or a command its target, holds the identifier.
TypeOK ==
    /\ upstream \in [Layers -> Contents]
    /\ edits \in Nat
    /\ faults \in Nat
    /\ begun \in 0 .. MaxSnapshots
    /\ state \in [SnapshotIds -> States]
    /\ contract \in [SnapshotIds -> Contracts]
    /\ layers \in [SnapshotIds -> [Layers -> LayerRows]]
    /\ activations \in Seq(Rows)
    /\ build \in Builds
    /\ command \in [Operators -> Commands]
    /\ build.pc \notin {"idle", "before", "find", "begin"} => build.sid \in SnapshotIds
    /\ build.pc \in {"before", "copy", "after", "recopy"} => build.terms.base \in SnapshotIds
    /\ build.pc \in OnLayer => build.layer \in Layers
    /\ \A p \in Operators : Waiting(p, "switch") => command[p].sid \in SnapshotIds

\* A finalized snapshot has every layer of the registry, each with exactly the
\* features of its inventory, and its hashes describe them.
FinalizedComplete ==
    \A s \in SnapshotIds : state[s] \in Finalized => \A l \in Layers :
        /\ layers[s][l].registered
        /\ Ids(layers[s][l].rows) = layers[s][l].inventory
        /\ Cardinality(layers[s][l].inventory) = layers[s][l].count
        /\ layers[s][l].hash = layers[s][l].rows

\* Nothing the build does, dies of or is told by the source leaves a row of the tables
\* without a sense, or a finalized snapshot without a part.
StoreIsSound == TypeOK /\ FinalizedComplete

\* An incremental snapshot that is finalized differs from its base in the refreshed
\* layers only, and every other layer had the base's inventory at the source when
\* the build was begun.
RefreshOnlyTouchesItsLayers ==
    \A s \in SnapshotIds : state[s] \in Finalized /\ contract[s].base # NoSnapshot =>
        \A l \in Layers \ contract[s].refresh :
            LET base == contract[s].base IN
            /\ layers[s][l].rows = layers[base][l].rows
            /\ layers[s][l].inventory = layers[base][l].inventory
            /\ layers[s][l].from = base
            /\ contract[s].prints[l] = layers[base][l].inventory

\* "If interrupted, rerun the same command": a full build is finalized, or refused by
\* the validation, unless a layer's inventory at the source is no longer the stored one.
FullBuildEnds ==
    \A s \in SnapshotIds :
        state[s] = "building" /\ contract[s].base = NoSnapshot ~>
            \/ state[s] # "building"
            \/ \E l \in Layers : layers[s][l].registered /\ layers[s][l].inventory # Ids(upstream[l])

\* A refresh never stays behind as 'building': rerunning its command finalizes or fails
\* it, unless its base is no longer active or an omitted layer has changed.
RefreshEnds ==
    \A s \in SnapshotIds :
        state[s] = "building" /\ contract[s].base # NoSnapshot ~>
            \/ state[s] # "building"
            \/ ActiveId = NoSnapshot \/ contract[s].base # ActiveId
            \/ ~OmittedUnchanged(contract[s].base, contract[s].refresh)

\* No build, full or incremental, is left behind for ever.
BuildsEnd == FullBuildEnds /\ RefreshEnds

\* A building snapshot of which a persisted layer inventory is not the source's any more.
Drifted(s) ==
    /\ state[s] = "building"
    /\ \E l \in Layers : layers[s][l].inventory \notin {{}, Ids(upstream[l])}

\* "Source-inventory drift makes the partial snapshot unsafe to resume": a full build
\* that meets it is failed, so that the rerun can begin a new one.
DriftedBuildAbandoned ==
    \A s \in SnapshotIds : Drifted(s) /\ contract[s].base = NoSnapshot ~> ~Drifted(s)

Publishable ==
    {c \in [Layers -> [inventory: SUBSET ObjectIds, rows: Contents]] :
        \A l \in Layers : Ids(c[l].rows) = c[l].inventory}
Promise == INSTANCE PublishedSnapshots WITH
    Contents <- Publishable,
    Unpublished <- NotRecorded,
    visible <- [s \in SnapshotIds |->
                  IF state[s] \in Finalized
                  THEN [l \in Layers |-> [inventory |-> layers[s][l].inventory,
                                          rows |-> layers[s][l].rows]]
                  ELSE NotRecorded],
    current <- ActiveId

\* Full or incremental, the planning store keeps the promise of PublishedSnapshots.
KeepsPromise == Promise!Spec
===============================================================================
