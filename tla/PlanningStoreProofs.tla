-------------------------- MODULE PlanningStoreProofs --------------------------
(***************************************************************************)
(* What holds of the planning store for any number of layers, features,    *)
(* operators, snapshots, edits and faults, and one build at a time.        *)
(***************************************************************************)
EXTENDS PlanningStore, FiniteSetTheorems, SequenceTheorems, TLAPS

-------------------------------------------------------------------------------
(* The inductive invariant. *)

Unchosen == {"idle", "before", "find", "begin"}
Importing == OnLayer \cup {"layer"}

\* The layers that a build with these terms downloads.
Down(t) == IF t.base # NoSnapshot THEN t.refresh ELSE Layers

\* A base is a finalized snapshot, and the fingerprints of the omitted layers are its own.
BaseFinal(t) == t.base # NoSnapshot => t.base \in SnapshotIds /\ state[t.base] \in Finalized
Printed(t) ==
    t.base # NoSnapshot => \A l \in Layers \ t.refresh : t.prints[l] = layers[t.base][l].inventory

\* A layer that a build has dealt with is registered, unless the run is incomplete.
Progress(r) ==
    LET mine == layers[r.sid] IN
    /\ r.pc = "copy" => r.left = Down(r.terms)
    /\ r.pc \in Importing => \A l \in Down(r.terms) \ r.left :
          mine[l].registered \/ r.incomplete \/ (r.pc = "register" /\ l = r.layer)
    /\ r.pc \in OnLayer => r.layer \in Down(r.terms)
    /\ r.pc \in OnLayer \ {"register"} => mine[r.layer].registered
    /\ r.pc \in {"persisted", "fetch", "insert"} => mine[r.layer].inventory = r.want
    /\ r.pc = "insert" => Ids(r.rows) \subseteq r.want
    /\ r.pc \in {"after", "recopy", "finalize"} => \A l \in Down(r.terms) : mine[l].registered
    /\ r.pc = "finalize" => \A l \in Layers : mine[l].registered

\* A build with a snapshot is building it, under terms that the snapshot records.
Owned(r) ==
    /\ r.sid \in SnapshotIds
    /\ state[r.sid] = "building"
    /\ contract[r.sid].base = r.terms.base /\ contract[r.sid].refresh = r.terms.refresh
    /\ r.left \subseteq Down(r.terms)
    /\ Progress(r)

\* What the build process may hold.
Held(r) ==
    /\ r \in Builds
    /\ r.pc \in {"before", "copy", "after", "recopy"} => r.terms.base # NoSnapshot
    /\ BaseFinal(r.terms)
    /\ r.pc # "before" => Printed(r.terms)
    /\ r.pc \notin Unchosen => Owned(r)

\* The layers of a refresh that were not asked for are those of its base.
Inherits(s) ==
    contract[s].base # NoSnapshot => \A l \in Layers \ contract[s].refresh :
        layers[s][l].registered =>
            /\ layers[s][l].rows = layers[contract[s].base][l].rows
            /\ layers[s][l].inventory = layers[contract[s].base][l].inventory
            /\ layers[s][l].from = contract[s].base

Complete(s) ==
    \A l \in Layers : /\ layers[s][l].registered
                      /\ Ids(layers[s][l].rows) = layers[s][l].inventory
                      /\ Cardinality(layers[s][l].inventory) = layers[s][l].count
                      /\ layers[s][l].hash = layers[s][l].rows

SnapshotInv(s) ==
    /\ s > begun => state[s] = "none" /\ \A l \in Layers : ~layers[s][l].registered
    /\ \A l \in Layers : Ids(layers[s][l].rows) \subseteq layers[s][l].inventory
    /\ BaseFinal(contract[s]) /\ Printed(contract[s]) /\ Inherits(s)
    /\ state[s] \in Finalized => Complete(s)

\* The history names finalized snapshots, and its last row is the open one.
HistoryInv ==
    \A i \in DOMAIN activations : /\ state[activations[i].sid] \in Finalized
                                  /\ activations[i].open <=> i = Len(activations)

CommandInv == \A p \in Operators : Waiting(p, "switch") => state[command[p].sid] \in Finalized

Inv ==
    /\ TypeOK
    /\ Held(build)
    /\ \A s \in SnapshotIds : SnapshotInv(s)
    /\ HistoryInv
    /\ CommandInv

-------------------------------------------------------------------------------
(* Facts about the parts. *)

LEMMA RowsAreContents == NoRows \in Contents /\ Ids(NoRows) = {}
BY DEF NoRows, Contents, Ids

LEMMA NumbersAreNone == NoSnapshot \notin SnapshotIds /\ SnapshotIds \subseteq Nat
BY PlanningNoSnapshot, PlanningBounds DEF SnapshotIds

LEMMA IdleTypes ==
    /\ IdleBuild \in Builds /\ IdleCommand \in Commands
    /\ IdleBuild.pc = "idle" /\ IdleBuild.terms = NoContract /\ IdleCommand.pc = "idle"
    /\ NoContract \in [base : {NoSnapshot}, refresh : {{}}, prints : [Layers -> {{}}]]
    /\ IdleBuild \in [pc : {"idle"}, sid : {NoSnapshot}, terms : {NoContract}, left : {{}},
                      layer : {NoSnapshot}, want : {{}}, known : {{}}, todo : {{}}, rows : {NoRows},
                      flawed : {FALSE}, incomplete : {FALSE}]
<1>1. NoContract \in [base : {NoSnapshot}, refresh : {{}}, prints : [Layers -> {{}}]]
  BY DEF NoContract
<1>2. NoContract \in Contracts
  BY <1>1 DEF Contracts
<1>3. IdleBuild \in Builds
  BY <1>2, RowsAreContents DEF IdleBuild, Builds, BuildPcs
<1> QED BY <1>1, <1>3 DEF IdleBuild, IdleCommand, Commands

LEMMA IdleHeld == Held(IdleBuild)
BY IdleTypes DEF Held, BaseFinal, Printed, Unchosen, NoContract

LEMMA InvInit == Init => Inv
<1> SUFFICES ASSUME Init PROVE Inv
  OBVIOUS
<1> USE DEF Init
<1>1. NoLayer \in LayerRows /\ NoContract \in Contracts
  <2>1. NoContract \in Contracts
    BY IdleTypes DEF Contracts
  <2> QED BY <2>1, RowsAreContents DEF NoLayer, LayerRows
<1>2. TypeOK
  BY <1>1, IdleTypes, PlanningBounds, NumbersAreNone DEF TypeOK, States, Waiting, IdleCommand, OnLayer
<1>3. \A s \in SnapshotIds : SnapshotInv(s)
  BY IdleTypes, RowsAreContents DEF SnapshotInv, BaseFinal, Printed, Inherits, Finalized, NoLayer, Ids, NoRows
<1>4. HistoryInv /\ CommandInv
  BY IdleTypes DEF HistoryInv, CommandInv, Waiting
<1> QED BY <1>2, <1>3, <1>4, IdleHeld DEF Inv

LEMMA ActivationTypes ==
    ASSUME TypeOK
    PROVE  /\ Len(activations) \in Nat
           /\ DOMAIN activations = 1 .. Len(activations)
           /\ \A i \in DOMAIN activations : activations[i] \in Rows
<1>1. activations \in Seq(Rows)
  BY DEF TypeOK
<1> QED BY <1>1

\* The pointer is the last row of the history.
LEMMA PointerIsLast ==
    TypeOK /\ HistoryInv =>
        /\ ActiveId = IF Len(activations) = 0 THEN NoSnapshot ELSE activations[Len(activations)].sid
        /\ ActiveId # NoSnapshot => ActiveId \in SnapshotIds /\ state[ActiveId] \in Finalized
<1> SUFFICES ASSUME TypeOK, HistoryInv
             PROVE  /\ ActiveId = IF Len(activations) = 0 THEN NoSnapshot
                                  ELSE activations[Len(activations)].sid
                    /\ ActiveId # NoSnapshot => ActiveId \in SnapshotIds /\ state[ActiveId] \in Finalized
  OBVIOUS
<1> DEFINE n == Len(activations)
<1>1. /\ n \in Nat /\ DOMAIN activations = 1 .. n
      /\ \A i \in DOMAIN activations : activations[i] \in Rows
  BY ActivationTypes
<1>2. CASE n = 0
  BY <1>1, <1>2 DEF ActiveId, Open
<1>3. CASE n # 0
  <2>1. Open = {n} /\ n \in DOMAIN activations
    BY <1>1, <1>3 DEF Open, HistoryInv
  <2>2. (CHOOSE i \in Open : \A j \in Open : j <= i) = n
    BY <1>1, <2>1
  <2>3. ActiveId = activations[n].sid
    BY <2>1, <2>2 DEF ActiveId
  <2> QED BY <1>1, <1>3, <2>1, <2>3 DEF HistoryInv, Rows
<1> QED BY <1>2, <1>3

-------------------------------------------------------------------------------
(* Steps that change what the build process holds and nothing else. *)

LEMMA HeldFits ==
    ASSUME NEW r, Held(r)
    PROVE  /\ r \in Builds
           /\ r.pc \notin {"idle", "before", "find", "begin"} => r.sid \in SnapshotIds
           /\ r.pc \in {"before", "copy", "after", "recopy"} => r.terms.base \in SnapshotIds
           /\ r.pc \in OnLayer => r.layer \in Layers
<1>1. r.terms \in Contracts
  BY DEF Held, Builds
<1>2. Down(r.terms) \subseteq Layers
  BY <1>1 DEF Down, Contracts
<1> QED BY <1>2 DEF Held, Owned, Progress, BaseFinal, Unchosen, OnLayer

LEMMA BuildMoves ==
    ASSUME Inv, NEW r, Held(r), build' = r, UNCHANGED <<snapshots, activations, command>>,
           upstream' \in [Layers -> Contents], edits' \in Nat, faults' \in Nat
    PROVE  Inv'
<1>1. TypeOK'
  BY HeldFits DEF Inv, TypeOK, snapshots, Waiting
<1>2. Held(build)'
  BY DEF Held, Owned, Progress, BaseFinal, Printed, snapshots
<1>3. \A s \in SnapshotIds : SnapshotInv(s)'
  BY DEF Inv, SnapshotInv, BaseFinal, Printed, Inherits, Complete, snapshots
<1>4. HistoryInv' /\ CommandInv'
  BY DEF Inv, HistoryInv, CommandInv, Waiting, snapshots
<1> QED BY <1>1, <1>2, <1>3, <1>4 DEF Inv

\* The source moves, or nothing does.
LEMMA SourceMoves ==
    ASSUME Inv, UNCHANGED <<snapshots, activations, command, build>>,
           upstream' \in [Layers -> Contents], edits' \in Nat, faults' \in Nat
    PROVE  Inv'
BY BuildMoves DEF Inv

LEMMA EditStep == ASSUME Inv, EditSource PROVE Inv'
<1>1. PICK l \in Layers, o \in ObjectIds, x \in Payloads \cup {NoFeature} :
         upstream' = [upstream EXCEPT ![l][o] = x]
  BY DEF EditSource
<1>2. upstream' \in [Layers -> Contents]
  BY <1>1 DEF Inv, TypeOK, Contents
<1>3. edits' \in Nat /\ faults' \in Nat /\ UNCHANGED <<snapshots, activations, command, build>>
  BY DEF EditSource, Inv, TypeOK
<1> QED BY <1>2, <1>3, SourceMoves

\* What every step of the build may use.
LEMMA AtHand ==
    ASSUME Inv
    PROVE  /\ build \in Builds /\ build.terms \in Contracts /\ Held(build)
           /\ upstream \in [Layers -> Contents] /\ edits \in Nat /\ faults \in Nat
           /\ build.terms.refresh \subseteq Layers /\ Downloaded = Down(build.terms)
           /\ Downloaded \subseteq Layers
BY DEF Inv, TypeOK, Builds, Contracts, Downloaded, Incremental, Down

LEMMA LeaveStep ==
    ASSUME Inv, Leave, UNCHANGED <<upstream, edits, snapshots, activations, command>>,
           UNCHANGED faults \/ Fault
    PROVE  Inv'
<1>1. faults' \in Nat
  BY AtHand DEF Fault
<1> QED BY <1>1, IdleHeld, AtHand, BuildMoves DEF Leave

LEMMA StartFullStep == ASSUME Inv, StartFull PROVE Inv'
<1> DEFINE r == [IdleBuild EXCEPT !.pc = "find"]
<1>1. build' = r /\ UNCHANGED <<source, faults, snapshots, activations, command>>
  BY DEF StartFull
<1>2. r \in Builds /\ r.pc = "find" /\ r.terms = NoContract
  BY IdleTypes DEF Builds, BuildPcs
<1> HIDE DEF r
<1>3. Held(r)
  BY <1>2, IdleTypes DEF Held, BaseFinal, Printed, Unchosen
<1> QED BY <1>1, <1>3, AtHand, BuildMoves DEF source

LEMMA StartIncrementalStep ==
    ASSUME Inv, NEW refresh \in Jobs, StartIncremental(refresh) PROVE Inv'
<1> DEFINE t == [NoContract EXCEPT !.base = ActiveId, !.refresh = refresh]
           r == [IdleBuild EXCEPT !.pc = "before", !.terms = t]
<1>1. /\ build' = r /\ UNCHANGED <<source, faults, snapshots, activations, command>>
      /\ ActiveId # NoSnapshot
  BY DEF StartIncremental
<1>2. ActiveId \in SnapshotIds /\ state[ActiveId] \in Finalized
  BY <1>1, PointerIsLast DEF Inv
<1>3. t \in Contracts /\ t.base = ActiveId
  BY <1>2, IdleTypes, PlanningSets DEF Contracts
<1> HIDE DEF t
<1>4. r \in Builds /\ r.pc = "before" /\ r.terms = t
  BY <1>3, IdleTypes DEF Builds, BuildPcs
<1> HIDE DEF r
<1>5. Held(r)
  BY <1>1, <1>2, <1>3, <1>4 DEF Held, BaseFinal, Unchosen
<1> QED BY <1>1, <1>5, AtHand, BuildMoves DEF source

LEMMA CheckBeforeStep == ASSUME Inv, CheckBefore PROVE Inv'
<1> DEFINE r == [build EXCEPT !.pc = "find", !.terms.prints = Inventories(upstream)]
           base == build.terms.base
           refresh == build.terms.refresh
<1>1. /\ UNCHANGED <<source, faults, snapshots, activations, command>>
      /\ Leave \/ (build' = r /\ OmittedUnchanged(base, refresh))
      /\ build.pc = "before"
  BY DEF CheckBefore, At
<1>2. CASE build' = r /\ OmittedUnchanged(base, refresh)
  <2>1. Inventories(upstream) \in [Layers -> SUBSET ObjectIds]
    BY DEF Inventories, Ids
  <2>2. [build.terms EXCEPT !.prints = Inventories(upstream)] \in Contracts
    BY <2>1, AtHand DEF Contracts
  <2>3. /\ r \in Builds /\ r.pc = "find" /\ r.terms.base = base /\ r.terms.refresh = refresh
        /\ r.terms.prints = Inventories(upstream)
    BY <2>1, <2>2, AtHand DEF Builds, Contracts, BuildPcs
  <2> HIDE DEF r
  <2>4. BaseFinal(r.terms)
    BY <2>3, AtHand DEF Held, BaseFinal
  <2>5. Printed(r.terms)
    BY <1>2, <2>3, AtHand DEF Printed, OmittedUnchanged, Inventories
  <2>6. Held(r)
    BY <2>3, <2>4, <2>5 DEF Held, Unchosen
  <2> QED BY <1>1, <1>2, <2>6, AtHand, BuildMoves DEF source
<1> QED BY <1>1, <1>2, LeaveStep DEF source

LEMMA FindResumableStep == ASSUME Inv, FindResumable PROVE Inv'
<1>1. /\ UNCHANGED <<source, faults, snapshots, activations, command>>
      /\ build.pc = "find"
  BY DEF FindResumable, At
<1>2. CASE build' = [build EXCEPT !.pc = "begin"]
  <2> DEFINE r == [build EXCEPT !.pc = "begin"]
  <2>1. r \in Builds /\ r.pc = "begin" /\ r.terms = build.terms
    BY AtHand DEF Builds, BuildPcs
  <2> HIDE DEF r
  <2>2. Held(r)
    BY <1>1, <2>1, AtHand DEF Held, Unchosen
  <2> QED BY <1>1, <1>2, <2>2, AtHand, BuildMoves DEF source, r
<1>3. ASSUME NEW s \in Resumable(build.terms), NEW pc \in {"layer", "copy", "fail"},
             pc = "copy" => Incremental,
             build' = [build EXCEPT !.sid = s, !.left = Downloaded, !.pc = pc]
      PROVE  Inv'
  <2> DEFINE r == [build EXCEPT !.sid = s, !.left = Downloaded, !.pc = pc]
  <2>1. /\ s \in SnapshotIds /\ state[s] = "building"
        /\ contract[s].base = build.terms.base /\ contract[s].refresh = build.terms.refresh
    BY DEF Resumable
  <2>2. /\ r \in Builds /\ r.pc = pc /\ r.terms = build.terms /\ r.sid = s
        /\ r.left = Down(r.terms)
    BY <2>1, AtHand DEF Builds, BuildPcs
  <2> HIDE DEF r
  <2>3. Owned(r)
    BY <2>1, <2>2 DEF Owned, Progress, Importing, OnLayer
  <2>4. Held(r)
    BY <1>1, <1>3, <2>2, <2>3, AtHand DEF Held, Incremental
  <2> QED BY <1>1, <1>3, <2>4, AtHand, BuildMoves DEF source, r
<1>4. \/ build' = [build EXCEPT !.pc = "begin"]
      \/ \E s \in Resumable(build.terms), pc \in {"layer", "copy", "fail"} :
            /\ pc = "copy" => Incremental
            /\ build' = [build EXCEPT !.sid = s, !.left = Downloaded, !.pc = pc]
  <2>1. CASE Resumable(build.terms) = {}
    BY <2>1 DEF FindResumable
  <2>2. ASSUME NEW s \in Resumable(build.terms),
               build' = [build EXCEPT !.sid = s, !.left = Downloaded,
                 !.pc = IF ~Incremental THEN "layer"
                        ELSE IF contract[s].prints = build.terms.prints THEN "copy"
                        ELSE "fail"]
        PROVE  \E q \in Resumable(build.terms), pc \in {"layer", "copy", "fail"} :
                  /\ pc = "copy" => Incremental
                  /\ build' = [build EXCEPT !.sid = q, !.left = Downloaded, !.pc = pc]
    <3> PICK pc \in {"layer", "copy", "fail"} :
           pc = IF ~Incremental THEN "layer"
                ELSE IF contract[s].prints = build.terms.prints THEN "copy" ELSE "fail"
      OBVIOUS
    <3> QED BY <2>2
  <2> QED BY <2>1, <2>2 DEF FindResumable
<1> QED BY <1>2, <1>3, <1>4

\* What a build knows of its snapshot while it imports.
LEMMA ImportHand ==
    ASSUME Inv, build.pc \notin Unchosen
    PROVE  /\ Owned(build) /\ Progress(build)
           /\ build.sid \in SnapshotIds /\ build.left \subseteq Down(build.terms)
           /\ build.layer \in Layers \cup {NoSnapshot}
           /\ build.pc \in OnLayer => build.layer \in Layers
BY AtHand DEF Held, Owned, Progress, Builds

LEMMA FetchInventoryStep == ASSUME Inv, FetchInventory PROVE Inv'
<1>1. PICK l \in build.left :
         build' = [build EXCEPT !.pc = "register", !.layer = l, !.left = @ \ {l},
                                !.want = Ids(upstream[l])]
  BY DEF FetchInventory
<1>2. build.pc = "layer" /\ UNCHANGED <<source, faults, snapshots, activations, command>>
  BY DEF FetchInventory, At
<1> DEFINE r == [build EXCEPT !.pc = "register", !.layer = l, !.left = @ \ {l}, !.want = Ids(upstream[l])]
<1>3. l \in Down(build.terms) /\ l \in Layers /\ build.left \ {l} \subseteq Layers
  BY <1>2, ImportHand, AtHand DEF Unchosen
<1>4. /\ r \in Builds /\ r.pc = "register" /\ r.terms = build.terms /\ r.sid = build.sid
      /\ r.layer = l /\ r.left = build.left \ {l} /\ r.incomplete = build.incomplete
  BY <1>3, AtHand DEF Builds, BuildPcs, Ids
<1> HIDE DEF r
<1>5. Progress(r)
  BY <1>2, <1>3, <1>4, ImportHand DEF Progress, Importing, OnLayer, Unchosen
<1>6. Held(r)
  BY <1>2, <1>3, <1>4, <1>5, AtHand, ImportHand DEF Held, Owned, Unchosen
<1> QED BY <1>1, <1>2, <1>6, AtHand, BuildMoves DEF source, r

LEMMA InventoryFailsStep == ASSUME Inv, InventoryFails PROVE Inv'
<1>1. PICK l \in build.left : build' = [build EXCEPT !.left = @ \ {l}, !.incomplete = TRUE]
  BY DEF InventoryFails
<1>2. /\ build.pc = "layer" /\ UNCHANGED <<source, snapshots, activations, command>>
      /\ faults' \in Nat
  BY AtHand DEF InventoryFails, At, Fault
<1> DEFINE r == [build EXCEPT !.left = @ \ {l}, !.incomplete = TRUE]
<1>3. /\ r \in Builds /\ r.pc = "layer" /\ r.terms = build.terms /\ r.sid = build.sid
      /\ r.left = build.left \ {l} /\ r.incomplete
  BY <1>2, AtHand DEF Builds, BuildPcs
<1> HIDE DEF r
<1>4. Progress(r)
  BY <1>3 DEF Progress, Importing, OnLayer
<1>5. Held(r)
  BY <1>2, <1>3, <1>4, AtHand, ImportHand DEF Held, Owned, Unchosen
<1> QED BY <1>1, <1>2, <1>5, AtHand, BuildMoves DEF source, r

LEMMA ReadPersistedStep == ASSUME Inv, ReadPersisted PROVE Inv'
<1> DEFINE stored == Ids(layers[build.sid][build.layer].rows)
           todo == IF stored \subseteq build.want THEN build.want \ stored ELSE {}
           flawed == ~(stored \subseteq build.want)
           r == [build EXCEPT !.pc = "fetch", !.known = stored, !.todo = todo, !.flawed = flawed]
<1>1. build.pc = "persisted" /\ build' = r /\ UNCHANGED <<source, faults, snapshots, activations, command>>
  BY DEF ReadPersisted, At
<1>2. stored \subseteq ObjectIds /\ todo \subseteq ObjectIds /\ flawed \in BOOLEAN
  BY AtHand DEF Ids, Builds
<1> HIDE DEF stored, todo, flawed
<1>3. /\ r \in Builds /\ r.pc = "fetch" /\ r.terms = build.terms /\ r.sid = build.sid
      /\ r.layer = build.layer /\ r.left = build.left /\ r.incomplete = build.incomplete
      /\ r.want = build.want
  BY <1>2, AtHand DEF Builds, BuildPcs
<1> HIDE DEF r
<1>4. Progress(r)
  BY <1>1, <1>3, ImportHand DEF Progress, Importing, OnLayer, Unchosen
<1>5. Held(r)
  BY <1>1, <1>3, <1>4, AtHand, ImportHand DEF Held, Owned, Unchosen
<1> QED BY <1>1, <1>5, AtHand, BuildMoves DEF source

LEMMA FetchBatchStep == ASSUME Inv, FetchBatch PROVE Inv'
<1> DEFINE q(answer, accepted, pc) ==
             [build EXCEPT
                !.pc = pc,
                !.known = @ \cup accepted,
                !.todo = @ \ NextBatch(build.todo),
                !.rows = [o \in ObjectIds |->
                            IF o \in accepted THEN upstream[build.layer][o] ELSE NoFeature],
                !.flawed = @ \/ ~(answer \subseteq build.want)]
<1>1. PICK answer, accepted, pc : /\ accepted \subseteq build.want /\ pc \in {"fetch", "insert"}
                                  /\ build' = q(answer, accepted, pc)
  <2>1. PICK answer : LET accepted == (answer \cap build.want) \ build.known
                      IN  build' = q(answer, accepted, IF accepted = {} THEN "fetch" ELSE "insert")
    BY DEF FetchBatch
  <2> HIDE DEF q
  <2>2. PICK accepted, pc : /\ accepted = (answer \cap build.want) \ build.known
                            /\ pc = IF accepted = {} THEN "fetch" ELSE "insert"
    OBVIOUS
  <2> QED BY <2>1, <2>2
<1>2. /\ build.pc = "fetch" /\ UNCHANGED <<source, snapshots, activations, command>>
      /\ faults' \in Nat
  BY AtHand DEF FetchBatch, At, Fault
<1> DEFINE rows == [o \in ObjectIds |->
                      IF o \in accepted THEN upstream[build.layer][o] ELSE NoFeature]
           known == build.known \cup accepted
           todo == build.todo \ NextBatch(build.todo)
           flawed == build.flawed \/ ~(answer \subseteq build.want)
           r == [build EXCEPT !.pc = pc, !.known = known, !.todo = todo, !.rows = rows, !.flawed = flawed]
<1>3. rows \in Contents /\ Ids(rows) \subseteq accepted
  <2>1. upstream[build.layer] \in Contents
    BY <1>2, AtHand, ImportHand DEF Unchosen, OnLayer
  <2> QED BY <2>1 DEF Contents, Ids
<1>4. known \in SUBSET ObjectIds /\ todo \in SUBSET ObjectIds /\ flawed \in BOOLEAN
  BY <1>1, AtHand DEF Builds
<1>5. build' = r
  BY <1>1
<1> HIDE DEF q, rows, known, todo, flawed
<1>6. /\ r \in Builds /\ r.pc = pc /\ r.terms = build.terms /\ r.sid = build.sid /\ r.rows = rows
      /\ r.layer = build.layer /\ r.left = build.left /\ r.incomplete = build.incomplete
      /\ r.want = build.want
  BY <1>1, <1>3, <1>4, AtHand DEF Builds, BuildPcs
<1> HIDE DEF r
<1>7. Progress(r)
  BY <1>1, <1>2, <1>3, <1>6, ImportHand DEF Progress, Importing, OnLayer, Unchosen
<1>8. Held(r)
  BY <1>1, <1>2, <1>6, <1>7, AtHand, ImportHand DEF Held, Owned, Unchosen
<1> QED BY <1>2, <1>5, <1>8, AtHand, BuildMoves DEF source

LEMMA RejectBatchStep == ASSUME Inv, RejectBatch PROVE Inv'
<1> DEFINE todo == build.todo \ NextBatch(build.todo)
           r == [build EXCEPT !.todo = todo, !.flawed = TRUE]
<1>1. /\ build.pc = "fetch" /\ build' = r /\ UNCHANGED <<source, snapshots, activations, command>>
      /\ faults' \in Nat
  BY AtHand DEF RejectBatch, At, Fault
<1>2. todo \in SUBSET ObjectIds
  BY AtHand DEF Builds
<1> HIDE DEF todo
<1>3. /\ r \in Builds /\ r.pc = "fetch" /\ r.terms = build.terms /\ r.sid = build.sid
      /\ r.layer = build.layer /\ r.left = build.left /\ r.incomplete = build.incomplete
      /\ r.want = build.want
  BY <1>1, <1>2, AtHand DEF Builds, BuildPcs
<1> HIDE DEF r
<1>4. Progress(r)
  BY <1>1, <1>3, ImportHand DEF Progress, Importing, OnLayer, Unchosen
<1>5. Held(r)
  BY <1>1, <1>3, <1>4, AtHand, ImportHand DEF Held, Owned, Unchosen
<1> QED BY <1>1, <1>5, AtHand, BuildMoves DEF source

LEMMA EndLayerStep == ASSUME Inv, EndLayer PROVE Inv'
<1> DEFINE incomplete == build.incomplete \/ build.flawed \/ ~(build.want \subseteq build.known)
           r == [build EXCEPT !.pc = "layer", !.layer = NoSnapshot, !.want = {}, !.known = {},
                              !.flawed = FALSE, !.incomplete = incomplete]
<1>1. build.pc = "fetch" /\ build' = r /\ UNCHANGED <<source, faults, snapshots, activations, command>>
  BY DEF EndLayer, At
<1>2. incomplete \in BOOLEAN /\ (build.incomplete => incomplete)
  BY AtHand DEF Builds
<1> HIDE DEF incomplete
<1>3. /\ r \in Builds /\ r.pc = "layer" /\ r.terms = build.terms /\ r.sid = build.sid
      /\ r.left = build.left /\ r.incomplete = incomplete
  BY <1>2, AtHand DEF Builds, BuildPcs
<1> HIDE DEF r
<1>4. Progress(r)
  BY <1>1, <1>2, <1>3, ImportHand DEF Progress, Importing, OnLayer, Unchosen
<1>5. Held(r)
  BY <1>1, <1>3, <1>4, AtHand, ImportHand DEF Held, Owned, Unchosen
<1> QED BY <1>1, <1>5, AtHand, BuildMoves DEF source

LEMMA RecordManifestStep == ASSUME Inv, RecordManifest PROVE Inv'
<1>1. /\ build.pc = "layer" /\ build.left = {} /\ UNCHANGED <<source, faults, snapshots, activations, command>>
  BY DEF RecordManifest, At
<1>2. ASSUME NEW pc, pc = (IF Incremental THEN "after" ELSE "finalize"), ~build.incomplete,
             build' = [build EXCEPT !.pc = pc]
      PROVE  Inv'
  <2> DEFINE r == [build EXCEPT !.pc = pc]
  <2>1. pc \in {"after", "finalize"} /\ (pc = "after" <=> build.terms.base # NoSnapshot)
    BY <1>2 DEF Incremental
  <2>2. /\ r \in Builds /\ r.pc = pc /\ r.terms = build.terms /\ r.sid = build.sid
        /\ r.left = build.left /\ r.incomplete = build.incomplete
    BY <2>1, AtHand DEF Builds, BuildPcs
  <2> HIDE DEF r
  <2>3. \A l \in Down(build.terms) : layers[build.sid][l].registered
    BY <1>1, <1>2, ImportHand DEF Progress, Importing, Unchosen
  <2>4. Progress(r)
    BY <2>1, <2>2, <2>3 DEF Progress, Importing, OnLayer, Down
  <2>5. Held(r)
    BY <1>1, <2>1, <2>2, <2>4, AtHand, ImportHand DEF Held, Owned, Unchosen
  <2> QED BY <1>1, <1>2, <2>5, AtHand, BuildMoves DEF source, r
<1> QED BY <1>1, <1>2, LeaveStep DEF RecordManifest, source

LEMMA CheckAfterStep == ASSUME Inv, CheckAfter \/ CheckAfterFails PROVE Inv'
<1>1. /\ build.pc = "after" /\ UNCHANGED <<source, snapshots, activations, command>>
      /\ faults' \in Nat
  BY AtHand DEF CheckAfter, CheckAfterFails, At, Fault
<1>2. PICK pc \in {"recopy", "fail"} : build' = [build EXCEPT !.pc = pc]
  BY DEF CheckAfter, CheckAfterFails
<1> DEFINE r == [build EXCEPT !.pc = pc]
<1>3. /\ r \in Builds /\ r.pc = pc /\ r.terms = build.terms /\ r.sid = build.sid
      /\ r.left = build.left
  BY AtHand DEF Builds, BuildPcs
<1> HIDE DEF r
<1>4. Progress(r)
  BY <1>1, <1>3, ImportHand DEF Progress, Importing, OnLayer, Unchosen
<1>5. Held(r)
  BY <1>1, <1>3, <1>4, AtHand, ImportHand DEF Held, Owned, Unchosen
<1> QED BY <1>1, <1>2, <1>5, AtHand, BuildMoves DEF source, r

-------------------------------------------------------------------------------
(* Steps that write to the tables of one snapshot, which is not finalized.    *)

Fitting ==
    /\ build \in Builds
    /\ build.pc \notin {"idle", "before", "find", "begin"} => build.sid \in SnapshotIds
    /\ build.pc \in {"before", "copy", "after", "recopy"} => build.terms.base \in SnapshotIds
    /\ build.pc \in OnLayer => build.layer \in Layers

LEMMA HeldIsFitting == Held(build) => Fitting
BY HeldFits DEF Fitting

\* Nothing that another snapshot, the history or a command relies on is touched.
LEMMA TablesMove ==
    ASSUME Inv, NEW s \in SnapshotIds, state[s] \notin Finalized,
           UNCHANGED <<source, faults, activations, command>>,
           begun' \in 0 .. MaxSnapshots, begun <= begun',
           state' \in [SnapshotIds -> States], contract' \in [SnapshotIds -> Contracts],
           layers' \in [SnapshotIds -> [Layers -> LayerRows]],
           \A t \in SnapshotIds \ {s} : /\ state'[t] = state[t] /\ contract'[t] = contract[t]
                                        /\ layers'[t] = layers[t],
           SnapshotInv(s)', Held(build)'
    PROVE  Inv'
<1>1. Fitting'
  BY HeldIsFitting, PTL
<1>2. TypeOK'
  BY <1>1 DEF Inv, TypeOK, Fitting, source, Waiting
<1>3. ASSUME NEW t \in SnapshotIds, t # s PROVE SnapshotInv(t)'
  <2>1. /\ state'[t] = state[t] /\ contract'[t] = contract[t] /\ layers'[t] = layers[t]
        /\ SnapshotInv(t) /\ begun \in Nat /\ begun' \in Nat /\ t \in Nat
    BY <1>3, NumbersAreNone, PlanningBounds DEF Inv, TypeOK
  <2> DEFINE base == contract[t].base
  <2>4. base # NoSnapshot => /\ base \in SnapshotIds /\ state[base] \in Finalized
                             /\ state'[base] = state[base] /\ layers'[base] = layers[base]
    BY <2>1 DEF SnapshotInv, BaseFinal
  <2>5. BaseFinal(contract[t])'
    BY <2>1, <2>4 DEF BaseFinal
  <2>6. Printed(contract[t])'
    <3>1. Printed(contract[t])
      BY <2>1 DEF SnapshotInv
    <3> QED BY <2>1, <2>4, <3>1 DEF Printed
  <2>7. Inherits(t)'
    <3>1. Inherits(t)
      BY <2>1 DEF SnapshotInv
    <3> QED BY <2>1, <2>4, <3>1 DEF Inherits
  <2>2. BaseFinal(contract[t])' /\ Printed(contract[t])' /\ Inherits(t)'
    BY <2>5, <2>6, <2>7
  <2>3. t > begun' => t > begun
    BY <2>1
  <2> QED BY <2>1, <2>2, <2>3 DEF SnapshotInv, Complete
<1>4. HistoryInv'
  <2>1. \A i \in DOMAIN activations : activations[i].sid \in SnapshotIds
    BY ActivationTypes DEF Inv, Rows
  <2> QED BY <2>1 DEF Inv, HistoryInv
<1>5. CommandInv'
  BY DEF Inv, CommandInv, TypeOK, Waiting
<1> QED BY <1>2, <1>3, <1>4, <1>5 DEF Inv

\* One row of planning_layers, of a layer that the build downloads.
LEMMA LayerMoves ==
    ASSUME Inv, build.pc \in OnLayer, UNCHANGED <<source, faults, begun, state, contract, activations, command>>,
           NEW row, row \in LayerRows, Ids(row.rows) \subseteq row.inventory, row.registered,
           layers' = [layers EXCEPT ![build.sid] = [layers[build.sid] EXCEPT ![build.layer] = row]],
           NEW r, build' = r, r \in Builds, r.pc \in {"inventory", "persisted", "fetch"},
           r.sid = build.sid, r.terms = build.terms, r.left = build.left, r.layer = build.layer,
           r.incomplete = build.incomplete,
           r.pc # "inventory" => row.inventory = r.want
    PROVE  Inv'
<1> DEFINE s == build.sid
           l == build.layer
<1>1. /\ s \in SnapshotIds /\ l \in Layers /\ state[s] = "building" /\ Owned(build) /\ Progress(build)
      /\ l \in Down(build.terms) /\ SnapshotInv(s)
  BY ImportHand DEF Unchosen, OnLayer, Owned, Progress, Inv
<1>2. /\ layers \in [SnapshotIds -> [Layers -> LayerRows]]
      /\ state \in [SnapshotIds -> States] /\ contract \in [SnapshotIds -> Contracts]
      /\ begun \in 0 .. MaxSnapshots /\ begun \in Nat
  BY PlanningBounds DEF Inv, TypeOK
<1>3. /\ layers' \in [SnapshotIds -> [Layers -> LayerRows]]
      /\ layers'[s][l] = row
      /\ \A k \in Layers \ {l} : layers'[s][k] = layers[s][k]
      /\ \A t \in SnapshotIds \ {s} : layers'[t] = layers[t]
  BY <1>1, <1>2
<1>4. build.terms.base # NoSnapshot => build.terms.base \in SnapshotIds \ {s}
  BY <1>1, AtHand DEF Held, BaseFinal, Finalized
<1>5. SnapshotInv(s)'
  <2>1. contract[s].base # NoSnapshot => /\ contract[s].base \in SnapshotIds \ {s}
                                         /\ l \in contract[s].refresh
    BY <1>1, <1>4 DEF Owned, Down
  <2>2. BaseFinal(contract[s])' /\ Printed(contract[s])' /\ Inherits(s)'
    BY <1>1, <1>3, <2>1 DEF SnapshotInv, BaseFinal, Printed, Inherits
  <2>3. \A k \in Layers : Ids(layers'[s][k].rows) \subseteq layers'[s][k].inventory
    BY <1>1, <1>3 DEF SnapshotInv
  <2>4. ~(s > begun) /\ state'[s] \notin Finalized
    BY <1>1, <1>2 DEF SnapshotInv, Finalized
  <2>5. \A k \in Layers : (Ids(layers[s][k].rows) \subseteq layers[s][k].inventory)'
    BY <2>3 DEF Ids
  <2> QED BY <2>2, <2>4, <2>5 DEF SnapshotInv
<1>6. Held(build)'
  <2>1. Progress(r)'
    BY <1>1, <1>3 DEF Progress, Importing, OnLayer, Ids
  <2>2. Owned(r)'
    BY <1>1, <2>1 DEF Owned
  <2>3. BaseFinal(r.terms)' /\ Printed(r.terms)'
    BY <1>3, <1>4, AtHand DEF Held, BaseFinal, Printed, OnLayer
  <2>4. Held(r)'
    BY <2>2, <2>3 DEF Held
  <2> QED BY <2>4
<1>7. state[s] \notin Finalized
  BY <1>1 DEF Finalized
<1> QED BY <1>1, <1>2, <1>3, <1>5, <1>6, <1>7, TablesMove


LEMMA RowAtHand ==
    ASSUME Inv, build.pc \in OnLayer
    PROVE  /\ build.sid \in SnapshotIds /\ build.layer \in Layers
           /\ layers \in [SnapshotIds -> [Layers -> LayerRows]]
           /\ layers[build.sid] \in [Layers -> LayerRows]
           /\ layers[build.sid][build.layer] \in LayerRows
           /\ Ids(layers[build.sid][build.layer].rows) \subseteq layers[build.sid][build.layer].inventory
<1>1. build.sid \in SnapshotIds /\ build.layer \in Layers
  BY ImportHand DEF Unchosen, OnLayer
<1> QED BY <1>1 DEF Inv, TypeOK, SnapshotInv

LEMMA RegisterLayerStep == ASSUME Inv, RegisterLayer PROVE Inv'
<1> DEFINE s == build.sid
           l == build.layer
           old == layers[s][l]
           n == Cardinality(build.want)
           new == [old EXCEPT !.registered = TRUE, !.count = n]
           r == [build EXCEPT !.pc = "inventory"]
<1>1. /\ build.pc = "register" /\ build.pc \in OnLayer
      /\ UNCHANGED <<source, faults, begun, state, contract, activations, command>>
      /\ build' = r
  BY DEF RegisterLayer, At, OnLayer
<1>2. n \in Nat
  BY AtHand, PlanningSets, FS_Subset, FS_CardinalityType DEF Builds
<1> HIDE DEF n
<1>3. PICK row : row = IF old.registered THEN old ELSE new
  OBVIOUS
<1>4. layers' = [layers EXCEPT ![s] = [layers[s] EXCEPT ![l] = row]]
  <2>1. CASE old.registered
    BY <1>1, <1>3, <2>1, RowAtHand DEF RegisterLayer
  <2>2. CASE ~old.registered
    <3>1. layers' = [layers EXCEPT ![s][l].registered = TRUE, ![s][l].count = n]
      BY <2>2 DEF RegisterLayer, n
    <3>2. [layers EXCEPT ![s][l].registered = TRUE, ![s][l].count = n]
            = [layers EXCEPT ![s] = [layers[s] EXCEPT ![l] = new]]
      BY <1>1, RowAtHand
    <3> QED BY <1>3, <2>2, <3>1, <3>2
  <2> QED BY <2>1, <2>2
<1>5. /\ row \in LayerRows /\ row.registered
      /\ row.rows = old.rows /\ row.inventory = old.inventory
  BY <1>1, <1>2, <1>3, RowAtHand DEF LayerRows
<1>6. /\ r \in Builds /\ r.pc = "inventory" /\ r.sid = build.sid /\ r.terms = build.terms
      /\ r.left = build.left /\ r.layer = build.layer /\ r.incomplete = build.incomplete
  BY AtHand DEF Builds, BuildPcs
<1> HIDE DEF r, old, new
<1>7. Ids(row.rows) \subseteq row.inventory
  BY <1>1, <1>5, RowAtHand DEF old
<1> QED BY <1>1, <1>4, <1>5, <1>6, <1>7, LayerMoves

LEMMA SetLayerInventoryStep == ASSUME Inv, SetLayerInventory PROVE Inv'
<1> DEFINE s == build.sid
           l == build.layer
           old == layers[s][l]
<1>1. /\ build.pc = "inventory" /\ build.pc \in OnLayer
      /\ UNCHANGED <<source, faults, begun, state, contract, activations, command>>
  BY DEF SetLayerInventory, At, OnLayer
<1>2. CASE /\ old.inventory \in {{}, build.want}
           /\ layers' = [layers EXCEPT ![s][l].inventory = build.want]
           /\ build' = [build EXCEPT !.pc = "persisted"]
  <2> DEFINE row == [old EXCEPT !.inventory = build.want]
             r == [build EXCEPT !.pc = "persisted"]
  <2>1. layers' = [layers EXCEPT ![s] = [layers[s] EXCEPT ![l] = row]]
    BY <1>1, <1>2, RowAtHand
  <2>2. old.registered
    BY <1>1, ImportHand DEF Progress, Unchosen, OnLayer
  <2>3. build.want \in SUBSET ObjectIds
    BY AtHand DEF Builds
  <2>4. /\ row \in LayerRows /\ row.registered
        /\ row.rows = old.rows /\ row.inventory = build.want
    BY <1>1, <2>2, <2>3, RowAtHand DEF LayerRows
  <2>5. Ids(old.rows) \subseteq build.want
    BY <1>1, <1>2, RowAtHand
  <2>6. /\ r \in Builds /\ r.pc = "persisted" /\ r.sid = build.sid /\ r.terms = build.terms
        /\ r.left = build.left /\ r.layer = build.layer /\ r.incomplete = build.incomplete
        /\ r.want = build.want
    BY AtHand DEF Builds, BuildPcs
  <2> HIDE DEF r, old, row
  <2>7. Ids(row.rows) \subseteq row.inventory
    BY <2>4, <2>5
  <2>8. build' = r
    BY <1>2 DEF r
  <2> QED BY <1>1, <2>1, <2>4, <2>6, <2>7, <2>8, LayerMoves
<1>3. CASE AbandonOnDrift /\ UNCHANGED layers
  <2>1. CASE Leave
    BY <1>1, <1>3, <2>1, LeaveStep DEF source, snapshots
  <2>2. CASE build' = [build EXCEPT !.pc = "fail"]
    <3> DEFINE r == [build EXCEPT !.pc = "fail"]
    <3>1. /\ r \in Builds /\ r.pc = "fail" /\ r.sid = build.sid /\ r.terms = build.terms
          /\ r.left = build.left
      BY AtHand DEF Builds, BuildPcs
    <3> HIDE DEF r
    <3>2. Progress(r)
      BY <3>1 DEF Progress, Importing, OnLayer
    <3>3. Held(r)
      BY <1>1, <3>1, <3>2, AtHand, ImportHand DEF Held, Owned, Unchosen
    <3> QED BY <1>1, <1>3, <2>2, <3>3, AtHand, BuildMoves DEF source, snapshots, r
  <2> QED BY <1>3, <2>1, <2>2 DEF AbandonOnDrift
<1> QED BY <1>2, <1>3 DEF SetLayerInventory

LEMMA InsertBatchStep == ASSUME Inv, InsertBatch PROVE Inv'
<1> DEFINE s == build.sid
           l == build.layer
           old == layers[s][l]
           rows == Inserted(old.rows, build.rows)
           row == [old EXCEPT !.rows = rows]
           r == [build EXCEPT !.pc = "fetch", !.rows = NoRows]
<1>1. /\ build.pc = "insert" /\ build.pc \in OnLayer
      /\ UNCHANGED <<source, faults, begun, state, contract, activations, command>>
      /\ build' = r
  BY DEF InsertBatch, At, OnLayer
<1>2. layers' = [layers EXCEPT ![s] = [layers[s] EXCEPT ![l] = row]]
  <2>1. layers' = [layers EXCEPT ![s][l].rows = Inserted(@, build.rows)]
    BY DEF InsertBatch
  <2> HIDE DEF r
  <2> QED BY <1>1, <2>1, RowAtHand
<1>3. /\ old.registered /\ old.inventory = build.want /\ Ids(build.rows) \subseteq build.want
      /\ Ids(old.rows) \subseteq build.want /\ old.rows \in Contents /\ build.rows \in Contents
  <2>1. /\ old.registered /\ old.inventory = build.want /\ Ids(build.rows) \subseteq build.want
    BY <1>1, ImportHand DEF Progress, Unchosen, OnLayer
  <2>2. build.rows \in Contents
    BY AtHand DEF Builds
  <2> QED BY <1>1, <2>1, <2>2, RowAtHand DEF LayerRows
<1>4. rows \in Contents /\ Ids(rows) \subseteq build.want
  BY <1>3 DEF Inserted, Contents, Ids
<1> HIDE DEF rows
<1>5. /\ row \in LayerRows /\ row.registered /\ row.rows = rows /\ row.inventory = build.want
  BY <1>1, <1>3, <1>4, RowAtHand DEF LayerRows
<1>6. /\ r \in Builds /\ r.pc = "fetch" /\ r.sid = build.sid /\ r.terms = build.terms
      /\ r.left = build.left /\ r.layer = build.layer /\ r.incomplete = build.incomplete
      /\ r.want = build.want
  BY AtHand, RowsAreContents DEF Builds, BuildPcs
<1> HIDE DEF r, old, row
<1>7. Ids(row.rows) \subseteq row.inventory
  BY <1>4, <1>5
<1> QED BY <1>1, <1>2, <1>5, <1>6, <1>7, LayerMoves

LEMMA CopyLayersStep == ASSUME Inv, CopyLayers PROVE Inv'
<1> PICK s, base : s = build.sid /\ base = build.terms.base
  OBVIOUS
<1> DEFINE row(l) == IF l \in Copied /\ ~layers[s][l].registered THEN Inherited(base, l)
                     ELSE layers[s][l]
<1> PICK pc : pc = IF build.pc = "copy" THEN "layer" ELSE "finalize"
  OBVIOUS
<1> PICK r : r = [build EXCEPT !.pc = pc]
  OBVIOUS
<1>1. /\ build.pc \in {"copy", "recopy"}
      /\ UNCHANGED <<source, faults, begun, state, contract, activations, command>>
      /\ layers' = [layers EXCEPT ![s] = [l \in Layers |-> row(l)]]
      /\ build' = r
  BY DEF CopyLayers
<1>2. /\ s \in SnapshotIds /\ state[s] = "building" /\ Owned(build) /\ Progress(build)
      /\ SnapshotInv(s) /\ contract[s].base = base /\ contract[s].refresh = build.terms.refresh
  BY <1>1, ImportHand DEF Unchosen, Owned, Inv
<1>3. /\ base # NoSnapshot /\ base \in SnapshotIds \ {s} /\ state[base] \in Finalized
      /\ Complete(base) /\ base \in Nat
  BY <1>1, <1>2, AtHand, NumbersAreNone DEF Held, BaseFinal, Finalized, Inv, SnapshotInv
<1>4. /\ layers \in [SnapshotIds -> [Layers -> LayerRows]]
      /\ state \in [SnapshotIds -> States] /\ contract \in [SnapshotIds -> Contracts]
      /\ begun \in 0 .. MaxSnapshots /\ begun \in Nat
  BY PlanningBounds DEF Inv, TypeOK
<1>5. Copied = Layers \ build.terms.refresh /\ Down(build.terms) = build.terms.refresh
  BY <1>3, AtHand DEF Copied, Down
<1>6. ASSUME NEW l \in Layers
      PROVE  LET old == layers[base][l]
                 new == Inherited(base, l)
             IN  /\ new \in LayerRows /\ new.registered /\ new.rows = old.rows
                 /\ new.inventory = old.inventory /\ new.from = base
                 /\ Ids(old.rows) \subseteq old.inventory
  <2>1. layers[base][l] \in LayerRows
    BY <1>3, <1>4
  <2> QED BY <1>3, <2>1 DEF Inherited, LayerRows, Complete
<1>7. ASSUME NEW l \in Layers
      PROVE  /\ row(l) \in LayerRows
             /\ Ids(row(l).rows) \subseteq row(l).inventory
             /\ layers[s][l].registered => row(l).registered
             /\ l \in Copied => row(l).registered
  BY <1>2, <1>4, <1>6 DEF SnapshotInv
<1>8. ASSUME NEW l \in Copied
      PROVE  /\ row(l).rows = layers[base][l].rows
             /\ row(l).inventory = layers[base][l].inventory
             /\ row(l).from = base
  <2>1. l \in Layers
    BY DEF Copied
  <2>2. CASE layers[s][l].registered
    BY <1>2, <1>3, <1>5, <2>1, <2>2 DEF SnapshotInv, Inherits
  <2>3. CASE ~layers[s][l].registered
    BY <1>6, <2>1, <2>3
  <2> QED BY <2>2, <2>3
<1> HIDE DEF row
<1>9. /\ layers' \in [SnapshotIds -> [Layers -> LayerRows]]
      /\ \A l \in Layers : layers'[s][l] = row(l)
      /\ \A t \in SnapshotIds \ {s} : layers'[t] = layers[t]
  <2>1. [l \in Layers |-> row(l)] \in [Layers -> LayerRows]
    BY <1>7
  <2> QED BY <1>1, <1>2, <1>4, <2>1
<1>10. SnapshotInv(s)'
  <2>1. BaseFinal(contract[s])' /\ Printed(contract[s])'
    BY <1>1, <1>2, <1>3, <1>9 DEF SnapshotInv, BaseFinal, Printed
  <2>2. Inherits(s)'
    BY <1>1, <1>2, <1>3, <1>5, <1>8, <1>9 DEF Inherits
  <2>3. \A k \in Layers : (Ids(layers[s][k].rows) \subseteq layers[s][k].inventory)'
    BY <1>7, <1>9 DEF Ids
  <2>4. ~(s > begun) /\ state'[s] \notin Finalized
    BY <1>1, <1>2, <1>4 DEF SnapshotInv, Finalized
  <2> QED BY <1>1, <2>1, <2>2, <2>3, <2>4 DEF SnapshotInv
<1>11. /\ pc \in {"layer", "finalize"} /\ (pc = "finalize" => build.pc = "recopy")
       /\ (pc = "layer" => build.pc = "copy")
  BY <1>1
<1>12. /\ r \in Builds /\ r.pc = pc /\ r.sid = build.sid /\ r.terms = build.terms
       /\ r.left = build.left
  BY <1>11, AtHand DEF Builds, BuildPcs
<1>13. Held(build)'
  <2>1. pc = "finalize" => \A l \in Layers : layers'[s][l].registered
    BY <1>2, <1>5, <1>7, <1>9, <1>11 DEF Progress
  <2>2. Progress(r)'
    <3>1. CASE pc = "layer"
      <4>1. r.left = Down(r.terms)
        BY <1>2, <1>11, <1>12, <3>1 DEF Progress
      <4> QED BY <1>12, <3>1, <4>1 DEF Progress, OnLayer
    <3>2. CASE pc = "finalize"
      <4>1. \A l \in Down(r.terms) : layers'[r.sid][l].registered
        BY <1>5, <1>12, <2>1, <3>2, AtHand
      <4> QED BY <1>12, <2>1, <3>2, <4>1 DEF Progress, Importing, OnLayer
    <3> QED BY <1>11, <3>1, <3>2
  <2>3. Owned(r)'
    BY <1>1, <1>2, <1>12, <2>2, ImportHand DEF Owned, Unchosen
  <2>4. BaseFinal(r.terms)' /\ Printed(r.terms)'
    BY <1>1, <1>3, <1>9, <1>12, AtHand DEF Held, BaseFinal, Printed
  <2>5. Held(r)'
    BY <1>11, <1>12, <2>3, <2>4 DEF Held
  <2> QED BY <1>1, <2>5
<1>14. state[s] \notin Finalized
  BY <1>2 DEF Finalized
<1> QED BY <1>1, <1>2, <1>4, <1>9, <1>10, <1>13, <1>14, TablesMove

LEMMA TablesAtHand ==
    ASSUME Inv
    PROVE  /\ layers \in [SnapshotIds -> [Layers -> LayerRows]]
           /\ state \in [SnapshotIds -> States] /\ contract \in [SnapshotIds -> Contracts]
           /\ begun \in 0 .. MaxSnapshots /\ begun \in Nat /\ MaxSnapshots \in Nat
           /\ \A s \in SnapshotIds : SnapshotInv(s)
           /\ activations \in Seq(Rows) /\ command \in [Operators -> Commands]
BY PlanningBounds DEF Inv, TypeOK

LEMMA BeginSnapshotStep == ASSUME Inv, BeginSnapshot PROVE Inv'
<1> PICK s, t : s = begun + 1 /\ t = build.terms
  OBVIOUS
<1> PICK pc : pc = IF Incremental THEN "copy" ELSE "layer"
  OBVIOUS
<1> PICK r : r = [build EXCEPT !.sid = s, !.left = Downloaded, !.pc = pc]
  OBVIOUS
<1>1. /\ build.pc = "begin" /\ begun < MaxSnapshots
      /\ begun' = s
      /\ state' = [state EXCEPT ![s] = "building"]
      /\ contract' = [contract EXCEPT ![s] = t]
      /\ build' = r
      /\ UNCHANGED <<source, faults, layers, activations, command>>
  BY DEF BeginSnapshot, At
<1>2. /\ s \in SnapshotIds /\ s \in 0 .. MaxSnapshots /\ begun <= s /\ s > begun /\ ~(s > s)
  BY <1>1, TablesAtHand DEF SnapshotIds
<1>3. state[s] = "none" /\ \A l \in Layers : ~layers[s][l].registered
  BY <1>2, TablesAtHand DEF SnapshotInv
<1>4. /\ t \in Contracts /\ BaseFinal(t) /\ Printed(t)
      /\ t.base # NoSnapshot => t.base \in SnapshotIds \ {s} /\ state[t.base] \in Finalized
  BY <1>1, <1>3, AtHand DEF Held, BaseFinal, Finalized
<1>5. /\ state' \in [SnapshotIds -> States] /\ state'[s] = "building"
      /\ contract' \in [SnapshotIds -> Contracts] /\ contract'[s] = t
      /\ \A q \in SnapshotIds \ {s} : state'[q] = state[q] /\ contract'[q] = contract[q]
  BY <1>1, <1>2, <1>4, TablesAtHand DEF States
<1>6. BaseFinal(t)' /\ Printed(t)'
  BY <1>1, <1>4, <1>5 DEF BaseFinal, Printed
<1>7. SnapshotInv(s)'
  <2>1. \A k \in Layers : (Ids(layers[s][k].rows) \subseteq layers[s][k].inventory)'
    BY <1>1, <1>2, TablesAtHand DEF SnapshotInv, Ids
  <2>2. Inherits(s)'
    BY <1>1, <1>3 DEF Inherits
  <2>3. ~(s > begun')
    BY <1>1, <1>2
  <2> QED BY <1>5, <1>6, <2>1, <2>2, <2>3 DEF SnapshotInv, Finalized
<1>8. pc \in {"copy", "layer"} /\ (pc = "copy" => t.base # NoSnapshot)
  BY DEF Incremental
<1>9. /\ r \in Builds /\ r.pc = pc /\ r.sid = s /\ r.terms = t /\ r.left = Down(t)
  BY <1>2, <1>8, AtHand DEF Builds, BuildPcs
<1>10. Held(build)'
  <2>1. Progress(r)'
    BY <1>8, <1>9 DEF Progress, Importing, OnLayer
  <2>2. Owned(r)'
    BY <1>2, <1>5, <1>9, <2>1 DEF Owned
  <2>3. Held(r)'
    BY <1>6, <1>8, <1>9, <2>2 DEF Held
  <2> QED BY <1>1, <2>3
<1>11. state[s] \notin Finalized /\ layers' = layers
  BY <1>1, <1>3 DEF Finalized
<1> QED BY <1>1, <1>2, <1>5, <1>7, <1>10, <1>11, TablesAtHand, TablesMove

LEMMA IdleHeldNext == build' = IdleBuild => Held(build)'
<1>1. Held(IdleBuild)'
  BY IdleHeld, PTL
<1> QED BY <1>1

LEMMA FailStep ==
    ASSUME Inv, build.pc \in {"fail", "finalize"}, Leave,
           state' = [state EXCEPT ![build.sid] = "failed"],
           UNCHANGED <<source, faults, begun, contract, layers, activations, command>>
    PROVE  Inv'
<1> PICK s : s = build.sid
  OBVIOUS
<1>1. s \in SnapshotIds /\ state[s] = "building" /\ SnapshotInv(s)
  BY ImportHand, TablesAtHand DEF Unchosen, Owned
<1>2. /\ state' \in [SnapshotIds -> States] /\ state'[s] = "failed"
      /\ \A q \in SnapshotIds \ {s} : state'[q] = state[q]
  BY <1>1, TablesAtHand DEF States
<1>3. SnapshotInv(s)'
  <2>1. ~(s > begun')
    BY <1>1 DEF SnapshotInv
  <2>2. BaseFinal(contract[s])' /\ Printed(contract[s])' /\ Inherits(s)'
    <3>1. contract[s].base # NoSnapshot => contract[s].base \in SnapshotIds \ {s}
      BY <1>1 DEF SnapshotInv, BaseFinal, Finalized
    <3> QED BY <1>1, <1>2, <3>1 DEF SnapshotInv, BaseFinal, Printed, Inherits
  <2> QED BY <1>1, <1>2, <2>1, <2>2 DEF SnapshotInv, Finalized, Ids
<1>4. Held(build)'
  BY IdleHeldNext DEF Leave
<1>5. state[s] \notin Finalized
  BY <1>1 DEF Finalized
<1> QED BY <1>1, <1>2, <1>3, <1>4, <1>5, TablesAtHand, TablesMove

LEMMA FinalizeStep == ASSUME Inv, Finalize PROVE Inv'
<1> PICK s : s = build.sid
  OBVIOUS
<1>1. /\ build.pc = "finalize" /\ Leave
      /\ UNCHANGED <<source, faults, begun, contract, activations, command>>
  BY DEF Finalize, At
<1>2. CASE ~Valid(s) /\ state' = [state EXCEPT ![s] = "failed"] /\ UNCHANGED layers
  BY <1>1, <1>2, FailStep
<1>3. CASE /\ Valid(s)
           /\ state' = [state EXCEPT ![s] = "ready"]
           /\ layers' = [layers EXCEPT ![s] = [l \in Layers |->
                           [layers[s][l] EXCEPT !.hash = layers[s][l].rows]]]
  <2> DEFINE row(l) == [layers[s][l] EXCEPT !.hash = layers[s][l].rows]
  <2>1. /\ s \in SnapshotIds /\ state[s] = "building" /\ SnapshotInv(s)
        /\ \A l \in Layers : layers[s][l].registered
    BY <1>1, ImportHand, TablesAtHand DEF Unchosen, Owned, Progress
  <2>2. ASSUME NEW l \in Layers
        PROVE  LET old == layers[s][l]
                   new == row(l)
               IN  /\ new \in LayerRows /\ new.registered /\ new.rows = old.rows
                   /\ new.inventory = old.inventory /\ new.from = old.from
                   /\ new.count = old.count /\ new.hash = old.rows
    <3>1. layers[s][l] \in LayerRows
      BY <2>1, TablesAtHand
    <3> QED BY <2>1, <3>1 DEF LayerRows
  <2> HIDE DEF row
  <2>3. /\ layers' \in [SnapshotIds -> [Layers -> LayerRows]]
        /\ \A l \in Layers : layers'[s][l] = row(l)
        /\ \A q \in SnapshotIds \ {s} : layers'[q] = layers[q]
    <3>1. layers' = [layers EXCEPT ![s] = [l \in Layers |-> row(l)]]
      BY <1>3 DEF row
    <3>2. [l \in Layers |-> row(l)] \in [Layers -> LayerRows]
      BY <2>2
    <3> QED BY <2>1, <3>1, <3>2, TablesAtHand
  <2>4. /\ state' \in [SnapshotIds -> States] /\ state'[s] = "ready"
        /\ \A q \in SnapshotIds \ {s} : state'[q] = state[q]
    BY <1>3, <2>1, TablesAtHand DEF States
  <2>5. Complete(s)'
    <3>1. ASSUME NEW l \in Layers
          PROVE  Ids(layers[s][l].rows) = layers[s][l].inventory
                 /\ Cardinality(layers[s][l].inventory) = layers[s][l].count
      BY <1>3, <2>1 DEF Valid, SnapshotInv
    <3>2. \A l \in Layers : /\ layers'[s][l].registered
                            /\ Ids(layers'[s][l].rows) = layers'[s][l].inventory
                            /\ Cardinality(layers'[s][l].inventory) = layers'[s][l].count
                            /\ layers'[s][l].hash = layers'[s][l].rows
      BY <2>2, <2>3, <3>1
    <3> QED BY <3>2 DEF Complete, Ids
  <2>6. SnapshotInv(s)'
    <3>1. ~(s > begun')
      BY <1>1, <2>1 DEF SnapshotInv
    <3>2. contract[s].base # NoSnapshot => contract[s].base \in SnapshotIds \ {s}
      BY <2>1 DEF SnapshotInv, BaseFinal, Finalized
    <3>3. BaseFinal(contract[s])' /\ Printed(contract[s])'
      BY <1>1, <2>1, <2>3, <2>4, <3>2 DEF SnapshotInv, BaseFinal, Printed
    <3>4. Inherits(s)'
      BY <1>1, <2>1, <2>2, <2>3, <3>2 DEF SnapshotInv, Inherits
    <3>5. \A k \in Layers : (Ids(layers[s][k].rows) \subseteq layers[s][k].inventory)'
      BY <2>1, <2>2, <2>3 DEF SnapshotInv, Ids
    <3> QED BY <2>5, <3>1, <3>3, <3>4, <3>5 DEF SnapshotInv
  <2>7. Held(build)'
    BY <1>1, IdleHeldNext DEF Leave
  <2>8. state[s] \notin Finalized
    BY <2>1 DEF Finalized
  <2> QED BY <1>1, <2>1, <2>3, <2>4, <2>6, <2>7, <2>8, TablesAtHand, TablesMove
<1> QED BY <1>2, <1>3 DEF Finalize

LEMMA CrashBuildStep == ASSUME Inv, CrashBuild PROVE Inv'
BY LeaveStep DEF CrashBuild, source

LEMMA BuildStepStep == ASSUME Inv, BuildStep PROVE Inv'
<1>1. ASSUME FailSnapshot PROVE Inv'
  BY <1>1, FailStep DEF FailSnapshot, At
<1> QED
  BY <1>1, CheckBeforeStep, FindResumableStep, BeginSnapshotStep, CopyLayersStep,
     FetchInventoryStep, InventoryFailsStep, RegisterLayerStep, SetLayerInventoryStep,
     ReadPersistedStep, FetchBatchStep, RejectBatchStep, InsertBatchStep, EndLayerStep,
     RecordManifestStep, CheckAfterStep, FinalizeStep DEF BuildStep

-------------------------------------------------------------------------------
(* Activate and rollback. *)

LEMMA CommandMoves ==
    ASSUME Inv, NEW p \in Operators, NEW r \in Commands, Follows(p, r),
           r.pc = "switch" => r.sid \in SnapshotIds /\ state[r.sid] \in Finalized,
           UNCHANGED <<source, snapshots, activations, build>>, faults' \in Nat
    PROVE  Inv'
<1>1. /\ command' \in [Operators -> Commands] /\ command'[p] = r
      /\ \A q \in Operators \ {p} : command'[q] = command[q]
  BY TablesAtHand DEF Follows
<1>2. TypeOK'
  BY <1>1 DEF Inv, TypeOK, source, snapshots, Waiting
<1>3. Held(build)'
  BY DEF Inv, Held, Owned, Progress, BaseFinal, Printed, snapshots
<1>4. \A s \in SnapshotIds : SnapshotInv(s)'
  BY DEF Inv, SnapshotInv, BaseFinal, Printed, Inherits, Complete, snapshots
<1>5. HistoryInv' /\ CommandInv'
  BY <1>1 DEF Inv, HistoryInv, CommandInv, Waiting, snapshots
<1> QED BY <1>2, <1>3, <1>4, <1>5 DEF Inv

LEMMA ChooseReadyStep == ASSUME Inv, NEW p \in Operators, ChooseReady(p) PROVE Inv'
<1>1. PICK s \in SnapshotIds : LastReady(s) /\ Follows(p, [pc |-> "switch", sid |-> s, was |-> NoSnapshot])
  BY DEF ChooseReady
<1>2. state[s] \in Finalized
  BY <1>1 DEF LastReady, Finalized
<1>3. /\ [pc |-> "switch", sid |-> s, was |-> NoSnapshot] \in Commands
      /\ UNCHANGED <<source, faults, snapshots, activations, build>>
  BY DEF Commands, ChooseReady
<1> QED BY <1>1, <1>2, <1>3, AtHand, CommandMoves

LEMMA ReadActiveStep == ASSUME Inv, NEW p \in Operators, ReadActive(p) PROVE Inv'
<1>1. ActiveId \in SnapshotIds \cup {NoSnapshot}
  BY PointerIsLast DEF Inv
<1>2. [pc |-> "history", sid |-> NoSnapshot, was |-> ActiveId] \in Commands
  BY <1>1 DEF Commands
<1> QED BY <1>2, AtHand, CommandMoves DEF ReadActive

LEMMA ChoosePreviousStep == ASSUME Inv, NEW p \in Operators, ChoosePrevious(p) PROVE Inv'
<1>1. UNCHANGED <<source, faults, snapshots, activations, build>>
  BY DEF ChoosePrevious
<1>2. CASE Follows(p, IdleCommand)
  BY <1>1, <1>2, IdleTypes, AtHand, CommandMoves
<1>3. ASSUME NEW i \in DOMAIN activations, state[activations[i].sid] \in Finalized,
             Follows(p, [command[p] EXCEPT !.pc = "switch", !.sid = activations[i].sid])
      PROVE  Inv'
  <2>1. activations[i].sid \in SnapshotIds /\ command[p] \in Commands
    BY ActivationTypes, TablesAtHand DEF Inv, Rows
  <2>2. PICK s : s = activations[i].sid
    OBVIOUS
  <2>3. PICK r : r = [command[p] EXCEPT !.pc = "switch", !.sid = s]
    OBVIOUS
  <2>4. r \in Commands /\ r.sid = s
    BY <2>1, <2>2, <2>3 DEF Commands
  <2> QED BY <1>1, <1>3, <2>1, <2>2, <2>3, <2>4, AtHand, CommandMoves
<1> QED BY <1>2, <1>3 DEF ChoosePrevious

LEMMA CrashCommandStep == ASSUME Inv, NEW p \in Operators, CrashCommand(p) PROVE Inv'
<1>1. faults' \in Nat
  BY AtHand DEF CrashCommand, Fault
<1> QED BY <1>1, IdleTypes, CommandMoves DEF CrashCommand

LEMMA Appended ==
    ASSUME NEW S, NEW q \in Seq(S), NEW x \in S, NEW t, t = Append(q, x)
    PROVE  /\ t \in Seq(S) /\ Len(t) = Len(q) + 1 /\ t[Len(q) + 1] = x
           /\ DOMAIN t = 1 .. Len(q) + 1
           /\ \A i \in 1 .. Len(q) : t[i] = q[i]
<1>1. /\ t \in Seq(S) /\ Len(t) = Len(q) + 1 /\ t[Len(q) + 1] = x
      /\ \A i \in 1 .. Len(q) : t[i] = q[i]
  BY AppendProperties
<1> QED BY <1>1

\* Switching moves no snapshot into or out of the finalized or the building ones.
LEMMA SwitchKeeps ==
    ASSUME Inv, NEW p \in Operators, SwitchActive(p)
    PROVE  /\ command[p].sid \in SnapshotIds /\ state[command[p].sid] \in Finalized
           /\ \A t \in SnapshotIds : /\ state'[t] \in States
                                     /\ state'[t] \in Finalized <=> state[t] \in Finalized
                                     /\ state'[t] = "building" <=> state[t] = "building"
                                     /\ state'[t] = "none" <=> state[t] = "none"
<1>1. command[p].sid \in SnapshotIds /\ state[command[p].sid] \in Finalized
  BY DEF SwitchActive, Inv, TypeOK, CommandInv
<1> QED BY <1>1, TablesAtHand DEF SwitchActive, Activated, Finalized, States

LEMMA SwitchActiveStep == ASSUME Inv, NEW p \in Operators, SwitchActive(p) PROVE Inv'
<1> PICK s : s = command[p].sid
  OBVIOUS
<1>1. /\ state' = Activated(s) /\ Follows(p, IdleCommand)
      /\ UNCHANGED <<source, faults, begun, contract, layers, build>>
      /\ activations' = Append([i \in DOMAIN activations |->
                                  [activations[i] EXCEPT !.open = FALSE]],
                               [sid |-> s, open |-> TRUE])
  BY DEF SwitchActive
<1>2. /\ s \in SnapshotIds /\ state[s] \in Finalized
      /\ \A t \in SnapshotIds : /\ state'[t] \in States
                                /\ state'[t] \in Finalized <=> state[t] \in Finalized
                                /\ state'[t] = "building" <=> state[t] = "building"
                                /\ state'[t] = "none" <=> state[t] = "none"
  BY SwitchKeeps
<1> PICK n, last, closed :
       /\ n = Len(activations) /\ last = [sid |-> s, open |-> TRUE]
       /\ closed = [i \in DOMAIN activations |-> [activations[i] EXCEPT !.open = FALSE]]
  OBVIOUS
<1>3. /\ n \in Nat /\ DOMAIN activations = 1 .. n
      /\ \A i \in DOMAIN activations : activations[i] \in Rows
  BY ActivationTypes DEF Inv
<1>4. ASSUME NEW i \in 1 .. n
      PROVE  /\ [activations[i] EXCEPT !.open = FALSE] \in Rows
             /\ [activations[i] EXCEPT !.open = FALSE].sid = activations[i].sid
             /\ [activations[i] EXCEPT !.open = FALSE].open = FALSE
  BY <1>3 DEF Rows
<1>5. last \in Rows /\ last.sid = s /\ last.open = TRUE
  BY <1>2 DEF Rows
<1>6. closed \in [1 .. n -> Rows]
  BY <1>3, <1>4
<1>7. closed \in Seq(Rows) /\ Len(closed) = n
  BY <1>3, <1>6
<1>8. activations' = Append(closed, last)
  BY <1>1
<1>9. /\ activations' \in Seq(Rows) /\ Len(activations') = n + 1
      /\ DOMAIN activations' = 1 .. n + 1
      /\ activations'[n + 1] = last
      /\ \A i \in 1 .. n : activations'[i] = closed[i]
  <2>1. PICK t : t = activations'
    OBVIOUS
  <2>2. /\ t \in Seq(Rows) /\ Len(t) = Len(closed) + 1 /\ t[Len(closed) + 1] = last
        /\ DOMAIN t = 1 .. Len(closed) + 1
        /\ \A i \in 1 .. Len(closed) : t[i] = closed[i]
    BY <1>5, <1>7, <1>8, <2>1, Appended
  <2> QED BY <1>7, <2>1, <2>2
<1>10. ASSUME NEW i \in 1 .. n
       PROVE  activations'[i].sid = activations[i].sid /\ activations'[i].open = FALSE
  BY <1>3, <1>4, <1>9
<1>11. state' \in [SnapshotIds -> States]
  BY <1>1, <1>2, TablesAtHand DEF Activated, States
<1>12. /\ command' \in [Operators -> Commands] /\ command'[p].pc = "idle"
       /\ \A q \in Operators \ {p} : command'[q] = command[q]
  BY <1>1, IdleTypes, TablesAtHand DEF Follows
<1>13. TypeOK'
  BY <1>1, <1>9, <1>11, <1>12 DEF Inv, TypeOK, source, Waiting
<1>14. HistoryInv'
  <2>1. ASSUME NEW i \in 1 .. n + 1
        PROVE  state'[activations'[i].sid] \in Finalized /\ (activations'[i].open <=> i = n + 1)
    <3>1. CASE i = n + 1
      <4>1. activations'[i].sid = s /\ activations'[i].open = TRUE
        BY <1>5, <1>9, <3>1
      <4>2. state'[s] \in Finalized
        BY <1>2
      <4>3. activations'[i].open
        BY <4>1
      <4> QED BY <3>1, <4>1, <4>2, <4>3
    <3>2. CASE i \in 1 .. n
      <4>1. activations[i].sid \in SnapshotIds /\ state[activations[i].sid] \in Finalized
        BY <1>3, <3>2 DEF Inv, HistoryInv, Rows
      <4>2. activations'[i].sid = activations[i].sid /\ activations'[i].open = FALSE
        BY <1>10, <3>2
      <4>3. state'[activations'[i].sid] \in Finalized
        BY <1>2, <4>1, <4>2
      <4>4. ~activations'[i].open
        BY <4>2
      <4>5. i # n + 1
        BY <1>3, <3>2
      <4> QED BY <4>3, <4>4, <4>5
    <3> QED BY <1>3, <3>1, <3>2
  <2> QED BY <1>9, <2>1 DEF HistoryInv
<1>15. CommandInv'
  BY <1>2, <1>12 DEF Inv, CommandInv, TypeOK, Waiting
<1>16. Held(build)'
  <2>1. Held(build) /\ build' = build
    BY <1>1, AtHand
  <2>2. (BaseFinal(build.terms) => BaseFinal(build.terms)') /\ (Printed(build.terms) => Printed(build.terms)')
    BY <1>1, <1>2 DEF BaseFinal, Printed
  <2>3. Owned(build) => Owned(build)'
    BY <1>1, <1>2 DEF Owned, Progress
  <2> QED BY <2>1, <2>2, <2>3 DEF Held
<1>17. ASSUME NEW t \in SnapshotIds PROVE SnapshotInv(t)'
  <2>1. SnapshotInv(t)
    BY TablesAtHand
  <2>2. (BaseFinal(contract[t]) => BaseFinal(contract[t])') /\ (Printed(contract[t]) => Printed(contract[t])')
    BY <1>1, <1>2 DEF BaseFinal, Printed
  <2>3. (Inherits(t) => Inherits(t)') /\ (Complete(t) => Complete(t)')
    BY <1>1 DEF Inherits, Complete, Ids
  <2> QED BY <1>1, <1>2, <2>1, <2>2, <2>3 DEF SnapshotInv, Ids
<1> QED BY <1>13, <1>14, <1>15, <1>16, <1>17 DEF Inv

-------------------------------------------------------------------------------
(* The invariant and what follows from it. *)

LEMMA InvStep == Inv /\ [Next]_vars => Inv'
<1> SUFFICES ASSUME Inv, [Next]_vars PROVE Inv'
  OBVIOUS
<1>1. CASE UNCHANGED vars
  BY <1>1, AtHand, SourceMoves DEF vars, source
<1>2. CASE Next
  BY <1>2, EditStep, StartFullStep, StartIncrementalStep, BuildStepStep, CrashBuildStep,
     ChooseReadyStep, ReadActiveStep, ChoosePreviousStep, SwitchActiveStep, CrashCommandStep
     DEF Next, CommandStep
<1> QED BY <1>1, <1>2

LEMMA InvHolds == Spec => []Inv
BY InvInit, InvStep, PTL DEF Spec

\* However the build is interrupted, answered or validated, whatever is published is whole:
\* every layer of the registry, with the features of its inventory and hashes of its own.
THEOREM PlanningStoreIsSound == Spec => []StoreIsSound
<1>1. Inv => StoreIsSound
  BY DEF Inv, SnapshotInv, Complete, StoreIsSound, FinalizedComplete
<1> QED BY <1>1, InvHolds, PTL

\* A finalized refresh has its base's features in every layer it was not asked for, and
\* those layers had the base's inventory at the source when the refresh was begun.
THEOREM RefreshInherits == Spec => []RefreshOnlyTouchesItsLayers
<1>1. Inv => RefreshOnlyTouchesItsLayers
  BY DEF Inv, SnapshotInv, Complete, Inherits, Printed, RefreshOnlyTouchesItsLayers
<1> QED BY <1>1, InvHolds, PTL

-------------------------------------------------------------------------------
(* The store implements PublishedSnapshots. *)

\* The tables of finalized snapshots stay, and no other snapshot becomes finalized.
NothingPublished ==
    \A s \in SnapshotIds : /\ state'[s] \in Finalized <=> state[s] \in Finalized
                           /\ state[s] \in Finalized => layers'[s] = layers[s]

\* A build writes to the layers of the snapshot it is building only.
LEMMA WritesAreOwn ==
    ASSUME Inv, build.pc \notin Unchosen, NEW f, layers' = [layers EXCEPT ![build.sid] = f],
           UNCHANGED state
    PROVE  NothingPublished
<1>1. state[build.sid] = "building" /\ build.sid \in SnapshotIds
  BY ImportHand DEF Owned
<1>2. \A t \in SnapshotIds \ {build.sid} : layers'[t] = layers[t]
  BY TablesAtHand
<1> QED BY <1>1, <1>2 DEF NothingPublished, Finalized

LEMMA QuietBuildStep ==
    ASSUME Inv, BuildStep, ~Finalize
    PROVE  NothingPublished /\ UNCHANGED activations
<1>1. CASE UNCHANGED <<state, layers, activations>>
  BY <1>1 DEF NothingPublished
<1>2. ASSUME CopyLayers \/ RegisterLayer \/ SetLayerInventory \/ InsertBatch
      PROVE  NothingPublished /\ UNCHANGED activations
  <2>1. build.pc \notin Unchosen /\ UNCHANGED <<state, activations>>
    BY <1>2 DEF CopyLayers, RegisterLayer, SetLayerInventory, InsertBatch, At, Unchosen
  <2>2. PICK s, l : s = build.sid /\ l = build.layer
    OBVIOUS
  <2>3. s \in SnapshotIds /\ layers \in [SnapshotIds -> [Layers -> LayerRows]]
    BY <2>1, <2>2, ImportHand, TablesAtHand
  <2>4. layers' = layers \/ \E f : layers' = [layers EXCEPT ![s] = f]
    <3>1. CASE CopyLayers
      BY <2>2, <3>1 DEF CopyLayers
    <3>2. CASE RegisterLayer
      <4>1. CASE layers' = layers
        BY <4>1
      <4>2. CASE layers' = [layers EXCEPT ![s][l].registered = TRUE,
                                          ![s][l].count = Cardinality(build.want)]
        <5>1. layers' = [layers EXCEPT ![s] = [[@ EXCEPT ![l].registered = TRUE]
                                                 EXCEPT ![l].count = Cardinality(build.want)]]
          BY <2>3, <4>2
        <5> QED BY <5>1
      <4> QED BY <2>2, <3>2, <4>1, <4>2 DEF RegisterLayer
    <3>3. CASE SetLayerInventory
      BY <2>2, <3>3 DEF SetLayerInventory
    <3>4. CASE InsertBatch
      BY <2>2, <3>4 DEF InsertBatch
    <3> QED BY <1>2, <3>1, <3>2, <3>3, <3>4
  <2>5. CASE layers' = layers
    BY <2>1, <2>5 DEF NothingPublished
  <2>6. ASSUME NEW f, layers' = [layers EXCEPT ![s] = f]
        PROVE  NothingPublished
    BY <2>1, <2>2, <2>6, WritesAreOwn
  <2> QED BY <2>1, <2>4, <2>5, <2>6
<1>3. ASSUME BeginSnapshot
      PROVE  NothingPublished /\ UNCHANGED activations
  <2>1. /\ begun + 1 \in SnapshotIds /\ begun + 1 > begun
    BY <1>3, TablesAtHand DEF BeginSnapshot, SnapshotIds
  <2>2. state[begun + 1] = "none"
    BY <2>1, TablesAtHand DEF SnapshotInv
  <2>3. /\ state'[begun + 1] = "building" /\ UNCHANGED <<layers, activations>>
        /\ \A t \in SnapshotIds \ {begun + 1} : state'[t] = state[t]
    BY <1>3, <2>1, TablesAtHand DEF BeginSnapshot
  <2> QED BY <2>2, <2>3 DEF NothingPublished, Finalized
<1>4. ASSUME FailSnapshot
      PROVE  NothingPublished /\ UNCHANGED activations
  <2>1. build.sid \in SnapshotIds /\ state[build.sid] = "building"
    BY <1>4, ImportHand DEF FailSnapshot, At, Unchosen, Owned
  <2>2. /\ state'[build.sid] = "failed" /\ UNCHANGED <<layers, activations>>
        /\ \A t \in SnapshotIds \ {build.sid} : state'[t] = state[t]
    BY <1>4, <2>1, TablesAtHand DEF FailSnapshot
  <2> QED BY <2>1, <2>2 DEF NothingPublished, Finalized
<1> QED
  BY <1>1, <1>2, <1>3, <1>4 DEF BuildStep, snapshots, CheckBefore, FindResumable,
     FetchInventory, InventoryFails, ReadPersisted, FetchBatch, RejectBatch, EndLayer,
     RecordManifest, CheckAfter, CheckAfterFails

LEMMA PromiseInit == Init => Promise!Init
<1> SUFFICES ASSUME Init PROVE Promise!Init
  OBVIOUS
<1>1. ActiveId = NoSnapshot
  BY DEF Init, ActiveId, Open
<1> QED BY <1>1 DEF Init, Promise!Init, Finalized

LEMMA PromiseStep == Inv /\ Inv' /\ [Next]_vars => [Promise!Next]_(Promise!vars)
<1> SUFFICES ASSUME Inv, Inv', [Next]_vars
             PROVE  Promise!Next \/ UNCHANGED Promise!vars
  OBVIOUS
<1> DEFINE seen(s) == [l \in Layers |-> [inventory |-> layers[s][l].inventory,
                                         rows |-> layers[s][l].rows]]
           visible == [s \in SnapshotIds |->
                         IF state[s] \in Finalized THEN seen(s) ELSE NotRecorded]
<1>1. ASSUME NothingPublished PROVE visible' = visible
  BY <1>1 DEF NothingPublished
<1>2. ASSUME UNCHANGED activations PROVE UNCHANGED ActiveId
  BY <1>2 DEF ActiveId, Open
<1>3. ASSUME NothingPublished, UNCHANGED activations PROVE UNCHANGED Promise!vars
  BY <1>1, <1>2, <1>3 DEF Promise!vars
<1>4. ASSUME NEW s \in SnapshotIds PROVE seen(s) # NotRecorded
  <2>1. \A l \in Layers : layers[s][l] \in LayerRows
    BY TablesAtHand
  <2>2. seen(s) \in [Layers -> [inventory : SUBSET ObjectIds, rows : Contents]]
    BY <2>1 DEF LayerRows
  <2> QED BY <2>2, PlanningNotRecorded
<1>5. ASSUME Finalize PROVE Promise!Next \/ UNCHANGED Promise!vars
  <2>1. PICK s : s = build.sid
    OBVIOUS
  <2>2. /\ s \in SnapshotIds /\ state[s] = "building"
        /\ UNCHANGED activations
    BY <1>5, <2>1, ImportHand DEF Finalize, At, Unchosen, Owned
  <2>3. CASE state' = [state EXCEPT ![s] = "failed"] /\ UNCHANGED layers
    <3>1. NothingPublished
      BY <2>2, <2>3, TablesAtHand DEF NothingPublished, Finalized
    <3> QED BY <1>3, <2>2, <3>1
  <2>4. CASE /\ state' = [state EXCEPT ![s] = "ready"]
             /\ layers' = [layers EXCEPT ![s] = [l \in Layers |->
                             [layers[s][l] EXCEPT !.hash = layers[s][l].rows]]]
    <3>1. /\ state'[s] \in Finalized /\ state[s] \notin Finalized
          /\ \A t \in SnapshotIds \ {s} : state'[t] = state[t] /\ layers'[t] = layers[t]
      BY <2>2, <2>4, TablesAtHand DEF Finalized
    <3>2. PICK c : c = seen(s)'
      OBVIOUS
    <3>3. c \in Publishable
      <4>1. \A l \in Layers : layers'[s][l] \in LayerRows
        BY <2>2 DEF Inv, TypeOK
      <4>2. c = [l \in Layers |-> [inventory |-> layers'[s][l].inventory,
                                   rows |-> layers'[s][l].rows]]
        BY <3>2
      <4>3. c \in [Layers -> [inventory : SUBSET ObjectIds, rows : Contents]]
        BY <4>1, <4>2 DEF LayerRows
      <4>4. \A l \in Layers : (Ids(layers[s][l].rows) = layers[s][l].inventory)'
        BY <2>2, <3>1 DEF Inv, SnapshotInv, Complete
      <4>5. \A l \in Layers : Ids(c[l].rows) = c[l].inventory
        BY <4>2, <4>4 DEF Ids
      <4> QED BY <4>3, <4>5 DEF Publishable
    <3>4. visible' = [visible EXCEPT ![s] = c] /\ visible[s] = NotRecorded
      BY <2>2, <3>1, <3>2
    <3>5. Promise!Publish(s, c)
      BY <1>2, <2>2, <3>4 DEF Promise!Publish
    <3> QED BY <2>2, <3>3, <3>5 DEF Promise!Next
  <2> QED BY <1>5, <2>1, <2>3, <2>4 DEF Finalize
<1>6. ASSUME NEW p \in Operators, SwitchActive(p)
      PROVE  Promise!Next \/ UNCHANGED Promise!vars
  <2>1. PICK s : s = command[p].sid
    OBVIOUS
  <2>2. s \in SnapshotIds /\ state[s] \in Finalized /\ NothingPublished
    BY <1>6, <2>1, SwitchKeeps DEF NothingPublished, SwitchActive
  <2>3. ActiveId' = s
    <3>1. PICK t, n : t = activations' /\ n = Len(activations)
      OBVIOUS
    <3>2. /\ n \in Nat /\ Len(t) = n + 1 /\ t[n + 1].sid = s
      <4>1. PICK closed, last :
               /\ closed = [i \in DOMAIN activations |-> [activations[i] EXCEPT !.open = FALSE]]
               /\ last = [sid |-> s, open |-> TRUE]
        OBVIOUS
      <4>2. /\ n \in Nat /\ DOMAIN activations = 1 .. n
            /\ \A i \in 1 .. n : activations[i] \in Rows
        BY <3>1, ActivationTypes DEF Inv
      <4>3. closed \in [1 .. n -> Rows] /\ last \in Rows /\ last.sid = s
        BY <2>2, <4>1, <4>2 DEF Rows
      <4>4. closed \in Seq(Rows) /\ Len(closed) = n
        BY <4>2, <4>3
      <4>5. t = Append(closed, last)
        BY <1>6, <2>1, <3>1, <4>1 DEF SwitchActive
      <4> QED BY <4>2, <4>3, <4>4, <4>5, Appended
    <3>3. (ActiveId = IF Len(activations) = 0 THEN NoSnapshot ELSE activations[Len(activations)].sid)'
      <4>1. (TypeOK /\ HistoryInv)'
        BY DEF Inv
      <4>2. (TypeOK /\ HistoryInv =>
              ActiveId = IF Len(activations) = 0 THEN NoSnapshot ELSE activations[Len(activations)].sid)'
        BY PointerIsLast, PTL
      <4> QED BY <4>1, <4>2
    <3> QED BY <3>1, <3>2, <3>3
  <2>4. visible' = visible
    BY <1>1, <2>2
  <2>5. visible[s] # NotRecorded
    BY <1>4, <2>2
  <2>6. Promise!Switch(s)
    BY <2>3, <2>4, <2>5 DEF Promise!Switch
  <2> QED BY <2>2, <2>6 DEF Promise!Next
<1>7. ASSUME BuildStep, ~Finalize PROVE UNCHANGED Promise!vars
  BY <1>3, <1>7, QuietBuildStep
<1>8. CASE UNCHANGED <<state, layers, activations>>
  <2>1. NothingPublished
    BY <1>8 DEF NothingPublished
  <2> QED BY <1>3, <1>8, <2>1
<1> QED
  BY <1>5, <1>6, <1>7, <1>8 DEF Next, CommandStep, vars, snapshots, EditSource, StartFull,
     StartIncremental, CrashBuild, ChooseReady, ReadActive, ChoosePrevious, CrashCommand

\* Full or incremental, interrupted or not, a build shows readers nothing until it is whole,
\* and neither a later build nor activate and rollback change what it has shown.
THEOREM PlanningStoreKeepsPromise == Spec => KeepsPromise
BY PromiseInit, PromiseStep, InvHolds, PTL DEF Spec, KeepsPromise, Promise!Spec

===============================================================================
