# Verification of dp-lookup-pro

dp-lookup-pro answers questions about one land parcel of Mumbai's Development
Plan 2034. It downloads the official parcel layer and about fifty planning
layers into versioned snapshots in one SQLite file, lets an operator review and
activate a snapshot, answers lookups from the active one (or from the live
service), derives further facts from it, and writes reports, drawings and a
register. This directory holds TLA+ models of the parts in which order, failure
and concurrency matter or in which a decision has many cases, TLC runs that
check them on small instances, and proofs that TLAPS checks for every value of
the constants.

Paths are relative to the root of the repository; `dp_lookup/` is
`src/dp_lookup/` there.

## Inventory

| Component | State | Operations and interactions | What makes it hard | What makes it correct |
|---|---|---|---|---|
| Parcel snapshot store, `dp_lookup/spatial_store` | snapshots, inventory, parcels, activation history, pointer in `meta` | begin, set inventory, insert batch, update metadata, finalize, activate, rollback; one SQLite transaction each | the state check of a method precedes its transaction; several processes share the file | finalized snapshots are complete and immutable; one active snapshot, which is the pointed one |
| Parcel import, `application/snapshot_ingestion.py`, `database_services.py` | what one run has received | inventory request, then batches through callbacks into the store | lost, extra and rejected features; a source that changes; crashes between transactions | an interrupted build is resumed, loses nothing and is finished |
| Planning snapshot store, `dp_lookup/planning_snapshot` | the same per layer, plus what each snapshot was begun for | register layer, inventory, batch, copy layers, fail, finalize, activate, rollback | counts, inventories and features of different instants; copied layers | as above, and copied layers equal their source |
| Planning builds, `application/planning_snapshot.py`, `planning_database_services.py`, `incremental_planning.py`, `upstream_check.py` | contract of the build: base, refreshed layers, fingerprints | checks of the source before and after, import layer by layer, copies from the active snapshot | stale base, stale fingerprints, drift, choice between failing a snapshot and leaving it resumable | a refresh changes its layers only; no build gets stuck |
| Offline planning ingestion, `planning_snapshot/ingestion.py` | none of its own | the store's methods, from a file | one step of several failing | as the planning store |
| Plot intelligence, `dp_lookup/intelligence`, `application/intelligence_*.py` | derived builds, their plots and issues, activations | build from the active parcel and planning snapshot and the registry's revision, in worker threads; activate; query | the sources are switched and the registry revised during and after a build; plots fail one by one | a published build is complete and of one fingerprint; facts are only served beside the sources they were derived from |
| Authority evidence, `dp_lookup/authority`, `application/authority_resolver.py` | append-only records, selections, events | register, verify, withdraw, activate, recommend, resolve | several operators; documents that change; conflicting sources | one active source per purpose, which was verified; a recommendation decides; cached reports follow the registry |
| Local sources, `clients/local_parcels.py`, `local_planning.py` | a pinned snapshot | local answer, or fall back to the live service | missing, stale or failing snapshot; several records of one plot | a substitution is disclosed, an error is no miss, a label is earned |
| Lookup pipeline, `application/lookup_service.py` and neighbours | one result, the tasks of its evidence | concurrent requests with partial failure; exports; register; cache | degraded answers, stages that fail one by one, snapshots switched under way | a failed part is reported, never silently absent; what is cached was complete |
| Clients, `clients/transport.py`, `planning_queries.py`, `planning_evidence_queries.py` | attempts left, slots | retry, fan-out under semaphores | retries hold slots, two rounds of queries | every request ends; slots are neither exceeded nor lost |
| Caches, `clients/cache.py`, `tile_cache.py` | one JSON file, its copy in each process | read, refresh, merge, replace under locks | several processes write the whole file | no entry is lost, none is incomplete |
| Export pipeline and register, `application/exporting.py`, `exporters/excel.py` | output files, the shared register | writers, read-change-replace under a lock | threads and processes, failures, crashes while holding the lock | no row of the register is lost; one row per lookup |
| Decisions on one parcel, `core/planning_status.py`, `area_assessment.py`, `application/*_normalization.py` | none | pure functions of answers and failures | many cases | no verdict stronger than its evidence |
| Plot assemblies, `dp_lookup/experimental/assemblies`, `application/assembly_services.py` | members read, bundle of files | read the members, relate every pair, measure the union, write the bundle | several plots from one snapshot while it is switched; relations that must add up | what is called one site is one, and its measures agree |
| Database health, `application/database_health.py` | none | read-only audit, statement by statement | relates tables while other processes commit | an alarm means something is wrong |
| Geometry, data classes, exporters, renderers, command line, tools | none | computing, formatting, parsing | floating point, layout | how rings nest and add up is modelled; the rest is no subject of these models |

## Modules

| Module | What it is |
|---|---|
| `PublishedSnapshots` | What a snapshot store promises its readers: a snapshot becomes visible once, complete, and never changes; the pointer names a visible one. The parcel, the planning and the intelligence store are each checked, and proved, to implement it. |
| `SnapshotStore` | The parcel store, the build command with its importer, activate and rollback, for any number of builders and operators. |
| `DatabaseHealth` | The parcel section of `db health` beside them. |
| `PlanningStore` | The planning store, full and incremental builds, activate and rollback. |
| `IntelligenceStore` | Derived builds with their worker threads, activation and readers, beside a moving world of sources. |
| `AuthoritySelection` | Eligibility, rank and recommendation of authority sources, as operators. |
| `AuthorityStore` | The registry: several operators, the documents, the lookups that cache what they resolved. |
| `ParcelGeometry` | Rings, holes and areas, on a line of cells. |
| `ParcelAssessment` | One parcel from its records or the live service to its area, its label and its authority sources. |
| `PlotAssembly` | The assembly command: members, relations, measures, status, bundle. |
| `LiveQueries` | Requests with attempts, delays and slots. |
| `PlanningDecisions`, `AbuttingEvidence`, `ScrutinyEvidence` | The three tasks that gather the evidence of one lookup, each with its verdict. |
| `LookupEvidence` | The three tasks on one event loop, with the service that answers in any order. |
| `ResultCache`, `ExcelRegister` | The two files that all lookups share, with their locks. |
| `LookupReports` | Whole lookups, from the cache key to the cached report, on top of the two. |
| `SnapshotStoreProofs`, `DatabaseHealthProofs`, `PlanningStoreProofs`, `IntelligenceStoreProofs`, `AuthorityStoreProofs`, `LookupReportsProofs`, `LookupEvidenceProofs`, `ParcelProofs` | Theorems. |
| `MC...` | Small instances for TLC. |

### SnapshotStore and DatabaseHealth

State. `state`, `expected`, `inventory`, `parcels` and `recorded` are the
columns and child tables of `snapshots`; `activations` and `active` are
`snapshot_activations` and `meta.active_snapshot_id`. `expected[s]` is the
inventory the snapshot was begun for: the code keeps its hash and its size, and
the hash is taken to be injective. `recorded[s]` is the manifest's content hash,
again represented by what is hashed. `build[b]` is what the local variables of
`LocalDatabaseServices._build` and `ingest_layer13_snapshot` hold, with a program
counter; `command[p]` the same for activate and rollback. `upstream` is Layer 13.

Steps. One action is one SQLite transaction, or the reads and the answer of the
source between two transactions. The methods of the store test the state with
`_building` *before* they begin their transaction, so the test belongs to the
preceding step (`FetchBatch` for `insert_batch`, `HashContent` for
`update_snapshot_metadata`, `ValidateSnapshot` for `finalize_snapshot`), and the
transaction (`InsertBatch`, `RecordManifest`, `FinalizeSnapshot`) writes without
looking again. A crash, or any exception of a statement, is `CrashBuild`: SQLite
rolls back the open transaction, and exactly the committed steps remain.

Source. `EditSource` adds, removes or edits a feature at any time. An answer to a
batch is exact, or defective: any set of features of the source, so requested
ones may be missing and others may be present. A batch whose retries are
exhausted is `RejectBatch`. Payloads are model values of four kinds: two versions
of a proper polygon, one the importer accepts and the store's validation refuses
(a ring too short), and one the importer drops.

The audit of `DatabaseHealth` counts the active rows, reads the newest of them,
reads the pointer and compares the rows with the inventory in statements of
their own, on a connection that opens no transaction. `audit.age` is not read by
the code; it lets `AlarmsAreRaces` say what was committed since the first
statement.

Left out: R-tree rows, warnings, timestamps, the retry loop inside one request,
`fail_snapshot` (no command calls it for parcels), and activation or rollback to
an identifier given by the caller (no command does that).

### PlanningStore

State. `layers[s][l]` is a row of `planning_layers` with its inventory, its
features, the snapshot it was inherited from and its hash. `contract[s]` is what
`source_metadata_json` says the snapshot was begun for: no base for a full build,
or base, refreshed layers and the fingerprints of the first upstream check. The
pointer is the open row of `planning_activations`.

Steps. One build runs at a time, beside any number of operators. Only the build
moves a snapshot out of 'building', so a method's state check and its transaction
are one step here, with no behaviour lost. Concurrent builds are the subject of
`SnapshotStore`. `begin_snapshot` computes the version outside its transaction;
with one build at a time version and identifier coincide.

A build fetches the inventory of one layer after the other, registers the layer,
persists its inventory, reads what is stored, and fetches batches. A failed
inventory request marks the run incomplete and the next layer is tried. If the
stored inventory differs from the new one the store raises; the incremental build
then fails its snapshot, the full build leaves it building (`AbandonOnDrift`). An
incremental build copies the omitted layers before and after the download, and
compares the source with the base before and after.

Left out: edit dates and metadata hashes in the upstream check (a layer need not
have an edit date; inventories are what every layer is compared by), external
checkpoints given with `--resume`, aliases of a layer, and
`prune_failed_snapshots` and vacuum (no command calls them). An upstream check is
one step, although it sends one request per layer.

### IntelligenceStore

State. `sources` are the two active snapshots and the registry's revision, the
three parts of a source fingerprint; `SwitchSource` and `ReviewAuthority` move
them at any time. A row of `builds` has its state, scope, fingerprint, the facts
of each plot, the plots with an unresolved issue, and the count that finalization
writes. A fact is represented by the sources it was derived from, so that
"derived from the sources the build is pinned to" is an equation. `shared` is not
read by the code: it marks builds on which two commands worked at once.

Steps. `StartBuild` reads the sources; `ResumeBuild`, `FindNothing` and
`InsertBuild` are the search for a resumable build and its insertion; up to
`Workers` plots are derived at a time (`Derive`, `DeriveFails`,
`DeriveRefused`), and stored by `Upsert` or `RecordIssue`, whose state check
belongs to the step before. After the plots the revision is read again
(`CheckRevision`), and the build verified, verified again by the transaction's
owner, finalized, or failed. `ChooseBuild`, `CheckBuild` and `ActivateBuild` are
the three parts of an activation; `CheckCurrent` and `Answer` those of a query,
which opens one connection for each.

Left out: the metrics of one plot, search filters and listings, the progress
file. The registry is always readable in the run (`RegistryFails = FALSE`); see
the deviations below for what happens otherwise.

### AuthoritySelection and AuthorityStore

`records`, `selections` and `lastEvent` are the tables of the registry, in order
of their identifiers; `document` is the content of each document a record cites.
`StartAdd`, `RegisterNew`, `RegisterKnown` and `RegisterRefused` add the items of
a manifest one by one; verification, withdrawal and activation are a test and a
transaction each (`TestVerify`, `Verify`, ...), so that two operators
interleave between them. A verification supersedes the record that the new one
names. A lookup reads the revision for its cache key, then the active sources, and
saves a report (`StartLookup`, `ReadActive`, `SaveReport`), or is served
(`ServeCached`).

`AuthoritySelection` has the eligibility of a record for a purpose, the rank of
its type, the comparison of equal ranks by date and review, and the conflict rule,
as set expressions; `Recommend` is the command's answer. `rings` is the boundary, 0 when
there is none: the code keeps an empty sequence then, which its test for a usable
geometry (`is None`) lets pass, so that `Eligible` does not ask for a boundary.

### ParcelGeometry and ParcelAssessment

A ring is an interval of cells on a line, enough for rings that nest, touch,
overlap and repeat; nesting follows the ring depth of the code. `Ground` gives the
area of each set of cells and may be any function of them. The rings of a merged
feature are indexed by pairs of record and place, in the order of the code.
`ParcelAssessment` is one lookup's parcel: `ReadLocal` merges the rows of the
pinned snapshot (`Merged`), `FallBack` substitutes the live service in `auto`,
`QueryExact` and `QueryPrefix` are the two live queries, `BuildParcel` assesses
area and label, and `ApplyAuthority` puts the active authority sources in place
of area and boundary (`Active`: what `activate` accepts, for geometry a boundary). `baseline` keeps the assessment before that.

### PlotAssembly

`land` has the plots of each snapshot on a grid of squares, `study` the command
with its pinned snapshot and the members read so far, `site` the analysis,
`bundle` what each file of the output directory belongs to. `ReadMember` reads one
member after the other; `SwitchLand` activates another snapshot at any time.
Pairs overlap, share edges, or lie a gap apart; connectivity is the code's search
from the first plot over the edges that plots share. The properties compare it with
`OnePiece`, which speaks of the squares and not of a search: however the union is
parted in two, an edge leads from one part to the other. The four files are written
in the order of `Outputs`, each replaced in one step.

### LookupEvidence and its parts

`LiveQueries` has one record per request: unsent, queued for a slot, sent with a
number of attempts, or ended with an answer or a failure. Tasks send requests and
wait for all of them. A request takes a slot of its `Pool`, one semaphore in the code:
road and neighbour probes share one, the scrutiny layers have another, the planning
layers and the identify have none. `PlanningDecisions` asks the planning layers and the
point identify, or reads a local snapshot, and derives the list of encumbrances, the
share of the parcel, the badge and the confidence. An answer of a layer has any part of
its features, as one without `features`, or one cut off at the transfer limit, is taken
as it is; and a feature may raise when it is read (`reads`), before its overlap is
counted or after, and is skipped then. The layer counts as answered all the same. `AbuttingEvidence` reads or
probes for roads and neighbours. `ScrutinyEvidence` asks the layers of its profile
and, in a second round, the layers that findings of the first call for.
`ground`, `nearRoads`, `nearPlots` and `there` are what there is; answers are
derived from them, so the properties relate a verdict to the ground: that of a
confirmed result is the one the ground requires if nothing was lost on the way
(`NothingLost`), and never a more severe one if something was.

Geometry is reduced to cells, each with a set of hundredths of the parcel
(`Measures`), so that what two overlapping features cover together is the number of
a union; distances are numbers.

### ResultCache, ExcelRegister and LookupReports

A run is one lookup in a process; `host` places runs in processes, and runs of one
process share its copy of the cache. `Begin` to `Cache` are the stages of
`cli_command`, `LookupService` and the export pipeline in their order: the cache
key from the active snapshots, the cache, parcel, authority, roads and neighbours,
planning, scrutiny, vector files, pictures, PDF, register, cache. Each stage may
fail (`Lacking`), with the consequence the code gives it; what a report contains
is represented by the version of the snapshot it was read from, or `Live`.
`lacks` is a history variable: the stages that lacked something, which
`CachedIsComplete` compares with the flags and warnings from which the code
decides (`Cacheable`). `Crash` kills a process with all its runs at any step and
releases its locks, as the operating system does; `Switch` activates or rolls back.

## Runs

| Run | Module | Checks |
|---|---|---|
| `parcel` | `MCDatabaseHealth` | `TypeOK`, `PointersAgree`, `FinalizedComplete`, `FinalizedImmutable`, `RollbackReturns`, `InterruptedBuildFinishes`, `AlarmsAreRaces`, `KeepsPromise` |
| `parcel_two_builders` | `MCSnapshotStore` | `FinalizedImmutable` (violated) |
| `planning` | `MCPlanningStore` | `StoreIsSound`, `RefreshOnlyTouchesItsLayers`, `BuildsEnd`, `KeepsPromise` |
| `planning_drift` | `MCPlanningStore` | `DriftedBuildAbandoned` (violated) |
| `intelligence` | `MCIntelligenceStore` | `BuildsAreConsistent`, `PublishedIsComplete`, `FactsMatchFingerprint`, `AnswersAreCurrent`, `KeepsPromise`, `DerivationFinishes` |
| `authority` | `MCAuthorityStore` | `RegistryIsConsistent`, `RecommendationDecides`, `SelectionsAreSound`, `ServedIsCurrent` |
| `authority_withdrawn` | `MCAuthorityStore` | `OutIsFinal` (violated) |
| `assessment` | `MCParcelAssessment` | `AreaIsSound`, `LabelsAreEarned`, `AnswerIsHonest`, `ReadyIsOneSite`, `MeasuresAddUp`, `BundleIsWhole` |
| `evidence` | `MCLookupEvidence` | `TypeOK`, `ConfirmedIsEarned`, `AnsweredIsListed`, `FailureIsNeverAbsence`, `ScrutinyIsHonest`, `EvidenceComes` |
| `evidence_listed` | `MCLookupEvidence` | `ListedIsNotClear` (violated) |
| `reports` | `MCLookupReports` | `TypeOK`, `CachedIsComplete`, `OneParcelVersion`, `EveryLookupIsRegistered`, `NothingIsLost`, `LookupsEnd` |
| `reports_crossed` | `MCLookupReports` | `OnePlanningVersion` (violated) |

What each shows, and its instance:

- **`parcel`.** One builder and one operator, two ObjectIDs in batches of one, two
  snapshots, three activations, one edit of the source, two faults, an audit. What
  is finalized is complete and stays as it is; the pointer, the rows in state
  'active' and the history agree; rollback returns to what was active before;
  reruns finish an interrupted build; an audit raises a critical alarm only when
  an activation was committed between its statements; and the store implements
  `PublishedSnapshots`. Two snapshots are the least for which a pointer moves and a
  rollback can return; three activations give a history in which the row before
  the last is not the target; two ObjectIDs in two batches are the least with a
  build that is half committed and with a missing, an extra and a swapped feature.
  `OneFaultAudited` does not combine an audit with the second fault: an audit only
  reads, and a second fault matters to reruns.
- **`planning`.** A full build and a refresh of one of two layers, two object IDs,
  two snapshots, two activations, an edit and a fault. One refreshed and one copied
  layer show both sides of an incremental build. No build is left behind for ever,
  but for the reasons that `FullBuildEnds` and `RefreshEnds` name.
- **`intelligence`.** Two plots, two planning snapshots, one switch, one revision,
  one fault, two worker threads, an operator and a reader, reruns. The constraint
  `Quiet` lets a second command build only the sample, beside a first that does
  the same, before anything is switched or activated; a second command is what
  makes a build `shared`, and the other properties name that as an exception.
- **`authority`.** Two interchangeable operators, a survey, a reprint of it that
  asks for the same version number, and a replacement; two records, six events (two
  records registered, verified and activated), one edit of a document, one lookup
  with one cached report. `EditsApart` keeps the edit of a document apart from
  activations and lookups, which open no document.
- **`assessment`.** Every listing of up to two records, and some of three, on five
  cells: nested, touching, overlapping, repeated, degenerate, empty, with missing,
  zero and contested areas, in every condition of the database, every source mode,
  and with every subset of four authority sources. Beside it, assemblies of up to
  three plots on a grid. The two share no state, and `MCInit` explores one at a time.
- **`evidence`.** Five planning layers with reservations on all, a part or a sliver
  of the parcel, or overlapping each other, some of which cannot be read; answers with
  every part of them; two road probes and a neighbour probe in two slots, five scrutiny
  layers in two; two attempts. The two kinds of probes belong to one task; the three
  tasks share no slots, and are explored one at a time.
- **`reports`.** Two lookups in one process or in two, one plot, live and `auto`
  with standard scrutiny, two lookups in all, one switch, one fault. One plot is
  the case in which lookups share a key and a bundle. The runs are alike, so
  `FirstIsA` lets `a` begin first; snapshot 1 is active first, as versions are alike.

`MaxSnapshots`, `MaxActivations`, `MaxEdits`, `MaxFaults`, `MaxSwitches`,
`MaxRevision`, `MaxBuilds`, `MaxRecords`, `MaxEvents`, `MaxReports` and
`MaxLookups` bound counters that are unbounded in the code; no action but the
counted one reads them. Deadlock is not checked: when its bounds are used up, and
also when nobody starts a command, the system may stop.

### Fairness

- Builds (`parcel`, `planning`, `intelligence`). The steps of a started command
  are weakly fair: it is straight-line code that continues unless it crashes, and a
  crash is a fault of its own. An operator runs an unfinished build again ("If
  interrupted, rerun the same command", `START-HERE.md:293`). For planning and
  intelligence builds this is strong fairness, as commands take turns and disable
  each other. Nothing is assumed of activate, rollback, readers, the sources, or
  faults; operators who have started a planning command finish it.
- `evidence`. The event loop runs a task that can go on, and a request gets to its
  next attempt or fails, since every attempt has a timeout. That the service
  answers is not assumed.
- `reports`. The steps of a lookup are weakly fair, for the same reason. That a
  lookup begins is not assumed.

### What the violations show

`parcel_two_builders`. Two runs of `db parcels build` find the same building
snapshot. One has passed the state test of `insert_batch` when the other
finalizes; its batch is then written into a ready snapshot, whose recorded hash no
longer describes it. The same window is in `set_inventory`,
`update_snapshot_metadata` and `finalize_snapshot`. `CoverageIsKept` below proves
what remains true: the set of ObjectIDs of a finalized snapshot is still its
inventory, and there is one active row.

`planning_drift`. The full build recognises drift by the words "different
inventory"; the store says "differs from its persisted inventory". The snapshot
stays building, and every rerun resumes it and meets the same error.

`authority_withdrawn`. `verify` tests the status of a record before its
transaction, which sets `verified` whatever the status is by then: a record that
another operator withdraws or supersedes in between is verified again.

`evidence_listed`. The query of the reservation layer fails, and the point
identify finds the reservation. It is listed with an overlap of 100 percent, but
the encumbered share is still that of the failed query, 0, and the badge says
that the parcel is clear.

`reports_crossed`. The active planning snapshot is put in the cache key, but the
road provider, the planning query and the scrutiny each pin the one that is active
when they run. A report of the new one is cached under the key of the old one, and
is served again after a rollback.

## What is proved

From the assumptions on the constants that the modules name, for every number of
processes, snapshots, edits, faults and lookups.

`SnapshotStoreProofs`:

- `TypeCorrect`: `Spec => []TypeOK`. The type invariant contains `Holding` (a
  process that has chosen a snapshot holds its identifier), without which the
  steps that index the tables would not be typed.
- `PointerFollowsHistory`: `Spec => []PointerIsLastActivation`, with any number of
  builders, inductive with `TypeOK`.
- `CoverageIsKept`: `Spec => []CoverageSurvives`, with any number of builders. The
  invariant `CoverInv` strengthens it with what every builder knows: rows and
  inventory are within what the snapshot was begun for, the ObjectIDs a builder
  counts as known are stored or in its batch, rows are never removed, and a
  validation that passed stays true. That is why a late batch can replace rows of a
  finalized snapshot but cannot change which ObjectIDs it has.
- `OneActiveRow`: `Spec => []AtMostOneActive`.
- `RollbackGoesBack`: the action property `RollbackReturns`, with `OneOperator` (at
  most one activation or rollback at a time) and any number of builders. A rollback
  reads the pointer, then the history, then moves the pointer; `RollbackInv` says
  what it knows between these statements: the pointer is still the one it read, and
  the row it found is the newest of another snapshot. With two operators both can be
  out of date.

Under the additional assumption `OneBuilder` (at most one build at a time), which
`parcel_two_builders` shows to be needed:

- `FinalizedIsComplete`, `PointerIsSound` and `FinalizedIsImmutable`: the
  invariants `FinalizedComplete`, `PointersAgree` and `HistoryFinalized`,
  and the action property `FinalizedImmutable`. The invariant `SingleInv` adds that
  the builder's snapshot is building and was begun for the inventory it holds, that
  its hash is that of the rows, and that a passed validation is still valid.
- `StoreKeepsPromise`: `Spec => KeepsPromise`. The initial states map to initial
  states of `PublishedSnapshots`; finalization maps to `Publish`, activation and
  rollback to `Switch`, and every other step to a stutter.
- `AlarmsAreOnlyRaces` (`DatabaseHealthProofs`): `AuditedSpec => AlarmsAreRaces`.
  The audit only reads, so the store's invariants hold beside it; `AuditInv` says
  that as long as nothing was activated since its first statement, what it has read
  is what there is.

`LookupReportsProofs`, with any number of runs, processes, plots, snapshots,
failures and crashes, from `LookupSets` and `NobodyIsNoRun`:

- `CachedWasComplete`, `ParcelsDoNotCross`, `RowsAreLookups` and `NothingGetsLost`:
  the properties `CachedIsComplete`, `OneParcelVersion`,
  `EveryLookupIsRegistered` and `NothingIsLost` of the run `reports`. One
  invariant carries all four: `Typed` (among others, whatever a lookup lacks it has
  a warning about or incomplete scrutiny, and its parcel is that of its key),
  `Numbered` (running lookups have serial numbers of their own), `Locked` (who holds
  a lock is at the step it protects, and what it read is still in the file),
  `Entries` (every entry of the file, of a process and of a draft was made by a
  lookup that ended as complete) and `Registered` (rows are those of lookups past
  the register, one each).
- `ReportsTypeOK`: the type invariant `TypeOK`, with `Surroundings` for the hosts, the
  processes that have read the cache and the files of the bundles.

`PlanningStoreProofs`, with any number of layers, features, operators, snapshots,
edits and faults, and one build at a time, which is how `PlanningStore` is built.
The assumptions are `PlanningSets`, `PlanningBounds`, `PlanningNoSnapshot` and
`PlanningNotRecorded`; object IDs are finite, because the store counts them:

- `PlanningStoreIsSound`, `RefreshInherits` and `PlanningStoreKeepsPromise`: the
  invariants `StoreIsSound` and `RefreshOnlyTouchesItsLayers`, and the refinement
  of `PublishedSnapshots`. What `Finalized` says of a snapshot is not inductive: it
  rests on how far the build got. `Held` adds it: the build's snapshot is building
  under the terms it records (`Owned`), a layer the build is done with is
  registered unless the run is incomplete, and the inventory stored is the one it
  downloads by (`Progress`). `SnapshotInv` adds that a base is finalized and
  another snapshot, that stored features are within the inventory, and that the
  copied layers and the fingerprints of the omitted ones are those of the base.
  The steps fall into three kinds, each with a lemma of its own: those that move
  the build only (`BuildMoves`), those that write to the tables of one unfinished
  snapshot (`TablesMove`), and the commands (`CommandMoves`, `SwitchKeeps`).

`AuthorityStoreProofs`, with any number of manifests, batches, plots, operators and
lookups, from `AuthoritySets`:

- `RegistryStaysConsistent`: the invariant `RegistryIsConsistent`. `RegistryInv` adds the ranges of the
  rows and of what the commands hold between their reads and their transactions,
  and that ids, like revisions, are positions in append-only tables.
- `ServedReportsAreCurrent`: the action property `ServedIsCurrent`. `LookupInv`
  says that a cached report with the registry's present revision in its key
  resolves what is active now; a write to the registry takes a new revision
  (`WritesAreRevised`), and no step without one changes a resolution.
- `RecommendationsDecide`: the invariant `RecommendationDecides`. The ranking of the
  code ends in comparisons that could leave a tie. `ReviewsDiffer`, an invariant of
  its own, says why none remains: every verification takes the number of its own
  event, so two verified records differ in their review. What is recommended can be
  activated, but for a boundary when no record of the highest rank has one.
- `SelectionsStaySound`: the invariant `SelectionsAreSound`, one active record for a
  purpose of a plot (`OneActive`), reviewed, of that plot and fit for the purpose
  (`SelectedWasReviewed`). A record's status can change between the test and the
  transaction of an activation, but a review is never taken back, and its plot and
  contents never change (`RowsMove`); `EarnedInv` carries them from the test to the
  transaction.
- `ActiveIsVerified`: `SelectedIsVerified`, with `OneOperator` (at most one command at
  a time). A record that is no longer verified loses its active selections in the
  transaction that changes it. With two operators it may lose them before it gets one.

`IntelligenceStoreProofs`, with any number of plots, sources, builds, commands,
workers and faults, from `IntelligenceSets` (the plots are finite, as the code counts
them), `IntelligenceBounds` and `IntelligenceNoRecord`:

- `FactsAreOfTheFingerprint` and `AnswersAreOfTheSources`: the invariant
  `FactsMatchFingerprint` and the action property `AnswersAreCurrent`, for a registry
  that can be read (`~RegistryFails`): one that cannot counts as revision 0, and the
  comparison at the end of a build then says nothing.
- `PublishedBuildsAreComplete` and `IntelligenceIsConsistent`: the invariants
  `PublishedIsComplete` and `BuildsAreConsistent`, with `SoleBuilder` (one build
  command at a time). With two, the builds marked `shared` can break both.
- `IntelligenceKeepsPromise`: the refinement of `PublishedSnapshots`, with both
  assumptions. `FinalizeBuild` maps to `Publish`, of the facts of a whole scope that
  were derived from one print (`OnePrint`), `ActivateBuild` to `Switch`, and every other
  step to a stutter, since the only build a command writes to is not finalized
  (`WorkedOn`, `BuildingIsHidden`). In the run a `shared` build is not visible;
  `Quiet` keeps it from being activated.
- One invariant `Inv` carries them. `verify` compares numbers, so `JobsInv` keeps
  the sets: the plots a command is deriving, has derived or has failed on are
  disjoint, of its scope, and not yet in its build. `FactsInv` says that a fact which
  is not of the fingerprint exists only if the registry's revision has moved on, and
  (`Passed`) that none is left once the revision was compared, as no plot is derived
  after that. `HistoryInv` relates the states of builds to the activation rows, and
  `CommandsInv` and `Asked` say what an activation and a query know between their
  statements.

`LookupEvidenceProofs`, for any layers, probes, stores, measures and retry policy,
from `LookupRequests`, `RetryPolicy`, `PlanningSets`, `AbuttingSets` and
`ScrutinySets`. The run explores one task at a time; the theorems hold for the tasks
as the event loop interleaves them:

- `EvidenceTypeOK`, `EvidenceConfirmedIsEarned`, `EvidenceAnsweredIsListed`,
  `EvidenceFailureIsNeverAbsence` and `EvidenceScrutinyIsHonest`: the five invariants
  of the run `evidence`, from `EvidenceInvariant`: `Spec => []Inv`. `Inv` has a part
  for the requests (the slots of each pool, the attempts) and one for each task: what
  it has sent at each of its steps, and that what it has concluded is what its own
  requests answered, or how they failed. For planning that is `FoundOnGround` (only an
  answered request has found something, and only what is there) with the monotony of
  the share (`MeasureGrows`): what was lost can only lower it. The requests of the tasks differ in kind,
  so that a task's part is disturbed by its own steps only (`PlanningAside`,
  `AbuttingAside`, `ScrutinyAside`).

`ParcelProofs`, for any line of cells, any area of its parts, any records, documents
and plots, from `GroundMeasures`, `AssessmentSets` and `AssemblySets` (a plot has
finitely many squares):

- `AnswersAreHonest`, `AreasAreSound` and `LabelsMeanIt`: the invariants
  `AnswerIsHonest`, `AreaIsSound` and `LabelsAreEarned` of one parcel. `AssessmentInv`
  says at each step of a lookup where its feature comes from, and that the parcel is
  what was assessed from it or what was activated instead. The lemma below them is
  about geometry (`SoundIsCovered`): when the merged polygon is sound and no record
  lies within another, it has one part only, and that is what the rings cover; so
  the calculated area is that of the ground.
- `BundlesAreWhole`: `BundleIsWhole`, because the analysis is the last of the files.
- `ReadyIsReady`: `ReadyIsOneSite`. What the search of the code reaches is the least
  set of plots that no shared edge leaves (`SearchEnds`, `ConnectedIsClosed`). If that
  is less than all of them, it parts the squares of the union
  (`OnePieceIsConnected`); if the union can be parted although each plot is one
  piece, so can the plots (`ConnectedIsOnePiece`).
- `MeasuresAgree`: `MeasuresAddUp`. Sums over plots are numbers of tagged squares and
  edges. Area is lost exactly where plots overlap (`AreasAddUp`); without overlaps an
  edge of a plot is one of the site or shared by exactly two plots
  (`EdgeIsOuterOrShared`), so the perimeters lose the removed boundary twice
  (`PerimetersAddUp`).

Every invariant and every action property of a passing run is thus stated by a
theorem. Only model-checked are the liveness properties, `InterruptedBuildFinishes`,
`BuildsEnd`, `DerivationFinishes`, `LookupsEnd` and `EvidenceComes`: they rest on
fairness and ENABLED, which are out of the prover's reach. What the runs add to the
proofs is that the assumptions can be met and that the interesting states are
reached.

## Deviations met while modelling

The five violations above are run. The following were met while reading the code
for the models; no run is devoted to them. The models do what the code does in each
case, and where a property would fail it names the exception.

Stores and builds.

- A planning source that changes and changes back between the two checks of a
  refresh is noticed by neither; the importer's inventories are not compared with
  the fingerprints of the checks.
- The base of a refresh can be replaced or rolled back after the last test of the
  active snapshot and before finalization.
- `begin_snapshot` of the planning store reads `MAX(version)+1` outside its
  transaction; of two builds that begin together one fails.
- Two commands on one intelligence build can leave an issue of a completed plot,
  which blocks the build for ever, and can mix the facts of two revisions.
  `shared` marks these builds in the properties.
- `_get_json` of the parcel importer says "Non-retryable 4xx errors return early."
  (`snapshot_ingestion.py:116`), but its outer handler catches that exception too,
  so that a request for something missing is repeated until the attempts are used
  up. The planning importer and the transport do return early.
- `activate` of the authority store tests its record before its transaction, as
  `verify` does (`authority/store.py:413`). One that another operator withdraws in
  between becomes the active source: `active()` then answers nothing for the plot, the
  source it replaced is active no longer, and `db health` counts the row as an invalid
  selection, which is critical (`application/database_health.py:582-606`).
  `SelectionsStaySound` says what holds all the same, `ActiveIsVerified` that it takes
  two operators.
- An authority registry that cannot be read counts as revision 0.
- An intelligence activation compares the sources before its transaction.
- The statements of the health audit are in no transaction, so that an activation
  between them raises a false critical alarm; `AlarmsAreRaces` says that this is
  the only cause.

Parcels, authority sources and assemblies.

- A record nested in another one of the same identity becomes a hole: its area is
  subtracted, and no flag says so. `VerifiedIsEarned` excludes this case.
- A recorded area of zero does not count as a missing part.
- The label stays `verified_source` when an activated boundary differs from the
  record (`docs/guides/plot-intelligence.md:85-95`); an activation of a boundary alone
  keeps the calculated area of the old one; `certified` does not compare an
  authority's area with an authority's boundary.
- Sources of equal rank that agree on the area or boundary are told apart by date,
  review and checksum; `docs/guides/certified-sources.md:94` announces a conflict
  whenever two valid sources have the same rank.
- A record without a boundary is eligible for geometry (`authority/selection.py:341`
  tests for `None`, and the record has an empty sequence), and is recommended if no
  record of its rank has one; `activate` refuses it (`authority/store.py:402-403`).
  `RecommendationDecides` names this exception. Beside a record of its rank with a
  boundary its checksum, that of the empty sequence, makes a conflict.
- The area of activated DP remarks is not applied
  (`docs/guides/certified-sources.md:106`).
- An answer of the prefix query with invalid content counts as not found.
- Plots that consist of several pieces are related as wholes: plots that are
  pairwise adjacent are "contiguous" although their union may not be one piece
  (`ReadyIsOneSite` asks for plots of one piece).
- Plots that meet in a corner are not contiguous, while plots a gap apart within
  the tolerance are put up for review.
- Screenings of different plots that share the first one and their number have the
  same default directory, and overwrite each other's files.

Evidence.

- A planning feature that cannot be read is skipped without a warning, and its layer
  stays in `successful_layers` (`clients/planning_queries.py:137-138`, `170-171`,
  `192-193`, `209-210`). So does a layer whose reply has no `features` (line 72) or was
  cut off, as `exceededTransferLimit` is not looked at (67-77). Constraints can thus be
  called confirmed, and the parcel clear, over a reservation nobody saw, although
  "missing planning evidence must not be interpreted as a clear parcel"
  (`application/lookup_service.py:236`). `ConfirmedIsEarned` claims the right badge only
  if nothing was lost so, and otherwise that it errs to the mild side.
- A reservation whose attributes raise was counted before (line 115): it is in the
  encumbered share and not in the list. With none in the list the badge is clear,
  whatever the share.
- In `auto`, a fallback to the live service is a note: it lowers neither confidence
  nor completeness, so the report is cached.
- A local road is confirmed by a width or a generic name that leaves a live one
  unknown. Live neighbours are told apart by their CTS number only, not by village.
- The coastal policy layer is in the core set, so that it triggers no context layer.

Cache, register and bundle.

- The files of a plot's bundle are shared by all its cache keys and written in
  place; a cached report is served as long as the files exist, whichever lookup
  wrote them.
- A cache file that cannot be read counts as empty, and the next save drops all
  entries but one (`draft.blind` in `NoEntryLost`). `save_disk_cache` lets older
  entries of memory win. A process keeps serving the entry it holds after another
  one refreshed it.
- A register with its columns in another order gets missing headers written over
  existing ones, while rows are written by position.
- When nothing was ever activated, the cache key says "unavailable", but the
  parcel is read from a snapshot activated in the meantime.

## Not modelled

- Offline planning ingestion: a straight-line caller of methods that `PlanningStore`
  has, reached by no command.
- Exporters and renderers, presentation, argument parsing, tools, data classes and
  tables: formatting and layout, or declarations, without steps of their own. That
  a writer fails is a step of `LookupReports` and of `PlotAssembly`.
- Geometry in floating point: projections, areas, simplification and repair.
- The sections of the health audit on the planning, intelligence and authority
  stores, the age of entries and the schema of the cache, the tile cache, and the
  search filters of the intelligence queries: they read and compute.

## Plan

Proofs: an abstract specification of the registry, and that it implements it; what
remains true of a rollback with several operators, and of an intelligence build that
two commands work on. Models: the sections of the health audit on the planning,
intelligence and authority stores, beside the stores they read.
