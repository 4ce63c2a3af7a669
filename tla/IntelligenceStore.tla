-------------------------- MODULE IntelligenceStore ---------------------------
(***************************************************************************)
(* Derived plot facts: the store of intelligence builds, the resumable     *)
(* builder with its worker threads, activation, and the commands that      *)
(* answer from the active build.                                           *)
(*                                                                         *)
(* A build is pinned to one parcel snapshot, one planning snapshot and one *)
(* revision of the authority registry: its source fingerprint.  All three  *)
(* can move while a build runs, while an operator activates a build, and   *)
(* while a reader answers.                                                 *)
(*                                                                         *)
(* A fact is represented by the sources it was derived from, so "derived   *)
(* from the sources the build is pinned to" is an equation.  A test of a   *)
(* build's state is made before the transaction it guards, on a connection *)
(* per worker; the two are separate steps.                                 *)
(***************************************************************************)
EXTENDS Integers, Sequences, FiniteSets

CONSTANTS
    Plots,          \* the village/CTS identities of every parcel snapshot
    SamplePlots,    \* those that --limit/--offset select
    Scopes,         \* the scopes that operators ask for
    ParcelIds,      \* finalized parcel snapshots
    PlanningIds,    \* finalized, complete planning snapshots
    Builders,       \* processes that run `intelligence build`
    Operators,      \* processes that run `intelligence activate`
    Readers,        \* processes that run `intelligence analyze`
    Workers,        \* --workers
    RegistryFails,  \* whether reading the registry's revision can fail
    NoRecord,       \* no row of plot_intelligence
    NoBuild,        \* no build
    MaxBuilds,      \* bound: builds ever begun
    MaxActivations, \* bound: activation rows, counting the commands under way
    MaxSwitches,    \* bound: activations of source snapshots
    MaxRevision,    \* bound: events of the authority registry
    MaxFaults       \* bound: crashes, failed derivations, failed registry reads

ASSUME IntelligenceSets ==
    /\ IsFiniteSet(Plots) /\ SamplePlots \subseteq Plots
    /\ Scopes \subseteq {"full", "sample"}
    /\ NoBuild \notin Nat
ASSUME IntelligenceBounds ==
    /\ {MaxBuilds, MaxActivations, MaxSwitches, MaxRevision, MaxFaults} \subseteq Nat
    /\ Workers \in Nat \ {0}
    /\ RegistryFails \in BOOLEAN

BuildIds == 1 .. MaxBuilds
Prints == [parcel : ParcelIds, planning : PlanningIds, revision : 0 .. MaxRevision]

ASSUME IntelligenceNoRecord == NoRecord \notin Prints

States == {"none", "building", "ready", "active", "retired", "failed"}
Finalized == {"ready", "active", "retired"}

VARIABLES
    sources,        \* the active snapshots and the registry's revision
    switches,       \* activations of source snapshots so far
    faults,         \* faults so far
    begun,          \* the last build_id
    builds,         \* rows of intelligence_builds with their plots and issues
    activations,    \* intelligence_activations: build ids, the last one is open
    job,            \* what each build command holds
    command,        \* what each activate command holds
    query           \* what each reader holds

outside == <<sources, switches>>
store == <<begun, builds, activations>>
vars == <<outside, faults, store, job, command, query>>

NoPlots == [k \in Plots |-> NoRecord]
Unpinned == [parcel |-> NoBuild, planning |-> NoBuild, revision |-> 0]
NewBuild(scope, print) ==
    [state |-> "building", scope |-> scope, print |-> print, records |-> NoPlots,
     count |-> 0, issues |-> {}, shared |-> FALSE]
IdleJob == [pc |-> "idle", scope |-> "full", print |-> Unpinned, resolver |-> FALSE,
            build |-> NoBuild, pending |-> {}, derived |-> NoPlots, failing |-> {},
            cancelled |-> FALSE, verdict |-> "failed", counted |-> 0]
IdleCommand == [pc |-> "idle", build |-> NoBuild]
IdleQuery == [pc |-> "idle", seen |-> Unpinned, age |-> 0]

Identities(scope) == IF scope = "full" THEN Plots ELSE SamplePlots
Completed(n) == {k \in Plots : builds[n].records[k] # NoRecord}

Init ==
    /\ sources \in [parcel : ParcelIds, planning : PlanningIds, revision : {0}]
    /\ switches = 0
    /\ faults = 0
    /\ begun = 0
    /\ builds = [n \in BuildIds |-> [NewBuild("full", Unpinned) EXCEPT !.state = "none"]]
    /\ activations = <<>>
    /\ job = [b \in Builders |-> IdleJob]
    /\ command = [p \in Operators |-> IdleCommand]
    /\ query = [r \in Readers |-> IdleQuery]

Fault ==
    /\ faults < MaxFaults
    /\ faults' = faults + 1

-------------------------------------------------------------------------------
(* The sources, which other commands move. *)

SwitchSource ==
    /\ switches < MaxSwitches
    /\ switches' = switches + 1
    /\ \E s \in [parcel : ParcelIds, planning : PlanningIds, revision : {sources.revision}] :
          /\ (s.parcel = sources.parcel) # (s.planning = sources.planning)
          /\ sources' = s
    /\ UNCHANGED <<faults, store, job, command, query>>

\* Any event of the authority registry: its revision never returns.
ReviewAuthority ==
    /\ sources.revision < MaxRevision
    /\ sources' = [sources EXCEPT !.revision = @ + 1]
    /\ UNCHANGED <<switches, faults, store, job, command, query>>

-------------------------------------------------------------------------------
(* Build: begin or resume. *)

At(b, pc) == job[b].pc = pc
Leave(b) == job' = [job EXCEPT ![b] = IdleJob]

\* The revision that _authority_registry_revision returns, with the faults it
\* costs: any error of the database is answered with "no registry".
Costs == IF RegistryFails THEN {0, 1} ELSE {0}
RevisionRead(cost) == IF cost = 0 THEN sources.revision ELSE 0
Pay(cost) ==
    /\ faults + cost <= MaxFaults
    /\ faults' = faults + cost

\* The snapshots are the active ones or finalized ones given by the caller.  A
\* registry that is missing or cannot be read is not resolved against.
StartBuild(b) ==
    /\ At(b, "idle")
    /\ \E scope \in Scopes, parcel \in ParcelIds, planning \in PlanningIds,
          cost \in Costs, resolver \in BOOLEAN :
          /\ Identities(scope) # {}
          /\ cost = 1 => sources.revision > 0
          /\ resolver => cost = 0
          /\ cost = 0 /\ sources.revision > 0 => resolver
          /\ Pay(cost)
          /\ job' = [job EXCEPT ![b] =
                       [IdleJob EXCEPT !.pc = "find", !.scope = scope, !.resolver = resolver,
                                       !.print = [parcel |-> parcel, planning |-> planning,
                                                  revision |-> RevisionRead(cost)]]]
    /\ UNCHANGED <<outside, store, command, query>>

Resumable(scope, print) ==
    {n \in BuildIds : /\ builds[n].state = "building"
                      /\ builds[n].scope = scope
                      /\ builds[n].print = print}

\* Mutant: a plot that failed once is not tried again.
WorkingOnUntried(b, n) ==
    [job[b] EXCEPT !.pc = "derive", !.build = n,
                   !.pending = Identities(job[b].scope) \ (Completed(n) \cup builds[n].issues)]

\* The job of a builder that works on build n.
Working(b, n) ==
    [job[b] EXCEPT !.pc = "derive", !.build = n,
                   !.pending = Identities(job[b].scope) \ Completed(n)]

\* begin_build looks for a build to resume before it opens a transaction.
FindNothing(b) ==
    /\ At(b, "find")
    /\ Resumable(job[b].scope, job[b].print) = {}
    /\ job' = [job EXCEPT ![b].pc = "insert"]
    /\ UNCHANGED <<outside, faults, store, command, query>>

\* Nothing tells the command that another one still works on the build; the
\* field shared records it.
ResumeBuild(b) ==
    LET found == Resumable(job[b].scope, job[b].print) IN
    /\ At(b, "find")
    /\ \E n \in found :
          /\ \A m \in found : m <= n
          /\ job' = [job EXCEPT ![b] = Working(b, n)]
          /\ builds' = [builds EXCEPT ![n].shared = @ \/ \E c \in Builders : job[c].build = n]
    /\ UNCHANGED <<outside, faults, begun, activations, command, query>>

InsertBuild(b) ==
    /\ At(b, "insert")
    /\ begun < MaxBuilds
    /\ begun' = begun + 1
    /\ builds' = [builds EXCEPT ![begun + 1] = NewBuild(job[b].scope, job[b].print)]
    /\ job' = [job EXCEPT ![b] = [@ EXCEPT !.pc = "derive", !.build = begun + 1,
                                           !.pending = Identities(job[b].scope)]]
    /\ UNCHANGED <<outside, faults, activations, command, query>>

-------------------------------------------------------------------------------
(* Build: the workers. *)

Building(b) == builds[job[b].build].state = "building"
InHand(b) == {k \in Plots : job[b].derived[k] # NoRecord} \cup job[b].failing

\* A free worker takes the next plot of its shard.
Takes(b, k) ==
    /\ At(b, "derive")
    /\ ~job[b].cancelled
    /\ k \in job[b].pending
    /\ Cardinality(InHand(b)) < Workers

\* _analyze reads the pinned snapshots, and the registry as it is now.
Facts(b) ==
    [job[b].print EXCEPT !.revision = IF job[b].resolver THEN sources.revision ELSE 0]

\* The facts of one plot are derived, and upsert finds the build building.
Derive(b, k) ==
    /\ Takes(b, k)
    /\ Building(b)
    /\ job' = [job EXCEPT ![b].derived[k] = Facts(b), ![b].pending = @ \ {k}]
    /\ UNCHANGED <<outside, faults, store, command, query>>

\* The derivation raises, and record_issue finds the build building.
DeriveFails(b, k) ==
    /\ Takes(b, k)
    /\ Building(b)
    /\ Fault
    /\ job' = [job EXCEPT ![b].failing = @ \cup {k}, ![b].pending = @ \ {k}]
    /\ UNCHANGED <<outside, store, command, query>>

\* upsert finds the build closed; record_issue raises the same error again,
\* which ends this worker and cancels the others.
DeriveRefused(b, k) ==
    /\ Takes(b, k)
    /\ ~Building(b)
    /\ job' = [job EXCEPT ![b].cancelled = TRUE]
    /\ UNCHANGED <<outside, faults, store, command, query>>

\* Mutant: the issue of a plot is left when its facts arrive.
UpsertedKeepingIssue(row, k, facts) ==
    [row EXCEPT !.records[k] = facts, !.count = @ + (IF row.records[k] = NoRecord THEN 1 ELSE 0)]

Upserted(row, k, facts) ==
    [row EXCEPT !.records[k] = facts, !.issues = @ \ {k},
                !.count = @ + (IF row.records[k] = NoRecord THEN 1 ELSE 0)]

\* The transaction of upsert does not look at the state again.
Upsert(b, k) ==
    /\ At(b, "derive")
    /\ job[b].derived[k] # NoRecord
    /\ builds' = [builds EXCEPT ![job[b].build] = Upserted(@, k, job[b].derived[k])]
    /\ job' = [job EXCEPT ![b].derived[k] = NoRecord]
    /\ UNCHANGED <<outside, faults, begun, activations, command, query>>

\* The transaction of upsert raises, which counts as a failed derivation.
UpsertFails(b, k) ==
    /\ At(b, "derive")
    /\ job[b].derived[k] # NoRecord
    /\ Fault
    /\ job' = [job EXCEPT ![b].derived[k] = NoRecord,
                         ![b].failing = IF Building(b) THEN @ \cup {k} ELSE @,
                         ![b].cancelled = @ \/ ~Building(b)]
    /\ UNCHANGED <<outside, store, command, query>>

RecordIssue(b, k) ==
    /\ At(b, "derive")
    /\ k \in job[b].failing
    /\ builds' = [builds EXCEPT ![job[b].build].issues = @ \cup {k}]
    /\ job' = [job EXCEPT ![b].failing = @ \ {k}]
    /\ UNCHANGED <<outside, faults, begun, activations, command, query>>

\* The pool waits for its workers before the error of one of them is raised.
EndCancelled(b) ==
    /\ At(b, "derive")
    /\ job[b].cancelled
    /\ InHand(b) = {}
    /\ Leave(b)
    /\ UNCHANGED <<outside, faults, store, command, query>>

-------------------------------------------------------------------------------
(* Build: the end. *)

\* Mutant: the registry is not looked at again after the derivation.
CheckNothing(b) ==
    /\ At(b, "derive")
    /\ job[b].pending = {} /\ InHand(b) = {} /\ ~job[b].cancelled
    /\ job' = [job EXCEPT ![b].pc = "verify"]
    /\ UNCHANGED <<outside, faults, store, command, query>>

\* All shards are done; the registry must be at the revision of the start.
\* fail() tests the state before its transaction, and raises if another
\* command has closed the build.
CheckRevision(b) ==
    /\ At(b, "derive")
    /\ job[b].pending = {} /\ InHand(b) = {} /\ ~job[b].cancelled
    /\ \E cost \in Costs :
          /\ Pay(cost)
          /\ job' = [job EXCEPT ![b] =
                       IF RevisionRead(cost) = job[b].print.revision
                       THEN [@ EXCEPT !.pc = "verify"]
                       ELSE IF Building(b) THEN [@ EXCEPT !.pc = "fail"] ELSE IdleJob]
    /\ UNCHANGED <<outside, store, command, query>>

FailBuild(b) ==
    /\ At(b, "fail")
    /\ builds' = [builds EXCEPT ![job[b].build].state = "failed"]
    /\ Leave(b)
    /\ UNCHANGED <<outside, faults, begun, activations, command, query>>

\* Mutant: plots that could not be derived do not count against a build.
VerifiedDespiteIssues(n) ==
    Cardinality(Completed(n)) >= Cardinality(Identities(builds[n].scope) \ builds[n].issues)

\* verify: the expected number of records, and no unresolved issue.
Verified(n) ==
    /\ Cardinality(Completed(n)) = Cardinality(Identities(builds[n].scope))
    /\ builds[n].issues = {}

\* A build that does not verify stays 'building' and is resumed later.
VerifyBuild(b) ==
    /\ At(b, "verify")
    /\ job' = [job EXCEPT ![b] = IF Verified(job[b].build) THEN [@ EXCEPT !.pc = "finalize"]
                                 ELSE IdleJob]
    /\ UNCHANGED <<outside, faults, store, command, query>>

\* finalize tests the state and verifies once more before its transaction.
ReverifyBuild(b) ==
    /\ At(b, "finalize")
    /\ job' = [job EXCEPT ![b] =
                 IF ~Building(b) THEN IdleJob
                 ELSE [@ EXCEPT !.pc = "commit",
                                !.verdict = IF Verified(job[b].build) THEN "ready" ELSE "failed",
                                !.counted = Cardinality(Completed(job[b].build))]]
    /\ UNCHANGED <<outside, faults, store, command, query>>

FinalizeBuild(b) ==
    /\ At(b, "commit")
    /\ builds' = [builds EXCEPT ![job[b].build] =
                    [@ EXCEPT !.state = job[b].verdict, !.count = job[b].counted]]
    /\ Leave(b)
    /\ UNCHANGED <<outside, faults, begun, activations, command, query>>

\* The process ends, or a statement raises; committed rows remain.
CrashBuild(b) ==
    /\ ~At(b, "idle")
    /\ Fault
    /\ Leave(b)
    /\ UNCHANGED <<outside, store, command, query>>

-------------------------------------------------------------------------------
(* Activation. *)

ActiveBuild == IF activations = <<>> THEN NoBuild ELSE activations[Len(activations)]
Busy == {p \in Operators : command[p].pc # "idle"}

\* The sources as a command reads them.
SourcesRead(cost) == [sources EXCEPT !.revision = RevisionRead(cost)]

\* The build is pinned to the active snapshots and to the current revision.
Matches(n, read) == builds[n].print = read

\* The newest ready build, or one given by the caller, is compared with the
\* sources; a registry that cannot be read counts as revision 0.
ChooseBuild(p) ==
    /\ command[p].pc = "idle"
    /\ Len(activations) + Cardinality(Busy) < MaxActivations
    /\ \E n \in {m \in BuildIds : builds[m].state # "none"}, cost \in Costs :
          /\ Matches(n, SourcesRead(cost))
          /\ Pay(cost)
          /\ command' = [command EXCEPT ![p] = [pc |-> "check", build |-> n]]
    /\ UNCHANGED <<outside, store, job, query>>

\* Mutant: a build that is complete need not be finalized to be activated.
CheckUnfinalized(p) ==
    /\ command[p].pc = "check"
    /\ LET n == command[p].build
       IN  command' = [command EXCEPT ![p] =
                         IF builds[n].scope = "full" /\ Verified(n)
                         THEN [@ EXCEPT !.pc = "activate"] ELSE IdleCommand]
    /\ UNCHANGED <<outside, faults, store, job, query>>

\* activate refuses a build that is not finalized, not full, or not verified.
CheckBuild(p) ==
    /\ command[p].pc = "check"
    /\ LET n == command[p].build
       IN  command' = [command EXCEPT ![p] =
                         IF builds[n].state \in Finalized /\ builds[n].scope = "full" /\ Verified(n)
                         THEN [@ EXCEPT !.pc = "activate"] ELSE IdleCommand]
    /\ UNCHANGED <<outside, faults, store, job, query>>

Activated(rows, n) ==
    [m \in BuildIds |->
        IF m = n THEN [rows[m] EXCEPT !.state = "active"]
        ELSE IF rows[m].state = "active" THEN [rows[m] EXCEPT !.state = "retired"]
        ELSE rows[m]]

ActivateBuild(p) ==
    /\ command[p].pc = "activate"
    /\ builds' = Activated(builds, command[p].build)
    /\ activations' = Append(activations, command[p].build)
    /\ command' = [command EXCEPT ![p] = IdleCommand]
    /\ UNCHANGED <<outside, faults, begun, job, query>>

-------------------------------------------------------------------------------
(* Readers. *)

\* Mutant: the reader does not ask whether the active build is stale.
CheckExists(r) ==
    /\ query[r].pc = "idle"
    /\ ActiveBuild # NoBuild
    /\ query' = [query EXCEPT ![r] = [pc |-> "answer", seen |-> sources, age |-> Len(activations)]]
    /\ UNCHANGED <<outside, faults, store, job, command>>

\* _require_current_build: there is an active build, aligned with the sources.
CheckCurrent(r) ==
    /\ query[r].pc = "idle"
    /\ ActiveBuild # NoBuild
    /\ \E cost \in Costs :
          /\ Matches(ActiveBuild, SourcesRead(cost))
          /\ Pay(cost)
          /\ query' = [query EXCEPT ![r] = [pc |-> "answer", seen |-> SourcesRead(cost),
                                           age |-> Len(activations)]]
    /\ UNCHANGED <<outside, store, job, command>>

\* The record is read from the build that is active now.
Answer(r) ==
    /\ query[r].pc = "answer"
    /\ query' = [query EXCEPT ![r] = IdleQuery]
    /\ UNCHANGED <<outside, faults, store, job, command>>

-------------------------------------------------------------------------------
Environment == SwitchSource \/ ReviewAuthority

WorkerStep(b, k) ==
    \/ Derive(b, k) \/ DeriveFails(b, k) \/ DeriveRefused(b, k)
    \/ Upsert(b, k) \/ UpsertFails(b, k) \/ RecordIssue(b, k)

BuildSteps(b) ==
    \/ FindNothing(b) \/ ResumeBuild(b) \/ InsertBuild(b)
    \/ \E k \in Plots : WorkerStep(b, k)
    \/ EndCancelled(b)
    \/ CheckRevision(b) \/ FailBuild(b)
    \/ VerifyBuild(b) \/ ReverifyBuild(b) \/ FinalizeBuild(b)

OperatorSteps(p) == ChooseBuild(p) \/ CheckBuild(p) \/ ActivateBuild(p)
ReaderSteps(r) == CheckCurrent(r) \/ Answer(r)

Next ==
    \/ Environment
    \/ \E b \in Builders : StartBuild(b) \/ BuildSteps(b) \/ CrashBuild(b)
    \/ \E p \in Operators : OperatorSteps(p)
    \/ \E r \in Readers : ReaderSteps(r)

Spec == Init /\ [][Next]_vars

\* A full build of the sources as they are now has been published.
Published ==
    \E n \in BuildIds : /\ builds[n].state \in Finalized
                       /\ builds[n].scope = "full"
                       /\ Matches(n, sources)

\* The build command for the active sources, as long as it is needed.
Rerun(b) ==
    /\ ~Published
    /\ StartBuild(b)
    /\ job'[b].print = sources
    /\ job'[b].scope = "full"

\* A started build runs on, and an operator runs it again until it is done.
FairSpec ==
    /\ Spec
    /\ \A b \in Builders : WF_vars(BuildSteps(b))
    /\ SF_vars(\E b \in Builders : Rerun(b))

-------------------------------------------------------------------------------
(* Properties. *)

Phases == {"idle", "find", "insert", "derive", "fail", "verify", "finalize", "commit"}
AnyPrint == Prints \cup {Unpinned}

TypeOK ==
    /\ sources \in Prints
    /\ switches \in 0 .. MaxSwitches
    /\ faults \in 0 .. MaxFaults
    /\ begun \in 0 .. MaxBuilds
    /\ builds \in [BuildIds -> [state : States, scope : {"full", "sample"}, print : AnyPrint,
                                records : [Plots -> Prints \cup {NoRecord}],
                                count : Nat, issues : SUBSET Plots, shared : BOOLEAN]]
    /\ activations \in Seq(BuildIds)
    /\ \A b \in Builders :
          /\ job[b].pc \in Phases
          /\ job[b].print \in AnyPrint
          /\ job[b].build \in BuildIds \cup {NoBuild}
          /\ job[b].pending \subseteq Plots /\ job[b].failing \subseteq Plots
          /\ job[b].derived \in [Plots -> Prints \cup {NoRecord}]
    /\ \A p \in Operators : command[p].build \in BuildIds \cup {NoBuild}
    /\ \A r \in Readers : query[r].seen \in AnyPrint

\* A build that was published has a record of every identity it was asked
\* for, although only their number is compared, and says so.
PublishedIsComplete ==
    \A n \in BuildIds : builds[n].state \in Finalized =>
        /\ Completed(n) = Identities(builds[n].scope)
        /\ builds[n].count = Cardinality(Completed(n))

\* Every fact of a published build was derived from the sources its
\* fingerprint names, although the registry may change while plots are
\* derived one after the other and the build is interrupted and resumed;
\* only two commands at work on it at the same time can mix revisions.
FactsMatchFingerprint ==
    \A n \in BuildIds : builds[n].state \in Finalized /\ ~builds[n].shared =>
        \A k \in Completed(n) : builds[n].records[k] = builds[n].print

\* An unresolved issue belongs to a plot that a rerun will derive again; an
\* issue of a completed plot would block its build for ever.  Again unless two
\* commands worked on the build at the same time.
IssuesArePending ==
    \A n \in BuildIds : builds[n].state = "building" /\ ~builds[n].shared => builds[n].issues \cap Completed(n) = {}

\* The build in state 'active' is the one of the open activation, and a full one.
ActiveStateIsPointer ==
    /\ {n \in BuildIds : builds[n].state = "active"} = {ActiveBuild} \ {NoBuild}
    /\ ActiveBuild # NoBuild => builds[ActiveBuild].scope = "full"

\* However builds are interrupted, resumed and activated, what the tables say of one
\* another agrees: an issue never outlives the facts of its plot, and the builds in
\* state 'active' are those of the open activation.
BuildsAreConsistent == TypeOK /\ IssuesArePending /\ ActiveStateIsPointer

\* An answer holds facts derived from the sources that were the active ones
\* when the reader checked, unless a build was activated in between.
AnswersAreCurrent ==
    [][\A r \in Readers : Answer(r) =>
          \/ builds[ActiveBuild].shared
          \/ Len(activations) > query[r].age
          \/ \A k \in Plots : builds[ActiveBuild].records[k] = query[r].seen]_vars

\* The facts of a whole scope, derived from one print.
OnePrint(scope, print) ==
    [k \in Plots |-> IF k \in Identities(scope) THEN print ELSE NoRecord]

Promise == INSTANCE PublishedSnapshots WITH
    SnapshotIds <- BuildIds,
    Contents <- {{OnePrint(scope, print)} : scope \in {"full", "sample"}, print \in Prints},
    Unpublished <- {},
    NoSnapshot <- NoBuild,
    visible <- [n \in BuildIds |->
                  IF builds[n].state \in Finalized /\ ~builds[n].shared
                  THEN {builds[n].records} ELSE {}],
    current <- ActiveBuild

\* The store of derived facts keeps the promise of PublishedSnapshots: a build is seen
\* once, with the facts of its whole scope derived from one print, what is seen never
\* changes again, and the active build is always one that was seen whole.
KeepsPromise == Promise!Spec

\* The facts derived from the sources are published in the end, unless builds
\* for other sources use up the identifiers of the instance.
DerivationFinishes == <>[](begun < MaxBuilds) => <>[]Published

===============================================================================
