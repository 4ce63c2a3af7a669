------------------------ MODULE IntelligenceStoreProofs ------------------------
(***************************************************************************)
(* What holds of the derived plot facts for any number of plots, sources,  *)
(* builds, commands that build, activate and answer, workers and faults.   *)
(***************************************************************************)
EXTENDS IntelligenceStore, FiniteSetTheorems, SequenceTheorems, TLAPS

-------------------------------------------------------------------------------
(* The inductive invariant. *)

AtWork == {"derive", "fail", "verify", "finalize", "commit"}
BuildRows == [state : States, scope : {"full", "sample"}, print : AnyPrint,
              records : [Plots -> Prints \cup {NoRecord}], count : Nat, issues : SUBSET Plots,
              shared : BOOLEAN]
Jobs == [pc : Phases, scope : {"full", "sample"}, print : AnyPrint, resolver : BOOLEAN,
         build : BuildIds \cup {NoBuild}, pending : SUBSET Plots,
         derived : [Plots -> Prints \cup {NoRecord}], failing : SUBSET Plots,
         cancelled : BOOLEAN, verdict : {"ready", "failed"}, counted : Nat]
Commands == [pc : {"idle", "check", "activate"}, build : BuildIds \cup {NoBuild}]
Queries == [pc : {"idle", "answer"}, seen : AnyPrint, age : Nat]

Typed ==
    /\ sources \in Prints
    /\ switches \in 0 .. MaxSwitches
    /\ faults \in 0 .. MaxFaults
    /\ begun \in 0 .. MaxBuilds
    /\ builds \in [BuildIds -> BuildRows]
    /\ activations \in Seq(BuildIds)
    /\ job \in [Builders -> Jobs]
    /\ command \in [Operators -> Commands]
    /\ query \in [Readers -> Queries]

SoleBuilder == \A b, c \in Builders : b = c

\* The plots with facts in a build, and the plots whose facts a command holds.
Done(row) == {k \in Plots : row.records[k] # NoRecord}
Derived(j) == {k \in Plots : j.derived[k] # NoRecord}
Drawn(j) == j.pending \cup Derived(j) \cup j.failing

\* A row that only one command at a time has worked on.
Whole(row) == Done(row) = Identities(row.scope) /\ row.count = Cardinality(Done(row))
RowOK(n, row) ==
    /\ row.state = "none" <=> n > begun
    /\ Done(row) \subseteq Identities(row.scope)
    /\ row.state # "none" => row.print \in Prints
    /\ ~row.shared =>
          /\ row.state \in Finalized => Whole(row)
          /\ row.state = "building" => row.issues \cap Done(row) = {}
    /\ SoleBuilder => ~row.shared

JobOK(j) ==
    /\ j.pc \in AtWork <=> j.build \in BuildIds
    /\ j.pc # "idle" => j.print \in Prints
    /\ j.pc \notin AtWork => Drawn(j) = {}
    /\ Drawn(j) \subseteq Identities(j.scope)
    /\ j.pending \cap Derived(j) = {}
    /\ j.pending \cap j.failing = {}
    /\ Derived(j) \cap j.failing = {}

\* A command and the build it works on.
WorksOn(j, row) ==
    /\ row.state # "none" /\ row.scope = j.scope /\ row.print = j.print
    /\ ~row.shared =>
          /\ row.state = "building"
          /\ Drawn(j) \cap Done(row) = {}
          /\ j.pc = "commit" =>
                /\ j.counted = Cardinality(Done(row))
                /\ j.verdict = "ready" => Done(row) = Identities(row.scope)

JobsInv ==
    /\ \A b \in Builders : JobOK(job[b])
    /\ \A b \in Builders : job[b].build \in BuildIds => WorksOn(job[b], builds[job[b].build])
    /\ \A b, c \in Builders :
          /\ job[b].build \in BuildIds /\ job[b].build = job[c].build
          /\ ~builds[job[b].build].shared
          => b = c

\* A build that may be, or was, activated.
Fit(row) == row.state # "none" /\ row.scope = "full" /\ (~row.shared => row.state \in Finalized)

CommandsInv ==
    \A p \in Operators :
        /\ command[p].pc # "idle" => command[p].build \in BuildIds
        /\ command[p].pc = "activate" => Fit(builds[command[p].build])
HistoryInv ==
    /\ \A i \in DOMAIN activations : Fit(builds[activations[i]])
    /\ SoleBuilder => ActiveStateIsPointer

\* Facts that are not those of the fingerprint were derived at a later revision.
Fits(f, print) == f = print \/ sources.revision > print.revision
RowFits(row) ==
    /\ row.state # "none" => \A k \in Done(row) : Fits(row.records[k], row.print)
    /\ row.state \in Finalized /\ ~row.shared => \A k \in Done(row) : row.records[k] = row.print
JobFits(j) ==
    /\ j.pc # "idle" => j.print.revision <= sources.revision
    /\ j.pc # "idle" /\ ~j.resolver => j.print.revision = 0
    /\ \A k \in Derived(j) : Fits(j.derived[k], j.print)
Passed(j, row) ==
    j.pc \in {"verify", "finalize", "commit"} /\ ~row.shared =>
        \A k \in Done(row) : row.records[k] = row.print
Asked(q) ==
    q.pc = "answer" =>
        /\ ActiveBuild # NoBuild
        /\ q.age <= Len(activations)
        /\ q.age = Len(activations) => builds[ActiveBuild].print = q.seen

\* With a registry that can be read.
FactsInv ==
    ~RegistryFails =>
    /\ \A n \in BuildIds : RowFits(builds[n])
    /\ \A b \in Builders : JobFits(job[b])
    /\ \A b \in Builders : job[b].build \in BuildIds => Passed(job[b], builds[job[b].build])
    /\ \A r \in Readers : Asked(query[r])

Inv ==
    /\ Typed
    /\ \A n \in BuildIds : RowOK(n, builds[n])
    /\ JobsInv
    /\ CommandsInv
    /\ HistoryInv
    /\ FactsInv

-------------------------------------------------------------------------------
(* Facts about the parts. *)

LEMMA BuildNumbers == BuildIds \subseteq Nat /\ NoBuild \notin BuildIds /\ MaxBuilds \in Nat
BY IntelligenceSets, IntelligenceBounds DEF BuildIds

LEMMA PrintTypes ==
    /\ \A q \in AnyPrint : q.revision \in Nat
    /\ \A q \in Prints : q.revision \in 0 .. MaxRevision /\ q \in AnyPrint
    /\ NoRecord \notin Prints /\ Unpinned \in AnyPrint
BY IntelligenceBounds, IntelligenceNoRecord DEF AnyPrint, Prints, Unpinned

LEMMA FiniteParts ==
    /\ \A S \in SUBSET Plots : IsFiniteSet(S) /\ Cardinality(S) \in Nat
    /\ \A s \in {"full", "sample"} : Identities(s) \subseteq Plots
    /\ \A s \in {"full", "sample"}, S \in SUBSET Plots :
          S \subseteq Identities(s) /\ Cardinality(S) = Cardinality(Identities(s)) => S = Identities(s)
<1>1. \A S \in SUBSET Plots : IsFiniteSet(S) /\ Cardinality(S) \in Nat
  BY IntelligenceSets, FS_Subset, FS_CardinalityType
<1>2. \A s \in {"full", "sample"} : Identities(s) \subseteq Plots
  BY IntelligenceSets DEF Identities
<1>3. ASSUME NEW s \in {"full", "sample"}, NEW S \in SUBSET Plots, S \subseteq Identities(s),
             Cardinality(S) = Cardinality(Identities(s))
      PROVE  S = Identities(s)
  BY <1>1, <1>2, <1>3, FS_Subset
<1> QED BY <1>1, <1>2, <1>3

LEMMA IdleParts ==
    /\ IdleJob \in Jobs /\ IdleJob.pc = "idle" /\ IdleJob.build = NoBuild /\ JobOK(IdleJob)
    /\ IdleJob \in [pc : {"idle"}, scope : {"full"}, print : {Unpinned}, resolver : {FALSE},
                    build : {NoBuild}, pending : {{}}, derived : {NoPlots}, failing : {{}},
                    cancelled : {FALSE}, verdict : {"failed"}, counted : {0}]
    /\ Derived(IdleJob) = {}
    /\ IdleCommand \in Commands /\ IdleCommand.pc = "idle"
    /\ IdleQuery \in Queries /\ IdleQuery.pc = "idle"
    /\ NoPlots \in [Plots -> Prints \cup {NoRecord}]
<1>1. NoPlots \in [Plots -> Prints \cup {NoRecord}]
  BY DEF NoPlots
<1>2. IdleJob \in [pc : {"idle"}, scope : {"full"}, print : {Unpinned}, resolver : {FALSE},
                   build : {NoBuild}, pending : {{}}, derived : {NoPlots}, failing : {{}},
                   cancelled : {FALSE}, verdict : {"failed"}, counted : {0}]
  BY DEF IdleJob
<1>3. IdleJob \in Jobs
  BY <1>1, PrintTypes DEF IdleJob, Jobs, Phases
<1>4. Derived(IdleJob) = {}
  BY <1>2 DEF Derived, NoPlots
<1>5. JobOK(IdleJob)
  BY <1>2, <1>4, BuildNumbers DEF JobOK, AtWork, Drawn
<1>6. IdleCommand \in Commands /\ IdleQuery \in Queries
  BY PrintTypes DEF IdleCommand, Commands, IdleQuery, Queries
<1> QED BY <1>1, <1>2, <1>3, <1>4, <1>5, <1>6 DEF IdleCommand, IdleQuery

LEMMA IdleFits == JobFits(IdleJob)
BY IdleParts DEF JobFits

LEMMA InvInit == Init => Inv
<1> SUFFICES ASSUME Init PROVE Inv
  OBVIOUS
<1>1. sources \in Prints
  BY IntelligenceBounds DEF Init, Prints
<1>2. ASSUME NEW n \in BuildIds
      PROVE  /\ builds[n] \in BuildRows /\ builds[n].state = "none" /\ Done(builds[n]) = {}
             /\ ~builds[n].shared
  <2>1. NewBuild("full", Unpinned) \in
          [state : {"building"}, scope : {"full"}, print : {Unpinned}, records : {NoPlots},
           count : {0}, issues : {{}}, shared : {FALSE}]
    BY DEF NewBuild
  <2>2. builds[n] \in
          [state : {"none"}, scope : {"full"}, print : {Unpinned}, records : {NoPlots},
           count : {0}, issues : {{}}, shared : {FALSE}]
    BY <2>1 DEF Init
  <2>3. Unpinned \in AnyPrint /\ NoPlots \in [Plots -> Prints \cup {NoRecord}]
    BY PrintTypes, IdleParts
  <2>4. builds[n] \in BuildRows
    <3>1. NewBuild("full", Unpinned) \in BuildRows
      BY <2>3 DEF NewBuild, BuildRows, States
    <3>2. [NewBuild("full", Unpinned) EXCEPT !.state = "none"] \in BuildRows
      BY <3>1 DEF BuildRows, States
    <3> QED BY <3>2 DEF Init
  <2> QED BY <2>2, <2>4 DEF Done, NoPlots
<1>3. Typed
  <2>1. builds \in [BuildIds -> BuildRows]
    BY <1>2 DEF Init
  <2>2. job \in [Builders -> Jobs] /\ command \in [Operators -> Commands] /\ query \in [Readers -> Queries]
    BY IdleParts DEF Init
  <2>3. activations \in Seq(BuildIds)
    BY DEF Init
  <2> QED BY <1>1, <2>1, <2>2, <2>3, IntelligenceBounds DEF Init, Typed
<1>4. \A n \in BuildIds : RowOK(n, builds[n]) /\ RowFits(builds[n])
  <2>1. \A n \in BuildIds : n > begun
    BY DEF Init, BuildIds
  <2> QED BY <1>2, <2>1 DEF RowOK, RowFits, Finalized
<1>5. JobsInv /\ CommandsInv /\ HistoryInv
  <2>1. ActiveBuild = NoBuild
    BY DEF Init, ActiveBuild
  <2>2. HistoryInv
    BY <1>2, <2>1 DEF Init, HistoryInv, ActiveStateIsPointer
  <2> QED BY <2>2, IdleParts, BuildNumbers DEF Init, JobsInv, CommandsInv
<1>6. FactsInv
  BY <1>4, IdleParts, IdleFits, BuildNumbers DEF Init, FactsInv, Asked
<1> QED BY <1>3, <1>4, <1>5, <1>6 DEF Inv

-------------------------------------------------------------------------------
(* Steps of a command that builds. *)

\* What a step of command b may use.
LEMMA AtHand ==
    ASSUME Inv
    PROVE  /\ sources \in Prints /\ sources.revision \in 0 .. MaxRevision
           /\ switches \in 0 .. MaxSwitches /\ faults \in 0 .. MaxFaults /\ begun \in 0 .. MaxBuilds
           /\ builds \in [BuildIds -> BuildRows] /\ job \in [Builders -> Jobs]
           /\ activations \in Seq(BuildIds)
           /\ command \in [Operators -> Commands] /\ query \in [Readers -> Queries]
           /\ \A n \in BuildIds : builds[n] \in BuildRows /\ RowOK(n, builds[n])
           /\ \A b \in Builders :
                 /\ job[b] \in Jobs /\ JobOK(job[b])
                 /\ job[b].build \in BuildIds => WorksOn(job[b], builds[job[b].build])
                 /\ ~RegistryFails => JobFits(job[b])
           /\ ~RegistryFails => \A n \in BuildIds : RowFits(builds[n])
BY PrintTypes DEF Inv, Typed, JobsInv, FactsInv

\* A command moves on, stays at its build or leaves it, and the tables stay.
LEMMA JobMoves ==
    ASSUME Inv, NEW b \in Builders, NEW j \in Jobs, JobOK(j),
           job' = [job EXCEPT ![b] = j],
           UNCHANGED <<outside, store, command, query>>, faults' \in 0 .. MaxFaults,
           j.build \in BuildIds => j.build = job[b].build /\ WorksOn(j, builds[j.build]),
           ~RegistryFails => /\ JobFits(j)
                             /\ j.build \in BuildIds => Passed(j, builds[j.build])
    PROVE  Inv'
<1>1. /\ job' \in [Builders -> Jobs] /\ job'[b] = j
      /\ \A c \in Builders \ {b} : job'[c] = job[c]
  BY AtHand
<1>2. Typed'
  BY <1>1, AtHand DEF Typed, outside, store
<1>3. \A n \in BuildIds : RowOK(n, builds[n])'
  BY DEF Inv, RowOK, store
<1>4. JobsInv'
  BY <1>1 DEF Inv, JobsInv, store
<1>5. CommandsInv' /\ HistoryInv'
  BY DEF Inv, CommandsInv, HistoryInv, ActiveStateIsPointer, ActiveBuild, store
<1>6. FactsInv'
  <2> SUFFICES ASSUME ~RegistryFails PROVE FactsInv'
    BY DEF FactsInv
  <2>1. \A n \in BuildIds : RowFits(builds[n])'
    BY DEF Inv, FactsInv, RowFits, Fits, store, outside
  <2>2. \A c \in Builders : JobFits(job[c])'
    BY <1>1 DEF Inv, FactsInv, JobFits, Fits, outside
  <2>3. \A c \in Builders : job'[c].build \in BuildIds => Passed(job'[c], builds'[job'[c].build])
    BY <1>1 DEF Inv, FactsInv, store
  <2>4. \A r \in Readers : Asked(query[r])'
    BY DEF Inv, FactsInv, Asked, ActiveBuild, store
  <2> QED BY <2>1, <2>2, <2>3, <2>4 DEF FactsInv
<1> QED BY <1>2, <1>3, <1>4, <1>5, <1>6 DEF Inv

LEMMA LeaveStep ==
    ASSUME Inv, NEW b \in Builders, Leave(b), UNCHANGED <<outside, store, command, query>>,
           faults' \in 0 .. MaxFaults
    PROVE  Inv'
BY IdleParts, IdleFits, BuildNumbers, JobMoves DEF Leave

\* A command writes to the row of its build.
LEMMA RowMoves ==
    ASSUME Inv, NEW b \in Builders, NEW n \in BuildIds, n = job[b].build,
           NEW row \in BuildRows, RowOK(n, row), NEW j \in Jobs, JobOK(j),
           builds' = [builds EXCEPT ![n] = row], job' = [job EXCEPT ![b] = j],
           row.shared = builds[n].shared, row.scope = builds[n].scope, row.print = builds[n].print,
           row.state # "none", row.state = builds[n].state \/ row.state \in {"ready", "failed"},
           UNCHANGED <<outside, faults, begun, activations, command, query>>,
           j.build \in BuildIds => j.build = n /\ WorksOn(j, row),
           ~RegistryFails => /\ RowFits(row) /\ JobFits(j)
                             /\ j.build \in BuildIds => Passed(j, row)
    PROVE  Inv'
<1>1. /\ job' \in [Builders -> Jobs] /\ job'[b] = j
      /\ \A c \in Builders \ {b} : job'[c] = job[c]
      /\ builds' \in [BuildIds -> BuildRows] /\ builds'[n] = row
      /\ \A m \in BuildIds \ {n} : builds'[m] = builds[m]
  BY AtHand
<1>2. /\ WorksOn(job[b], builds[n]) /\ builds[n].state # "none"
      /\ ~row.shared => builds[n].state = "building"
  BY AtHand DEF WorksOn
<1>3. Typed'
  BY <1>1, AtHand DEF Typed, outside
<1>4. \A m \in BuildIds : RowOK(m, builds[m])'
  BY <1>1, AtHand DEF RowOK
<1>5. JobsInv'
  <2>1. \A c \in Builders : JobOK(job'[c])
    BY <1>1, AtHand
  <2>2. ASSUME NEW c \in Builders, job'[c].build \in BuildIds
        PROVE  WorksOn(job'[c], builds'[job'[c].build])
    <3>1. CASE c = b
      BY <1>1, <2>2, <3>1
    <3>2. CASE c # b /\ job[c].build # n
      BY <1>1, <2>2, <3>2, AtHand
    <3>3. CASE c # b /\ job[c].build = n
      <4>1. row.shared
        BY <3>3 DEF Inv, JobsInv
      <4>2. WorksOn(job[c], builds[n])
        BY <3>3, AtHand
      <4> QED BY <1>1, <3>3, <4>1, <4>2 DEF WorksOn
    <3> QED BY <3>1, <3>2, <3>3
  <2>3. ASSUME NEW c \in Builders, NEW d \in Builders, job'[c].build \in BuildIds,
               job'[c].build = job'[d].build, ~builds'[job'[c].build].shared
        PROVE  c = d
    BY <1>1, <2>3 DEF Inv, JobsInv
  <2> QED BY <2>1, <2>2, <2>3 DEF JobsInv
<1>6. \A m \in BuildIds : Fit(builds[m]) => Fit(builds'[m])
  BY <1>1, <1>2 DEF Fit, Finalized
<1>7. CommandsInv'
  BY <1>6 DEF Inv, CommandsInv
<1>8. HistoryInv'
  <2>1. \A i \in DOMAIN activations : activations[i] \in BuildIds
    BY AtHand
  <2>2. SoleBuilder => row.state # "active" /\ builds[n].state # "active"
    BY <1>2 DEF RowOK
  <2>3. SoleBuilder => ActiveStateIsPointer'
    <3> SUFFICES ASSUME SoleBuilder PROVE ActiveStateIsPointer'
      OBVIOUS
    <3>1. ActiveStateIsPointer /\ ActiveBuild' = ActiveBuild
      BY DEF Inv, HistoryInv, ActiveBuild
    <3>2. \A m \in BuildIds : builds'[m].state = "active" <=> builds[m].state = "active"
      BY <1>1, <2>2
    <3>3. \A m \in BuildIds : builds'[m].scope = builds[m].scope
      BY <1>1
    <3>4. ActiveBuild # NoBuild => ActiveBuild \in BuildIds
      BY <2>1, AtHand DEF ActiveBuild
    <3> QED BY <3>1, <3>2, <3>3, <3>4 DEF ActiveStateIsPointer
  <2> QED BY <1>6, <2>1, <2>3 DEF Inv, HistoryInv
<1>9. FactsInv'
  <2> SUFFICES ASSUME ~RegistryFails PROVE FactsInv'
    BY DEF FactsInv
  <2>1. \A m \in BuildIds : RowFits(builds[m])'
    BY <1>1 DEF Inv, FactsInv, RowFits, Fits, outside
  <2>2. \A c \in Builders : JobFits(job[c])'
    BY <1>1 DEF Inv, FactsInv, JobFits, Fits, outside
  <2>3. ASSUME NEW c \in Builders, job'[c].build \in BuildIds
        PROVE  Passed(job'[c], builds'[job'[c].build])
    <3>1. CASE c = b
      BY <1>1, <2>3, <3>1
    <3>2. CASE c # b /\ job[c].build # n
      BY <1>1, <2>3, <3>2 DEF Inv, FactsInv
    <3>3. CASE c # b /\ job[c].build = n
      BY <1>1, <3>3 DEF Inv, JobsInv, Passed
    <3> QED BY <3>1, <3>2, <3>3
  <2>4. \A r \in Readers : Asked(query[r])'
    <3>1. ActiveBuild' = ActiveBuild /\ (ActiveBuild # NoBuild => ActiveBuild \in BuildIds)
      BY AtHand DEF ActiveBuild
    <3>2. \A m \in BuildIds : builds'[m].print = builds[m].print
      BY <1>1
    <3> QED BY <3>1, <3>2 DEF Inv, FactsInv, Asked
  <2> QED BY <2>1, <2>2, <2>3, <2>4 DEF FactsInv
<1> QED BY <1>3, <1>4, <1>5, <1>7, <1>8, <1>9 DEF Inv

LEMMA StartStep == ASSUME Inv, NEW b \in Builders, StartBuild(b) PROVE Inv'
<1>1. PICK scope \in Scopes, parcel \in ParcelIds, planning \in PlanningIds,
           cost \in Costs, resolver \in BOOLEAN :
         /\ cost = 0 /\ sources.revision > 0 => resolver
         /\ Pay(cost)
         /\ job' = [job EXCEPT ![b] =
                      [IdleJob EXCEPT !.pc = "find", !.scope = scope, !.resolver = resolver,
                                      !.print = [parcel |-> parcel, planning |-> planning,
                                                 revision |-> RevisionRead(cost)]]]
  BY DEF StartBuild
<1>2. PICK print, j : /\ print = [parcel |-> parcel, planning |-> planning,
                                  revision |-> RevisionRead(cost)]
                      /\ j = [IdleJob EXCEPT !.pc = "find", !.scope = scope,
                                             !.resolver = resolver, !.print = print]
  OBVIOUS
<1>3. print \in Prints /\ print.revision <= sources.revision
  BY <1>2, AtHand, IntelligenceBounds DEF RevisionRead, Prints
<1>4. ~RegistryFails /\ ~resolver => print.revision = 0
  BY <1>1, <1>2, AtHand DEF Costs, RevisionRead
<1>5. faults' \in 0 .. MaxFaults
  BY <1>1, AtHand, IntelligenceBounds DEF Pay, Costs
<1>6. scope \in {"full", "sample"}
  BY IntelligenceSets
<1>7. /\ j \in Jobs /\ j.pc = "find" /\ j.build = NoBuild /\ j.print = print
      /\ j.resolver = resolver /\ j.pending = {} /\ j.failing = {} /\ j.derived = NoPlots
  BY <1>2, <1>3, <1>6, IdleParts, PrintTypes DEF Jobs, Phases
<1>8. Derived(j) = {}
  BY <1>7 DEF Derived, NoPlots
<1>9. JobOK(j) /\ (~RegistryFails => JobFits(j))
  BY <1>3, <1>4, <1>7, <1>8, BuildNumbers DEF JobOK, JobFits, AtWork, Drawn
<1>10. job' = [job EXCEPT ![b] = j] /\ UNCHANGED <<outside, store, command, query>>
  BY <1>1, <1>2 DEF StartBuild
<1> QED BY <1>5, <1>7, <1>9, <1>10, BuildNumbers, JobMoves

\* A command that has no plot in hand moves to another step.
LEMMA PcMoves ==
    ASSUME Inv, NEW b \in Builders, NEW pc \in Phases,
           job[b].pc # "idle", pc # "idle", job[b].pc \in AtWork <=> pc \in AtWork,
           pc # "commit",
           pc \in {"verify", "finalize"} /\ ~RegistryFails /\ job[b].build \in BuildIds
             => Passed([job[b] EXCEPT !.pc = pc], builds[job[b].build]),
           job' = [job EXCEPT ![b] = [@ EXCEPT !.pc = pc]],
           UNCHANGED <<outside, store, command, query>>, faults' \in 0 .. MaxFaults
    PROVE  Inv'
<1>1. PICK j : j = [job[b] EXCEPT !.pc = pc]
  OBVIOUS
<1>2. /\ j \in Jobs /\ j.pc = pc /\ j.build = job[b].build /\ j.print = job[b].print
      /\ j.scope = job[b].scope /\ j.resolver = job[b].resolver /\ j.pending = job[b].pending
      /\ j.failing = job[b].failing /\ j.derived = job[b].derived
  BY <1>1, AtHand DEF Jobs
<1>3. Derived(j) = Derived(job[b]) /\ Drawn(j) = Drawn(job[b])
  BY <1>2 DEF Derived, Drawn
<1>4. JobOK(j) /\ (~RegistryFails => JobFits(j))
  BY <1>2, <1>3, AtHand DEF JobOK, JobFits
<1>5. j.build \in BuildIds => WorksOn(j, builds[j.build])
  BY <1>2, <1>3, AtHand DEF WorksOn
<1>6. ~RegistryFails /\ j.build \in BuildIds => Passed(j, builds[j.build])
  BY <1>1, <1>2 DEF Passed
<1>7. job' = [job EXCEPT ![b] = j]
  BY <1>1, AtHand
<1> QED BY <1>2, <1>4, <1>5, <1>6, <1>7, JobMoves

LEMMA FindNothingStep == ASSUME Inv, NEW b \in Builders, FindNothing(b) PROVE Inv'
<1>1. /\ job[b].pc = "find" /\ UNCHANGED <<outside, faults, store, command, query>>
      /\ job' = [job EXCEPT ![b].pc = "insert"]
  BY DEF FindNothing, At
<1>2. job[b].pc \notin AtWork /\ "insert" \in Phases \ AtWork
  BY <1>1 DEF AtWork, Phases
<1> QED BY <1>1, <1>2, AtHand, PcMoves

LEMMA CrashStep == ASSUME Inv, NEW b \in Builders, CrashBuild(b) PROVE Inv'
<1>1. faults' \in 0 .. MaxFaults
  BY AtHand, IntelligenceBounds DEF CrashBuild, Fault
<1> QED BY <1>1, LeaveStep DEF CrashBuild

LEMMA EndCancelledStep == ASSUME Inv, NEW b \in Builders, EndCancelled(b) PROVE Inv'
BY AtHand, LeaveStep DEF EndCancelled

\* The workers of a command move plots from hand to hand.
LEMMA DeriveMoves ==
    ASSUME Inv, NEW b \in Builders, job[b].pc = "derive", NEW j \in Jobs, j.pc = "derive",
           j.build = job[b].build, j.scope = job[b].scope, j.print = job[b].print,
           j.resolver = job[b].resolver, Drawn(j) \subseteq Drawn(job[b]),
           j.pending \cap Derived(j) = {}, j.pending \cap j.failing = {},
           Derived(j) \cap j.failing = {},
           ~RegistryFails => \A k \in Derived(j) : Fits(j.derived[k], j.print),
           job' = [job EXCEPT ![b] = j],
           UNCHANGED <<outside, store, command, query>>, faults' \in 0 .. MaxFaults
    PROVE  Inv'
<1>1. JobOK(j) /\ (~RegistryFails => JobFits(j))
  BY AtHand DEF JobOK, JobFits, AtWork
<1>2. j.build \in BuildIds => WorksOn(j, builds[j.build])
  BY AtHand DEF WorksOn
<1>3. Passed(j, builds[j.build])
  BY DEF Passed
<1> QED BY <1>1, <1>2, <1>3, JobMoves

LEMMA DeriveStep ==
    ASSUME Inv, NEW b \in Builders, NEW k \in Plots, Derive(b, k) PROVE Inv'
<1>1. PICK f, derived, pending, j :
         /\ f = Facts(b) /\ derived = [job[b].derived EXCEPT ![k] = f]
         /\ pending = job[b].pending \ {k}
         /\ j = [job[b] EXCEPT !.derived = derived, !.pending = pending]
  OBVIOUS
<1>2. /\ job[b].pc = "derive" /\ k \in job[b].pending
      /\ UNCHANGED <<outside, faults, store, command, query>>
  BY DEF Derive, Takes, At
<1>3. job' = [job EXCEPT ![b] = j]
  <2>1. job' = [job EXCEPT ![b].derived[k] = f, ![b].pending = @ \ {k}]
    BY <1>1 DEF Derive
  <2> QED BY <1>1, <2>1, AtHand
<1>4. f \in Prints /\ (~RegistryFails => Fits(f, job[b].print))
  <2>1. job[b].print \in Prints
    BY <1>2, AtHand DEF JobOK
  <2>2. f \in Prints /\ f.parcel = job[b].print.parcel /\ f.planning = job[b].print.planning
        /\ f.revision = IF job[b].resolver THEN sources.revision ELSE 0
    BY <1>1, <2>1, AtHand, IntelligenceBounds DEF Facts, Prints
  <2>3. ~RegistryFails => /\ job[b].print.revision <= sources.revision
                          /\ ~job[b].resolver => job[b].print.revision = 0
    BY <1>2, AtHand DEF JobFits
  <2>4. f.revision = job[b].print.revision => f = job[b].print
    BY <2>1, <2>2 DEF Prints
  <2>5. job[b].print.revision \in Nat /\ sources.revision \in Nat
    BY <2>1, AtHand, PrintTypes, IntelligenceBounds
  <2> QED BY <2>2, <2>3, <2>4, <2>5 DEF Fits
<1>5. derived \in [Plots -> Prints \cup {NoRecord}] /\ pending \in SUBSET Plots
  BY <1>1, <1>4, AtHand DEF Jobs
<1>6. /\ j \in Jobs /\ j.pc = "derive" /\ j.build = job[b].build /\ j.scope = job[b].scope
      /\ j.print = job[b].print /\ j.resolver = job[b].resolver
      /\ j.failing = job[b].failing /\ j.derived = derived /\ j.pending = pending
  BY <1>1, <1>2, <1>5, AtHand DEF Jobs
<1>7. /\ Derived(j) = Derived(job[b]) \cup {k} /\ derived[k] = f
      /\ \A q \in Plots \ {k} : derived[q] = job[b].derived[q]
  <2>1. job[b].derived \in [Plots -> Prints \cup {NoRecord}]
    BY AtHand DEF Jobs
  <2>2. derived[k] = f /\ f # NoRecord /\ \A q \in Plots \ {k} : derived[q] = job[b].derived[q]
    BY <1>1, <1>4, <2>1, PrintTypes
  <2> QED BY <1>6, <2>2 DEF Derived
<1>8. /\ Drawn(j) \subseteq Drawn(job[b]) /\ j.pending \cap Derived(j) = {}
      /\ j.pending \cap j.failing = {} /\ Derived(j) \cap j.failing = {}
  BY <1>1, <1>2, <1>6, <1>7, AtHand DEF JobOK, Drawn
<1>9. ~RegistryFails => \A q \in Derived(j) : Fits(j.derived[q], j.print)
  BY <1>4, <1>6, <1>7, AtHand DEF JobFits, Derived
<1> QED BY <1>2, <1>3, <1>6, <1>8, <1>9, AtHand, DeriveMoves

LEMMA DeriveFailsStep ==
    ASSUME Inv, NEW b \in Builders, NEW k \in Plots, DeriveFails(b, k) PROVE Inv'
<1>1. PICK failing, pending, j :
         /\ failing = job[b].failing \cup {k} /\ pending = job[b].pending \ {k}
         /\ j = [job[b] EXCEPT !.failing = failing, !.pending = pending]
  OBVIOUS
<1>2. /\ job[b].pc = "derive" /\ k \in job[b].pending
      /\ UNCHANGED <<outside, store, command, query>> /\ faults' \in 0 .. MaxFaults
  BY AtHand, IntelligenceBounds DEF DeriveFails, Takes, At, Fault
<1>3. job' = [job EXCEPT ![b] = j]
  <2>1. job' = [job EXCEPT ![b].failing = @ \cup {k}, ![b].pending = @ \ {k}]
    BY DEF DeriveFails
  <2> QED BY <1>1, <2>1, AtHand
<1>4. /\ j \in Jobs /\ j.pc = "derive" /\ j.build = job[b].build /\ j.scope = job[b].scope
      /\ j.print = job[b].print /\ j.resolver = job[b].resolver
      /\ j.failing = failing /\ j.derived = job[b].derived /\ j.pending = pending
  BY <1>1, <1>2, AtHand DEF Jobs
<1>5. Derived(j) = Derived(job[b])
  BY <1>4 DEF Derived
<1>6. /\ Drawn(j) \subseteq Drawn(job[b]) /\ j.pending \cap Derived(j) = {}
      /\ j.pending \cap j.failing = {} /\ Derived(j) \cap j.failing = {}
  BY <1>1, <1>2, <1>4, <1>5, AtHand DEF JobOK, Drawn
<1>7. ~RegistryFails => \A q \in Derived(j) : Fits(j.derived[q], j.print)
  BY <1>4, <1>5, AtHand DEF JobFits
<1> QED BY <1>2, <1>3, <1>4, <1>6, <1>7, DeriveMoves

LEMMA DeriveRefusedStep ==
    ASSUME Inv, NEW b \in Builders, NEW k \in Plots, DeriveRefused(b, k) PROVE Inv'
<1>1. PICK j : j = [job[b] EXCEPT !.cancelled = TRUE]
  OBVIOUS
<1>2. /\ job[b].pc = "derive" /\ job' = [job EXCEPT ![b] = j]
      /\ UNCHANGED <<outside, faults, store, command, query>>
  BY <1>1, AtHand DEF DeriveRefused, Takes, At
<1>3. /\ j \in Jobs /\ j.pc = "derive" /\ j.build = job[b].build /\ j.scope = job[b].scope
      /\ j.print = job[b].print /\ j.resolver = job[b].resolver
      /\ j.failing = job[b].failing /\ j.derived = job[b].derived /\ j.pending = job[b].pending
  BY <1>1, <1>2, AtHand DEF Jobs
<1>4. Derived(j) = Derived(job[b]) /\ Drawn(j) = Drawn(job[b])
  BY <1>3 DEF Derived, Drawn
<1>5. ~RegistryFails => \A q \in Derived(j) : Fits(j.derived[q], j.print)
  BY <1>3, <1>4, AtHand DEF JobFits
<1> QED BY <1>2, <1>3, <1>4, <1>5, AtHand, DeriveMoves DEF JobOK

\* One plot's facts leave the hands of a command.
LEMMA Emptied ==
    ASSUME Inv, NEW b \in Builders, NEW k \in Plots, NEW d,
           d = [job[b].derived EXCEPT ![k] = NoRecord]
    PROVE  /\ d \in [Plots -> Prints \cup {NoRecord}]
           /\ {q \in Plots : d[q] # NoRecord} = Derived(job[b]) \ {k}
           /\ \A q \in Plots \ {k} : d[q] = job[b].derived[q]
<1>1. job[b].derived \in [Plots -> Prints \cup {NoRecord}]
  BY AtHand DEF Jobs
<1> QED BY <1>1 DEF Derived

LEMMA UpsertFailsStep ==
    ASSUME Inv, NEW b \in Builders, NEW k \in Plots, UpsertFails(b, k) PROVE Inv'
<1>1. PICK derived, failing, cancelled, j :
         /\ derived = [job[b].derived EXCEPT ![k] = NoRecord]
         /\ failing = IF Building(b) THEN job[b].failing \cup {k} ELSE job[b].failing
         /\ cancelled = (job[b].cancelled \/ ~Building(b))
         /\ j = [job[b] EXCEPT !.derived = derived, !.failing = failing, !.cancelled = cancelled]
  OBVIOUS
<1>2. /\ job[b].pc = "derive" /\ k \in Derived(job[b])
      /\ UNCHANGED <<outside, store, command, query>> /\ faults' \in 0 .. MaxFaults
  BY AtHand, IntelligenceBounds DEF UpsertFails, At, Fault, Derived
<1>3. job' = [job EXCEPT ![b] = j]
  <2>1. job' = [job EXCEPT ![b].derived[k] = NoRecord,
                         ![b].failing = IF Building(b) THEN @ \cup {k} ELSE @,
                         ![b].cancelled = @ \/ ~Building(b)]
    BY DEF UpsertFails
  <2> QED BY <1>1, <2>1, AtHand
<1>4. failing \in SUBSET Plots /\ cancelled \in BOOLEAN
  BY <1>1, AtHand DEF Jobs
<1>5. derived \in [Plots -> Prints \cup {NoRecord}] /\ job[b] \in Jobs
  BY <1>1, AtHand, Emptied
<1>6. /\ j \in Jobs /\ j.pc = "derive" /\ j.build = job[b].build /\ j.scope = job[b].scope
      /\ j.print = job[b].print /\ j.resolver = job[b].resolver
      /\ j.failing = failing /\ j.derived = derived /\ j.pending = job[b].pending
  BY <1>1, <1>2, <1>4, <1>5 DEF Jobs
<1>7. Derived(j) = Derived(job[b]) \ {k}
  BY <1>1, <1>6, Emptied DEF Derived
<1>8. /\ Drawn(j) \subseteq Drawn(job[b]) /\ j.pending \cap Derived(j) = {}
      /\ j.pending \cap j.failing = {} /\ Derived(j) \cap j.failing = {}
  BY <1>1, <1>2, <1>6, <1>7, AtHand DEF JobOK, Drawn
<1>9. ~RegistryFails => \A q \in Derived(j) : Fits(j.derived[q], j.print)
  BY <1>1, <1>6, <1>7, AtHand, Emptied DEF JobFits, Derived
<1> QED BY <1>2, <1>3, <1>6, <1>8, <1>9, DeriveMoves

LEMMA CheckRevisionStep == ASSUME Inv, NEW b \in Builders, CheckRevision(b) PROVE Inv'
<1>1. PICK cost \in Costs :
         /\ Pay(cost)
         /\ job' = [job EXCEPT ![b] =
                      IF RevisionRead(cost) = job[b].print.revision
                      THEN [@ EXCEPT !.pc = "verify"]
                      ELSE IF Building(b) THEN [@ EXCEPT !.pc = "fail"] ELSE IdleJob]
  BY DEF CheckRevision
<1>2. /\ job[b].pc = "derive" /\ UNCHANGED <<outside, store, command, query>>
      /\ faults' \in 0 .. MaxFaults
  BY <1>1, AtHand, IntelligenceBounds DEF CheckRevision, At, Pay, Costs
<1>3. job[b].pc \in AtWork /\ {"verify", "fail"} \subseteq AtWork \cap Phases
  BY <1>2 DEF AtWork, Phases
<1>4. CASE job' = [job EXCEPT ![b] = [@ EXCEPT !.pc = "verify"]]
           /\ RevisionRead(cost) = job[b].print.revision
  <2>1. ASSUME ~RegistryFails, job[b].build \in BuildIds
        PROVE  Passed([job[b] EXCEPT !.pc = "verify"], builds[job[b].build])
    <3>1. sources.revision = job[b].print.revision
      BY <1>4, <2>1 DEF Costs, RevisionRead
    <3>2. builds[job[b].build].print = job[b].print /\ builds[job[b].build].state # "none"
      BY <2>1, AtHand DEF WorksOn
    <3>3. sources.revision \in Nat
      BY AtHand, IntelligenceBounds
    <3> QED BY <2>1, <3>1, <3>2, <3>3, AtHand DEF RowFits, Fits, Passed
  <2> QED BY <1>2, <1>3, <1>4, <2>1, PcMoves
<1>5. CASE job' = [job EXCEPT ![b] = [@ EXCEPT !.pc = "fail"]]
  BY <1>2, <1>3, <1>5, PcMoves
<1>6. CASE job' = [job EXCEPT ![b] = IdleJob]
  BY <1>2, <1>6, LeaveStep DEF Leave
<1> QED BY <1>1, <1>4, <1>5, <1>6

LEMMA VerifyStep == ASSUME Inv, NEW b \in Builders, VerifyBuild(b) PROVE Inv'
<1>1. /\ job[b].pc = "verify" /\ UNCHANGED <<outside, faults, store, command, query>>
      /\ job' = [job EXCEPT ![b] = IF Verified(job[b].build) THEN [@ EXCEPT !.pc = "finalize"]
                                   ELSE IdleJob]
  BY DEF VerifyBuild, At
<1>2. job[b].pc \in AtWork /\ "finalize" \in AtWork \cap Phases
  BY <1>1 DEF AtWork, Phases
<1>3. CASE job' = [job EXCEPT ![b] = [@ EXCEPT !.pc = "finalize"]]
  <2>1. ASSUME ~RegistryFails, job[b].build \in BuildIds
        PROVE  Passed([job[b] EXCEPT !.pc = "finalize"], builds[job[b].build])
    BY <1>1, <2>1 DEF Inv, FactsInv, Passed
  <2> QED BY <1>1, <1>2, <1>3, <2>1, AtHand, PcMoves
<1>4. CASE job' = [job EXCEPT ![b] = IdleJob]
  BY <1>1, <1>4, AtHand, LeaveStep DEF Leave
<1> QED BY <1>1, <1>3, <1>4

LEMMA ReverifyStep == ASSUME Inv, NEW b \in Builders, ReverifyBuild(b) PROVE Inv'
<1>1. PICK n, verdict, counted, j :
         /\ n = job[b].build
         /\ verdict = IF Verified(n) THEN "ready" ELSE "failed"
         /\ counted = Cardinality(Completed(n))
         /\ j = [job[b] EXCEPT !.pc = "commit", !.verdict = verdict, !.counted = counted]
  OBVIOUS
<1>2. /\ job[b].pc = "finalize" /\ UNCHANGED <<outside, faults, store, command, query>>
      /\ job' = [job EXCEPT ![b] = IF ~Building(b) THEN IdleJob ELSE j]
  BY <1>1, AtHand DEF ReverifyBuild, At
<1>3. CASE job' = [job EXCEPT ![b] = IdleJob]
  BY <1>2, <1>3, AtHand, LeaveStep DEF Leave
<1>4. CASE job' = [job EXCEPT ![b] = j]
  <2>1. n \in BuildIds /\ Completed(n) = Done(builds[n]) /\ WorksOn(job[b], builds[n])
    BY <1>1, <1>2, AtHand DEF JobOK, AtWork, Completed, Done
  <2>2. counted \in Nat
    BY <1>1, FiniteParts DEF Completed
  <2>3. /\ j \in Jobs /\ j.pc = "commit" /\ j.build = n /\ j.print = job[b].print
        /\ j.scope = job[b].scope /\ j.resolver = job[b].resolver /\ j.pending = job[b].pending
        /\ j.failing = job[b].failing /\ j.derived = job[b].derived
        /\ j.verdict = verdict /\ j.counted = counted
    BY <1>1, <2>2, AtHand DEF Jobs, Phases
  <2>4. Derived(j) = Derived(job[b]) /\ Drawn(j) = Drawn(job[b])
    BY <2>3 DEF Derived, Drawn
  <2>5. JobOK(j) /\ (~RegistryFails => JobFits(j))
    BY <1>2, <2>1, <2>3, <2>4, AtHand DEF JobOK, JobFits, AtWork
  <2>6. verdict = "ready" => Done(builds[n]) = Identities(builds[n].scope)
    <3>1. /\ builds[n].scope \in {"full", "sample"} /\ Done(builds[n]) \in SUBSET Plots
          /\ Done(builds[n]) \subseteq Identities(builds[n].scope)
      BY <2>1, AtHand DEF BuildRows, Done, RowOK
    <3> QED BY <1>1, <2>1, <3>1, FiniteParts DEF Verified
  <2>7. WorksOn(j, builds[n])
    BY <1>1, <2>1, <2>3, <2>4, <2>6 DEF WorksOn
  <2>8. ~RegistryFails => Passed(j, builds[n])
    BY <1>1, <1>2, <2>1 DEF Inv, FactsInv, Passed
  <2> QED BY <1>1, <1>2, <1>4, <2>3, <2>5, <2>7, <2>8, AtHand, JobMoves
<1> QED BY <1>2, <1>3, <1>4

LEMMA UpsertStep ==
    ASSUME Inv, NEW b \in Builders, NEW k \in Plots, Upsert(b, k) PROVE Inv'
<1>1. PICK n, old, f, records, issues, count, row, derived, j :
         /\ n = job[b].build /\ old = builds[n] /\ f = job[b].derived[k]
         /\ records = [old.records EXCEPT ![k] = f]
         /\ issues = old.issues \ {k}
         /\ count = old.count + (IF old.records[k] = NoRecord THEN 1 ELSE 0)
         /\ row = [old EXCEPT !.records = records, !.issues = issues, !.count = count]
         /\ derived = [job[b].derived EXCEPT ![k] = NoRecord]
         /\ j = [job[b] EXCEPT !.derived = derived]
  OBVIOUS
<1>2. /\ job[b].pc = "derive" /\ k \in Derived(job[b]) /\ f # NoRecord
      /\ UNCHANGED <<outside, faults, begun, activations, command, query>>
  BY <1>1 DEF Upsert, At, Derived
<1>3. /\ n \in BuildIds /\ old \in BuildRows /\ RowOK(n, old) /\ WorksOn(job[b], old)
      /\ job[b] \in Jobs /\ JobOK(job[b])
  BY <1>1, <1>2, AtHand DEF JobOK, AtWork
<1>4. job' = [job EXCEPT ![b] = j]
  <2>1. job' = [job EXCEPT ![b].derived[k] = NoRecord]
    BY DEF Upsert
  <2> QED BY <1>1, <2>1, AtHand
<1>5. builds' = [builds EXCEPT ![n] = row]
  <2>1. builds' = [builds EXCEPT ![n] = Upserted(old, k, f)]
    BY <1>1, <1>3 DEF Upsert
  <2>2. Upserted(old, k, f) = row
    BY <1>1, <1>3 DEF Upserted, BuildRows
  <2> QED BY <2>1, <2>2
<1>6. /\ old.records \in [Plots -> Prints \cup {NoRecord}] /\ f \in Prints
      /\ old.count \in Nat /\ old.issues \in SUBSET Plots
  BY <1>1, <1>2, <1>3 DEF BuildRows, Jobs
<1>7. /\ records \in [Plots -> Prints \cup {NoRecord}] /\ records[k] = f
      /\ \A q \in Plots \ {k} : records[q] = old.records[q]
      /\ issues \in SUBSET Plots /\ count \in Nat
  BY <1>1, <1>6
<1>8. /\ row \in BuildRows /\ row.records = records /\ row.issues = issues /\ row.count = count
      /\ row.state = old.state /\ row.scope = old.scope /\ row.print = old.print
      /\ row.shared = old.shared
  BY <1>1, <1>3, <1>7 DEF BuildRows
<1>9. Done(row) = Done(old) \cup {k}
  BY <1>2, <1>7, <1>8 DEF Done
<1>10. derived \in [Plots -> Prints \cup {NoRecord}]
       /\ {q \in Plots : derived[q] # NoRecord} = Derived(job[b]) \ {k}
       /\ \A q \in Plots \ {k} : derived[q] = job[b].derived[q]
  <2>1. job[b].derived \in [Plots -> Prints \cup {NoRecord}]
    BY <1>3 DEF Jobs
  <2>2. /\ derived \in [Plots -> Prints \cup {NoRecord}] /\ derived[k] = NoRecord
        /\ \A q \in Plots \ {k} : derived[q] = job[b].derived[q]
    BY <1>1, <2>1
  <2> QED BY <2>2 DEF Derived
<1>11. /\ j \in Jobs /\ j.pc = "derive" /\ j.build = n /\ j.print = job[b].print
       /\ j.scope = job[b].scope /\ j.resolver = job[b].resolver /\ j.pending = job[b].pending
       /\ j.failing = job[b].failing /\ j.derived = derived
  BY <1>1, <1>2, <1>3, <1>10 DEF Jobs
<1>12. Derived(j) = Derived(job[b]) \ {k}
  BY <1>10, <1>11 DEF Derived
<1>13. JobOK(j)
  BY <1>2, <1>3, <1>11, <1>12 DEF JobOK, Drawn, AtWork
<1>14. k \in Identities(old.scope) /\ k \notin Drawn(j)
  BY <1>2, <1>3, <1>11, <1>12 DEF JobOK, WorksOn, Drawn
<1>15. RowOK(n, row)
  <2>1. row.state \in Finalized /\ ~row.shared => Whole(row)
    BY <1>3, <1>8 DEF WorksOn, Finalized
  <2>2. ~row.shared /\ row.state = "building" => row.issues \cap Done(row) = {}
    BY <1>1, <1>3, <1>8, <1>9 DEF RowOK
  <2> QED BY <1>3, <1>8, <1>9, <1>14, <2>1, <2>2 DEF RowOK
<1>16. WorksOn(j, row)
  <2>1. Drawn(j) \subseteq Drawn(job[b])
    BY <1>11, <1>12 DEF Drawn
  <2> QED BY <1>3, <1>8, <1>9, <1>11, <1>14, <2>1 DEF WorksOn
<1>17. ASSUME ~RegistryFails PROVE RowFits(row) /\ JobFits(j) /\ Passed(j, row)
  <2>1. Fits(f, row.print)
    BY <1>1, <1>2, <1>3, <1>8, <1>17, AtHand DEF JobFits, WorksOn
  <2>2. \A q \in Done(old) : Fits(old.records[q], row.print)
    BY <1>1, <1>3, <1>8, <1>17, AtHand DEF RowFits, WorksOn
  <2>3. \A q \in Done(row) : Fits(row.records[q], row.print)
    BY <1>7, <1>8, <1>9, <2>1, <2>2 DEF Done
  <2>4. ~(row.state \in Finalized /\ ~row.shared)
    BY <1>3, <1>8 DEF WorksOn, Finalized
  <2>5. JobFits(j)
    <3>1. \A q \in Derived(j) : q \in Derived(job[b]) /\ j.derived[q] = job[b].derived[q]
      BY <1>10, <1>11, <1>12 DEF Derived
    <3>2. JobFits(job[b])
      BY <1>17, AtHand
    <3> QED BY <1>2, <1>11, <3>1, <3>2 DEF JobFits
  <2> QED BY <1>11, <2>3, <2>4, <2>5 DEF RowFits, Passed
<1>18. /\ row.state # "none" /\ row.state = builds[n].state /\ row.shared = builds[n].shared
       /\ row.scope = builds[n].scope /\ row.print = builds[n].print /\ n = job[b].build
  BY <1>1, <1>3, <1>8 DEF WorksOn
<1>19. row \in BuildRows /\ j \in Jobs /\ n \in BuildIds
  BY <1>3, <1>8, <1>11
<1> QED BY <1>2, <1>4, <1>5, <1>11, <1>13, <1>15, <1>16, <1>17, <1>18, <1>19, RowMoves

LEMMA RecordIssueStep ==
    ASSUME Inv, NEW b \in Builders, NEW k \in Plots, RecordIssue(b, k) PROVE Inv'
<1>1. PICK n, old, issues, row, failing, j :
         /\ n = job[b].build /\ old = builds[n]
         /\ issues = old.issues \cup {k} /\ row = [old EXCEPT !.issues = issues]
         /\ failing = job[b].failing \ {k} /\ j = [job[b] EXCEPT !.failing = failing]
  OBVIOUS
<1>2. /\ job[b].pc = "derive" /\ k \in job[b].failing
      /\ UNCHANGED <<outside, faults, begun, activations, command, query>>
  BY DEF RecordIssue, At
<1>3. /\ n \in BuildIds /\ old \in BuildRows /\ RowOK(n, old) /\ WorksOn(job[b], old)
      /\ job[b] \in Jobs /\ JobOK(job[b])
  BY <1>1, <1>2, AtHand DEF JobOK, AtWork
<1>4. job' = [job EXCEPT ![b] = j]
  <2>1. job' = [job EXCEPT ![b].failing = @ \ {k}]
    BY DEF RecordIssue
  <2> QED BY <1>1, <2>1, AtHand
<1>5. builds' = [builds EXCEPT ![n] = row]
  <2>1. builds' = [builds EXCEPT ![n].issues = @ \cup {k}]
    BY <1>1 DEF RecordIssue
  <2> QED BY <1>1, <1>3, <2>1, AtHand
<1>6. issues \in SUBSET Plots /\ failing \in SUBSET Plots
  BY <1>1, <1>3 DEF BuildRows, Jobs
<1>7. /\ row \in BuildRows /\ row.records = old.records /\ row.issues = issues
      /\ row.count = old.count /\ row.state = old.state /\ row.scope = old.scope
      /\ row.print = old.print /\ row.shared = old.shared
  BY <1>1, <1>3, <1>6 DEF BuildRows
<1>8. Done(row) = Done(old)
  BY <1>7 DEF Done
<1>9. /\ j \in Jobs /\ j.pc = "derive" /\ j.build = n /\ j.print = job[b].print
      /\ j.scope = job[b].scope /\ j.resolver = job[b].resolver /\ j.pending = job[b].pending
      /\ j.failing = failing /\ j.derived = job[b].derived
  BY <1>1, <1>2, <1>3, <1>6 DEF Jobs
<1>10. Derived(j) = Derived(job[b]) /\ Drawn(j) \subseteq Drawn(job[b])
  BY <1>1, <1>9 DEF Derived, Drawn
<1>11. JobOK(j)
  BY <1>1, <1>2, <1>3, <1>9, <1>10 DEF JobOK, AtWork
<1>12. RowOK(n, row)
  <2>1. row.state \in Finalized /\ ~row.shared => Whole(row)
    BY <1>3, <1>7 DEF WorksOn, Finalized
  <2>2. ~row.shared => k \notin Done(row)
    BY <1>2, <1>3, <1>7, <1>8 DEF WorksOn, Drawn
  <2>3. ~row.shared /\ row.state = "building" => row.issues \cap Done(row) = {}
    BY <1>1, <1>3, <1>7, <1>8, <2>2 DEF RowOK
  <2> QED BY <1>3, <1>7, <1>8, <2>1, <2>3 DEF RowOK
<1>13. WorksOn(j, row)
  BY <1>3, <1>7, <1>8, <1>9, <1>10 DEF WorksOn
<1>14. ASSUME ~RegistryFails PROVE RowFits(row) /\ JobFits(j) /\ Passed(j, row)
  <2>1. RowFits(old) /\ JobFits(job[b])
    BY <1>1, <1>3, <1>14, AtHand
  <2> QED BY <1>2, <1>7, <1>8, <1>9, <1>10, <2>1 DEF RowFits, JobFits, Passed
<1>15. /\ row.state # "none" /\ row.state = builds[n].state /\ row.shared = builds[n].shared
       /\ row.scope = builds[n].scope /\ row.print = builds[n].print /\ n = job[b].build
  BY <1>1, <1>3, <1>7 DEF WorksOn
<1>16. row \in BuildRows /\ j \in Jobs /\ n \in BuildIds
  BY <1>3, <1>7, <1>9
<1> QED BY <1>2, <1>4, <1>5, <1>9, <1>11, <1>12, <1>13, <1>14, <1>15, <1>16, RowMoves

\* A command closes its build.
LEMMA CloseMoves ==
    ASSUME Inv, NEW b \in Builders, job[b].pc \in {"fail", "commit"},
           NEW state \in {"ready", "failed"}, NEW count \in Nat, NEW n, n = job[b].build,
           job[b].pc = "fail" => state = "failed",
           job[b].pc = "commit" => state = job[b].verdict /\ count = job[b].counted,
           builds' = [builds EXCEPT ![n] = [@ EXCEPT !.state = state, !.count = count]],
           Leave(b), UNCHANGED <<outside, faults, begun, activations, command, query>>
    PROVE  Inv'
<1>1. PICK old, row : /\ old = builds[n]
                      /\ row = [old EXCEPT !.state = state, !.count = count]
  OBVIOUS
<1>2. /\ n \in BuildIds /\ old \in BuildRows /\ RowOK(n, old) /\ WorksOn(job[b], old)
      /\ job[b] \in Jobs
  BY <1>1, AtHand DEF JobOK, AtWork
<1>3. builds' = [builds EXCEPT ![n] = row] /\ job' = [job EXCEPT ![b] = IdleJob]
  BY <1>1, <1>2, AtHand DEF Leave
<1>4. /\ row \in BuildRows /\ row.records = old.records /\ row.issues = old.issues
      /\ row.count = count /\ row.state = state /\ row.scope = old.scope
      /\ row.print = old.print /\ row.shared = old.shared
  BY <1>1, <1>2 DEF BuildRows, States
<1>5. Done(row) = Done(old)
  BY <1>4 DEF Done
<1>6. RowOK(n, row)
  <2>1. row.state \in Finalized /\ ~row.shared => Whole(row)
    BY <1>2, <1>4, <1>5 DEF WorksOn, Finalized, Whole
  <2>2. old.state # "none" /\ row.state \notin {"none", "building"}
    BY <1>2, <1>4 DEF WorksOn
  <2> QED BY <1>2, <1>4, <1>5, <2>1, <2>2 DEF RowOK
<1>7. ~RegistryFails => RowFits(row)
  <2> SUFFICES ASSUME ~RegistryFails PROVE RowFits(row)
    OBVIOUS
  <2>1. RowFits(old) /\ old.state # "none"
    BY <1>1, <1>2, AtHand DEF WorksOn
  <2>2. Passed(job[b], old)
    BY <1>1, <1>2 DEF Inv, FactsInv
  <2>3. row.state \in Finalized => job[b].pc = "commit"
    BY <1>4 DEF Finalized
  <2> QED BY <1>4, <1>5, <2>1, <2>2, <2>3 DEF RowFits, Passed
<1>8. /\ row.state # "none" /\ row.state \in {"ready", "failed"} /\ row.shared = builds[n].shared
      /\ row.scope = builds[n].scope /\ row.print = builds[n].print
  BY <1>1, <1>4
<1>9. IdleJob \in Jobs /\ JobOK(IdleJob) /\ IdleJob.build \notin BuildIds
  BY IdleParts, BuildNumbers
<1> QED BY <1>2, <1>3, <1>4, <1>6, <1>7, <1>8, <1>9, IdleFits, RowMoves

LEMMA FailStep == ASSUME Inv, NEW b \in Builders, FailBuild(b) PROVE Inv'
<1>1. PICK n, count : n = job[b].build /\ count = builds[n].count
  OBVIOUS
<1>2. /\ job[b].pc = "fail" /\ Leave(b)
      /\ UNCHANGED <<outside, faults, begun, activations, command, query>>
  BY DEF FailBuild, At
<1>3. n \in BuildIds /\ builds[n] \in BuildRows
  BY <1>1, <1>2, AtHand DEF JobOK, AtWork
<1>4. count \in Nat
  BY <1>1, <1>3 DEF BuildRows
<1>5. builds' = [builds EXCEPT ![n] = [@ EXCEPT !.state = "failed", !.count = count]]
  <2>1. builds' = [builds EXCEPT ![n].state = "failed"]
    BY <1>1 DEF FailBuild
  <2>2. [builds[n] EXCEPT !.state = "failed"]
           = [builds[n] EXCEPT !.state = "failed", !.count = count]
    BY <1>1, <1>3 DEF BuildRows
  <2> QED BY <2>1, <2>2, AtHand
<1> QED BY <1>1, <1>2, <1>4, <1>5, CloseMoves

LEMMA FinalizeStep == ASSUME Inv, NEW b \in Builders, FinalizeBuild(b) PROVE Inv'
<1>1. PICK n, state, count :
         n = job[b].build /\ state = job[b].verdict /\ count = job[b].counted
  OBVIOUS
<1>2. /\ job[b].pc = "commit" /\ Leave(b)
      /\ UNCHANGED <<outside, faults, begun, activations, command, query>>
  BY DEF FinalizeBuild, At
<1>3. state \in {"ready", "failed"} /\ count \in Nat
  BY <1>1, AtHand DEF Jobs
<1>4. builds' = [builds EXCEPT ![n] = [@ EXCEPT !.state = state, !.count = count]]
  BY <1>1 DEF FinalizeBuild
<1> QED BY <1>1, <1>2, <1>3, <1>4, CloseMoves

\* A command takes up a build that it finds, beside others or alone.
LEMMA ResumeStep == ASSUME Inv, NEW b \in Builders, ResumeBuild(b) PROVE Inv'
<1>1. PICK n \in Resumable(job[b].scope, job[b].print) :
         /\ job' = [job EXCEPT ![b] = Working(b, n)]
         /\ builds' = [builds EXCEPT ![n].shared = @ \/ \E c \in Builders : job[c].build = n]
  BY DEF ResumeBuild
<1>2. PICK old, shared, row, pending, j :
         /\ old = builds[n] /\ shared = (old.shared \/ \E c \in Builders : job[c].build = n)
         /\ row = [old EXCEPT !.shared = shared]
         /\ pending = Identities(job[b].scope) \ Completed(n)
         /\ j = [job[b] EXCEPT !.pc = "derive", !.build = n, !.pending = pending]
  OBVIOUS
<1>3. /\ job[b].pc = "find"
      /\ UNCHANGED <<outside, faults, begun, activations, command, query>>
  BY DEF ResumeBuild, At
<1>4. /\ n \in BuildIds /\ old \in BuildRows /\ RowOK(n, old) /\ old.state = "building"
      /\ old.scope = job[b].scope /\ old.print = job[b].print /\ job[b] \in Jobs /\ JobOK(job[b])
  BY <1>1, <1>2, AtHand DEF Resumable
<1>5. Drawn(job[b]) = {} /\ job[b].build \notin BuildIds
  BY <1>3, <1>4 DEF JobOK, AtWork
<1>6. pending \in SUBSET Plots /\ shared \in BOOLEAN /\ pending \cap Done(old) = {}
  <2>1. Completed(n) = Done(old)
    BY <1>2 DEF Completed, Done
  <2>2. Identities(job[b].scope) \subseteq Plots
    BY <1>4, FiniteParts DEF Jobs
  <2> QED BY <1>2, <1>4, <2>1, <2>2 DEF BuildRows
<1>7. /\ job' = [job EXCEPT ![b] = j] /\ builds' = [builds EXCEPT ![n] = row]
  BY <1>1, <1>2, <1>4, AtHand DEF Working
<1>8. /\ row \in BuildRows /\ row.records = old.records /\ row.issues = old.issues
      /\ row.count = old.count /\ row.state = old.state /\ row.scope = old.scope
      /\ row.print = old.print /\ row.shared = shared
  BY <1>2, <1>4, <1>6 DEF BuildRows
<1>9. /\ j \in Jobs /\ j.pc = "derive" /\ j.build = n /\ j.print = job[b].print
      /\ j.scope = job[b].scope /\ j.resolver = job[b].resolver /\ j.pending = pending
      /\ j.failing = job[b].failing /\ j.derived = job[b].derived
  BY <1>2, <1>4, <1>6 DEF Jobs, Phases
<1>10. Done(row) = Done(old) /\ Derived(j) = {} /\ Drawn(j) = pending
  BY <1>5, <1>8, <1>9 DEF Done, Derived, Drawn
<1>11. old.shared => shared
  BY <1>2
<1>12. /\ \A c \in Builders \ {b} : job'[c] = job[c]
       /\ job' \in [Builders -> Jobs] /\ job'[b] = j
       /\ builds' \in [BuildIds -> BuildRows] /\ builds'[n] = row
       /\ \A m \in BuildIds \ {n} : builds'[m] = builds[m]
  BY <1>4, <1>7, <1>8, <1>9, AtHand
<1>13. Typed'
  BY <1>3, <1>12, AtHand DEF Typed, outside
<1>14. RowOK(n, row)
  <2>1. SoleBuilder => ~shared
    <3> SUFFICES ASSUME SoleBuilder PROVE ~shared
      OBVIOUS
    <3>1. \A c \in Builders : job[c].build # n
      BY <1>4, <1>5 DEF SoleBuilder
    <3> QED BY <1>2, <1>4, <3>1 DEF RowOK
  <2> QED BY <1>4, <1>8, <1>10, <1>11, <2>1 DEF RowOK, Finalized
<1>15. \A m \in BuildIds : RowOK(m, builds[m])'
  BY <1>3, <1>12, <1>14, AtHand DEF RowOK
<1>16. JobsInv'
  <2>1. JobOK(j)
    <3>1. Drawn(j) \subseteq Identities(j.scope) /\ j.print \in Prints
      BY <1>2, <1>3, <1>4, <1>9, <1>10 DEF JobOK
    <3>2. Derived(j) = {} /\ j.failing = {}
      BY <1>5, <1>9, <1>10 DEF Drawn
    <3> QED BY <1>4, <1>9, <3>1, <3>2 DEF JobOK, AtWork
  <2>2. WorksOn(j, row)
    BY <1>4, <1>6, <1>8, <1>9, <1>10 DEF WorksOn
  <2>3. ASSUME NEW c \in Builders \ {b}, job[c].build \in BuildIds
        PROVE  WorksOn(job[c], builds'[job[c].build])
    <3>1. CASE job[c].build # n
      BY <1>12, <2>3, <3>1, AtHand
    <3>2. CASE job[c].build = n
      <4>1. shared /\ WorksOn(job[c], old)
        BY <1>2, <2>3, <3>2, AtHand
      <4> QED BY <1>8, <1>12, <3>2, <4>1 DEF WorksOn
    <3> QED BY <3>1, <3>2
  <2>4. ASSUME NEW c \in Builders, NEW d \in Builders, job'[c].build \in BuildIds,
               job'[c].build = job'[d].build, ~builds'[job'[c].build].shared
        PROVE  c = d
    <3>1. CASE job'[c].build = n
      <4>1. \A e \in Builders : job[e].build # n
        BY <1>2, <1>8, <1>12, <2>4, <3>1
      <4> QED BY <1>12, <2>4, <3>1, <4>1
    <3>2. CASE job'[c].build # n
      <4>1. c # b /\ d # b
        BY <1>9, <1>12, <2>4, <3>2
      <4> QED BY <1>12, <2>4, <3>2, <4>1 DEF Inv, JobsInv
    <3> QED BY <3>1, <3>2
  <2> QED BY <1>12, <2>1, <2>2, <2>3, <2>4, <1>9, AtHand DEF JobsInv
<1>17. \A m \in BuildIds : Fit(builds[m]) => Fit(builds'[m])
  BY <1>8, <1>2, <1>11, <1>12 DEF Fit
<1>18. CommandsInv'
  BY <1>3, <1>17 DEF Inv, CommandsInv
<1>19. /\ \A m \in BuildIds : /\ builds'[m].state = builds[m].state
                             /\ builds'[m].scope = builds[m].scope
                             /\ builds'[m].print = builds[m].print
       /\ ActiveBuild' = ActiveBuild /\ (ActiveBuild # NoBuild => ActiveBuild \in BuildIds)
       /\ \A i \in DOMAIN activations : activations[i] \in BuildIds
  <2>1. \A i \in DOMAIN activations : activations[i] \in BuildIds
    BY AtHand
  <2>2. ActiveBuild' = ActiveBuild /\ (ActiveBuild # NoBuild => ActiveBuild \in BuildIds)
    BY <1>3, AtHand DEF ActiveBuild
  <2> QED BY <1>2, <1>8, <1>12, <2>1, <2>2
<1>20. HistoryInv'
  <2>1. ActiveStateIsPointer => ActiveStateIsPointer'
    BY <1>19 DEF ActiveStateIsPointer
  <2> QED BY <1>3, <1>17, <1>19, <2>1 DEF Inv, HistoryInv
<1>21. FactsInv'
  <2> SUFFICES ASSUME ~RegistryFails PROVE FactsInv'
    BY DEF FactsInv
  <2>1. \A m \in BuildIds : RowFits(builds[m])'
    <3>1. \A m \in BuildIds : RowFits(builds[m])
      BY DEF Inv, FactsInv
    <3>2. RowFits(row)
      BY <1>2, <1>4, <1>8, <1>10, <1>11, <3>1 DEF RowFits, Finalized
    <3>4. RowFits(builds[n])'
      BY <1>3, <1>12, <3>2 DEF RowFits, Fits, outside
    <3>3. \A m \in BuildIds \ {n} : RowFits(builds[m])'
      BY <1>3, <1>12, <3>1 DEF RowFits, Fits, outside
    <3> QED BY <3>3, <3>4
  <2>2. JobFits(j) /\ \A c \in Builders : JobFits(job[c])
    BY <1>3, <1>9, <1>10, AtHand DEF JobFits
  <2>3. \A c \in Builders : JobFits(job[c])'
    BY <1>3, <1>12, <2>2 DEF JobFits, Fits, outside
  <2>4. ASSUME NEW c \in Builders, job'[c].build \in BuildIds
        PROVE  Passed(job'[c], builds'[job'[c].build])
    <3>1. CASE c = b
      BY <1>9, <1>12, <3>1 DEF Passed
    <3>2. CASE c # b /\ job[c].build # n
      BY <1>12, <2>4, <3>2 DEF Inv, FactsInv
    <3>3. CASE c # b /\ job[c].build = n
      <4>1. row.shared
        BY <1>2, <1>8, <3>3
      <4> QED BY <1>12, <3>3, <4>1 DEF Passed
    <3> QED BY <3>1, <3>2, <3>3
  <2>5. \A r \in Readers : Asked(query[r])'
    BY <1>3, <1>19 DEF Inv, FactsInv, Asked
  <2> QED BY <2>1, <2>3, <2>4, <2>5 DEF FactsInv
<1> QED BY <1>13, <1>15, <1>16, <1>18, <1>20, <1>21 DEF Inv

\* A command begins a build.
LEMMA InsertStep == ASSUME Inv, NEW b \in Builders, InsertBuild(b) PROVE Inv'
<1>1. PICK n, row, pending, j :
         /\ n = begun + 1 /\ row = NewBuild(job[b].scope, job[b].print)
         /\ pending = Identities(job[b].scope)
         /\ j = [job[b] EXCEPT !.pc = "derive", !.build = n, !.pending = pending]
  OBVIOUS
<1>2. /\ job[b].pc = "insert" /\ begun < MaxBuilds /\ begun' = n
      /\ builds' = [builds EXCEPT ![n] = row] /\ job' = [job EXCEPT ![b] = j]
      /\ UNCHANGED <<outside, faults, activations, command, query>>
  BY <1>1, AtHand DEF InsertBuild, At
<1>3. /\ n \in BuildIds /\ n > begun /\ n \in 0 .. MaxBuilds /\ begun \in Nat
      /\ builds[n].state = "none"
  BY <1>1, <1>2, AtHand, BuildNumbers DEF BuildIds, RowOK
<1>4. job[b] \in Jobs /\ JobOK(job[b]) /\ Drawn(job[b]) = {} /\ job[b].print \in Prints
  BY <1>2, AtHand DEF JobOK, AtWork
<1>5. pending \in SUBSET Plots
  BY <1>1, <1>4, FiniteParts DEF Jobs
<1>6. /\ row.state = "building" /\ row.scope = job[b].scope /\ row.print = job[b].print
      /\ row.records = NoPlots /\ row.count = 0 /\ row.issues = {} /\ row.shared = FALSE
      /\ row \in BuildRows
  BY <1>1, <1>4, IdleParts, PrintTypes DEF NewBuild, BuildRows, States, Jobs
<1>7. Done(row) = {}
  BY <1>6 DEF Done, NoPlots
<1>8. /\ j \in Jobs /\ j.pc = "derive" /\ j.build = n /\ j.print = job[b].print
      /\ j.scope = job[b].scope /\ j.resolver = job[b].resolver /\ j.pending = pending
      /\ j.failing = job[b].failing /\ j.derived = job[b].derived
  BY <1>1, <1>3, <1>4, <1>5 DEF Jobs, Phases
<1>9. Derived(j) = {} /\ Drawn(j) = pending
  BY <1>4, <1>8 DEF Derived, Drawn
<1>10. /\ \A c \in Builders \ {b} : job'[c] = job[c] /\ job[c].build # n
       /\ job' \in [Builders -> Jobs] /\ job'[b] = j
       /\ builds' \in [BuildIds -> BuildRows] /\ builds'[n] = row
       /\ \A m \in BuildIds \ {n} : builds'[m] = builds[m]
  <2>1. \A c \in Builders : job[c].build # n
    BY <1>3, AtHand DEF WorksOn
  <2> QED BY <1>2, <1>3, <1>6, <1>8, <2>1, AtHand
<1>11. Typed'
  BY <1>2, <1>3, <1>10, AtHand DEF Typed, outside
<1>12. \A m \in BuildIds : RowOK(m, builds[m])'
  <2>1. RowOK(n, builds[n])'
    BY <1>2, <1>3, <1>4, <1>6, <1>7, <1>10 DEF RowOK, Finalized
  <2>2. ASSUME NEW m \in BuildIds \ {n} PROVE RowOK(m, builds[m])'
    <3>1. m > begun <=> m > n
      BY <1>1, <1>3, BuildNumbers
    <3>2. RowOK(m, builds[m])
      BY AtHand
    <3> QED BY <1>2, <1>10, <3>1, <3>2 DEF RowOK
  <2> QED BY <2>1, <2>2
<1>13. JobsInv'
  <2>1. JobOK(j)
    BY <1>1, <1>3, <1>4, <1>8, <1>9 DEF JobOK, AtWork, Drawn
  <2>2. WorksOn(j, row)
    BY <1>6, <1>7, <1>8 DEF WorksOn
  <2>3. \A c \in Builders : job'[c].build \in BuildIds => WorksOn(job'[c], builds'[job'[c].build])
    BY <1>8, <1>10, <2>2, AtHand
  <2>4. ASSUME NEW c \in Builders, NEW d \in Builders, job'[c].build \in BuildIds,
               job'[c].build = job'[d].build, ~builds'[job'[c].build].shared
        PROVE  c = d
    <3>1. CASE job'[c].build = n
      BY <1>10, <2>4, <3>1
    <3>2. CASE job'[c].build # n
      <4>1. c # b /\ d # b
        BY <1>8, <1>10, <2>4, <3>2
      <4> QED BY <1>10, <2>4, <3>2, <4>1 DEF Inv, JobsInv
    <3> QED BY <3>1, <3>2
  <2> QED BY <1>10, <2>1, <2>3, <2>4, AtHand DEF JobsInv
<1>14. \A m \in BuildIds : Fit(builds[m]) => m # n /\ Fit(builds'[m])
  BY <1>3, <1>10 DEF Fit
<1>15. CommandsInv'
  BY <1>2, <1>14 DEF Inv, CommandsInv
<1>16. /\ \A i \in DOMAIN activations : activations[i] \in BuildIds \ {n}
       /\ ActiveBuild' = ActiveBuild /\ (ActiveBuild # NoBuild => ActiveBuild \in BuildIds \ {n})
  <2>1. \A i \in DOMAIN activations : activations[i] \in BuildIds \ {n}
    BY <1>14, AtHand DEF Inv, HistoryInv
  <2> QED BY <1>2, <2>1, AtHand DEF ActiveBuild
<1>17. HistoryInv'
  <2>1. \A m \in BuildIds : builds'[m].state = "active" <=> builds[m].state = "active"
    BY <1>3, <1>6, <1>10
  <2>2. ActiveStateIsPointer => ActiveStateIsPointer'
    BY <1>10, <1>16, <2>1 DEF ActiveStateIsPointer
  <2> QED BY <1>2, <1>14, <1>16, <2>2 DEF Inv, HistoryInv
<1>18. FactsInv'
  <2> SUFFICES ASSUME ~RegistryFails PROVE FactsInv'
    BY DEF FactsInv
  <2>1. RowFits(builds[n])' /\ \A m \in BuildIds \ {n} : RowFits(builds[m])'
    BY <1>2, <1>6, <1>7, <1>10 DEF Inv, FactsInv, RowFits, Fits, Finalized, outside
  <2>2. JobFits(j) /\ \A c \in Builders : JobFits(job[c])
    BY <1>2, <1>8, <1>9, AtHand DEF JobFits
  <2>3. \A c \in Builders : JobFits(job[c])'
    BY <1>2, <1>10, <2>2 DEF JobFits, Fits, outside
  <2>4. \A c \in Builders : job'[c].build \in BuildIds => Passed(job'[c], builds'[job'[c].build])
    BY <1>8, <1>10 DEF Inv, FactsInv, Passed
  <2>5. \A r \in Readers : Asked(query[r])'
    BY <1>2, <1>10, <1>16 DEF Inv, FactsInv, Asked
  <2> QED BY <2>1, <2>3, <2>4, <2>5 DEF FactsInv
<1> QED BY <1>11, <1>12, <1>13, <1>15, <1>17, <1>18 DEF Inv

-------------------------------------------------------------------------------
(* Steps of the others. *)

LEMMA SourcesMove ==
    ASSUME Inv, NEW s \in Prints, s.revision >= sources.revision, sources' = s,
           switches' \in 0 .. MaxSwitches, UNCHANGED <<faults, store, job, command, query>>
    PROVE  Inv'
<1>1. Typed'
  BY AtHand DEF Typed, store
<1>2. \A n \in BuildIds : RowOK(n, builds[n])'
  BY DEF Inv, RowOK, store
<1>3. JobsInv' /\ CommandsInv' /\ HistoryInv'
  BY DEF Inv, JobsInv, CommandsInv, HistoryInv, ActiveStateIsPointer, ActiveBuild, store
<1>4. FactsInv'
  <2> SUFFICES ASSUME ~RegistryFails PROVE FactsInv'
    BY DEF FactsInv
  <2>1. sources.revision \in Int /\ s.revision \in Int
    BY AtHand, IntelligenceBounds, PrintTypes
  <2>2. /\ \A n \in BuildIds : builds[n].print.revision \in Int
        /\ \A b \in Builders : job[b].print.revision \in Int
    BY AtHand, PrintTypes DEF BuildRows, Jobs
  <2>3. \A f, q : q.revision \in Int /\ Fits(f, q) => Fits(f, q)'
    BY <2>1 DEF Fits
  <2>4. \A n \in BuildIds : RowFits(builds[n])'
    BY <2>2, <2>3 DEF Inv, FactsInv, RowFits, Done, store
  <2>5. \A b \in Builders : JobFits(job[b])'
    BY <2>1, <2>2, <2>3 DEF Inv, FactsInv, JobFits, Derived
  <2>6. \A b \in Builders : job'[b].build \in BuildIds => Passed(job'[b], builds'[job'[b].build])
    BY DEF Inv, FactsInv, store
  <2>7. \A r \in Readers : Asked(query[r])'
    BY DEF Inv, FactsInv, Asked, ActiveBuild, store
  <2> QED BY <2>4, <2>5, <2>6, <2>7 DEF FactsInv
<1> QED BY <1>1, <1>2, <1>3, <1>4 DEF Inv

LEMMA EnvironmentStep == ASSUME Inv, Environment PROVE Inv'
<1>1. CASE SwitchSource
  <2>1. PICK s \in [parcel : ParcelIds, planning : PlanningIds, revision : {sources.revision}] :
          sources' = s
    BY <1>1 DEF SwitchSource
  <2>2. s \in Prints /\ s.revision >= sources.revision
    BY AtHand, IntelligenceBounds DEF Prints
  <2>3. switches' \in 0 .. MaxSwitches
    BY <1>1, AtHand, IntelligenceBounds DEF SwitchSource
  <2> QED BY <1>1, <2>1, <2>2, <2>3, SourcesMove DEF SwitchSource
<1>2. CASE ReviewAuthority
  <2>1. PICK s : s = [sources EXCEPT !.revision = @ + 1]
    OBVIOUS
  <2>2. s \in Prints /\ s.revision >= sources.revision
    BY <1>2, <2>1, AtHand, IntelligenceBounds DEF Prints, ReviewAuthority
  <2> QED BY <1>2, <2>1, <2>2, AtHand, SourcesMove DEF ReviewAuthority
<1> QED BY <1>1, <1>2 DEF Environment

\* An operator's command or a reader moves on, and the tables stay.
LEMMA AskMoves ==
    ASSUME Inv, UNCHANGED <<outside, store, job>>, faults' \in 0 .. MaxFaults,
           command' \in [Operators -> Commands], query' \in [Readers -> Queries], CommandsInv',
           ~RegistryFails => \A r \in Readers : query'[r] = query[r] \/ Asked(query'[r])
    PROVE  Inv'
<1>1. Typed'
  BY AtHand DEF Typed, outside, store
<1>2. \A n \in BuildIds : RowOK(n, builds[n])'
  BY DEF Inv, RowOK, store
<1>3. JobsInv' /\ HistoryInv'
  BY DEF Inv, JobsInv, HistoryInv, ActiveStateIsPointer, ActiveBuild, store
<1>4. FactsInv'
  <2> SUFFICES ASSUME ~RegistryFails PROVE FactsInv'
    BY DEF FactsInv
  <2>1. \A n \in BuildIds : RowFits(builds[n])'
    BY DEF Inv, FactsInv, RowFits, Fits, store, outside
  <2>2. \A b \in Builders : JobFits(job[b])'
    BY DEF Inv, FactsInv, JobFits, Fits, outside
  <2>3. \A b \in Builders : job'[b].build \in BuildIds => Passed(job'[b], builds'[job'[b].build])
    BY DEF Inv, FactsInv, store
  <2>4. \A r \in Readers : Asked(query[r])'
    BY DEF Inv, FactsInv, Asked, ActiveBuild, store
  <2> QED BY <2>1, <2>2, <2>3, <2>4 DEF FactsInv
<1> QED BY <1>1, <1>2, <1>3, <1>4 DEF Inv

LEMMA ChooseStep == ASSUME Inv, NEW p \in Operators, ChooseBuild(p) PROVE Inv'
<1>1. PICK n \in BuildIds, cost \in Costs :
         Pay(cost) /\ command' = [command EXCEPT ![p] = [pc |-> "check", build |-> n]]
  BY DEF ChooseBuild
<1>2. UNCHANGED <<outside, store, job, query>> /\ faults' \in 0 .. MaxFaults
  BY <1>1, AtHand, IntelligenceBounds DEF ChooseBuild, Pay, Costs
<1>3. PICK c : c = [pc |-> "check", build |-> n]
  OBVIOUS
<1>4. c \in Commands /\ c.pc = "check" /\ c.build = n
  BY <1>3 DEF Commands
<1>5. command' \in [Operators -> Commands]
  BY <1>1, <1>3, <1>4, AtHand
<1>6. CommandsInv'
  BY <1>1, <1>2, <1>3, <1>4, AtHand DEF Inv, CommandsInv, store
<1> QED BY <1>2, <1>5, <1>6, AtHand, AskMoves

LEMMA CheckStep == ASSUME Inv, NEW p \in Operators, CheckBuild(p) PROVE Inv'
<1>1. PICK n, c :
         /\ n = command[p].build
         /\ c = IF builds[n].state \in Finalized /\ builds[n].scope = "full" /\ Verified(n)
                THEN [command[p] EXCEPT !.pc = "activate"] ELSE IdleCommand
  OBVIOUS
<1>2. /\ command[p].pc = "check" /\ command' = [command EXCEPT ![p] = c]
      /\ UNCHANGED <<outside, faults, store, job, query>>
  BY <1>1, AtHand DEF CheckBuild
<1>3. n \in BuildIds
  BY <1>1, <1>2 DEF Inv, CommandsInv
<1>4. c \in Commands
  BY <1>1, AtHand, IdleParts DEF Commands
<1>5. \/ c.pc = "idle"
      \/ c.pc = "activate" /\ c.build = n /\ Fit(builds[n])
  BY <1>1, AtHand, IdleParts DEF Commands, Fit, Finalized
<1>6. command' \in [Operators -> Commands]
  BY <1>2, <1>4, AtHand
<1>7. CommandsInv'
  BY <1>2, <1>3, <1>5, AtHand DEF Inv, CommandsInv, store
<1> QED BY <1>2, <1>6, <1>7, AtHand, AskMoves

LEMMA ReaderStep == ASSUME Inv, NEW r \in Readers, ReaderSteps(r) PROVE Inv'
<1>1. PICK q \in Queries : /\ query' = [query EXCEPT ![r] = q]
                           /\ ~RegistryFails => Asked(q)
                           /\ faults' \in 0 .. MaxFaults
  <2>1. CASE CheckCurrent(r)
    <3>1. PICK cost \in Costs :
            /\ Matches(ActiveBuild, SourcesRead(cost)) /\ Pay(cost)
            /\ query' = [query EXCEPT ![r] = [pc |-> "answer", seen |-> SourcesRead(cost),
                                              age |-> Len(activations)]]
      BY <2>1 DEF CheckCurrent
    <3>2. PICK read, q : /\ read = SourcesRead(cost)
                         /\ q = [pc |-> "answer", seen |-> read, age |-> Len(activations)]
      OBVIOUS
    <3>3. read \in AnyPrint /\ Len(activations) \in Nat
      BY <3>2, AtHand, IntelligenceBounds DEF SourcesRead, RevisionRead, AnyPrint, Prints
    <3>4. q \in Queries /\ q.seen = read /\ q.age = Len(activations)
      BY <3>2, <3>3 DEF Queries
    <3>5. Asked(q)
      BY <2>1, <3>1, <3>2, <3>3, <3>4 DEF Asked, Matches, CheckCurrent
    <3>6. faults' \in 0 .. MaxFaults
      BY <3>1, AtHand, IntelligenceBounds DEF Pay, Costs
    <3> QED BY <3>1, <3>2, <3>4, <3>5, <3>6
  <2>2. CASE Answer(r)
    BY <2>2, AtHand, IdleParts DEF Answer, Asked
  <2> QED BY <2>1, <2>2 DEF ReaderSteps
<1>2. UNCHANGED <<outside, store, job, command>>
  BY DEF ReaderSteps, CheckCurrent, Answer
<1>3. CommandsInv'
  BY <1>2 DEF Inv, CommandsInv, store
<1>4. query' \in [Readers -> Queries] /\ command' \in [Operators -> Commands]
  BY <1>1, <1>2, AtHand
<1>5. ~RegistryFails => \A t \in Readers : query'[t] = query[t] \/ Asked(query'[t])
  BY <1>1, AtHand
<1> QED BY <1>1, <1>2, <1>3, <1>4, <1>5, AskMoves

\* An operator's command moves the pointer.
\* What an activation does to the rows and to the pointer.
LEMMA ActivateEffect ==
    ASSUME Inv, NEW p \in Operators, ActivateBuild(p), NEW n, n = command[p].build
    PROVE  /\ n \in BuildIds /\ Fit(builds[n])
           /\ \A m \in BuildIds :
                 /\ builds'[m] \in BuildRows
                 /\ builds'[m].scope = builds[m].scope /\ builds'[m].print = builds[m].print
                 /\ builds'[m].records = builds[m].records /\ builds'[m].count = builds[m].count
                 /\ builds'[m].issues = builds[m].issues /\ builds'[m].shared = builds[m].shared
                 /\ builds'[m].state = IF m = n THEN "active"
                                       ELSE IF builds[m].state = "active" THEN "retired"
                                       ELSE builds[m].state
           /\ activations' \in Seq(BuildIds) /\ Len(activations') = Len(activations) + 1
           /\ Len(activations) \in Nat /\ activations'[Len(activations')] = n
           /\ \A i \in DOMAIN activations' :
                 activations'[i] = n \/ (i \in DOMAIN activations /\ activations'[i] = activations[i])
           /\ ActiveBuild' = n
<1>1. /\ command[p].pc = "activate" /\ builds' = Activated(builds, n)
      /\ activations' = Append(activations, n)
  BY DEF ActivateBuild
<1>2. n \in BuildIds /\ Fit(builds[n])
  BY <1>1 DEF Inv, CommandsInv
<1>3. ASSUME NEW m \in BuildIds
      PROVE  /\ builds'[m] \in BuildRows
             /\ builds'[m].scope = builds[m].scope /\ builds'[m].print = builds[m].print
             /\ builds'[m].records = builds[m].records /\ builds'[m].count = builds[m].count
             /\ builds'[m].issues = builds[m].issues /\ builds'[m].shared = builds[m].shared
             /\ builds'[m].state = IF m = n THEN "active"
                                   ELSE IF builds[m].state = "active" THEN "retired"
                                   ELSE builds[m].state
  <2>1. builds[m] \in BuildRows
    BY AtHand
  <2>2. builds'[m] = IF m = n THEN [builds[m] EXCEPT !.state = "active"]
                     ELSE IF builds[m].state = "active" THEN [builds[m] EXCEPT !.state = "retired"]
                     ELSE builds[m]
    BY <1>1 DEF Activated
  <2> QED BY <2>1, <2>2 DEF BuildRows, States
<1>4. /\ activations' \in Seq(BuildIds) /\ Len(activations') = Len(activations) + 1
      /\ Len(activations) \in Nat /\ activations'[Len(activations')] = n
      /\ \A i \in DOMAIN activations' :
            activations'[i] = n \/ (i \in DOMAIN activations /\ activations'[i] = activations[i])
  <2>1. PICK t : t = Append(activations, n)
    OBVIOUS
  <2>2. /\ t \in Seq(BuildIds) /\ Len(t) = Len(activations) + 1
        /\ t[Len(activations) + 1] = n
        /\ \A i \in 1 .. Len(activations) : t[i] = activations[i]
    BY <1>2, <2>1, AtHand, AppendProperties
  <2>3. DOMAIN t = 1 .. Len(t) /\ DOMAIN activations = 1 .. Len(activations)
        /\ Len(activations) \in Nat
    BY <2>2, AtHand
  <2> QED BY <1>1, <2>1, <2>2, <2>3
<1>5. ActiveBuild' = n
  <2>1. activations' # <<>>
    BY <1>4
  <2> QED BY <1>4, <2>1 DEF ActiveBuild
<1> QED BY <1>2, <1>3, <1>4, <1>5

LEMMA ActivateStep == ASSUME Inv, NEW p \in Operators, ActivateBuild(p) PROVE Inv'
<1>1. PICK n : n = command[p].build
  OBVIOUS
<1>2. /\ command[p].pc = "activate" /\ builds' = Activated(builds, n)
      /\ activations' = Append(activations, n)
      /\ command' = [command EXCEPT ![p] = IdleCommand]
      /\ UNCHANGED <<outside, faults, begun, job, query>>
  BY <1>1 DEF ActivateBuild
<1>3. n \in BuildIds /\ Fit(builds[n])
  BY <1>1, ActivateEffect
<1>4. ASSUME NEW m \in BuildIds
      PROVE  /\ builds'[m] \in BuildRows
             /\ builds'[m].scope = builds[m].scope /\ builds'[m].print = builds[m].print
             /\ builds'[m].records = builds[m].records /\ builds'[m].count = builds[m].count
             /\ builds'[m].issues = builds[m].issues /\ builds'[m].shared = builds[m].shared
             /\ builds'[m].state = IF m = n THEN "active"
                                   ELSE IF builds[m].state = "active" THEN "retired"
                                   ELSE builds[m].state
  BY <1>1, ActivateEffect
<1>5. /\ builds' \in [BuildIds -> BuildRows]
      /\ \A m \in BuildIds : Done(builds'[m]) = Done(builds[m])
  BY <1>2, <1>4 DEF Activated, Done
<1>6. /\ activations' \in Seq(BuildIds) /\ Len(activations') = Len(activations) + 1
      /\ Len(activations) \in Nat /\ activations'[Len(activations')] = n
      /\ \A i \in DOMAIN activations' :
            activations'[i] = n \/ (i \in DOMAIN activations /\ activations'[i] = activations[i])
  BY <1>1, ActivateEffect
<1>7. ActiveBuild' = n
  BY <1>1, ActivateEffect
<1>8. Typed'
  BY <1>2, <1>5, <1>6, AtHand, IdleParts DEF Typed, outside
<1>9. ASSUME NEW m \in BuildIds
      PROVE  /\ builds'[m].state \in Finalized /\ ~builds[m].shared => builds[m].state \in Finalized
             /\ builds'[m].state = "building" => builds[m].state = "building"
             /\ builds'[m].state = "none" <=> builds[m].state = "none"
             /\ ~builds[m].shared /\ builds[m].state = "building" => builds'[m].state = "building"
             /\ builds[m].state \in Finalized => builds'[m].state \in Finalized
  BY <1>3, <1>4 DEF Fit, Finalized
<1>10. \A m \in BuildIds : RowOK(m, builds[m])'
  BY <1>2, <1>4, <1>5, <1>9, AtHand DEF RowOK, Whole
<1>11. JobsInv'
  <2>1. \A b \in Builders : job[b].build \in BuildIds => WorksOn(job[b], builds'[job[b].build])
    BY <1>4, <1>5, <1>9, AtHand DEF WorksOn
  <2> QED BY <1>2, <1>4, <2>1 DEF Inv, JobsInv
<1>12. \A m \in BuildIds : Fit(builds[m]) => Fit(builds'[m])
  BY <1>4, <1>9 DEF Fit
<1>13. CommandsInv'
  BY <1>2, <1>12, AtHand, IdleParts DEF Inv, CommandsInv
<1>14. HistoryInv'
  <2>1. \A i \in DOMAIN activations' : Fit(builds'[activations'[i]])
    BY <1>3, <1>6, <1>12, AtHand DEF Inv, HistoryInv
  <2>2. {m \in BuildIds : builds'[m].state = "active"} = {n}
    BY <1>3, <1>4
  <2>3. n # NoBuild
    BY <1>3, BuildNumbers
  <2>4. ActiveStateIsPointer'
    BY <1>3, <1>4, <1>7, <2>2, <2>3 DEF ActiveStateIsPointer, Fit
  <2> QED BY <2>1, <2>4 DEF HistoryInv
<1>15. FactsInv'
  <2> SUFFICES ASSUME ~RegistryFails PROVE FactsInv'
    BY DEF FactsInv
  <2>1. \A m \in BuildIds : RowFits(builds[m])'
    BY <1>2, <1>4, <1>5, <1>9 DEF Inv, FactsInv, RowFits, Fits, outside
  <2>2. \A b \in Builders : JobFits(job[b])'
    BY <1>2 DEF Inv, FactsInv, JobFits, Fits, outside
  <2>3. ASSUME NEW b \in Builders, job'[b].build \in BuildIds
        PROVE  Passed(job'[b], builds'[job'[b].build])
    <3>1. PICK m \in BuildIds : m = job[b].build /\ job'[b] = job[b]
      BY <1>2, <2>3
    <3>2. Passed(job[b], builds[m])
      BY <3>1 DEF Inv, FactsInv
    <3> QED BY <1>4, <1>5, <3>1, <3>2 DEF Passed
  <2>4. ASSUME NEW r \in Readers PROVE Asked(query[r])'
    <3>1. query[r].age \in Nat /\ Asked(query[r])
      BY AtHand DEF Inv, FactsInv, Queries
    <3> QED BY <1>2, <1>3, <1>6, <1>7, <3>1, BuildNumbers DEF Asked
  <2> QED BY <2>1, <2>2, <2>3, <2>4 DEF FactsInv
<1> QED BY <1>8, <1>10, <1>11, <1>13, <1>14, <1>15 DEF Inv

-------------------------------------------------------------------------------
LEMMA WorkersStep == ASSUME Inv, NEW b \in Builders, NEW k \in Plots, WorkerStep(b, k) PROVE Inv'
BY DeriveStep, DeriveFailsStep, DeriveRefusedStep, UpsertStep, UpsertFailsStep, RecordIssueStep
   DEF WorkerStep

LEMMA BuildStepsStep == ASSUME Inv, NEW b \in Builders, BuildSteps(b) PROVE Inv'
<1>1. CASE FindNothing(b) \/ ResumeBuild(b) \/ InsertBuild(b)
  BY <1>1, FindNothingStep, ResumeStep, InsertStep
<1>2. CASE \E k \in Plots : WorkerStep(b, k)
  BY <1>2, WorkersStep
<1>3. CASE EndCancelled(b) \/ CheckRevision(b) \/ FailBuild(b)
  BY <1>3, EndCancelledStep, CheckRevisionStep, FailStep
<1>4. CASE VerifyBuild(b) \/ ReverifyBuild(b) \/ FinalizeBuild(b)
  BY <1>4, VerifyStep, ReverifyStep, FinalizeStep
<1> QED BY <1>1, <1>2, <1>3, <1>4 DEF BuildSteps

LEMMA StutterStep == ASSUME Inv, UNCHANGED vars PROVE Inv'
<1>1. UNCHANGED <<outside, store, job, command, query, faults>>
  BY DEF vars
<1>2. CommandsInv'
  BY <1>1 DEF Inv, CommandsInv, store
<1> QED BY <1>1, <1>2, AtHand, AskMoves

LEMMA InvStep == Inv /\ [Next]_vars => Inv'
<1> SUFFICES ASSUME Inv, [Next]_vars PROVE Inv'
  OBVIOUS
<1>1. CASE Environment
  BY <1>1, EnvironmentStep
<1>2. CASE \E b \in Builders : StartBuild(b) \/ BuildSteps(b) \/ CrashBuild(b)
  BY <1>2, StartStep, BuildStepsStep, CrashStep
<1>3. CASE \E p \in Operators : OperatorSteps(p)
  BY <1>3, ChooseStep, CheckStep, ActivateStep DEF OperatorSteps
<1>4. CASE \E r \in Readers : ReaderSteps(r)
  BY <1>4, ReaderStep
<1>5. CASE UNCHANGED vars
  BY <1>5, StutterStep
<1> QED BY <1>1, <1>2, <1>3, <1>4, <1>5 DEF Next

LEMMA InvHolds == Spec => []Inv
BY InvInit, InvStep, PTL DEF Spec

-------------------------------------------------------------------------------
(* Theorems. *)

\* Every fact of a published build that one command at a time worked on was
\* derived from the sources its fingerprint names, for any number of builds,
\* of commands and of events of a registry that can be read: the revision is
\* compared once, when the last plot is done, and no plot is derived after.
THEOREM FactsAreOfTheFingerprint ==
    ASSUME ~RegistryFails PROVE Spec => []FactsMatchFingerprint
<1>1. Inv => FactsMatchFingerprint
  <2> SUFFICES ASSUME Inv, NEW n \in BuildIds, builds[n].state \in Finalized,
                      ~builds[n].shared, NEW k \in Completed(n)
               PROVE  builds[n].records[k] = builds[n].print
    BY DEF FactsMatchFingerprint
  <2>1. RowFits(builds[n]) /\ k \in Done(builds[n])
    BY DEF Inv, FactsInv, Completed, Done
  <2> QED BY <2>1 DEF RowFits
<1> QED BY <1>1, InvHolds, PTL

\* A published build has a record of every identity of its scope, and counts
\* them right, as long as builds are not run side by side: the numbers that
\* verify compares are then the numbers of the sets.
THEOREM PublishedBuildsAreComplete ==
    ASSUME SoleBuilder PROVE Spec => []PublishedIsComplete
<1>1. Inv => PublishedIsComplete
  <2> SUFFICES ASSUME Inv, NEW n \in BuildIds, builds[n].state \in Finalized
               PROVE  /\ Completed(n) = Identities(builds[n].scope)
                      /\ builds[n].count = Cardinality(Completed(n))
    BY DEF PublishedIsComplete
  <2>1. RowOK(n, builds[n]) /\ Completed(n) = Done(builds[n])
    BY DEF Inv, Completed, Done
  <2> QED BY <2>1 DEF RowOK, Whole
<1> QED BY <1>1, InvHolds, PTL

\* The rows of intelligence builds are well formed, no issue outlives the
\* facts of its plot, and the build in state 'active' is a full one and the
\* one of the open activation, as long as builds are not run side by side.
THEOREM IntelligenceIsConsistent ==
    ASSUME SoleBuilder PROVE Spec => []BuildsAreConsistent
<1>1. Inv => BuildsAreConsistent
  <2> SUFFICES ASSUME Inv PROVE BuildsAreConsistent
    OBVIOUS
  <2>1. TypeOK
    BY AtHand DEF TypeOK, BuildRows, Jobs, Commands, Queries
  <2>2. IssuesArePending
    BY DEF Inv, RowOK, IssuesArePending, Completed, Done
  <2>3. ActiveStateIsPointer
    BY DEF Inv, HistoryInv
  <2> QED BY <2>1, <2>2, <2>3 DEF BuildsAreConsistent
<1> QED BY <1>1, InvHolds, PTL

\* An answer holds facts of the sources that its reader compared the active
\* build with, unless another build was activated before it was read, or two
\* commands had worked on the build at the same time.
THEOREM AnswersAreOfTheSources ==
    ASSUME ~RegistryFails PROVE Spec => AnswersAreCurrent
<1>1. Inv /\ [Next]_vars => [\A r \in Readers : Answer(r) =>
          \/ builds[ActiveBuild].shared
          \/ Len(activations) > query[r].age
          \/ \A k \in Plots : builds[ActiveBuild].records[k] = query[r].seen]_vars
  <2> SUFFICES ASSUME Inv, NEW r \in Readers, Answer(r), ~builds[ActiveBuild].shared,
                      ~(Len(activations) > query[r].age), NEW k \in Plots
               PROVE  builds[ActiveBuild].records[k] = query[r].seen
    OBVIOUS
  <2>1. /\ ActiveBuild # NoBuild /\ query[r].age <= Len(activations)
        /\ query[r].age = Len(activations) => builds[ActiveBuild].print = query[r].seen
    BY DEF Inv, FactsInv, Asked, Answer
  <2>2. query[r].age \in Nat /\ Len(activations) \in Nat
    BY AtHand DEF Queries
  <2>3. builds[ActiveBuild].print = query[r].seen
    BY <2>1, <2>2
  <2>4. ActiveBuild \in BuildIds /\ Fit(builds[ActiveBuild])
    <3>1. activations # <<>> /\ ActiveBuild = activations[Len(activations)]
      BY <2>1 DEF ActiveBuild
    <3>2. Len(activations) \in DOMAIN activations
      BY <2>2, <3>1, AtHand, EmptySeq
    <3> QED BY <3>1, <3>2, AtHand DEF Inv, HistoryInv
  <2>5. /\ RowOK(ActiveBuild, builds[ActiveBuild]) /\ RowFits(builds[ActiveBuild])
        /\ builds[ActiveBuild].state \in Finalized
    BY <2>4, AtHand DEF Fit
  <2>6. k \in Done(builds[ActiveBuild])
    BY <2>4, <2>5 DEF Fit, RowOK, Whole, Identities
  <2> QED BY <2>3, <2>5, <2>6 DEF RowFits
<1> QED BY <1>1, InvHolds, PTL DEF Spec, AnswersAreCurrent

-------------------------------------------------------------------------------
(* The promise of PublishedSnapshots, with one build command at a time. *)

\* What readers may see of a build.
Shown(row) == IF row.state \in Finalized /\ ~row.shared THEN {row.records} ELSE {}
NothingShown == \A n \in BuildIds : Shown(builds[n])' = Shown(builds[n])

\* The build that the only command works on is open, and its own.
LEMMA WorkedOn ==
    ASSUME SoleBuilder, Inv, NEW b \in Builders, job[b].pc \in AtWork, NEW n, n = job[b].build
    PROVE  /\ n \in BuildIds /\ builds[n] \in BuildRows /\ RowOK(n, builds[n])
           /\ WorksOn(job[b], builds[n])
           /\ builds[n].state = "building" /\ ~builds[n].shared
<1>1. n \in BuildIds /\ builds[n] \in BuildRows /\ RowOK(n, builds[n])
  BY AtHand DEF JobOK
<1>2. WorksOn(job[b], builds[n])
  BY <1>1 DEF Inv, JobsInv
<1> QED BY <1>1, <1>2 DEF RowOK, WorksOn

\* A change of a row that is hidden before and after shows nothing.
LEMMA HiddenMoves ==
    ASSUME Inv, NEW n \in BuildIds, NEW row, builds' = [builds EXCEPT ![n] = row],
           builds[n].state \notin Finalized, row.state \notin Finalized
    PROVE  NothingShown
BY AtHand DEF NothingShown, Shown

\* Until it is finalized, a build shows nothing.
LEMMA BuildingIsHidden ==
    ASSUME SoleBuilder, Inv, NEW b \in Builders, BuildSteps(b), ~FinalizeBuild(b)
    PROVE  NothingShown /\ UNCHANGED activations
<1>1. ASSUME UNCHANGED <<builds, activations>> PROVE NothingShown /\ UNCHANGED activations
  BY <1>1 DEF NothingShown, Shown
<1>2. CASE ResumeBuild(b)
  <2>1. PICK n \in BuildIds :
          /\ builds[n].state = "building" /\ UNCHANGED activations
          /\ builds' = [builds EXCEPT ![n].shared = @ \/ \E c \in Builders : job[c].build = n]
    BY <1>2 DEF ResumeBuild, Resumable
  <2>2. PICK row : row = [builds[n] EXCEPT !.shared = @ \/ \E c \in Builders : job[c].build = n]
    OBVIOUS
  <2>3. builds' = [builds EXCEPT ![n] = row] /\ row.state = "building"
    BY <2>1, <2>2, AtHand DEF BuildRows
  <2> QED BY <2>1, <2>3, HiddenMoves DEF Finalized
<1>3. CASE InsertBuild(b)
  <2>1. PICK n, row : n = begun + 1 /\ row = NewBuild(job[b].scope, job[b].print)
    OBVIOUS
  <2>2. /\ n \in BuildIds /\ builds' = [builds EXCEPT ![n] = row] /\ UNCHANGED activations
        /\ n > begun
    BY <1>3, <2>1, AtHand, BuildNumbers DEF InsertBuild, BuildIds
  <2>3. builds[n].state = "none" /\ row.state = "building"
    BY <2>1, <2>2, AtHand DEF RowOK, NewBuild
  <2> QED BY <2>2, <2>3, HiddenMoves DEF Finalized
<1>4. ASSUME NEW k \in Plots, Upsert(b, k) \/ RecordIssue(b, k)
      PROVE  NothingShown /\ UNCHANGED activations
  <2>1. PICK n, row :
          /\ n = job[b].build
          /\ row = IF Upsert(b, k) THEN Upserted(builds[n], k, job[b].derived[k])
                   ELSE [builds[n] EXCEPT !.issues = @ \cup {k}]
    OBVIOUS
  <2>2. job[b].pc = "derive" /\ UNCHANGED activations
    BY <1>4 DEF Upsert, RecordIssue, At
  <2>3. n \in BuildIds /\ builds[n] \in BuildRows /\ builds[n].state = "building"
    BY <2>1, <2>2, WorkedOn DEF AtWork
  <2>4. builds' = [builds EXCEPT ![n] = row]
    BY <1>4, <2>1 DEF Upsert, RecordIssue
  <2>5. row.state = "building"
    BY <2>1, <2>3 DEF Upserted, BuildRows
  <2> QED BY <2>2, <2>3, <2>4, <2>5, HiddenMoves DEF Finalized
<1>5. CASE FailBuild(b)
  <2>1. PICK n, row : n = job[b].build /\ row = [builds[n] EXCEPT !.state = "failed"]
    OBVIOUS
  <2>2. job[b].pc = "fail" /\ UNCHANGED activations /\ builds' = [builds EXCEPT ![n] = row]
    BY <1>5, <2>1 DEF FailBuild, At
  <2>3. n \in BuildIds /\ builds[n] \in BuildRows /\ builds[n].state = "building"
    BY <2>1, <2>2, WorkedOn DEF AtWork
  <2>4. row.state = "failed"
    BY <2>1, <2>3 DEF BuildRows
  <2> QED BY <2>2, <2>3, <2>4, HiddenMoves DEF Finalized
<1> QED
  BY <1>1, <1>2, <1>3, <1>4, <1>5 DEF BuildSteps, WorkerStep, FindNothing, Derive, DeriveFails,
     DeriveRefused, UpsertFails, EndCancelled, CheckRevision, VerifyBuild, ReverifyBuild, store

\* What a finalized build holds is whole, and derived from one print.
LEMMA FinalizedIsOnePrint ==
    ASSUME SoleBuilder, ~RegistryFails, Inv, NEW b \in Builders, job[b].pc = "commit",
           job[b].verdict = "ready", NEW n, n = job[b].build
    PROVE  \E scope \in {"full", "sample"}, print \in Prints :
              builds[n].records = OnePrint(scope, print)
<1>1. /\ n \in BuildIds /\ builds[n] \in BuildRows /\ RowOK(n, builds[n])
      /\ WorksOn(job[b], builds[n]) /\ builds[n].state = "building" /\ ~builds[n].shared
  BY WorkedOn DEF AtWork
<1>2. Done(builds[n]) = Identities(builds[n].scope) /\ builds[n].print \in Prints
  BY <1>1 DEF WorksOn, RowOK
<1>3. \A k \in Done(builds[n]) : builds[n].records[k] = builds[n].print
  BY <1>1 DEF Inv, FactsInv, Passed
<1>4. builds[n].records \in [Plots -> Prints \cup {NoRecord}] /\ builds[n].scope \in {"full", "sample"}
  BY <1>1 DEF BuildRows
<1>5. \A k \in Plots : builds[n].records[k]
                         = IF k \in Identities(builds[n].scope) THEN builds[n].print ELSE NoRecord
  BY <1>2, <1>3 DEF Done
<1>6. builds[n].records = OnePrint(builds[n].scope, builds[n].print)
  BY <1>4, <1>5 DEF OnePrint
<1> QED BY <1>2, <1>4, <1>6

LEMMA PromiseInit == Init => Promise!Init
<1> SUFFICES ASSUME Init PROVE Promise!Init
  OBVIOUS
<1>1. \A n \in BuildIds : builds[n].state \notin Finalized
  BY DEF Init, NewBuild, Finalized
<1>2. ActiveBuild = NoBuild
  BY DEF Init, ActiveBuild
<1> QED BY <1>1, <1>2 DEF Promise!Init

LEMMA PromiseStep ==
    ASSUME SoleBuilder, ~RegistryFails, Inv, [Next]_vars
    PROVE  Promise!Next \/ UNCHANGED Promise!vars
<1> DEFINE visible == [n \in BuildIds |->
                         IF builds[n].state \in Finalized /\ ~builds[n].shared
                         THEN {builds[n].records} ELSE {}]
<1>1. ASSUME NothingShown PROVE visible' = visible
  BY <1>1 DEF NothingShown, Shown
<1>2. ASSUME NothingShown, UNCHANGED activations PROVE UNCHANGED Promise!vars
  BY <1>1, <1>2 DEF Promise!vars, ActiveBuild
<1>3. ASSUME NEW b \in Builders, FinalizeBuild(b) PROVE Promise!Next \/ UNCHANGED Promise!vars
  <2>1. PICK n, row : /\ n = job[b].build
                      /\ row = [builds[n] EXCEPT !.state = job[b].verdict, !.count = job[b].counted]
    OBVIOUS
  <2>2. /\ job[b].pc = "commit" /\ UNCHANGED activations
        /\ builds' = [builds EXCEPT ![n] = row]
    BY <1>3, <2>1 DEF FinalizeBuild, At
  <2>3. /\ n \in BuildIds /\ builds[n] \in BuildRows
        /\ builds[n].state = "building" /\ ~builds[n].shared
    BY <2>1, <2>2, WorkedOn DEF AtWork
  <2>4. row.state = job[b].verdict /\ row.records = builds[n].records /\ ~row.shared
    BY <2>1, <2>3 DEF BuildRows
  <2>5. CASE job[b].verdict = "ready"
    <3>1. PICK scope \in {"full", "sample"}, print \in Prints :
             builds[n].records = OnePrint(scope, print)
      BY <2>1, <2>2, <2>5, FinalizedIsOnePrint
    <3>2. PICK c : c = {OnePrint(scope, print)}
      OBVIOUS
    <3>3. c \in {{OnePrint(s, q)} : s \in {"full", "sample"}, q \in Prints}
      BY <3>1, <3>2
    <3>4. visible[n] = {} /\ builds'[n] = row /\ \A m \in BuildIds \ {n} : builds'[m] = builds[m]
      BY <2>2, <2>3, AtHand DEF Finalized
    <3>5. visible' = [visible EXCEPT ![n] = c]
      BY <2>3, <2>4, <2>5, <3>1, <3>2, <3>4 DEF Finalized
    <3>6. ActiveBuild' = ActiveBuild
      BY <2>2 DEF ActiveBuild
    <3>7. Promise!Publish(n, c)
      BY <2>3, <3>4, <3>5, <3>6 DEF Promise!Publish
    <3> QED BY <2>3, <3>3, <3>7 DEF Promise!Next
  <2>6. CASE job[b].verdict # "ready"
    <3>1. row.state \notin Finalized
      BY <2>4, <2>6, AtHand DEF Jobs, Finalized
    <3>2. NothingShown
      BY <2>2, <2>3, <3>1, HiddenMoves DEF Finalized
    <3> QED BY <1>2, <2>2, <3>2
  <2> QED BY <2>5, <2>6
<1>4. ASSUME NEW p \in Operators, ActivateBuild(p) PROVE Promise!Next \/ UNCHANGED Promise!vars
  <2>1. PICK n : n = command[p].build
    OBVIOUS
  <2>2. /\ n \in BuildIds /\ Fit(builds[n]) /\ ActiveBuild' = n
        /\ \A m \in BuildIds :
              /\ builds'[m].records = builds[m].records /\ builds'[m].shared = builds[m].shared
              /\ builds'[m].state = IF m = n THEN "active"
                                    ELSE IF builds[m].state = "active" THEN "retired"
                                    ELSE builds[m].state
    BY <1>4, <2>1, ActivateEffect
  <2>3. builds[n].state \in Finalized /\ ~builds[n].shared
    BY <2>2, AtHand DEF Fit, RowOK
  <2>4. NothingShown
    <3> SUFFICES ASSUME NEW m \in BuildIds
                 PROVE  Shown(builds[m])' = Shown(builds[m])
      BY DEF NothingShown
    <3>1. builds'[m].state \in Finalized <=> builds[m].state \in Finalized
      BY <2>2, <2>3 DEF Finalized
    <3> QED BY <2>2, <3>1 DEF Shown
  <2>5. visible' = visible /\ visible[n] # {}
    BY <1>1, <2>2, <2>3, <2>4
  <2>6. Promise!Switch(n)
    BY <2>2, <2>5 DEF Promise!Switch
  <2> QED BY <2>2, <2>6 DEF Promise!Next
<1>5. ASSUME NEW b \in Builders, BuildSteps(b), ~FinalizeBuild(b) PROVE UNCHANGED Promise!vars
  BY <1>2, <1>5, BuildingIsHidden
<1>6. CASE UNCHANGED <<builds, activations>>
  <2>1. NothingShown
    BY <1>6 DEF NothingShown, Shown
  <2> QED BY <1>2, <1>6, <2>1
<1> QED
  BY <1>3, <1>4, <1>5, <1>6 DEF Next, Environment, SwitchSource, ReviewAuthority, StartBuild,
     CrashBuild, OperatorSteps, ChooseBuild, CheckBuild, ReaderSteps, CheckCurrent, Answer, vars, store

\* As long as builds are not run side by side and the registry can be read: however builds
\* are interrupted, resumed and failed while the sources move, what is published is the
\* facts of a whole scope derived from one print, it never changes, and activation only
\* moves the pointer among builds that were published whole.
THEOREM IntelligenceKeepsPromise ==
    ASSUME SoleBuilder, ~RegistryFails PROVE Spec => KeepsPromise
<1>1. Inv /\ [Next]_vars => [Promise!Next]_(Promise!vars)
  BY PromiseStep
<1> QED BY <1>1, PromiseInit, InvHolds, PTL DEF Spec, KeepsPromise, Promise!Spec

================================================================================
