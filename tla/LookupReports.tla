---------------------------- MODULE LookupReports ------------------------------
(***************************************************************************)
(* Whole lookups that share an output directory and a database: each picks   *)
(* its cache key from the active snapshots, serves a cached report or makes   *)
(* one, writes its files and its row, and caches it. Operators switch the     *)
(* active snapshots and processes die at any point.                          *)
(***************************************************************************)
EXTENDS ExcelRegister, Integers, FiniteSets, SequencesExt

CONSTANTS
    Hosts,          \* ways the runs are spread over the processes
    Plots,          \* village/CTS identities
    Options,        \* pairs of --source and --evidence lookups are called with
    Versions,       \* finalized snapshots of each store: positive numbers
    MaxLookups,     \* bound: lookups
    MaxSwitches,    \* bound: activations and rollbacks
    MaxFaults       \* bound: failures, crashes and removals

ASSUME LookupSets ==
    /\ Hosts \subseteq [Runs -> Processes]
    /\ Options \subseteq {"live", "auto", "local"} \X {"basic", "shadow", "standard", "full"}
    /\ Versions \subseteq Nat \ {0}
    /\ {MaxLookups, MaxSwitches, MaxFaults} \subseteq Nat

Live == 0           \* the version of what the live service answered
Artifacts == {"vectors", "pictures", "pdf"}

VARIABLES
    active,         \* the active parcel and planning snapshots
    switches,       \* activations so far
    faults,         \* failures so far
    present,        \* present[x]: files of plot x's bundle that exist
    run,            \* what each run is doing
    outcome         \* outcome[n]: how the n-th lookup ended

environment == <<active, switches>>
vars == <<host, cacheVars, registerVars, active, switches, faults, present, run, outcome>>

NoKey == [plot |-> CHOOSE x \in Plots : TRUE, mode |-> "live", profile |-> "basic", parcel |-> Live, planning |-> Live]
Idle == [step |-> "idle", serial |-> 0, key |-> NoKey, parcel |-> Live, adjoining |-> Live, roads |-> Live,
         planning |-> Live, complete |-> TRUE, warnings |-> {}, lacks |-> {}]

Init ==
    /\ host \in Hosts
    /\ CacheInit /\ RegisterInit
    /\ active \in [{"parcel", "planning"} -> Versions]
    /\ switches = 0 /\ faults = 0
    /\ present = [x \in Plots |-> {}]
    /\ run = [r \in Runs |-> Idle]
    /\ outcome = [n \in {} |-> "none"]

-----------------------------------------------------------------------------
(* Steps of a lookup                                                       *)

At(r, step) == run[r].step = step
Becomes(r, c) == run' = [run EXCEPT ![r] = c]
Keep == UNCHANGED <<environment, host>>
Fault == faults < MaxFaults /\ faults' = faults + 1

Goes(r, next) == Becomes(r, [run[r] EXCEPT !.step = next])

\* Something fails and the lookup goes on without it, with a warning.
LackingSilently(r, next, what) ==
    Fault /\ Becomes(r, [run[r] EXCEPT !.step = next, !.lacks = @ \cup {what}])
Lacking(r, next, what) ==
    /\ Fault
    /\ Becomes(r, [run[r] EXCEPT !.step = next, !.lacks = @ \cup {what}, !.warnings = @ \cup {what}])

GoesOn(r, how) ==
    /\ outcome' = [outcome EXCEPT ![run[r].serial] = how]
    /\ Goes(r, "parcel")
End(r, how) ==
    /\ outcome' = [outcome EXCEPT ![run[r].serial] = how]
    /\ run' = [run EXCEPT ![r] = Idle]

\* A local lookup reads the active parcel snapshot for its cache key and keeps to it.
Begin(r, x, mode, profile) ==
    LET n == Cardinality(DOMAIN outcome) + 1
        local == mode # "live"
    IN  /\ At(r, "idle") /\ n <= MaxLookups
        /\ outcome' = With(outcome, n, "running")
        /\ Becomes(r, [run[r] EXCEPT
                !.step = IF local THEN "selecting" ELSE "composed", !.serial = n,
                !.key = [plot |-> x, mode |-> mode, profile |-> profile,
                         parcel |-> IF local THEN active["parcel"] ELSE Live, planning |-> Live]])
        /\ UNCHANGED <<cacheVars, registerVars, faults, present>> /\ Keep

\* The active planning snapshot is read after it, from another connection.
SelectPlanning(r) ==
    /\ At(r, "selecting")
    /\ Becomes(r, [run[r] EXCEPT !.step = "composed", !.key.planning = active["planning"]])
    /\ UNCHANGED <<cacheVars, registerVars, faults, present, outcome>> /\ Keep

\* Every file an entry promises exists, whichever lookup of the plot wrote it last.
Intact(x) == present[x] = Artifacts

\* An entry serves when its bundle does, and its age and schema, whatever they are here.
ReadCache(r) ==
    LET key == run[r].key
    IN  /\ At(r, "composed")
        /\ Load(host[r])
        /\ \/ /\ key \in DOMAIN Held(host[r]) /\ Intact(key.plot)
              /\ End(r, "served")
           \/ Goes(r, "parcel") /\ UNCHANGED outcome
        /\ UNCHANGED <<registerVars, faults, present>> /\ Keep

\* --no-cache
SkipCache(r) ==
    /\ At(r, "composed")
    /\ Goes(r, "parcel")
    /\ UNCHANGED <<cacheVars, registerVars, faults, present, outcome>> /\ Keep

\* The snapshot of the key is read, whatever is active by now.
ActiveByNow(c) == IF c.key.mode = "live" THEN Live ELSE active["parcel"]
Selected(c) == c.key.parcel

\* Only "auto" turns to the live service, when the plot or the database is not there.
FetchParcel(r) ==
    LET c == run[r]
    IN  /\ At(r, "parcel")
        /\ \/ Becomes(r, [c EXCEPT !.step = "authority", !.parcel = Selected(c)]) /\ UNCHANGED <<faults, outcome>>
           \/ /\ c.key.mode = "auto" /\ Fault
              /\ Becomes(r, [c EXCEPT !.step = "authority", !.parcel = Live]) /\ UNCHANGED outcome
           \/ End(r, "failed") /\ UNCHANGED faults   \* not found, or no trustworthy answer
        /\ UNCHANGED <<cacheVars, registerVars, present>> /\ Keep

\* Activated authority sources are applied, or the parcel is kept as it is.
ResolveAuthority(r) ==
    /\ At(r, "authority")
    /\ \/ Goes(r, "around") /\ UNCHANGED faults
       \/ Lacking(r, "around", "authority")
    /\ UNCHANGED <<cacheVars, registerVars, present, outcome>> /\ Keep

\* Neighbours come from the parcel's own snapshot, roads from the planning snapshot
\* that is active now. Without a local parcel, or when reading fails, they are probed live.
ReadAround(r) ==
    LET c == run[r]
        roads == IF c.parcel = Live THEN Live ELSE active["planning"]
        Found(parcel, planning) ==
            Becomes(r, [c EXCEPT !.step = "planning", !.adjoining = parcel, !.roads = planning])
    IN  /\ At(r, "around")
        /\ \/ Found(c.parcel, roads) /\ UNCHANGED faults
           \/ Fault /\ (Found(Live, roads) \/ Found(c.parcel, Live))
        /\ UNCHANGED <<cacheVars, registerVars, present, outcome>> /\ Keep

\* The query pins the planning snapshot that is active when it starts; "auto" turns to
\* the live service when that cannot be used, and notes it without a warning.
QueryPlanning(r) ==
    LET c == run[r]
        from == IF c.key.mode = "live" THEN Live ELSE active["planning"]
        next == IF c.key.profile = "basic" THEN "vectors" ELSE "scrutiny"
    IN  /\ At(r, "planning")
        /\ \/ Becomes(r, [c EXCEPT !.step = next, !.planning = from]) /\ UNCHANGED faults
           \/ c.key.mode = "auto" /\ Fault /\ Becomes(r, [c EXCEPT !.step = next, !.planning = Live])
           \/ Lacking(r, next, "planning")      \* some layers did not answer
        /\ UNCHANGED <<cacheVars, registerVars, present, outcome>> /\ Keep

\* Without planning evidence there is no report: the requests for the map and the tiles are
\* cancelled and drained before the client closes.
PlanningFails(r) ==
    /\ At(r, "planning") /\ Fault
    /\ End(r, "failed")
    /\ UNCHANGED <<cacheVars, registerVars, present>> /\ Keep

Scrutinise(r) ==
    LET c == run[r]
    IN  /\ At(r, "scrutiny")
        /\ \/ Goes(r, "vectors") /\ UNCHANGED faults
           \/ Fault /\ Becomes(r, [c EXCEPT !.step = "vectors", !.complete = FALSE,
                                         !.lacks = @ \cup {"scrutiny"}])
        /\ UNCHANGED <<cacheVars, registerVars, present, outcome>> /\ Keep

\* Files are written over those of an earlier lookup of the plot; a writer that fails
\* leaves a warning.
Written(r, file, next) ==
    \/ /\ present' = [present EXCEPT ![run[r].key.plot] = @ \cup {file}]
       /\ Goes(r, next) /\ UNCHANGED faults
    \/ Lacking(r, next, file) /\ UNCHANGED present

ExportVectors(r) ==
    /\ At(r, "vectors") /\ Written(r, "vectors", "pictures")
    /\ UNCHANGED <<cacheVars, registerVars, outcome>> /\ Keep

\* The map and the tiles, asked for before the planning query, have come or timed out;
\* a picture without its map or a tile is a placeholder, with a warning.
RenderPictures(r) ==
    /\ At(r, "pictures")
    /\ \/ Written(r, "pictures", "pdf")
       \/ Lacking(r, "pdf", "tiles") /\ present' = [present EXCEPT ![run[r].key.plot] = @ \cup {"pictures"}]
    /\ UNCHANGED <<cacheVars, registerVars, outcome>> /\ Keep

WritePdf(r) ==
    /\ At(r, "pdf") /\ Written(r, "pdf", "register")
    /\ UNCHANGED <<cacheVars, registerVars, outcome>> /\ Keep

OpenRegister(r) ==
    /\ At(r, "register") /\ LoadRegister(r)
    /\ Goes(r, "row")
    /\ UNCHANGED <<cacheVars, faults, present, outcome>> /\ Keep

WriteRow(r) ==
    /\ At(r, "row")
    /\ \/ AppendRow(r, run[r].serial) /\ Goes(r, "built") /\ UNCHANGED faults
       \/ AppendFails(r) /\ Lacking(r, "built", "row")
    /\ UNCHANGED <<cacheVars, present, outcome>> /\ Keep

\* A result with a warning, or with incomplete scrutiny, is returned but not cached.
CacheableUnscrutinised(c) == c.warnings = {}
Cacheable(c) == c.warnings = {} /\ c.complete

ReturnUncached(r) ==
    /\ At(r, "built") /\ ~Cacheable(run[r])
    /\ End(r, IF run[r].warnings = {} THEN "uncached" ELSE "incomplete")
    /\ UNCHANGED <<cacheVars, registerVars, faults, present>> /\ Keep

StartCaching(r) ==
    /\ At(r, "built") /\ Cacheable(run[r])
    /\ Goes(r, "caching")
    /\ \/ OpenCache(r, TRUE) /\ UNCHANGED faults
       \/ OpenCache(r, FALSE) /\ Fault
    /\ UNCHANGED <<registerVars, present, outcome>> /\ Keep

EntryOf(c) ==
    [by |-> c.serial, parcel |-> c.parcel, adjoining |-> c.adjoining, roads |-> c.roads,
     planning |-> c.planning, lacks |-> c.lacks]

Cache(r) ==
    /\ At(r, "caching")
    /\ \/ SaveEntry(r, run[r].key, EntryOf(run[r])) /\ End(r, "complete") /\ UNCHANGED faults
       \/ SaveFails(r) /\ End(r, "uncached") /\ Fault
    /\ UNCHANGED <<registerVars, present>> /\ Keep

-----------------------------------------------------------------------------
(* What happens around the lookups                                         *)

Switch(store, v) ==
    /\ switches < MaxSwitches /\ v # active[store]
    /\ active' = [active EXCEPT ![store] = v]
    /\ switches' = switches + 1
    /\ UNCHANGED <<host, cacheVars, registerVars, faults, present, run, outcome>>

RunsOf(p) == {r \in Runs : host[r] = p}

\* A command line process ends with its lookup; a library keeps its process.
Exit(p) ==
    /\ p \in loaded /\ \A r \in RunsOf(p) : At(r, "idle")
    /\ ForgetCache(p)
    /\ UNCHANGED <<registerVars, faults, present, run, outcome>> /\ Keep

Crash(p) ==
    LET dead == {r \in RunsOf(p) : ~At(r, "idle")}
    IN  /\ dead # {} /\ Fault
        /\ ForgetCache(p) /\ ForgetRegister(p)
        /\ run' = [r \in Runs |-> IF r \in dead THEN Idle ELSE run[r]]
        /\ outcome' = [n \in DOMAIN outcome |-> IF \E r \in dead : run[r].serial = n THEN "crashed" ELSE outcome[n]]
        /\ UNCHANGED present /\ Keep

RemoveBundle(x) ==
    /\ present[x] # {} /\ Fault
    /\ present' = [present EXCEPT ![x] = {}]
    /\ UNCHANGED <<cacheVars, registerVars, run, outcome>> /\ Keep

Step(r) ==
    \/ SelectPlanning(r) \/ ReadCache(r) \/ SkipCache(r) \/ FetchParcel(r) \/ ResolveAuthority(r) \/ ReadAround(r)
    \/ QueryPlanning(r) \/ PlanningFails(r) \/ Scrutinise(r)
    \/ ExportVectors(r) \/ RenderPictures(r) \/ WritePdf(r)
    \/ OpenRegister(r) \/ WriteRow(r) \/ ReturnUncached(r) \/ StartCaching(r) \/ Cache(r)

Around ==
    \/ \E store \in {"parcel", "planning"}, v \in Versions : Switch(store, v)
    \/ \E p \in Processes : Exit(p) \/ Crash(p)
    \/ \E x \in Plots : RemoveBundle(x)

Next ==
    \/ \E r \in Runs, x \in Plots, o \in Options : Begin(r, x, o[1], o[2])
    \/ \E r \in Runs : Step(r)
    \/ Around

Spec == Init /\ [][Next]_vars

\* A lookup that runs goes on: the requests it waits for have a timeout.
Fairness == \A r \in Runs : WF_vars(Step(r))

FairSpec == Spec /\ Fairness

-----------------------------------------------------------------------------
(* Properties *)

Values(f) == {f[k] : k \in DOMAIN f}
Stores == {disk} \cup {memory[p] : p \in Processes}

TypeOK ==
    /\ host \in Hosts
    /\ cacheLock \in Runs \cup {Nobody} /\ registerLock \in Runs \cup {Nobody}
    /\ loaded \subseteq Processes
    /\ active \in [{"parcel", "planning"} -> Versions]
    /\ present \in [Plots -> SUBSET Artifacts]
    /\ DOMAIN outcome = 1 .. Cardinality(DOMAIN outcome)
    /\ \A r \in Runs : At(r, "idle") \/ outcome[run[r].serial] = "running"

\* What the cache serves, from the file or from a process's memory, was returned as
\* complete by the lookup that made it: none of its stages lacked anything, and its save
\* succeeded. (SKILL.md: incomplete results are never cached.)
CachedIsComplete ==
    \A store \in Stores : \A e \in Values(store) :
        e.lacks = {} /\ outcome[e.by] = "complete"

\* A cached report shows the parcel and the neighbours of the snapshot in its key, or of
\* the live service, although snapshots are switched while it is made.
OneParcelVersion ==
    \A store \in Stores : \A k \in DOMAIN store :
        {store[k].parcel, store[k].adjoining} \subseteq {k.parcel, Live}

\* The same of planning and roads: snapshots do not cross a switch.
OnePlanningVersion ==
    \A store \in Stores : \A k \in DOMAIN store :
        {store[k].planning, store[k].roads} \subseteq {k.planning, Live}

RowsOf(n) == {i \in DOMAIN register : register[i] = n}

\* Every lookup has at most one row, and a complete one has its row, although lookups in
\* threads and processes rewrite the register and die while they do; a lookup that failed,
\* or was served from the cache, has none.
EveryLookupIsRegistered ==
    \A n \in DOMAIN outcome :
        /\ Cardinality(RowsOf(n)) <= 1
        /\ outcome[n] \in {"complete", "uncached"} => RowsOf(n) # {}
        /\ outcome[n] \in {"failed", "served"} => RowsOf(n) = {}

\* The register only ever grows at its end: no row is lost to a concurrent writer, a
\* failed save or a crash.
NoRowLost == [][IsPrefix(register, register')]_vars

\* No cached report is lost to a concurrent writer, unless the writer could not read
\* the file.
NoEntryLost == [][DOMAIN disk \subseteq DOMAIN disk' \/ draft.blind]_vars

\* Whatever is lost, it is not what another lookup wrote: neither its row nor its entry.
NothingIsLost == NoRowLost /\ NoEntryLost

\* A lookup that begins ends, whoever else holds the locks and whoever dies with one.
LookupsEnd == \A r \in Runs : ~At(r, "idle") ~> At(r, "idle")
================================================================================
