-------------------------- MODULE LookupReportsProofs --------------------------
(***************************************************************************)
(* What holds of lookups that share an output directory for every number of *)
(* runs, processes, plots and snapshots: nothing is lost, and what is cached *)
(* or registered is what its lookup made.                                    *)
(***************************************************************************)
EXTENDS LookupReports, FiniteSetTheorems, TLAPS

-------------------------------------------------------------------------------
(* The inductive invariant. *)

Early == {"selecting", "composed", "parcel", "authority", "around", "planning", "scrutiny",
          "vectors", "pictures", "pdf", "register"}
Steps == Early \cup {"idle", "row", "built", "caching"}
Faulty == Artifacts \cup {"authority", "planning", "scrutiny", "tiles", "row"}
Keys == [plot : Plots \cup {NoKey.plot}, mode : {"live", "auto", "local"},
         profile : {"basic", "shadow", "standard", "full"},
         parcel : Versions \cup {Live}, planning : Versions \cup {Live}]
Records == [step : Steps, serial : Nat, key : Keys,
            parcel : Versions \cup {Live}, adjoining : Versions \cup {Live},
            roads : Versions \cup {Live}, planning : Versions \cup {Live},
            complete : BOOLEAN, warnings : SUBSET Faulty, lacks : SUBSET Faulty]

\* What a lookup knows: its parcel and neighbours are those of its key, whatever it lacks
\* it has warned about or scrutiny is incomplete, and it caches only what lacks nothing.
Sound(c) ==
    /\ c \in Records
    /\ c.step = "idle" => c = Idle
    /\ {c.parcel, c.adjoining} \subseteq {c.key.parcel, Live}
    /\ c.warnings = {} /\ c.complete => c.lacks = {}
    /\ c.step = "caching" => c.warnings = {} /\ c.complete

Typed ==
    /\ host \in [Runs -> Processes]
    /\ active \in [{"parcel", "planning"} -> Versions]
    /\ DOMAIN memory = Processes
    /\ run \in [Runs -> Records]
    /\ \A r \in Runs : Sound(run[r])

\* Every lookup that runs has a serial number of its own.
Numbered ==
    /\ \E n \in Nat : DOMAIN outcome = 1 .. n
    /\ \A r \in Runs : ~At(r, "idle") =>
          run[r].serial \in DOMAIN outcome /\ outcome[run[r].serial] = "running"
    /\ \A r, q \in Runs : ~At(r, "idle") /\ ~At(q, "idle") /\ run[r].serial = run[q].serial => r = q

\* Whoever holds a lock has read what it protects, and nothing changed since.
Locked ==
    /\ registerLock # Nobody => registerLock \in Runs /\ At(registerLock, "row") /\ sheet = register
    /\ cacheLock # Nobody => cacheLock \in Runs /\ At(cacheLock, "caching")
    /\ cacheLock # Nobody /\ ~draft.blind => draft.entries = disk

\* What a store has was made by a lookup that ended as complete.
Made(e, ends) == e.lacks = {} /\ e.by \in DOMAIN ends /\ ends[e.by] = "complete"
Fits(k, e) == {e.parcel, e.adjoining} \subseteq {k.parcel, Live}
Genuine(store, ends) == \A k \in DOMAIN store : Made(store[k], ends) /\ Fits(k, store[k])

Entries ==
    /\ Genuine(disk, outcome) /\ Genuine(draft.entries, outcome)
    /\ \A p \in Processes : Genuine(memory[p], outcome)

HasRow(rows, n) == \E i \in DOMAIN rows : rows[i] = n

\* A lookup gets its row between "row" and "built".
Registered ==
    /\ register \in Seq(Nat)
    /\ \A i \in DOMAIN register : register[i] \in DOMAIN outcome
    /\ \A i, j \in DOMAIN register : register[i] = register[j] => i = j
    /\ \A r \in Runs : run[r].step \in Early \cup {"row"} => ~HasRow(register, run[r].serial)
    /\ \A r \in Runs : run[r].step \in {"built", "caching"} /\ run[r].warnings = {} => HasRow(register, run[r].serial)
    /\ \A n \in DOMAIN outcome :
          /\ outcome[n] \in {"complete", "uncached"} => HasRow(register, n)
          /\ outcome[n] \in {"failed", "served"} => ~HasRow(register, n)

Inv == Typed /\ Numbered /\ Locked /\ Entries /\ Registered

LEMMA IdleIsSound == Sound(Idle)
<1>1. NoKey \in Keys
  BY DEF NoKey, Keys
<1> QED BY <1>1 DEF Idle, Sound, Records, Steps, NoKey

LEMMA InvInit == Init => Inv
<1> SUFFICES ASSUME Init PROVE Inv
  OBVIOUS
<1> USE DEF Init, CacheInit, RegisterInit
<1>1. Typed
  <2>1. run \in [Runs -> Records]
    BY IdleIsSound DEF Sound
  <2> QED BY <2>1, IdleIsSound, LookupSets DEF Typed
<1>2. Numbered
  <2>1. DOMAIN outcome = 1 .. 0
    OBVIOUS
  <2> QED BY <2>1 DEF Numbered, At, Idle
<1>3. Locked
  BY DEF Locked
<1>4. Entries
  BY DEF Entries, Genuine, NoDraft, NoEntries
<1>5. Registered
  BY DEF Registered, Idle, Early
<1> QED BY <1>1, <1>2, <1>3, <1>4, <1>5 DEF Inv

-------------------------------------------------------------------------------
(* Steps that most of the actions are examples of. *)

\* A lookup goes on, and at most a process reads the cache file.
Advance(r, c) ==
    /\ run[r].step \in Early
    /\ Sound(c) /\ c.step \in Early \cup {"row"} /\ c.serial = run[r].serial
    /\ Becomes(r, c)
    /\ DOMAIN memory' = Processes
    /\ \A p \in Processes : memory'[p] \in {memory[p], disk}
    /\ UNCHANGED <<host, active, disk, cacheLock, draft, register, outcome>>

\* The end of lookup r, as how.
Stop(r, how) ==
    /\ run[r].step \in Early
    /\ how \in {"failed", "served"}
    /\ End(r, how)
    /\ DOMAIN memory' = Processes
    /\ \A p \in Processes : memory'[p] \in {memory[p], disk}
    /\ UNCHANGED <<host, active, disk, cacheLock, draft, registerVars>>

LEMMA AdvanceTypes ==
    ASSUME Inv, NEW r \in Runs, NEW c, Sound(c), Becomes(r, c), UNCHANGED <<host, active>>,
           DOMAIN memory' = Processes
    PROVE  Typed'
BY DEF Inv, Typed, Becomes, Sound

LEMMA AdvanceKeeps ==
    ASSUME Inv, NEW r \in Runs, NEW c, Advance(r, c),
           \/ UNCHANGED <<registerLock, sheet>> /\ c.step \in Early
           \/ registerLock' = r /\ sheet' = register /\ c.step = "row"
    PROVE  Inv'
<1> USE DEF Advance
<1>1. Typed'
  BY AdvanceTypes
<1>2. run' = [run EXCEPT ![r] = c] /\ run \in [Runs -> Records]
  BY DEF Becomes, Inv, Typed
<1>3. Numbered'
  BY <1>2 DEF Inv, Numbered, At, Early
<1>4. Locked'
  BY <1>2, NobodyIsNoRun DEF Inv, Locked, At, Early
<1>5. Entries'
  BY DEF Inv, Entries, Genuine, Made
<1>6. Registered'
  BY <1>2 DEF Inv, Registered, HasRow, Early
<1> QED BY <1>1, <1>3, <1>4, <1>5, <1>6 DEF Inv

\* The end of a lookup that runs changes the outcome of no other one.
LEMMA EndsKeepOutcomes ==
    ASSUME Inv, NEW r \in Runs, ~At(r, "idle"), NEW how,
           outcome' = [outcome EXCEPT ![run[r].serial] = how]
    PROVE  /\ \A e : Made(e, outcome) => Made(e, outcome')
           /\ DOMAIN outcome' = DOMAIN outcome
           /\ outcome'[run[r].serial] = how
           /\ \A n \in DOMAIN outcome : n # run[r].serial => outcome'[n] = outcome[n]
BY DEF Inv, Numbered, Made

LEMMA GenuineLasts ==
    ASSUME NEW store, NEW ends, NEW later, Genuine(store, ends),
           \A e : Made(e, ends) => Made(e, later)
    PROVE  Genuine(store, later)
BY DEF Genuine

LEMMA EndNumbers ==
    ASSUME Inv, NEW r \in Runs, ~At(r, "idle"), NEW how, End(r, how)
    PROVE  Numbered'
<1>1. run \in [Runs -> Records] /\ run' = [run EXCEPT ![r] = Idle] /\ Idle.step = "idle"
  BY DEF Inv, Typed, End, Idle
<1> QED BY <1>1 DEF Inv, Numbered, At, End

LEMMA StopKeeps ==
    ASSUME Inv, NEW r \in Runs, NEW how, Stop(r, how)
    PROVE  Inv'
<1> USE DEF Stop
<1>1. ~At(r, "idle")
  BY DEF At, Early
<1>2. Becomes(r, Idle)
  BY DEF End, Becomes
<1>3. Typed'
  BY <1>2, IdleIsSound, AdvanceTypes
<1>4. run' = [run EXCEPT ![r] = Idle] /\ run \in [Runs -> Records] /\ Idle.step = "idle"
  BY DEF End, Inv, Typed, Idle
<1>5. Numbered'
  BY <1>1, EndNumbers
<1>6. Locked'
  BY <1>4, NobodyIsNoRun DEF Inv, Locked, At, Early, registerVars
<1>7. Entries'
  <2>1. \A e : Made(e, outcome) => Made(e, outcome')
    BY <1>1, EndsKeepOutcomes DEF End
  <2>2. /\ Genuine(disk, outcome') /\ Genuine(draft.entries, outcome')
        /\ \A p \in Processes : Genuine(memory[p], outcome')
    BY <2>1, GenuineLasts DEF Inv, Entries
  <2> QED BY <2>2 DEF Entries
<1>8. Registered'
  <2>1. ~HasRow(register, run[r].serial)
    BY DEF Inv, Registered
  <2>2. UNCHANGED register
    BY DEF registerVars
  <2>3. /\ DOMAIN outcome' = DOMAIN outcome
        /\ outcome'[run[r].serial] = how
        /\ \A n \in DOMAIN outcome : n # run[r].serial => outcome'[n] = outcome[n]
    BY <1>1, EndsKeepOutcomes DEF End
  <2>4. \A n : HasRow(register', n) <=> HasRow(register, n)
    BY <2>2 DEF HasRow
  <2> QED BY <1>4, <2>1, <2>2, <2>3, <2>4 DEF Inv, Registered, Early
<1> QED BY <1>3, <1>5, <1>6, <1>7, <1>8 DEF Inv

-------------------------------------------------------------------------------
(* The actions that are one of these. *)

LEMMA Loads ==
    ASSUME Inv, NEW p \in Processes, Load(p)
    PROVE  /\ DOMAIN memory' = Processes
           /\ \A q \in Processes : memory'[q] \in {memory[q], disk}
           /\ UNCHANGED <<disk, cacheLock, draft>>
BY DEF Inv, Typed, Load

LEMMA NoLoad ==
    ASSUME Inv, UNCHANGED memory
    PROVE  /\ DOMAIN memory' = Processes
           /\ \A q \in Processes : memory'[q] \in {memory[q], disk}
BY DEF Inv, Typed

\* A step that changes nothing a lookup's evidence depends on.
LEMMA NextSteps ==
    ASSUME Inv, NEW r \in Runs, run[r].step \in Early, NEW next \in Early \cup {"row"}
    PROVE  LET c == [run[r] EXCEPT !.step = next] IN
           Sound(c) /\ c.step = next /\ c.serial = run[r].serial
<1>1. Sound(run[r]) /\ run[r] \in Records
  BY DEF Inv, Typed
<1> QED BY <1>1 DEF Sound, Records, Steps, Early

LEMMA QuietKeeps ==
    ASSUME Inv, NEW r \in Runs, run[r].step \in Early, NEW next \in Early, NEW what \in Faulty,
           Goes(r, next) \/ Lacking(r, next, what),
           UNCHANGED <<cacheVars, registerVars, host, active, outcome>>
    PROVE  Inv'
<1>1. CASE Goes(r, next)
  <2> DEFINE c == [run[r] EXCEPT !.step = next]
  <2>1. Advance(r, c)
    BY <1>1, NextSteps, NoLoad DEF Advance, Goes, cacheVars, registerVars
  <2> QED BY <2>1, NextSteps, AdvanceKeeps DEF registerVars
<1>2. CASE Lacking(r, next, what)
  <2> DEFINE c == [run[r] EXCEPT !.step = next, !.lacks = @ \cup {what}, !.warnings = @ \cup {what}]
  <2>1. Sound(run[r]) /\ run[r] \in Records
    BY DEF Inv, Typed
  <2>2. c \in Records /\ c.warnings # {}
    BY <2>1 DEF Records, Steps
  <2>3. /\ c.step = next /\ c.serial = run[r].serial /\ c.parcel = run[r].parcel
        /\ c.adjoining = run[r].adjoining /\ c.key = run[r].key
    BY <2>1 DEF Records
  <2>4. Becomes(r, c)
    BY <1>2 DEF Lacking
  <2> HIDE DEF c
  <2>5. Sound(c)
    BY <2>1, <2>2, <2>3 DEF Sound, Early
  <2>6. Advance(r, c)
    BY <2>3, <2>4, <2>5, NoLoad DEF Advance, cacheVars, registerVars
  <2> QED BY <2>3, <2>6, AdvanceKeeps DEF registerVars
<1> QED BY <1>1, <1>2

LEMMA WrittenKeeps ==
    ASSUME Inv, NEW r \in Runs, run[r].step \in Early, NEW next \in Early, NEW what \in Artifacts,
           Written(r, what, next), Keep, UNCHANGED <<cacheVars, registerVars, outcome>>
    PROVE  Inv'
BY QuietKeeps DEF Written, Faulty, Keep, environment

LEMMA ReadCacheKeeps == ASSUME Inv, NEW r \in Runs, ReadCache(r) PROVE Inv'
<1>1. run[r].step \in Early /\ host[r] \in Processes
  BY DEF ReadCache, At, Early, Inv, Typed
<1>2. /\ DOMAIN memory' = Processes
      /\ \A q \in Processes : memory'[q] \in {memory[q], disk}
      /\ UNCHANGED <<disk, cacheLock, draft>>
  BY <1>1, Loads DEF ReadCache
<1>3. UNCHANGED <<host, active, registerVars>>
  BY DEF ReadCache, Keep, environment
<1>4. CASE End(r, "served")
  BY <1>1, <1>2, <1>3, <1>4, StopKeeps DEF Stop
<1>5. CASE Goes(r, "parcel") /\ UNCHANGED outcome
  <2> DEFINE c == [run[r] EXCEPT !.step = "parcel"]
  <2>1. Sound(c) /\ c.step = "parcel" /\ c.serial = run[r].serial
    BY <1>1, NextSteps DEF Early
  <2>2. Advance(r, c)
    BY <1>1, <1>2, <1>3, <1>5, <2>1 DEF Advance, Goes, Early, registerVars
  <2> QED BY <1>3, <2>1, <2>2, AdvanceKeeps DEF registerVars, Early
<1> QED BY <1>4, <1>5 DEF ReadCache

LEMMA SkipCacheKeeps == ASSUME Inv, NEW r \in Runs, SkipCache(r) PROVE Inv'
BY QuietKeeps DEF SkipCache, At, Early, Faulty, Keep, environment

LEMMA ResolveAuthorityKeeps == ASSUME Inv, NEW r \in Runs, ResolveAuthority(r) PROVE Inv'
BY QuietKeeps DEF ResolveAuthority, At, Early, Faulty, Keep, environment

\* The parts of a record that a step may change, one lemma for all of them.
LEMMA Changed ==
    ASSUME Inv, NEW r \in Runs, run[r].step \in Early, NEW c \in Records,
           c.step \in Early, c.serial = run[r].serial,
           {c.parcel, c.adjoining} \subseteq {c.key.parcel, Live},
           c.warnings = {} /\ c.complete => c.lacks = {},
           Becomes(r, c), Keep, UNCHANGED <<cacheVars, registerVars, outcome>>
    PROVE  Inv'
<1>1. Sound(c)
  BY DEF Sound, Early
<1>2. Advance(r, c)
  BY <1>1, NoLoad DEF Advance, Keep, environment, cacheVars, registerVars
<1> QED BY <1>2, AdvanceKeeps DEF registerVars

LEMMA SelectPlanningKeeps == ASSUME Inv, NEW r \in Runs, SelectPlanning(r) PROVE Inv'
<1> DEFINE c == [run[r] EXCEPT !.step = "composed", !.key.planning = active["planning"]]
<1>1. Sound(run[r]) /\ run[r] \in Records /\ active["planning"] \in Versions
  BY DEF Inv, Typed
<1>2. c \in Records
  BY <1>1 DEF Records, Steps, Early, Keys
<1>3. /\ c.step = "composed" /\ c.serial = run[r].serial /\ c.parcel = run[r].parcel
      /\ c.adjoining = run[r].adjoining /\ c.key.parcel = run[r].key.parcel
      /\ c.warnings = run[r].warnings /\ c.complete = run[r].complete /\ c.lacks = run[r].lacks
  BY <1>1 DEF Records, Keys
<1>4. Becomes(r, c) /\ run[r].step \in Early /\ Keep /\ UNCHANGED <<cacheVars, registerVars, outcome>>
  BY DEF SelectPlanning, At, Early
<1> HIDE DEF c
<1> QED BY <1>1, <1>2, <1>3, <1>4, Changed DEF Sound, Early

LEMMA FetchParcelKeeps == ASSUME Inv, NEW r \in Runs, FetchParcel(r) PROVE Inv'
<1>1. Sound(run[r]) /\ run[r] \in Records /\ run[r].step \in Early
  BY DEF Inv, Typed, FetchParcel, At, Early
<1>2. Keep /\ UNCHANGED <<cacheVars, registerVars>>
  BY DEF FetchParcel
<1>3. ASSUME NEW v \in {run[r].key.parcel, Live},
             Becomes(r, [run[r] EXCEPT !.step = "authority", !.parcel = v]), UNCHANGED outcome
      PROVE  Inv'
  <2> DEFINE c == [run[r] EXCEPT !.step = "authority", !.parcel = v]
  <2>1. c \in Records
    BY <1>1 DEF Records, Steps, Early, Keys
  <2>2. /\ c.step = "authority" /\ c.serial = run[r].serial /\ c.parcel = v
        /\ c.adjoining = run[r].adjoining /\ c.key = run[r].key
        /\ c.warnings = run[r].warnings /\ c.complete = run[r].complete /\ c.lacks = run[r].lacks
    BY <1>1 DEF Records
  <2>3. Becomes(r, c)
    BY <1>3
  <2> HIDE DEF c
  <2> QED BY <1>1, <1>2, <1>3, <2>1, <2>2, <2>3, Changed DEF Sound, Early
<1>4. CASE End(r, "failed")
  <2>1. Stop(r, "failed")
    BY <1>1, <1>2, <1>4, NoLoad DEF Stop, Keep, environment, cacheVars
  <2> QED BY <2>1, StopKeeps
<1> QED BY <1>3, <1>4 DEF FetchParcel, Selected

LEMMA ReadAroundKeeps == ASSUME Inv, NEW r \in Runs, ReadAround(r) PROVE Inv'
<1>1. Sound(run[r]) /\ run[r] \in Records /\ run[r].step \in Early /\ active["planning"] \in Versions
  BY DEF Inv, Typed, ReadAround, At, Early
<1>2. Keep /\ UNCHANGED <<cacheVars, registerVars, outcome>>
  BY DEF ReadAround
<1>3. ASSUME NEW v \in {run[r].parcel, Live}, NEW w \in Versions \cup {Live},
             Becomes(r, [run[r] EXCEPT !.step = "planning", !.adjoining = v, !.roads = w])
      PROVE  Inv'
  <2> DEFINE c == [run[r] EXCEPT !.step = "planning", !.adjoining = v, !.roads = w]
  <2>1. c \in Records
    BY <1>1 DEF Records, Steps, Early
  <2>2. /\ c.step = "planning" /\ c.serial = run[r].serial /\ c.parcel = run[r].parcel
        /\ c.adjoining = v /\ c.key = run[r].key
        /\ c.warnings = run[r].warnings /\ c.complete = run[r].complete /\ c.lacks = run[r].lacks
    BY <1>1 DEF Records
  <2>3. Becomes(r, c)
    BY <1>3
  <2> HIDE DEF c
  <2> QED BY <1>1, <1>2, <2>1, <2>2, <2>3, Changed DEF Sound, Early
<1> QED BY <1>1, <1>3 DEF ReadAround

LEMMA QueryPlanningKeeps == ASSUME Inv, NEW r \in Runs, QueryPlanning(r) PROVE Inv'
<1>1. Sound(run[r]) /\ run[r] \in Records /\ run[r].step \in Early /\ active["planning"] \in Versions
  BY DEF Inv, Typed, QueryPlanning, At, Early
<1>2. Keep /\ UNCHANGED <<cacheVars, registerVars, outcome>>
  BY DEF QueryPlanning
<1> DEFINE next == IF run[r].key.profile = "basic" THEN "vectors" ELSE "scrutiny"
<1>3. next \in Early
  BY DEF Early
<1>4. ASSUME NEW v \in Versions \cup {Live},
             Becomes(r, [run[r] EXCEPT !.step = next, !.planning = v])
      PROVE  Inv'
  <2> DEFINE c == [run[r] EXCEPT !.step = next, !.planning = v]
  <2>1. c \in Records
    BY <1>1, <1>3 DEF Records, Steps
  <2>2. /\ c.step = next /\ c.serial = run[r].serial /\ c.parcel = run[r].parcel
        /\ c.adjoining = run[r].adjoining /\ c.key = run[r].key
        /\ c.warnings = run[r].warnings /\ c.complete = run[r].complete /\ c.lacks = run[r].lacks
    BY <1>1 DEF Records
  <2>3. Becomes(r, c)
    BY <1>4
  <2> HIDE DEF c, next
  <2> QED BY <1>1, <1>2, <1>3, <2>1, <2>2, <2>3, Changed DEF Sound, Early
<1>5. CASE Lacking(r, next, "planning")
  <2> HIDE DEF next
  <2> QED BY <1>1, <1>2, <1>3, <1>5, QuietKeeps DEF Keep, environment, Faulty
<1> QED BY <1>1, <1>4, <1>5 DEF QueryPlanning

LEMMA PlanningFailsKeeps == ASSUME Inv, NEW r \in Runs, PlanningFails(r) PROVE Inv'
<1>1. Stop(r, "failed")
  BY NoLoad DEF PlanningFails, Stop, At, Early, Keep, environment, cacheVars
<1> QED BY <1>1, StopKeeps

LEMMA ScrutiniseKeeps == ASSUME Inv, NEW r \in Runs, Scrutinise(r) PROVE Inv'
<1>1. Sound(run[r]) /\ run[r] \in Records /\ run[r].step \in Early
  BY DEF Inv, Typed, Scrutinise, At, Early
<1>2. Keep /\ UNCHANGED <<cacheVars, registerVars, outcome>>
  BY DEF Scrutinise
<1>3. CASE Goes(r, "vectors")
  BY <1>1, <1>2, <1>3, QuietKeeps DEF Keep, environment, Early, Faulty
<1> DEFINE c == [run[r] EXCEPT !.step = "vectors", !.complete = FALSE, !.lacks = @ \cup {"scrutiny"}]
<1>4. CASE Becomes(r, c)
  <2>1. c \in Records
    BY <1>1 DEF Records, Steps, Early, Faulty
  <2>2. /\ c.step = "vectors" /\ c.serial = run[r].serial /\ c.parcel = run[r].parcel
        /\ c.adjoining = run[r].adjoining /\ c.key = run[r].key /\ ~c.complete
    BY <1>1 DEF Records
  <2>3. Becomes(r, c)
    BY <1>4
  <2> HIDE DEF c
  <2> QED BY <1>1, <1>2, <2>1, <2>2, <2>3, Changed DEF Sound, Early
<1> QED BY <1>3, <1>4 DEF Scrutinise

LEMMA ArtifactsKeep ==
    ASSUME Inv, NEW r \in Runs, ExportVectors(r) \/ RenderPictures(r) \/ WritePdf(r)
    PROVE  Inv'
<1>1. CASE ExportVectors(r)
  BY <1>1, WrittenKeeps DEF ExportVectors, At, Early, Artifacts
<1>2. CASE RenderPictures(r)
  <2>1. CASE Written(r, "pictures", "pdf")
    BY <1>2, <2>1, WrittenKeeps DEF RenderPictures, At, Early, Artifacts
  <2>2. CASE Lacking(r, "pdf", "tiles")
    BY <1>2, <2>2, QuietKeeps DEF RenderPictures, At, Early, Faulty, Keep, environment
  <2> QED BY <1>2, <2>1, <2>2 DEF RenderPictures
<1>3. CASE WritePdf(r)
  BY <1>3, WrittenKeeps DEF WritePdf, At, Early, Artifacts
<1> QED BY <1>1, <1>2, <1>3

-------------------------------------------------------------------------------
(* The other actions. *)

LEMMA OpenRegisterKeeps == ASSUME Inv, NEW r \in Runs, OpenRegister(r) PROVE Inv'
<1> DEFINE c == [run[r] EXCEPT !.step = "row"]
<1>1. run[r].step \in Early
  BY DEF OpenRegister, At, Early
<1>2. Sound(c) /\ c.step = "row" /\ c.serial = run[r].serial
  BY <1>1, NextSteps
<1>3. Becomes(r, c) /\ registerLock' = r /\ sheet' = register /\ UNCHANGED register
  BY DEF OpenRegister, Goes, LoadRegister
<1>4. UNCHANGED <<host, active, memory, disk, cacheLock, draft, outcome>>
  BY DEF OpenRegister, Keep, environment, cacheVars
<1> HIDE DEF c
<1>5. Advance(r, c)
  BY <1>1, <1>2, <1>3, <1>4, NoLoad DEF Advance
<1> QED BY <1>2, <1>3, <1>5, AdvanceKeeps

LEMMA BeginKeeps ==
    ASSUME Inv, NEW r \in Runs, NEW x \in Plots, NEW o \in Options, Begin(r, x, o[1], o[2])
    PROVE  Inv'
<1> DEFINE n == Cardinality(DOMAIN outcome) + 1
           local == o[1] # "live"
           c == [run[r] EXCEPT
                   !.step = IF local THEN "selecting" ELSE "composed", !.serial = n,
                   !.key = [plot |-> x, mode |-> o[1], profile |-> o[2],
                            parcel |-> IF local THEN active["parcel"] ELSE Live, planning |-> Live]]
<1>1. /\ At(r, "idle") /\ outcome' = With(outcome, n, "running") /\ Becomes(r, c)
      /\ UNCHANGED <<cacheVars, registerVars>> /\ Keep
  BY DEF Begin
<1>2. PICK m \in Nat : DOMAIN outcome = 1 .. m
  BY DEF Inv, Numbered
<1>3. n = m + 1
  BY <1>2, FS_Interval
<1>4. run[r] = Idle /\ run[r] \in Records /\ active["parcel"] \in Versions
  BY <1>1 DEF Inv, Typed, Sound, At
<1>5. o[1] \in {"live", "auto", "local"} /\ o[2] \in {"basic", "shadow", "standard", "full"}
  BY LookupSets
<1>6. c \in Records
  <2>1. [plot |-> x, mode |-> o[1], profile |-> o[2],
         parcel |-> IF local THEN active["parcel"] ELSE Live, planning |-> Live] \in Keys
    BY <1>4, <1>5 DEF Keys
  <2>2. (IF local THEN "selecting" ELSE "composed") \in Steps /\ n \in Nat
    BY <1>2, <1>3 DEF Steps, Early
  <2> QED BY <1>4, <2>1, <2>2 DEF Records
<1>7. /\ c.step \in {"selecting", "composed"} /\ c.serial = n
      /\ c.parcel = Live /\ c.adjoining = Live /\ c.lacks = {}
  BY <1>4 DEF Records, Idle
<1>8. UNCHANGED <<host, active, memory, disk, cacheLock, draft, register, registerLock, sheet>>
  BY <1>1 DEF Keep, environment, cacheVars, registerVars
<1> HIDE DEF c, n
<1>9. Sound(c)
  BY <1>6, <1>7 DEF Sound
<1>10. run' = [run EXCEPT ![r] = c] /\ run \in [Runs -> Records]
  BY <1>1 DEF Becomes, Inv, Typed
<1>11. n \notin DOMAIN outcome /\ DOMAIN outcome' = 1 .. n /\ n \in Nat
  BY <1>1, <1>2, <1>3 DEF With
<1>12. \A k \in DOMAIN outcome : k \in DOMAIN outcome' /\ outcome'[k] = outcome[k]
  BY <1>1, <1>11 DEF With
<1>13. n \in DOMAIN outcome' /\ outcome'[n] = "running"
  BY <1>1 DEF With
<1>14. Typed'
  BY <1>1, <1>8, <1>9, AdvanceTypes, NoLoad
<1>15. Numbered'
  <2>1. \A q \in Runs : ~At(q, "idle") => run[q].serial \in DOMAIN outcome /\ outcome[run[q].serial] = "running"
    BY DEF Inv, Numbered
  <2>2. \A q \in Runs \ {r} : run'[q] = run[q]
    BY <1>10
  <2>3. run'[r] = c
    BY <1>10
  <2>4. \A q \in Runs : ~At(q, "idle")' =>
            run'[q].serial \in DOMAIN outcome' /\ outcome'[run'[q].serial] = "running"
    <3> TAKE q \in Runs
    <3>1. CASE q = r
      BY <1>7, <1>13, <2>3, <3>1
    <3>2. CASE q # r
      BY <1>12, <2>1, <2>2, <3>2 DEF At
    <3> QED BY <3>1, <3>2
  <2>5. \A q \in Runs \ {r} : ~At(q, "idle")' => run'[q].serial # n
    BY <1>11, <2>1, <2>2 DEF At
  <2>6. \A p, q \in Runs : ~At(p, "idle")' /\ ~At(q, "idle")' /\ run'[p].serial = run'[q].serial => p = q
    BY <1>7, <2>2, <2>3, <2>5 DEF Inv, Numbered, At
  <2> QED BY <1>11, <2>4, <2>6 DEF Numbered
<1>16. Locked'
  <2>1. run[r].step = "idle"
    BY <1>1 DEF At
  <2> QED BY <1>8, <1>10, <2>1 DEF Inv, Locked, At
<1>17. Entries'
  <2>1. \A e : Made(e, outcome) => Made(e, outcome')
    BY <1>12 DEF Made
  <2>2. /\ Genuine(disk, outcome') /\ Genuine(draft.entries, outcome')
        /\ \A p \in Processes : Genuine(memory[p], outcome')
    BY <2>1, GenuineLasts DEF Inv, Entries
  <2> QED BY <1>8, <2>2 DEF Entries
<1>18. Registered'
  <2>1. \A k : HasRow(register', k) <=> HasRow(register, k)
    BY <1>8 DEF HasRow
  <2>2. ~HasRow(register, n)
    BY <1>11 DEF HasRow, Inv, Registered
  <2>3. DOMAIN outcome' = DOMAIN outcome \cup {n}
    BY <1>2, <1>3, <1>11
  <2> QED BY <1>7, <1>8, <1>10, <1>11, <1>12, <1>13, <2>1, <2>2, <2>3 DEF Inv, Registered, Early
<1> QED BY <1>14, <1>15, <1>16, <1>17, <1>18 DEF Inv

\* A lookup that is not cached has its row, unless writing it failed.
LEMMA ReturnUncachedKeeps == ASSUME Inv, NEW r \in Runs, ReturnUncached(r) PROVE Inv'
<1> DEFINE how == IF run[r].warnings = {} THEN "uncached" ELSE "incomplete"
<1>1. /\ run[r].step = "built" /\ End(r, how)
      /\ UNCHANGED <<host, active, memory, disk, cacheLock, draft, register, registerLock, sheet>>
  BY DEF ReturnUncached, At, Keep, environment, cacheVars, registerVars
<1>2. ~At(r, "idle") /\ Becomes(r, Idle)
  BY <1>1 DEF At, End, Becomes
<1>3. how \in {"uncached", "incomplete"} /\ (how = "uncached" => HasRow(register, run[r].serial))
  BY <1>1 DEF Inv, Registered
<1> HIDE DEF how
<1>4. run' = [run EXCEPT ![r] = Idle] /\ run \in [Runs -> Records] /\ Idle.step = "idle"
  BY <1>2 DEF Becomes, Inv, Typed, Idle
<1>5. /\ \A e : Made(e, outcome) => Made(e, outcome')
      /\ DOMAIN outcome' = DOMAIN outcome
      /\ outcome'[run[r].serial] = how
      /\ \A n \in DOMAIN outcome : n # run[r].serial => outcome'[n] = outcome[n]
  BY <1>1, <1>2, EndsKeepOutcomes DEF End
<1>6. Typed'
  BY <1>1, <1>2, IdleIsSound, AdvanceTypes, NoLoad
<1>7. Numbered'
  BY <1>1, <1>2, EndNumbers
<1>8. Locked'
  BY <1>1, <1>4 DEF Inv, Locked, At
<1>9. Entries'
  <2>1. /\ Genuine(disk, outcome') /\ Genuine(draft.entries, outcome')
        /\ \A p \in Processes : Genuine(memory[p], outcome')
    BY <1>5, GenuineLasts DEF Inv, Entries
  <2> QED BY <1>1, <2>1 DEF Entries
<1>10. Registered'
  <2>1. \A n : HasRow(register', n) <=> HasRow(register, n)
    BY <1>1 DEF HasRow
  <2> QED BY <1>1, <1>3, <1>4, <1>5, <2>1 DEF Inv, Registered, Early
<1> QED BY <1>6, <1>7, <1>8, <1>9, <1>10 DEF Inv

LEMMA AppendedRows ==
    ASSUME NEW s \in Seq(Nat), NEW n \in Nat
    PROVE  /\ Append(s, n) \in Seq(Nat)
           /\ Len(Append(s, n)) = Len(s) + 1
           /\ DOMAIN s = 1 .. Len(s) /\ DOMAIN Append(s, n) = 1 .. Len(s) + 1
           /\ \A i \in DOMAIN s : Append(s, n)[i] = s[i]
           /\ Append(s, n)[Len(s) + 1] = n
OBVIOUS

LEMMA WriteRowKeeps == ASSUME Inv, NEW r \in Runs, WriteRow(r) PROVE Inv'
<1>1. /\ run[r].step = "row" /\ registerLock = r /\ registerLock' = Nobody /\ r # Nobody
      /\ UNCHANGED <<host, active, memory, disk, cacheLock, draft, outcome>>
  BY NobodyIsNoRun DEF WriteRow, AppendRow, AppendFails, At, Keep, environment, cacheVars
<1>2. Sound(run[r]) /\ run[r] \in Records /\ run \in [Runs -> Records]
  BY DEF Inv, Typed
<1>3. sheet = register /\ register \in Seq(Nat) /\ ~HasRow(register, run[r].serial)
  BY <1>1 DEF Inv, Locked, Registered
<1>4. PICK c : /\ Becomes(r, c) /\ Sound(c) /\ c.step = "built" /\ c.serial = run[r].serial
               /\ \/ register' = Append(register, c.serial)
                  \/ UNCHANGED register /\ c.warnings # {}
  <2>1. CASE AppendRow(r, run[r].serial) /\ Goes(r, "built")
    <3> DEFINE c == [run[r] EXCEPT !.step = "built"]
    <3>1. Sound(c) /\ c.step = "built" /\ c.serial = run[r].serial
      BY <1>2 DEF Sound, Records, Steps
    <3>2. Becomes(r, c) /\ register' = Append(register, run[r].serial)
      BY <1>3, <2>1 DEF Goes, AppendRow
    <3> QED BY <3>1, <3>2
  <2>2. CASE AppendFails(r) /\ Lacking(r, "built", "row")
    <3> DEFINE c == [run[r] EXCEPT !.step = "built", !.lacks = @ \cup {"row"}, !.warnings = @ \cup {"row"}]
    <3>1. c \in Records /\ c.warnings # {}
      BY <1>2 DEF Records, Steps, Faulty
    <3>2. /\ c.step = "built" /\ c.serial = run[r].serial /\ c.parcel = run[r].parcel
          /\ c.adjoining = run[r].adjoining /\ c.key = run[r].key
      BY <1>2 DEF Records
    <3>3. Becomes(r, c) /\ UNCHANGED register
      BY <2>2 DEF Lacking, AppendFails
    <3> HIDE DEF c
    <3>4. Sound(c)
      BY <1>2, <3>1, <3>2 DEF Sound
    <3> QED BY <3>1, <3>2, <3>3, <3>4
  <2> QED BY <2>1, <2>2 DEF WriteRow
<1>5. run' = [run EXCEPT ![r] = c]
  BY <1>4 DEF Becomes
<1>6. Typed'
  BY <1>1, <1>4, AdvanceTypes, NoLoad
<1>7. Numbered'
  BY <1>1, <1>2, <1>4, <1>5 DEF Inv, Numbered, At
<1>8. Locked'
  BY <1>1, <1>2, <1>4, <1>5 DEF Inv, Locked, At
<1>9. Entries'
  BY <1>1 DEF Inv, Entries
<1>10. Registered'
  <2>1. CASE UNCHANGED register /\ c.warnings # {}
    <3>1. \A n : HasRow(register', n) <=> HasRow(register, n)
      BY <2>1 DEF HasRow
    <3> QED BY <1>1, <1>2, <1>4, <1>5, <2>1, <3>1 DEF Inv, Registered, Early
  <2>2. CASE register' = Append(register, c.serial)
    <3> DEFINE n == c.serial
    <3>1. n = run[r].serial /\ n \in Nat /\ n \in DOMAIN outcome /\ outcome[n] = "running"
      BY <1>1, <1>2, <1>4 DEF Records, Inv, Numbered, At
    <3> HIDE DEF n
    <3>2. /\ register' \in Seq(Nat)
          /\ DOMAIN register = 1 .. Len(register) /\ DOMAIN register' = 1 .. Len(register) + 1
          /\ \A i \in DOMAIN register : register'[i] = register[i]
          /\ register'[Len(register) + 1] = n
      BY <1>3, <2>2, <3>1, AppendedRows DEF n
    <3>3. /\ DOMAIN register' = DOMAIN register \cup {Len(register) + 1}
          /\ Len(register) + 1 \notin DOMAIN register
      BY <1>3, <3>2
    <3>4. \A k : HasRow(register', k) <=> HasRow(register, k) \/ k = n
      BY <3>2, <3>3 DEF HasRow
    <3>5. \A i \in DOMAIN register' : register'[i] \in DOMAIN outcome
      BY <3>1, <3>2, <3>3 DEF Inv, Registered
    <3>6. \A i, j \in DOMAIN register' : register'[i] = register'[j] => i = j
      BY <1>3, <3>1, <3>2, <3>3 DEF Inv, Registered, HasRow
    <3>7. \A q \in Runs : run'[q].step \in Early \cup {"row"} => ~HasRow(register', run'[q].serial)
      <4> SUFFICES ASSUME NEW q \in Runs, run'[q].step \in Early \cup {"row"}
                   PROVE  ~HasRow(register', run'[q].serial)
        OBVIOUS
      <4>1. q # r /\ run'[q] = run[q]
        BY <1>2, <1>4, <1>5 DEF Early
      <4>2. run[q].serial # n
        BY <1>1, <3>1, <4>1 DEF Inv, Numbered, At, Early
      <4>3. ~HasRow(register, run[q].serial)
        BY <4>1 DEF Inv, Registered
      <4> QED BY <3>4, <4>1, <4>2, <4>3
    <3>8. \A q \in Runs : run'[q].step \in {"built", "caching"} /\ run'[q].warnings = {} => HasRow(register', run'[q].serial)
      <4> SUFFICES ASSUME NEW q \in Runs, run'[q].step \in {"built", "caching"}, run'[q].warnings = {}
                   PROVE  HasRow(register', run'[q].serial)
        OBVIOUS
      <4>1. CASE q = r
        BY <1>2, <1>5, <3>4, <4>1 DEF n
      <4>2. CASE q # r
        BY <1>2, <1>5, <3>4, <4>2 DEF Inv, Registered
      <4> QED BY <4>1, <4>2
    <3> QED BY <1>1, <3>1, <3>2, <3>4, <3>5, <3>6, <3>7, <3>8 DEF Inv, Registered
  <2> QED BY <1>4, <2>1, <2>2
<1> QED BY <1>6, <1>7, <1>8, <1>9, <1>10 DEF Inv

LEMMA StartCachingKeeps == ASSUME Inv, NEW r \in Runs, StartCaching(r) PROVE Inv'
<1> DEFINE c == [run[r] EXCEPT !.step = "caching"]
<1>1. /\ run[r].step = "built" /\ run[r].warnings = {} /\ run[r].complete
      /\ cacheLock = Nobody /\ cacheLock' = r
      /\ UNCHANGED <<host, active, memory, disk, register, registerLock, sheet, outcome>>
  BY DEF StartCaching, Cacheable, OpenCache, At, Keep, environment, registerVars
<1>2. \/ draft' = [entries |-> disk, blind |-> FALSE]
      \/ draft' = [entries |-> NoEntries, blind |-> TRUE]
  BY DEF StartCaching, OpenCache
<1>3. Sound(run[r]) /\ run[r] \in Records /\ run \in [Runs -> Records]
  BY DEF Inv, Typed
<1>4. Sound(c) /\ c.step = "caching" /\ c.serial = run[r].serial /\ c.warnings = {}
  BY <1>1, <1>3 DEF Sound, Records, Steps
<1>5. Becomes(r, c)
  BY DEF StartCaching, Goes
<1> HIDE DEF c
<1>6. run' = [run EXCEPT ![r] = c]
  BY <1>5 DEF Becomes
<1>7. Typed'
  BY <1>1, <1>4, <1>5, AdvanceTypes, NoLoad
<1>8. Numbered'
  BY <1>1, <1>3, <1>4, <1>6 DEF Inv, Numbered, At
<1>9. Locked'
  BY <1>1, <1>2, <1>3, <1>4, <1>6 DEF Inv, Locked, At
<1>10. Entries'
  <2>1. Genuine(NoEntries, outcome)
    BY DEF Genuine, NoEntries
  <2> QED BY <1>1, <1>2, <2>1 DEF Inv, Entries
<1>11. Registered'
  BY <1>1, <1>3, <1>4, <1>6 DEF Inv, Registered, Early
<1> QED BY <1>7, <1>8, <1>9, <1>10, <1>11 DEF Inv

LEMMA GenuineWith ==
    ASSUME NEW store, NEW ends, Genuine(store, ends), NEW k, NEW e, Made(e, ends), Fits(k, e)
    PROVE  Genuine(With(store, k, e), ends)
BY DEF Genuine, With

LEMMA CacheKeeps == ASSUME Inv, NEW r \in Runs, Cache(r) PROVE Inv'
<1>1. /\ run[r].step = "caching" /\ cacheLock = r /\ cacheLock' = Nobody /\ draft' = NoDraft
      /\ UNCHANGED <<host, active, register, registerLock, sheet>>
  BY DEF Cache, SaveEntry, SaveFails, At, Keep, environment, registerVars
<1>2. PICK how \in {"complete", "uncached"} :
        /\ End(r, how)
        /\ \/ how = "complete" /\ SaveEntry(r, run[r].key, EntryOf(run[r]))
           \/ SaveFails(r)
  BY DEF Cache
<1>3. Sound(run[r]) /\ run[r] \in Records /\ run \in [Runs -> Records] /\ host[r] \in Processes
  BY DEF Inv, Typed
<1>4. ~At(r, "idle") /\ Becomes(r, Idle) /\ DOMAIN memory' = Processes
  BY <1>1, <1>2 DEF At, End, Becomes, SaveEntry, SaveFails, Inv, Typed
<1>5. run' = [run EXCEPT ![r] = Idle] /\ Idle.step = "idle"
  BY <1>4 DEF Becomes, Idle
<1>6. /\ \A e : Made(e, outcome) => Made(e, outcome')
      /\ DOMAIN outcome' = DOMAIN outcome
      /\ outcome'[run[r].serial] = how
      /\ \A n \in DOMAIN outcome : n # run[r].serial => outcome'[n] = outcome[n]
  BY <1>2, <1>4, EndsKeepOutcomes DEF End
<1>7. Typed'
  BY <1>1, <1>4, IdleIsSound, AdvanceTypes
<1>8. Numbered'
  BY <1>2, <1>4, EndNumbers
<1>9. Locked'
  BY <1>1, <1>3, <1>5 DEF Inv, Locked, At
<1>10. Entries'
  <2>1. /\ Genuine(disk, outcome') /\ Genuine(draft.entries, outcome')
        /\ \A p \in Processes : Genuine(memory[p], outcome')
    BY <1>6, GenuineLasts DEF Inv, Entries
  <2>2. Genuine(NoDraft.entries, outcome')
    BY DEF Genuine, NoDraft, NoEntries
  <2>3. CASE SaveFails(r)
    BY <1>1, <2>1, <2>2, <2>3 DEF Entries, SaveFails
  <2>4. CASE how = "complete" /\ SaveEntry(r, run[r].key, EntryOf(run[r]))
    <3> DEFINE k == run[r].key
               e == EntryOf(run[r])
    <3>1. e.by = run[r].serial /\ e.lacks = run[r].lacks /\ e.parcel = run[r].parcel
          /\ e.adjoining = run[r].adjoining
      BY DEF EntryOf
    <3>2. run[r].lacks = {} /\ run[r].serial \in DOMAIN outcome
      BY <1>1, <1>3, <1>4 DEF Sound, Inv, Numbered
    <3>3. Made(e, outcome') /\ Fits(k, e)
      <4> HIDE DEF e
      <4> QED BY <1>3, <1>6, <2>4, <3>1, <3>2 DEF Made, Fits, Sound
    <3>4. disk' = With(draft.entries, k, e) /\ memory' = [memory EXCEPT ![host[r]] = disk']
      BY <2>4 DEF SaveEntry
    <3> HIDE DEF k, e
    <3>5. Genuine(disk', outcome')
      BY <2>1, <3>3, <3>4, GenuineWith
    <3>6. \A p \in Processes : memory'[p] \in {memory[p], disk'}
      BY <3>4 DEF Inv, Typed
    <3> QED BY <1>1, <2>1, <2>2, <3>5, <3>6 DEF Entries
  <2> QED BY <1>2, <2>3, <2>4
<1>11. Registered'
  <2>1. HasRow(register, run[r].serial)
    BY <1>1, <1>3 DEF Inv, Registered, Sound
  <2> QED BY <1>1, <1>2, <1>3, <1>5, <1>6, <2>1 DEF Inv, Registered, Early
<1> QED BY <1>7, <1>8, <1>9, <1>10, <1>11 DEF Inv

LEMMA ExitKeeps == ASSUME Inv, NEW p \in Processes, Exit(p) PROVE Inv'
<1>1. UNCHANGED <<host, active, disk, register, registerLock, sheet, run, outcome>>
  BY DEF Exit, ForgetCache, Keep, environment, registerVars
<1>2. DOMAIN memory' = Processes /\ \A q \in Processes : memory'[q] \in {memory[q], NoEntries}
  BY DEF Exit, ForgetCache, Inv, Typed
<1>3. ~(cacheLock \in Runs /\ host[cacheLock] = p)
  BY NobodyIsNoRun DEF Exit, RunsOf, At, Inv, Locked
<1>4. UNCHANGED <<cacheLock, draft>>
  BY <1>3 DEF Exit, ForgetCache
<1>5. Genuine(NoEntries, outcome)
  BY DEF Genuine, NoEntries
<1>6. Typed'
  BY <1>1, <1>2 DEF Inv, Typed
<1>7. Numbered' /\ Locked' /\ Registered'
  BY <1>1, <1>4 DEF Inv, Numbered, Locked, Registered, At
<1>8. Entries'
  BY <1>1, <1>2, <1>4, <1>5 DEF Inv, Entries
<1> QED BY <1>6, <1>7, <1>8 DEF Inv

LEMMA CrashKeeps == ASSUME Inv, NEW p \in Processes, Crash(p) PROVE Inv'
<1> DEFINE dead == {r \in RunsOf(p) : ~At(r, "idle")}
<1>1. /\ run' = [r \in Runs |-> IF r \in dead THEN Idle ELSE run[r]]
      /\ outcome' = [n \in DOMAIN outcome |->
                        IF \E r \in dead : run[r].serial = n THEN "crashed" ELSE outcome[n]]
      /\ UNCHANGED <<host, active, disk, register>>
      /\ ForgetCache(p) /\ ForgetRegister(p)
  BY DEF Crash, ForgetCache, ForgetRegister, Keep, environment
<1>2. /\ dead \subseteq Runs
      /\ \A r \in Runs : r \in dead <=> host[r] = p /\ run[r].step # "idle"
  BY DEF RunsOf, At
<1>3. \A r \in dead : run[r].serial \in DOMAIN outcome /\ outcome[run[r].serial] = "running"
  BY <1>2 DEF Inv, Numbered, At
<1> HIDE DEF dead
<1>4. /\ DOMAIN outcome' = DOMAIN outcome
      /\ \A n \in DOMAIN outcome : outcome'[n] = outcome[n] \/ (outcome[n] = "running" /\ outcome'[n] = "crashed")
  <2>1. DOMAIN outcome' = DOMAIN outcome
    BY <1>1
  <2>2. ASSUME NEW n \in DOMAIN outcome
        PROVE  outcome'[n] = outcome[n] \/ (outcome[n] = "running" /\ outcome'[n] = "crashed")
    <3>1. outcome'[n] = IF \E r \in dead : run[r].serial = n THEN "crashed" ELSE outcome[n]
      BY <1>1
    <3>2. CASE \E r \in dead : run[r].serial = n
      BY <1>3, <3>1, <3>2
    <3>3. CASE ~\E r \in dead : run[r].serial = n
      BY <3>1, <3>3
    <3> QED BY <3>2, <3>3
  <2> QED BY <2>1, <2>2
<1>5. /\ Idle.step = "idle" /\ run \in [Runs -> Records] /\ Idle \in Records
      /\ \A r \in Runs : Sound(run[r])
  BY IdleIsSound DEF Inv, Typed, Sound, Idle
<1>6. /\ \A r \in dead : run'[r] = Idle
      /\ \A r \in Runs \ dead : run'[r] = run[r]
  BY <1>1, <1>2
<1>7. DOMAIN memory' = Processes /\ \A q \in Processes : memory'[q] \in {memory[q], NoEntries}
  BY <1>1 DEF ForgetCache, Inv, Typed
<1>8. Typed'
  <2>1. run' \in [Runs -> Records]
    BY <1>1, <1>2, <1>5
  <2>2. \A r \in Runs : Sound(run'[r])
    BY <1>2, <1>5, <1>6, IdleIsSound
  <2> QED BY <1>1, <1>7, <2>1, <2>2 DEF Inv, Typed
<1>9. Numbered'
  <2>1. \A r \in Runs : run'[r].step # "idle" => r \notin dead /\ run'[r] = run[r]
    BY <1>2, <1>5, <1>6
  <2>2. \A r \in Runs : run'[r].step # "idle" => \A q \in dead : run[q].serial # run[r].serial
    BY <1>2, <2>1 DEF Inv, Numbered, At
  <2>3. \A r \in Runs : run'[r].step # "idle" =>
            run[r].serial \in DOMAIN outcome /\ outcome'[run[r].serial] = "running"
    BY <1>1, <2>1, <2>2 DEF Inv, Numbered, At
  <2> QED BY <1>4, <2>1, <2>3 DEF Inv, Numbered, At
<1>10. Locked'
  <2>1. \/ registerLock \in Runs /\ host[registerLock] = p /\ registerLock' = Nobody
        \/ /\ ~(registerLock \in Runs /\ host[registerLock] = p)
           /\ UNCHANGED <<registerLock, sheet>>
    BY <1>1 DEF ForgetRegister
  <2>2. \/ cacheLock \in Runs /\ host[cacheLock] = p /\ cacheLock' = Nobody
        \/ /\ ~(cacheLock \in Runs /\ host[cacheLock] = p)
           /\ UNCHANGED <<cacheLock, draft>>
    BY <1>1 DEF ForgetCache
  <2>3. registerLock' # Nobody => registerLock' \in Runs /\ run'[registerLock'].step = "row" /\ sheet' = register'
    BY <1>1, <1>2, <1>6, <2>1 DEF Inv, Locked, At
  <2>4. cacheLock' # Nobody => cacheLock' \in Runs /\ run'[cacheLock'].step = "caching"
    BY <1>2, <1>6, <2>2 DEF Inv, Locked, At
  <2>5. cacheLock' # Nobody /\ ~draft'.blind => draft'.entries = disk'
    BY <1>1, <2>2 DEF Inv, Locked
  <2> QED BY <2>3, <2>4, <2>5 DEF Locked, At
<1>11. Entries'
  <2>1. \A e : Made(e, outcome) => Made(e, outcome')
    BY <1>4 DEF Made
  <2>2. /\ Genuine(disk, outcome') /\ Genuine(draft.entries, outcome')
        /\ \A q \in Processes : Genuine(memory[q], outcome')
    BY <2>1, GenuineLasts DEF Inv, Entries
  <2>3. Genuine(NoEntries, outcome') /\ NoDraft.entries = NoEntries
    BY DEF Genuine, NoEntries, NoDraft
  <2>4. draft' \in {draft, NoDraft}
    BY <1>1 DEF ForgetCache
  <2> QED BY <1>1, <1>7, <2>2, <2>3, <2>4 DEF Entries
<1>12. Registered'
  <2>1. \A r \in Runs : run'[r].step \in Early \cup {"row", "built", "caching"} => run'[r] = run[r]
    BY <1>2, <1>5, <1>6 DEF Early
  <2> QED BY <1>1, <1>4, <2>1 DEF Inv, Registered
<1> QED BY <1>8, <1>9, <1>10, <1>11, <1>12 DEF Inv

LEMMA AroundKeeps == ASSUME Inv, Around PROVE Inv'
<1>1. ASSUME NEW store \in {"parcel", "planning"}, NEW v \in Versions, Switch(store, v)
      PROVE  Inv'
  BY <1>1 DEF Switch, cacheVars, registerVars, Inv, Typed, Numbered, Locked, Entries, Registered, At
<1>2. ASSUME NEW x \in Plots, RemoveBundle(x)
      PROVE  Inv'
  BY <1>2 DEF RemoveBundle, Keep, environment, cacheVars, registerVars,
              Inv, Typed, Numbered, Locked, Entries, Registered, At
<1> QED BY <1>1, <1>2, ExitKeeps, CrashKeeps DEF Around

LEMMA StepKeeps == ASSUME Inv, NEW r \in Runs, Step(r) PROVE Inv'
BY SelectPlanningKeeps, ReadCacheKeeps, SkipCacheKeeps, FetchParcelKeeps, ResolveAuthorityKeeps,
   ReadAroundKeeps, QueryPlanningKeeps, PlanningFailsKeeps, ScrutiniseKeeps, ArtifactsKeep,
   OpenRegisterKeeps, WriteRowKeeps, ReturnUncachedKeeps, StartCachingKeeps, CacheKeeps DEF Step

LEMMA InvStep == Inv /\ [Next]_vars => Inv'
<1> SUFFICES ASSUME Inv, [Next]_vars PROVE Inv'
  OBVIOUS
<1>1. CASE UNCHANGED vars
  BY <1>1 DEF vars, cacheVars, registerVars, Inv, Typed, Numbered, Locked, Entries, Registered, At
<1>2. CASE Next
  BY <1>2, BeginKeeps, StepKeeps, AroundKeeps DEF Next
<1> QED BY <1>1, <1>2

LEMMA InvHolds == Spec => []Inv
BY InvInit, InvStep, PTL DEF Spec

-------------------------------------------------------------------------------
(* What follows. *)

\* Whatever the runs, processes, switches and crashes, the cache holds only what its
\* lookup returned as complete, with nothing missing.
THEOREM CachedWasComplete == Spec => []CachedIsComplete
<1>1. Inv => CachedIsComplete
  BY DEF Inv, Entries, Genuine, Made, CachedIsComplete, Stores, Values
<1> QED BY <1>1, InvHolds, PTL

\* However often snapshots are switched while a report is made, a cached one shows the
\* parcel and the neighbours of the snapshot in its key.
THEOREM ParcelsDoNotCross == Spec => []OneParcelVersion
<1>1. Inv => OneParcelVersion
  BY DEF Inv, Entries, Genuine, Fits, OneParcelVersion, Stores
<1> QED BY <1>1, InvHolds, PTL

\* However many lookups rewrite the register and die while they do, each has at most
\* one row, and has one exactly when it should.
THEOREM RowsAreLookups == Spec => []EveryLookupIsRegistered
<1>1. ASSUME Inv PROVE EveryLookupIsRegistered
  <2> SUFFICES ASSUME NEW n \in DOMAIN outcome
               PROVE  /\ Cardinality(RowsOf(n)) <= 1
                      /\ outcome[n] \in {"complete", "uncached"} => RowsOf(n) # {}
                      /\ outcome[n] \in {"failed", "served"} => RowsOf(n) = {}
    BY DEF EveryLookupIsRegistered
  <2>1. \A i, j \in RowsOf(n) : i = j
    BY <1>1 DEF RowsOf, Inv, Registered
  <2>2. CASE RowsOf(n) = {}
    <3>1. Cardinality(RowsOf(n)) = 0
      BY <2>2, FS_EmptySet
    <3>2. ~HasRow(register, n)
      BY <2>2 DEF HasRow, RowsOf
    <3> QED BY <1>1, <2>2, <3>1, <3>2 DEF Inv, Registered
  <2>3. CASE RowsOf(n) # {}
    <3>1. PICK i : RowsOf(n) = {i}
      BY <2>1, <2>3
    <3>2. Cardinality(RowsOf(n)) = 1
      BY <3>1, FS_Singleton
    <3> QED BY <1>1, <2>3, <3>2 DEF HasRow, RowsOf, Inv, Registered
  <2> QED BY <2>2, <2>3
<1> QED BY <1>1, InvHolds, PTL

\* What no action does to the register: it is left, or gets a row at its end.
LEMMA RegisterGrows ==
    ASSUME Inv, [Next]_vars
    PROVE  register' = register \/ \E n \in Nat : register' = Append(register, n)
<1>1. ASSUME NEW r \in Runs, Step(r)
      PROVE  register' = register \/ \E n \in Nat : register' = Append(register, n)
  <2>1. CASE WriteRow(r)
    <3>1. run[r].serial \in Nat /\ r # Nobody
      BY NobodyIsNoRun DEF Inv, Typed, Records
    <3> QED BY <2>1, <3>1 DEF WriteRow, AppendRow, AppendFails, Inv, Locked
  <2>2. CASE ~WriteRow(r)
    BY <1>1, <2>2 DEF Step, SelectPlanning, ReadCache, SkipCache, FetchParcel, ResolveAuthority,
       ReadAround, QueryPlanning, PlanningFails, Scrutinise, ExportVectors, RenderPictures, WritePdf,
       OpenRegister, LoadRegister, ReturnUncached, StartCaching, Cache, registerVars
  <2> QED BY <2>1, <2>2
<1>2. CASE \E r \in Runs, x \in Plots, o \in Options : Begin(r, x, o[1], o[2])
  BY <1>2 DEF Begin, registerVars
<1>3. CASE Around
  BY <1>3 DEF Around, Switch, Exit, Crash, ForgetRegister, RemoveBundle, registerVars
<1>4. CASE UNCHANGED vars
  BY <1>4 DEF vars, registerVars
<1> QED BY <1>1, <1>2, <1>3, <1>4 DEF Next

\* What an action does to the cache file: nothing, or it adds to what was read under
\* the lock.
LEMMA EntriesGrow ==
    ASSUME Inv, [Next]_vars
    PROVE  DOMAIN disk \subseteq DOMAIN disk' \/ draft.blind
<1>1. ASSUME NEW r \in Runs, Step(r)
      PROVE  DOMAIN disk \subseteq DOMAIN disk' \/ draft.blind
  <2>1. CASE Cache(r)
    <3>1. r # Nobody
      BY NobodyIsNoRun
    <3> QED BY <2>1, <3>1 DEF Cache, SaveEntry, SaveFails, With, Inv, Locked
  <2>2. CASE ~Cache(r)
    BY <1>1, <2>2 DEF Step, SelectPlanning, ReadCache, Load, SkipCache, FetchParcel, ResolveAuthority,
       ReadAround, QueryPlanning, PlanningFails, Scrutinise, ExportVectors, RenderPictures, WritePdf,
       OpenRegister, WriteRow, ReturnUncached, StartCaching, OpenCache, cacheVars
  <2> QED BY <2>1, <2>2
<1>2. CASE \E r \in Runs, x \in Plots, o \in Options : Begin(r, x, o[1], o[2])
  BY <1>2 DEF Begin, cacheVars
<1>3. CASE Around
  BY <1>3 DEF Around, Switch, Exit, Crash, ForgetCache, RemoveBundle, cacheVars
<1>4. CASE UNCHANGED vars
  BY <1>4 DEF vars, cacheVars
<1> QED BY <1>1, <1>2, <1>3, <1>4 DEF Next

LEMMA AppendKeepsPrefix ==
    ASSUME NEW s \in Seq(Nat), NEW n \in Nat
    PROVE  IsPrefix(s, s) /\ IsPrefix(s, Append(s, n))
BY DEF IsPrefix

\* No writer loses what another one wrote: neither a row of the register nor an entry of
\* the cache, unless it could not read the file.
THEOREM NothingGetsLost == Spec => NothingIsLost
<1>1. Inv /\ [Next]_vars => IsPrefix(register, register')
  BY RegisterGrows, AppendKeepsPrefix DEF Inv, Registered
<1>2. Inv /\ [Next]_vars => DOMAIN disk \subseteq DOMAIN disk' \/ draft.blind
  BY EntriesGrow
<1> QED BY <1>1, <1>2, InvHolds, PTL DEF Spec, NothingIsLost, NoRowLost, NoEntryLost

\* What the inductive invariant does not say of the types.
Surroundings ==
    /\ host \in Hosts
    /\ loaded \subseteq Processes
    /\ present \in [Plots -> SUBSET Artifacts]

LEMMA SurroundingsStep ==
    ASSUME Inv, Surroundings, [Next]_vars
    PROVE  Surroundings'
<1>1. \A r \in Runs : host[r] \in Processes
  BY DEF Inv, Typed
<1>2. \A x, files \in SUBSET Artifacts :
          [present EXCEPT ![x] = @ \cup files] \in [Plots -> SUBSET Artifacts]
  BY DEF Surroundings
<1>3. ASSUME NEW r \in Runs, Step(r)
      PROVE  Surroundings'
  <2>1. UNCHANGED host
    BY <1>3 DEF Step, SelectPlanning, ReadCache, SkipCache, FetchParcel, ResolveAuthority,
       ReadAround, QueryPlanning, PlanningFails, Scrutinise, ExportVectors, RenderPictures, WritePdf,
       OpenRegister, WriteRow, ReturnUncached, StartCaching, Cache, Keep
  <2>2. loaded' \in {loaded, loaded \cup {host[r]}}
    BY <1>3 DEF Step, SelectPlanning, ReadCache, Load, SkipCache, FetchParcel, ResolveAuthority,
       ReadAround, QueryPlanning, PlanningFails, Scrutinise, ExportVectors, RenderPictures, WritePdf,
       OpenRegister, WriteRow, ReturnUncached, StartCaching, OpenCache, Cache, SaveEntry, SaveFails, cacheVars
  <2>3. \/ present' = present
        \/ \E file \in Artifacts : present' = [present EXCEPT ![run[r].key.plot] = @ \cup {file}]
    BY <1>3 DEF Step, SelectPlanning, ReadCache, SkipCache, FetchParcel, ResolveAuthority,
       ReadAround, QueryPlanning, PlanningFails, Scrutinise, ExportVectors, RenderPictures, WritePdf, Written,
       OpenRegister, WriteRow, ReturnUncached, StartCaching, Cache, Artifacts
  <2>4. present' \in [Plots -> SUBSET Artifacts]
    BY <2>3 DEF Surroundings
  <2> QED BY <1>1, <2>1, <2>2, <2>4 DEF Surroundings
<1>4. CASE \E r \in Runs, x \in Plots, o \in Options : Begin(r, x, o[1], o[2])
  BY <1>4 DEF Begin, Keep, cacheVars, Surroundings
<1>5. CASE Around
  <2>1. ASSUME NEW p \in Processes, Exit(p) \/ Crash(p)
        PROVE  Surroundings'
    BY <2>1 DEF Exit, Crash, ForgetCache, Keep, Surroundings
  <2>2. ASSUME NEW x \in Plots, RemoveBundle(x)
        PROVE  Surroundings'
    BY <2>2 DEF RemoveBundle, Keep, cacheVars, Surroundings
  <2> QED BY <1>5, <2>1, <2>2 DEF Around, Switch, cacheVars, Surroundings
<1>6. CASE UNCHANGED vars
  BY <1>6 DEF vars, cacheVars, Surroundings
<1> QED BY <1>3, <1>4, <1>5, <1>6 DEF Next

\* The lookups are numbered without a gap, each one at work has the outcome "running", a
\* lock of the cache or of the register is held by a lookup or by nobody, and the files,
\* snapshots and processes stay of their kinds.
THEOREM ReportsTypeOK == Spec => []TypeOK
<1>1. Init => Surroundings
  BY DEF Init, CacheInit, Surroundings
<1>2. Inv /\ Surroundings /\ [Next]_vars => Surroundings'
  BY SurroundingsStep
<1>3. ASSUME Inv, Surroundings
      PROVE  TypeOK
  <2>1. PICK n \in Nat : DOMAIN outcome = 1 .. n
    BY <1>3 DEF Inv, Numbered
  <2>2. Cardinality(DOMAIN outcome) = n
    BY <2>1, FS_Interval
  <2> QED BY <1>3, <2>1, <2>2 DEF Inv, Typed, Numbered, Locked, Surroundings, TypeOK
<1> QED BY <1>1, <1>2, <1>3, InvHolds, PTL DEF Spec

===============================================================================
