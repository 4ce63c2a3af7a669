---------------------------- MODULE AuthorityStore ----------------------------
(***************************************************************************)
(* The registry of authority documents: registration, verification,        *)
(* withdrawal and explicit activation, and the lookups that resolve a      *)
(* plot's active sources and keep their reports in the result cache under  *)
(* the registry's revision.                                                *)
(*                                                                         *)
(* Each operation writes in one BEGIN IMMEDIATE transaction, but the       *)
(* status of the record (and the hash of its document) is tested before    *)
(* that transaction begins: test and write are separate steps, and         *)
(* operators in other processes run between them.                          *)
(***************************************************************************)
EXTENDS AuthoritySelection, Sequences

CONSTANTS
    Plots,          \* village/CTS identities
    Manifests,      \* the manifest items that exist, as records
    Batches,        \* the manifests `sources add` is given: sequences of items
    Documents,      \* document URIs
    LocalDocuments, \* those that name a readable local file
    Digests,        \* SHA-256 values a document may come to have (integers)
    Operators,      \* processes that run `dp-lookup-pro sources`
    Lookups,        \* processes that run a lookup
    MaxRecords,     \* bound: records
    MaxEvents,      \* bound: audit events
    MaxEdits,       \* bound: changes of a document's content
    MaxReports      \* bound: reports in the cache

ASSUME AuthoritySets ==
    /\ LocalDocuments \subseteq Documents
    /\ Digests \subseteq Nat
    /\ \A m \in Manifests : /\ m.plot \in Plots /\ m.type \in SourceTypes
                            /\ m.uri \in Documents /\ m.sha \in Digests
                            /\ {m.area, m.rings, m.issued, m.version, m.supersedes} \subseteq Nat
                            /\ m.issuer \in BOOLEAN
    /\ Batches \subseteq Seq(Manifests) \ {<<>>}
ASSUME AuthorityBounds == {MaxRecords, MaxEvents, MaxEdits, MaxReports} \subseteq Nat

Ids == 1 .. MaxRecords
Statuses == {"registered", "verified", "superseded", "withdrawn"}

VARIABLES
    document,       \* the digest of each document's content
    edits,          \* changes of documents so far
    records,        \* authority_records, in order of record_id
    selections,     \* authority_selections, in order of selection_id
    lastEvent,      \* MAX(event_id)
    job,            \* what each operator's command is doing
    cache,          \* cached reports: [revision, plot, resolution]
    lookup          \* what each lookup is doing

registry == <<records, selections, lastEvent>>
vars == <<document, edits, records, selections, lastEvent, job, cache, lookup>>

IdleJob == [step |-> "idle", items |-> <<>>, id |-> 0, purpose |-> "area"]
NothingActive == [u \in Purposes |-> NoSelection]
IdleLookup == [step |-> "idle", plot |-> CHOOSE p \in Plots : TRUE,
               revision |-> 0, found |-> NothingActive]

Init ==
    /\ document \in [Documents -> {CHOOSE d \in Digests : \A e \in Digests : d <= e}]
    /\ edits = 0
    /\ records = <<>> /\ selections = <<>> /\ lastEvent = 0
    /\ job = [p \in Operators |-> IdleJob]
    /\ cache = {}
    /\ lookup = [l \in Lookups |-> IdleLookup]

-----------------------------------------------------------------------------
(* What the registry answers                                               *)

Rows == {records[i] : i \in DOMAIN records}

Revision ==
    IF lastEvent > Len(selections) THEN lastEvent ELSE Len(selections)

\* The records that active() joins to an active selection.
Active(plot, purpose) ==
    {r \in Rows : /\ r.status = "verified"
                  /\ \E i \in DOMAIN selections :
                       /\ selections[i].active /\ selections[i].id = r.id
                       /\ selections[i].plot = plot /\ selections[i].purpose = purpose}

\* The resolver ranks the active records again, one purpose at a time.
Resolved(plot, purpose) == Recommend(Active(plot, purpose), purpose, plot)
ResolvedNow(plot) == [u \in Purposes |-> Resolved(plot, u)]

\* The record has what the purpose takes from it.
Serves(r, purpose) ==
    /\ purpose = "area" => r.area # 0 \/ r.rings # 0
    /\ purpose = "geometry" => r.rings # 0
    /\ purpose = "planning" => r.type = "dp_remarks"

Suitable(r, purpose) == r.status = "verified" /\ Serves(r, purpose)

Deactivated(out) ==
    [i \in DOMAIN selections |-> IF selections[i] \in out
                                 THEN [selections[i] EXCEPT !.active = FALSE]
                                 ELSE selections[i]]

Selections == {selections[i] : i \in DOMAIN selections}

MayWrite(events) == lastEvent + events <= MaxEvents

-----------------------------------------------------------------------------
(* sources add                                                             *)

\* The command hashes every file of the manifest before the first item.
StartAdd(p) ==
    \E b \in Batches :
        /\ job[p].step = "idle"
        /\ \A i \in DOMAIN b : b[i].uri \in LocalDocuments => document[b[i].uri] = b[i].sha
        /\ job' = [job EXCEPT ![p] = [IdleJob EXCEPT !.step = "adding", !.items = b]]
        /\ UNCHANGED <<document, edits, registry, cache, lookup>>

\* The payload that the record's checksum covers: version is not part of it.
Payload(m) == <<m.plot, m.type, m.area, m.rings, m.issued, m.uri, m.sha, m.issuer, m.supersedes>>
Known(m) == \E r \in Rows : Payload(r) = Payload(m)

SameSource(m) == {r \in Rows : r.plot = m.plot /\ r.type = m.type}

LastVersion(m) == FoldSet(LAMBDA r, v : IF r.version > v THEN r.version ELSE v, 0, SameSource(m))

VersionOf(m) == IF m.version # 0 THEN m.version ELSE LastVersion(m) + 1

Refused(m) ==
    \/ \E r \in SameSource(m) : r.version = VersionOf(m)
    \/ m.supersedes > Len(records)
    \/ m.supersedes \in DOMAIN records /\ records[m.supersedes].plot # m.plot

NextItem(p) == job' = [job EXCEPT ![p] = IF Len(job[p].items) = 1 THEN IdleJob
                                        ELSE [job[p] EXCEPT !.items = Tail(@)]]

NewRecord(m) ==
    [id |-> Len(records) + 1, plot |-> m.plot, type |-> m.type, version |-> VersionOf(m),
     status |-> "registered", area |-> m.area, rings |-> m.rings, issued |-> m.issued,
     uri |-> m.uri, sha |-> m.sha, issuer |-> m.issuer, supersedes |-> m.supersedes,
     reviewed |-> 0]

\* Registration is idempotent by the record's checksum.
RegisterKnown(p) ==
    /\ job[p].step = "adding" /\ Known(Head(job[p].items))
    /\ NextItem(p)
    /\ UNCHANGED <<document, edits, registry, cache, lookup>>

\* A refused item ends the command; items registered before it stay.
RegisterRefused(p) ==
    /\ job[p].step = "adding"
    /\ LET m == Head(job[p].items) IN ~Known(m) /\ Refused(m)
    /\ job' = [job EXCEPT ![p] = IdleJob]
    /\ UNCHANGED <<document, edits, registry, cache, lookup>>

BadRegisterNew(p) ==
    /\ job[p].step = "adding" /\ Len(records) < MaxRecords /\ MayWrite(1)
    /\ LET m == Head(job[p].items) IN
        /\ ~Refused(m)
        /\ records' = Append(records, NewRecord(m))
    /\ lastEvent' = lastEvent + 1
    /\ NextItem(p)
    /\ UNCHANGED <<document, edits, selections, cache, lookup>>

RegisterNew(p) ==
    /\ job[p].step = "adding" /\ Len(records) < MaxRecords /\ MayWrite(1)
    /\ LET m == Head(job[p].items) IN
        /\ ~Known(m) /\ ~Refused(m)
        /\ records' = Append(records, NewRecord(m))
    /\ lastEvent' = lastEvent + 1
    /\ NextItem(p)
    /\ UNCHANGED <<document, edits, selections, cache, lookup>>

-----------------------------------------------------------------------------
(* sources verify                                                          *)

Verifiable(r) ==
    /\ r.status \in {"registered", "verified"}
    /\ r.issuer
    /\ r.uri \in LocalDocuments /\ document[r.uri] = r.sha

TestVerify(p) ==
    \E i \in DOMAIN records :
        /\ job[p].step = "idle" /\ Verifiable(records[i])
        /\ job' = [job EXCEPT ![p] = [IdleJob EXCEPT !.step = "verifying", !.id = i]]
        /\ UNCHANGED <<document, edits, registry, cache, lookup>>

Displaced(r) == r.supersedes # 0 /\ records[r.supersedes].status \notin {"superseded", "withdrawn"}

Verified(r) == [r EXCEPT !.status = "verified", !.reviewed = lastEvent + 1]

\* Verifying a replacement supersedes the record it names, with its selections.
Verify(p) ==
    /\ job[p].step = "verifying"
    /\ LET r == records[job[p].id] IN
        /\ MayWrite(IF Displaced(r) THEN 2 ELSE 1)
        /\ lastEvent' = lastEvent + (IF Displaced(r) THEN 2 ELSE 1)
        /\ records' = [i \in DOMAIN records |->
                         IF i = r.id THEN Verified(r)
                         ELSE IF Displaced(r) /\ i = r.supersedes
                              THEN [records[i] EXCEPT !.status = "superseded"] ELSE records[i]]
        /\ selections' = Deactivated({s \in Selections : Displaced(r) /\ s.id = r.supersedes})
    /\ job' = [job EXCEPT ![p] = IdleJob]
    /\ UNCHANGED <<document, edits, cache, lookup>>

-----------------------------------------------------------------------------
(* sources withdraw                                                        *)

TestWithdraw(p) ==
    \E i \in DOMAIN records :
        /\ job[p].step = "idle" /\ records[i].status # "withdrawn"
        /\ job' = [job EXCEPT ![p] = [IdleJob EXCEPT !.step = "withdrawing", !.id = i]]
        /\ UNCHANGED <<document, edits, registry, cache, lookup>>

BadWithdraw(p) ==
    /\ job[p].step = "withdrawing" /\ MayWrite(1)
    /\ records' = [records EXCEPT ![job[p].id].status = "withdrawn"]
    /\ selections' = Deactivated({s \in Selections : s.id = job[p].id})
    /\ lastEvent' = lastEvent
    /\ job' = [job EXCEPT ![p] = IdleJob]
    /\ UNCHANGED <<document, edits, cache, lookup>>

Withdraw(p) ==
    /\ job[p].step = "withdrawing" /\ MayWrite(1)
    /\ records' = [records EXCEPT ![job[p].id].status = "withdrawn"]
    /\ selections' = Deactivated({s \in Selections : s.id = job[p].id})
    /\ lastEvent' = lastEvent + 1
    /\ job' = [job EXCEPT ![p] = IdleJob]
    /\ UNCHANGED <<document, edits, cache, lookup>>

-----------------------------------------------------------------------------
(* sources activate                                                        *)

\* Mutant: any record that can serve the purpose is accepted, verified or not.
BadTestActivate(p) ==
    \E i \in DOMAIN records, purpose \in Purposes :
        /\ job[p].step = "idle" /\ Serves(records[i], purpose)
        /\ job' = [job EXCEPT ![p] = [IdleJob EXCEPT !.step = "activating", !.id = i,
                                                      !.purpose = purpose]]
        /\ UNCHANGED <<document, edits, registry, cache, lookup>>

TestActivate(p) ==
    \E i \in DOMAIN records, purpose \in Purposes :
        /\ job[p].step = "idle" /\ Suitable(records[i], purpose)
        /\ job' = [job EXCEPT ![p] = [IdleJob EXCEPT !.step = "activating", !.id = i,
                                                      !.purpose = purpose]]
        /\ UNCHANGED <<document, edits, registry, cache, lookup>>

Activate(p) ==
    /\ job[p].step = "activating" /\ MayWrite(1)
    /\ LET r == records[job[p].id] IN
        selections' = Append(Deactivated({s \in Selections : s.plot = r.plot /\ s.purpose = job[p].purpose}),
                             [id |-> r.id, plot |-> r.plot, purpose |-> job[p].purpose, active |-> TRUE])
    /\ lastEvent' = lastEvent + 1
    /\ job' = [job EXCEPT ![p] = IdleJob]
    /\ UNCHANGED <<document, edits, records, cache, lookup>>

\* The process dies, or waits too long for the write lock, before its
\* transaction commits.
GiveUp(p) ==
    /\ job[p].step # "idle"
    /\ job' = [job EXCEPT ![p] = IdleJob]
    /\ UNCHANGED <<document, edits, registry, cache, lookup>>

\* Somebody edits a document file.
EditDocument ==
    \E u \in LocalDocuments, d \in Digests :
        /\ edits < MaxEdits /\ document[u] # d
        /\ document' = [document EXCEPT ![u] = d]
        /\ edits' = edits + 1
        /\ UNCHANGED <<registry, job, cache, lookup>>

-----------------------------------------------------------------------------
(* Lookups                                                                 *)

Cached(revision, plot) == {e \in cache : e.revision = revision /\ e.plot = plot}

\* The revision is part of the cache key, which is made before anything is read.
ServeCached(l) ==
    \E plot \in Plots, e \in cache :
        /\ lookup[l].step = "idle"
        /\ e \in Cached(Revision, plot)
        /\ lookup' = [lookup EXCEPT ![l] = [step |-> "served", plot |-> plot,
                                            revision |-> Revision, found |-> e.found]]
        /\ UNCHANGED <<document, edits, registry, job, cache>>

StartLookup(l) ==
    \E plot \in Plots :
        /\ lookup[l].step \in {"idle", "served"}
        /\ Cached(Revision, plot) = {} /\ Cardinality(cache) < MaxReports
        /\ lookup' = [lookup EXCEPT ![l] = [IdleLookup EXCEPT !.step = "area", !.plot = plot,
                                                               !.revision = Revision]]
        /\ UNCHANGED <<document, edits, registry, job, cache>>

Following == [area |-> "geometry", geometry |-> "planning", planning |-> "report"]

\* resolve() asks for the three purposes one after the other.
ReadActive(l) ==
    LET u == lookup[l].step IN
    /\ u \in Purposes
    /\ lookup' = [lookup EXCEPT ![l].step = Following[u],
                                ![l].found[u] = Resolved(lookup[l].plot, u)]
    /\ UNCHANGED <<document, edits, registry, job, cache>>

SaveReport(l) ==
    /\ lookup[l].step = "report"
    /\ cache' = (cache \ Cached(lookup[l].revision, lookup[l].plot))
                  \cup {[revision |-> lookup[l].revision, plot |-> lookup[l].plot,
                         found |-> lookup[l].found]}
    /\ lookup' = [lookup EXCEPT ![l] = IdleLookup]
    /\ UNCHANGED <<document, edits, registry, job>>

Operate(p) ==
    \/ StartAdd(p) \/ RegisterKnown(p) \/ RegisterRefused(p) \/ RegisterNew(p)
    \/ TestVerify(p) \/ Verify(p)
    \/ TestWithdraw(p) \/ Withdraw(p)
    \/ TestActivate(p) \/ Activate(p)
    \/ GiveUp(p)

Look(l) == ServeCached(l) \/ StartLookup(l) \/ ReadActive(l) \/ SaveReport(l)

Next ==
    \/ \E p \in Operators : Operate(p)
    \/ EditDocument
    \/ \E l \in Lookups : Look(l)

Spec == Init /\ [][Next]_vars

-----------------------------------------------------------------------------
(* Properties                                                              *)

RecordOK(r) ==
    /\ r.id \in Ids /\ r.plot \in Plots /\ r.type \in SourceTypes
    /\ r.status \in Statuses /\ r.reviewed \in 0 .. MaxEvents
    /\ r.supersedes \in 0 .. r.id - 1

\* The type invariant: ids are positions, a record replaces an older one, each
\* record and each selection has its event, jobs point at records.
TypeOK ==
    /\ Len(records) <= MaxRecords
    /\ \A i \in DOMAIN records : RecordOK(records[i]) /\ records[i].id = i
    /\ \A i \in DOMAIN selections : /\ selections[i].id \in DOMAIN records
                                    /\ selections[i].purpose \in Purposes
    /\ lastEvent \in 0 .. MaxEvents /\ Len(selections) + Len(records) <= lastEvent
    /\ \A p \in Operators : job[p].id # 0 => job[p].id \in DOMAIN records

\* A record that was withdrawn or superseded is never verified again.
OutIsFinal ==
    [][\A i \in DOMAIN records :
          records[i].status \in {"withdrawn", "superseded"} => records'[i].status # "verified"]_vars

\* A plot has at most one active selection for a purpose, whoever activates.
OneActive ==
    \A i, j \in DOMAIN selections :
        /\ selections[i].active /\ selections[j].active
        /\ selections[i].plot = selections[j].plot
        /\ selections[i].purpose = selections[j].purpose
        => i = j

\* The record of every active selection is verified and of its plot: the health
\* audit calls any other one invalid, and critical.
SelectedIsVerified ==
    \A i \in DOMAIN selections : selections[i].active =>
        LET r == records[selections[i].id]
        IN  r.status = "verified" /\ r.plot = selections[i].plot

\* However tests and transactions of several operators interleave, what is active for
\* a plot is a record of that plot that was reviewed once and can serve the purpose.
SelectedWasReviewed ==
    \A i \in DOMAIN selections : selections[i].active =>
        LET r == records[selections[i].id]
        IN  r.reviewed # 0 /\ r.plot = selections[i].plot /\ Serves(r, selections[i].purpose)

\* Whoever activates, and however the tests and transactions of several operators
\* interleave: what is active for a purpose of a plot is one record, it is of that
\* plot, it can serve the purpose, and it was reviewed.
SelectionsAreSound == OneActive /\ SelectedWasReviewed

\* However often, and by however many commands, a manifest item is added, one
\* record has its content.
RegisteredOnce ==
    \A i, j \in DOMAIN records : Payload(records[i]) = Payload(records[j]) => i = j

\* A superseded record is named by a replacement that was verified.
SupersededWasReplaced ==
    \A r \in Rows : r.status = "superseded" =>
        \E s \in Rows : s.supersedes = r.id /\ s.reviewed # 0

\* What several operators register, verify and replace at the same time stays one
\* history of each source: neither a second record of it nor one that is superseded by none.
RegistryIsConsistent == TypeOK /\ RegisteredOnce /\ SupersededWasReplaced

\* A report served from the cache resolves the plot's sources as they are
\* active now: no change of a selection or of a status leaves the revision
\* in the cache key as it was.
ServedIsCurrent ==
    [][\A l \in Lookups :
          lookup'[l].step = "served" /\ lookup'[l] # lookup[l] =>
              lookup'[l].found = ResolvedNow(lookup'[l].plot)]_vars

\* A recommendation selects exactly one record when the eligible ones agree and
\* none when they conflict.  `sources activate` accepts what it selects, except
\* for "geometry" where none of the records of the highest rank has a boundary:
\* one that has none is never preferred to one that has.
RecommendationDecides ==
    \A plot \in Plots, u \in Purposes :
        LET rec == Recommend(Rows, u, plot)
        IN  /\ rec.conflict => rec.selected = {}
            /\ ~rec.conflict => Cardinality(rec.selected) =
                                  (IF \E r \in Rows : Eligible(r, u, plot) THEN 1 ELSE 0)
            /\ \A r \in rec.selected :
                  \/ Suitable(r, u)
                  \/ u = "geometry" /\ \A s \in Top(Rows, u, plot) : s.rings = 0

===============================================================================
