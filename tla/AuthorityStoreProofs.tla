------------------------- MODULE AuthorityStoreProofs -------------------------
(***************************************************************************)
(* What holds of the registry of authority documents for any number of     *)
(* operators, lookups, plots, records and edits: its history stays one,    *)
(* and no cached report survives a change of what it was resolved from.    *)
(***************************************************************************)
EXTENDS AuthorityStore, SequenceTheorems, FiniteSetTheorems, WellFoundedInduction, TLAPS

-------------------------------------------------------------------------------
(* The inductive invariant. *)

Doing == {"idle", "adding", "verifying", "withdrawing", "activating"}
Looking == Purposes \cup {"idle", "served", "report"}

\* A row of authority_records; what a version may be is not used.
Shaped(r) ==
    r \in [id : Ids, plot : Plots, type : SourceTypes, version : {r.version}, status : Statuses,
           area : Nat, rings : Nat, issued : Nat, uri : Documents, sha : Digests,
           issuer : BOOLEAN, supersedes : Nat, reviewed : Nat]
Chosen == [id : Ids, plot : Plots, purpose : Purposes, active : BOOLEAN]
Jobs == [step : Doing, items : Seq(Manifests), id : 0 .. MaxRecords, purpose : Purposes]

RegistryTyped ==
    /\ records \in Seq(Rows)
    /\ \A i \in DOMAIN records : Shaped(records[i])
    /\ selections \in Seq(Chosen)

JobsTyped ==
    /\ job \in [Operators -> Jobs]
    /\ \A p \in Operators :
          /\ job[p].step = "adding" => job[p].items # <<>>
          /\ job[p].step \in {"verifying", "withdrawing", "activating"} => job[p].id \in DOMAIN records

RegistryInv == RegistryTyped /\ JobsTyped /\ RegistryIsConsistent /\ OneActive

\* A lookup has resolved purpose u already.
Past(c, u) ==
    \/ u = "area" /\ c.step \in {"geometry", "planning", "report"}
    \/ u = "geometry" /\ c.step \in {"planning", "report"}
    \/ u = "planning" /\ c.step = "report"

\* What a lookup has resolved under a revision that still stands is what the
\* registry answers now.
Current(c) ==
    /\ c \in [step : Looking, plot : {c.plot}, revision : Nat, found : {c.found}]
    /\ c.found = [u \in Purposes |-> c.found[u]]
    /\ c.revision <= Revision
    /\ c.revision = Revision => \A u \in Purposes : Past(c, u) => c.found[u] = Resolved(c.plot, u)

\* A cached report is out of date only if its revision is.
Fresh(e) ==
    /\ e.revision \in Nat /\ e.revision <= Revision
    /\ e.revision = Revision => e.found = ResolvedNow(e.plot)

LookupInv ==
    /\ lookup = [l \in Lookups |-> lookup[l]]
    /\ \A l \in Lookups : Current(lookup[l])
    /\ \A e \in cache : Fresh(e)

Inv == RegistryInv /\ LookupInv

-------------------------------------------------------------------------------
(* Sequences of rows. *)

\* A row at the end: the earlier rows keep their places.
LEMMA AppendRow ==
    ASSUME NEW s, s \in Seq({s[i] : i \in DOMAIN s}), NEW x
    PROVE  /\ Append(s, x) \in Seq({Append(s, x)[i] : i \in DOMAIN Append(s, x)})
           /\ Len(s) \in Nat /\ DOMAIN s = 1 .. Len(s)
           /\ Len(Append(s, x)) = Len(s) + 1
           /\ DOMAIN Append(s, x) = 1 .. Len(s) + 1
           /\ \A i \in DOMAIN s : Append(s, x)[i] = s[i]
           /\ Append(s, x)[Len(s) + 1] = x
<1> DEFINE S == {s[i] : i \in DOMAIN s} \cup {x}
           t == Append(s, x)
<1>1. s \in Seq(S) /\ x \in S
  OBVIOUS
<1>2. /\ t \in Seq(S) /\ Len(t) = Len(s) + 1 /\ t[Len(s) + 1] = x
      /\ \A i \in 1 .. Len(s) : t[i] = s[i]
  BY <1>1, AppendProperties
<1>3. Len(s) \in Nat /\ DOMAIN s = 1 .. Len(s) /\ DOMAIN t = 1 .. Len(s) + 1
  BY <1>1, <1>2
<1>4. t \in Seq({t[i] : i \in DOMAIN t})
  BY <1>2, <1>3
<1> QED BY <1>2, <1>3, <1>4

\* Rows changed in place.
LEMMA ChangedRows ==
    ASSUME NEW s, s \in Seq({s[i] : i \in DOMAIN s}), NEW t,
           t = [i \in DOMAIN s |-> t[i]]
    PROVE  /\ t \in Seq({t[i] : i \in DOMAIN t})
           /\ DOMAIN t = DOMAIN s /\ Len(t) = Len(s) /\ DOMAIN s = 1 .. Len(s) /\ Len(s) \in Nat
<1>1. Len(s) \in Nat /\ DOMAIN s = 1 .. Len(s)
  OBVIOUS
<1>2. DOMAIN t = 1 .. Len(s)
  BY <1>1
<1>3. t \in [1 .. Len(s) -> {t[i] : i \in DOMAIN t}]
  BY <1>1, <1>2
<1>4. t \in Seq({t[i] : i \in DOMAIN t})
  BY <1>1, <1>3
<1> QED BY <1>1, <1>2, <1>4

-------------------------------------------------------------------------------
(* Initial states. *)

LEMMA InvInit == Init => Inv
<1> SUFFICES ASSUME Init PROVE Inv
  OBVIOUS
<1> USE DEF Init
<1>1. Len(records) = 0 /\ Len(selections) = 0 /\ DOMAIN records = {} /\ DOMAIN selections = {} /\ Rows = {}
  BY DEF Rows
<1>2. RegistryTyped
  BY <1>1 DEF RegistryTyped
<1>3. JobsTyped
  BY AuthorityBounds DEF JobsTyped, Jobs, Doing, IdleJob, Purposes
<1>4. TypeOK
  BY <1>1, AuthorityBounds DEF TypeOK, IdleJob
<1>5. RegisteredOnce /\ SupersededWasReplaced /\ OneActive
  BY <1>1 DEF RegisteredOnce, SupersededWasReplaced, OneActive
<1>6. Revision = 0
  BY <1>1 DEF Revision
<1>7. Current(IdleLookup)
  BY <1>6 DEF Current, IdleLookup, Looking, Past, NothingActive
<1>8. LookupInv
  BY <1>7 DEF LookupInv
<1> QED BY <1>2, <1>3, <1>4, <1>5, <1>8 DEF Inv, RegistryInv, RegistryIsConsistent

-------------------------------------------------------------------------------
(* Operators: which of them write, and what the revision tells.               *)

Revised == Revision' > Revision
EventsCount == Revision = lastEvent /\ lastEvent \in Nat

\* The revision is the number of the last event.
LEMMA RevisionIsEvents == RegistryInv => EventsCount
<1> SUFFICES ASSUME RegistryInv PROVE EventsCount
  OBVIOUS
<1>1. Len(selections) \in Nat /\ Len(records) \in Nat /\ Len(selections) + Len(records) <= lastEvent
  BY DEF RegistryInv, RegistryTyped, RegistryIsConsistent, TypeOK
<1>2. lastEvent \in Nat
  BY AuthorityBounds DEF RegistryInv, RegistryIsConsistent, TypeOK
<1> QED BY <1>1, <1>2 DEF Revision, EventsCount

\* The steps of an operator that write to the registry.
Writing(p) == RegisterNew(p) \/ Verify(p) \/ Withdraw(p) \/ Activate(p)

LEMMA OthersOnlyRead ==
    ASSUME NEW p \in Operators, Operate(p), ~Writing(p)
    PROVE  UNCHANGED <<registry, cache, lookup>>
BY DEF Operate, Writing, StartAdd, RegisterKnown, RegisterRefused, TestVerify, TestWithdraw, TestActivate,
   GiveUp

\* A write takes a new revision, and touches no lookup and no report.
LEMMA WritesAreRevised ==
    ASSUME EventsCount, EventsCount', NEW p \in Operators, Writing(p)
    PROVE  Revised /\ UNCHANGED <<cache, lookup>>
<1>1. lastEvent' > lastEvent /\ UNCHANGED <<cache, lookup>>
  <2>1. CASE RegisterNew(p)
    BY <2>1 DEF RegisterNew, EventsCount
  <2>2. CASE Verify(p)
    BY <2>2 DEF Verify, EventsCount
  <2>3. CASE Withdraw(p)
    BY <2>3 DEF Withdraw, EventsCount
  <2>4. CASE Activate(p)
    BY <2>4 DEF Activate, EventsCount
  <2> QED BY <2>1, <2>2, <2>3, <2>4 DEF Writing
<1> QED BY <1>1 DEF Revised, EventsCount

-------------------------------------------------------------------------------
(* Lookups.                                                                   *)

\* A write makes every resolution so far one of an older revision.
LEMMA WriteKeepsLookups ==
    ASSUME LookupInv, EventsCount, EventsCount', Revised, UNCHANGED <<cache, lookup>>
    PROVE  LookupInv'
<1>1. Revision' > Revision /\ Revision \in Nat /\ Revision' \in Nat
  BY DEF Revised, EventsCount
<1>2. ASSUME NEW l \in Lookups PROVE Current(lookup[l])'
  BY <1>1, <1>2 DEF LookupInv, Current
<1>3. ASSUME NEW e \in cache PROVE Fresh(e)'
  BY <1>1, <1>3 DEF LookupInv, Fresh
<1> QED BY <1>2, <1>3 DEF LookupInv

\* Without a write, what the registry answers stays.
LEMMA AnswersStay ==
    ASSUME UNCHANGED registry
    PROVE  /\ Revision' = Revision
           /\ \A plot, u : Resolved(plot, u)' = Resolved(plot, u)
           /\ \A plot : ResolvedNow(plot)' = ResolvedNow(plot)
BY DEF registry, Revision, Resolved, Active, Rows, ResolvedNow

\* A step that leaves the registry alone, and changes at most one lookup and
\* adds at most reports that are fresh.
LEMMA LookupMoves ==
    ASSUME LookupInv, UNCHANGED registry, NEW l \in Lookups, NEW c, Current(c),
           lookup' = [lookup EXCEPT ![l] = c],
           \A e \in cache' : e \in cache \/ Fresh(e)
    PROVE  LookupInv'
<1>1. \A k \in Lookups : Current(lookup'[k])
  BY DEF LookupInv
<1>2. \A e \in cache' : Fresh(e)
  BY DEF LookupInv
<1>3. \A k \in Lookups : Current(lookup[k])'
  BY <1>1, AnswersStay DEF Current, Past
<1>4. \A e \in cache' : Fresh(e)'
  BY <1>2, AnswersStay DEF Fresh
<1> QED BY <1>3, <1>4 DEF LookupInv

LEMMA LookupsResolve ==
    ASSUME LookupInv, EventsCount, NEW l \in Lookups, Look(l)
    PROVE  LookupInv' /\ UNCHANGED registry
<1>1. CASE ServeCached(l)
  <2>1. PICK plot \in Plots, e \in cache :
           /\ e \in Cached(Revision, plot)
           /\ lookup' = [lookup EXCEPT ![l] = [step |-> "served", plot |-> plot,
                                              revision |-> Revision, found |-> e.found]]
           /\ UNCHANGED <<registry, cache>>
    BY <1>1 DEF ServeCached
  <2>2. e.found = ResolvedNow(plot)
    BY <2>1 DEF Cached, LookupInv, Fresh
  <2> DEFINE c == [step |-> "served", plot |-> plot, revision |-> Revision, found |-> e.found]
  <2>3. Current(c)
    BY <2>2 DEF Current, Looking, Past, ResolvedNow, EventsCount
  <2> QED BY <2>1, <2>3, LookupMoves
<1>2. CASE StartLookup(l)
  <2>1. PICK plot \in Plots :
           /\ lookup' = [lookup EXCEPT ![l] = [IdleLookup EXCEPT !.step = "area", !.plot = plot,
                                                                 !.revision = Revision]]
           /\ UNCHANGED <<registry, cache>>
    BY <1>2 DEF StartLookup
  <2> DEFINE c == [IdleLookup EXCEPT !.step = "area", !.plot = plot, !.revision = Revision]
  <2>2. IdleLookup \in [step : {"idle"}, plot : {IdleLookup.plot}, revision : {0}, found : {NothingActive}]
    BY DEF IdleLookup
  <2>3. c \in [step : {"area"}, plot : {plot}, revision : {Revision}, found : {NothingActive}]
    BY <2>2
  <2> HIDE DEF c
  <2>4. Current(c)
    BY <2>3 DEF Current, Looking, Past, NothingActive, EventsCount, Purposes
  <2> QED BY <2>1, <2>4, LookupMoves DEF c
<1>3. CASE ReadActive(l)
  <2> DEFINE o == lookup[l]
             c == [o EXCEPT !.step = Following[o.step], !.found[o.step] = Resolved(o.plot, o.step)]
  <2>1. /\ o.step \in Purposes
        /\ lookup' = [lookup EXCEPT ![l] = c]
        /\ UNCHANGED <<registry, cache>>
    BY <1>3 DEF ReadActive
  <2>2. Current(o)
    BY DEF LookupInv
  <2>3. /\ c.step = Following[o.step] /\ c.plot = o.plot /\ c.revision = o.revision
        /\ c.found = [o.found EXCEPT ![o.step] = Resolved(o.plot, o.step)]
        /\ c \in [step : {c.step}, plot : {c.plot}, revision : {c.revision}, found : {c.found}]
    BY <2>2 DEF Current
  <2>4. Current(c)
    BY <2>1, <2>2, <2>3 DEF Current, Looking, Past, Following, Purposes
  <2> QED BY <2>1, <2>4, LookupMoves
<1>4. CASE SaveReport(l)
  <2> DEFINE o == lookup[l]
             e == [revision |-> o.revision, plot |-> o.plot, found |-> o.found]
  <2>1. /\ o.step = "report"
        /\ lookup' = [lookup EXCEPT ![l] = IdleLookup]
        /\ \A f \in cache' : f \in cache \/ f = e
        /\ UNCHANGED registry
    BY <1>4 DEF SaveReport
  <2>2. Current(o) /\ Current(IdleLookup)
    BY DEF LookupInv, Current, IdleLookup, Looking, Past, NothingActive, EventsCount
  <2>3. Fresh(e)
    BY <2>1, <2>2 DEF Current, Fresh, Past, Purposes, ResolvedNow
  <2> QED BY <2>1, <2>2, <2>3, LookupMoves
<1> QED BY <1>1, <1>2, <1>3, <1>4 DEF Look

-------------------------------------------------------------------------------
(* The registry. *)

\* Operators that end or take up a command, and leave the registry alone.
LEMMA IdleJobTyped ==
    /\ IdleJob \in Jobs /\ IdleJob.step = "idle" /\ IdleJob.id = 0
    /\ IdleJob \in [step : {"idle"}, items : {<<>>}, id : {0}, purpose : {"area"}]
BY AuthorityBounds DEF IdleJob, Jobs, Doing, Purposes

LEMMA ReadersKeepRegistry ==
    ASSUME RegistryInv, UNCHANGED registry, NEW p \in Operators, NEW j, j \in Jobs,
           job' = [job EXCEPT ![p] = j],
           j.step = "adding" => j.items # <<>>,
           j.step \in {"verifying", "withdrawing", "activating"} => j.id \in DOMAIN records,
           j.id # 0 => j.id \in DOMAIN records
    PROVE  RegistryInv'
<1> USE DEF registry
<1>1. RegistryTyped'
  BY DEF RegistryInv, RegistryTyped, Rows, Shaped
<1>2. JobsTyped'
  BY DEF RegistryInv, JobsTyped
<1>3. TypeOK'
  BY DEF RegistryInv, RegistryIsConsistent, TypeOK, RecordOK, JobsTyped
<1>4. (RegisteredOnce /\ SupersededWasReplaced /\ OneActive)'
  BY DEF RegistryInv, RegistryIsConsistent, RegisteredOnce, SupersededWasReplaced, OneActive, Rows, Payload
<1> QED BY <1>1, <1>2, <1>3, <1>4 DEF RegistryInv, RegistryIsConsistent

\* The command goes on to the next item, or ends.
LEMMA NextItemTyped ==
    ASSUME JobsTyped, NEW p \in Operators, job[p].step = "adding", NextItem(p)
    PROVE  \E j \in Jobs : /\ job' = [job EXCEPT ![p] = j]
                           /\ j.step = "adding" => j.items # <<>>
                           /\ j.step \in {"adding", "idle"}
                           /\ j.id \in {0, job[p].id}
<1> DEFINE o == job[p]
           j == IF Len(o.items) = 1 THEN IdleJob ELSE [o EXCEPT !.items = Tail(@)]
<1>1. o \in Jobs /\ o.items \in Seq(Manifests) /\ o.items # <<>> /\ o.step = "adding"
  BY DEF JobsTyped, Jobs
<1>2. Tail(o.items) \in Seq(Manifests) /\ Len(Tail(o.items)) = Len(o.items) - 1 /\ Len(o.items) \in Nat
  BY <1>1
<1>3. CASE Len(o.items) = 1
  BY <1>3, IdleJobTyped DEF NextItem
<1>4. CASE Len(o.items) # 1
  <2>1. Tail(o.items) # <<>>
    <3>1. Len(o.items) \in Nat \ {0}
      BY <1>1, EmptySeq
    <3>2. Len(Tail(o.items)) # 0 /\ Len(<<>>) = 0
      BY <1>2, <1>4, <3>1
    <3> QED BY <3>2
  <2>2. [o EXCEPT !.items = Tail(@)] \in Jobs
    BY <1>1, <1>2 DEF Jobs
  <2>3. [o EXCEPT !.items = Tail(@)].step = "adding" /\ [o EXCEPT !.items = Tail(@)].items = Tail(o.items)
        /\ [o EXCEPT !.items = Tail(@)].id = o.id
    BY <1>1 DEF Jobs
  <2> QED BY <1>4, <2>1, <2>2, <2>3 DEF NextItem
<1> QED BY <1>3, <1>4

LEMMA ReadsKeepRegistry ==
    ASSUME RegistryInv, NEW p \in Operators, Operate(p), ~Writing(p)
    PROVE  RegistryInv'
<1>1. UNCHANGED registry
  BY OthersOnlyRead
<1>2. JobsTyped /\ job \in [Operators -> Jobs]
  BY DEF RegistryInv, JobsTyped
<1>3. \A i \in DOMAIN records : i \in 0 .. MaxRecords
  BY AuthorityBounds DEF RegistryInv, RegistryTyped, RegistryIsConsistent, TypeOK
<1>4. CASE StartAdd(p)
  <2>1. PICK b \in Batches : job' = [job EXCEPT ![p] = [IdleJob EXCEPT !.step = "adding", !.items = b]]
    BY <1>4 DEF StartAdd
  <2>2. b \in Seq(Manifests) /\ b # <<>>
    BY AuthoritySets
  <2> DEFINE j == [IdleJob EXCEPT !.step = "adding", !.items = b]
  <2>3. j \in [step : {"adding"}, items : {b}, id : {0}, purpose : {"area"}]
    BY IdleJobTyped
  <2> HIDE DEF j
  <2>4. j \in Jobs
    BY <2>2, <2>3, AuthorityBounds DEF Jobs, Doing, Purposes
  <2> QED BY <1>1, <2>1, <2>2, <2>3, <2>4, ReadersKeepRegistry DEF j
<1>5. CASE RegisterKnown(p)
  BY <1>1, <1>2, <1>5, NextItemTyped, ReadersKeepRegistry DEF RegisterKnown, RegistryInv, RegistryIsConsistent, TypeOK
<1>6. CASE RegisterRefused(p) \/ GiveUp(p)
  BY <1>1, <1>6, IdleJobTyped, ReadersKeepRegistry DEF RegisterRefused, GiveUp
<1>7. CASE TestVerify(p) \/ TestWithdraw(p)
  <2>1. PICK i \in DOMAIN records, s \in {"verifying", "withdrawing"} :
           job' = [job EXCEPT ![p] = [IdleJob EXCEPT !.step = s, !.id = i]]
    BY <1>7 DEF TestVerify, TestWithdraw
  <2> DEFINE j == [IdleJob EXCEPT !.step = s, !.id = i]
  <2>2. j \in [step : {s}, items : {<<>>}, id : {i}, purpose : {"area"}]
    BY IdleJobTyped
  <2> HIDE DEF j
  <2>3. j \in Jobs
    BY <1>3, <2>1, <2>2, EmptySeq DEF Jobs, Doing, Purposes
  <2> QED BY <1>1, <2>1, <2>2, <2>3, ReadersKeepRegistry DEF j
<1>8. CASE TestActivate(p)
  <2>1. PICK i \in DOMAIN records, u \in Purposes :
           job' = [job EXCEPT ![p] = [IdleJob EXCEPT !.step = "activating", !.id = i, !.purpose = u]]
    BY <1>8 DEF TestActivate
  <2> DEFINE j == [IdleJob EXCEPT !.step = "activating", !.id = i, !.purpose = u]
  <2>2. j \in [step : {"activating"}, items : {<<>>}, id : {i}, purpose : {u}]
    BY IdleJobTyped
  <2> HIDE DEF j
  <2>3. j \in Jobs
    BY <1>3, <2>1, <2>2, EmptySeq DEF Jobs, Doing
  <2> QED BY <1>1, <2>1, <2>2, <2>3, ReadersKeepRegistry DEF j
<1> QED BY <1>4, <1>5, <1>6, <1>7, <1>8 DEF Operate, Writing

\* A row whose status or review changes; a review is never taken back.
Revises(a, b) ==
    /\ Shaped(a) /\ Payload(a) = Payload(b)
    /\ a.id = b.id /\ a.plot = b.plot /\ a.type = b.type /\ a.supersedes = b.supersedes
    /\ a.reviewed \in 0 .. MaxEvents
    /\ b.reviewed # 0 => a.reviewed # 0

\* A selection that stays as it is or ends.
Ends(a, b) ==
    /\ a \in Chosen /\ a.id = b.id /\ a.plot = b.plot /\ a.purpose = b.purpose
    /\ a.active => b.active

LEMMA SomeSelectionsEnd ==
    ASSUME RegistryTyped, NEW out
    PROVE  /\ Deactivated(out) \in Seq(Chosen)
           /\ DOMAIN Deactivated(out) = DOMAIN selections /\ Len(Deactivated(out)) = Len(selections)
           /\ Len(selections) \in Nat /\ DOMAIN selections = 1 .. Len(selections)
           /\ \A i \in DOMAIN selections : Ends(Deactivated(out)[i], selections[i])
           /\ \A i \in DOMAIN selections : selections[i] \in out => ~Deactivated(out)[i].active
<1>1. /\ Len(selections) \in Nat /\ DOMAIN selections = 1 .. Len(selections)
      /\ \A i \in DOMAIN selections : selections[i] \in Chosen
  BY DEF RegistryTyped
<1>2. ASSUME NEW c \in Chosen PROVE LET d == [c EXCEPT !.active = FALSE]
                                    IN  d \in Chosen /\ Ends(d, c) /\ ~d.active
  BY DEF Chosen, Ends
<1>3. \A i \in DOMAIN selections : Ends(selections[i], selections[i])
  BY <1>1 DEF Ends
<1>4. \A i \in DOMAIN selections : /\ Ends(Deactivated(out)[i], selections[i])
                                   /\ selections[i] \in out => ~Deactivated(out)[i].active
  BY <1>1, <1>2, <1>3 DEF Deactivated
<1>5. Deactivated(out) \in [1 .. Len(selections) -> Chosen]
  BY <1>1, <1>4 DEF Deactivated, Ends
<1>6. Deactivated(out) \in Seq(Chosen) /\ Len(Deactivated(out)) = Len(selections)
  BY <1>1, <1>5
<1> QED BY <1>1, <1>4, <1>5, <1>6

\* An operator's transaction that changes rows in place.
LEMMA RevisionKeepsRegistry ==
    ASSUME RegistryInv, NEW p \in Operators, job' = [job EXCEPT ![p] = IdleJob],
           records' = [i \in DOMAIN records |-> records'[i]],
           \A i \in DOMAIN records : Revises(records'[i], records[i]),
           \A i \in DOMAIN records : records'[i].status = "superseded" =>
               \/ records[i].status = "superseded"
               \/ \E k \in DOMAIN records : records[k].supersedes = i /\ records'[k].reviewed # 0,
           NEW out, selections' = Deactivated(out),
           lastEvent' \in lastEvent .. MaxEvents
    PROVE  RegistryInv'
<1> USE DEF RegistryInv, RegistryIsConsistent
<1>1. /\ records' \in Seq(Rows') /\ DOMAIN records' = DOMAIN records /\ Len(records') = Len(records)
      /\ Len(records) \in Nat /\ DOMAIN records = 1 .. Len(records)
  BY ChangedRows DEF RegistryTyped, Rows
<1>2. /\ selections' \in Seq(Chosen) /\ Len(selections') = Len(selections)
      /\ DOMAIN selections' = DOMAIN selections
      /\ Len(selections) \in Nat /\ DOMAIN selections = 1 .. Len(selections)
      /\ \A i \in DOMAIN selections : Ends(selections'[i], selections[i])
  BY SomeSelectionsEnd
<1>3. RegistryTyped'
  BY <1>1, <1>2 DEF RegistryTyped, Revises, Shaped
<1>4. JobsTyped'
  BY <1>1, IdleJobTyped DEF JobsTyped
<1>5. TypeOK'
  <2>1. \A i \in DOMAIN records : RecordOK(records'[i]) /\ records'[i].id = i
    <3> SUFFICES ASSUME NEW i \in DOMAIN records PROVE RecordOK(records'[i]) /\ records'[i].id = i
      OBVIOUS
    <3>1. RecordOK(records[i]) /\ records[i].id = i /\ Revises(records'[i], records[i])
      BY DEF TypeOK
    <3>2. records'[i].status \in Statuses
      BY <3>1 DEF Revises, Shaped
    <3> QED BY <3>1, <3>2 DEF RecordOK, Revises
  <2>2. \A i \in DOMAIN selections : /\ selections'[i].id \in DOMAIN records
                                     /\ selections'[i].purpose \in Purposes
    BY <1>2 DEF TypeOK, Ends
  <2>3. \A q \in Operators : job'[q].id # 0 => job'[q].id \in DOMAIN records
    BY IdleJobTyped DEF TypeOK, JobsTyped
  <2>4. lastEvent \in Nat /\ MaxEvents \in Nat
    BY AuthorityBounds DEF TypeOK
  <2>5. lastEvent' \in 0 .. MaxEvents /\ Len(selections) + Len(records) <= lastEvent'
    BY <2>4, <1>1, <1>2 DEF TypeOK
  <2> QED BY <1>1, <1>2, <2>1, <2>2, <2>3, <2>5 DEF TypeOK
<1>6. RegisteredOnce'
  BY <1>1 DEF RegisteredOnce, Revises
<1>7. SupersededWasReplaced'
  <2> SUFFICES ASSUME NEW i \in DOMAIN records, records'[i].status = "superseded"
               PROVE  \E s \in Rows' : s.supersedes = records'[i].id /\ s.reviewed # 0
    BY <1>1 DEF SupersededWasReplaced, Rows
  <2>1. records[i].id = i /\ records'[i].id = i
    BY DEF TypeOK, Revises
  <2>2. \E k \in DOMAIN records : records[k].supersedes = i /\ records'[k].reviewed # 0
    <3>1. CASE records[i].status = "superseded"
      <4>1. PICK k \in DOMAIN records : records[k].supersedes = i /\ records[k].reviewed # 0
        BY <3>1, <2>1 DEF SupersededWasReplaced, Rows
      <4> QED BY <4>1 DEF Revises
    <3> QED BY <3>1
  <2>3. PICK k \in DOMAIN records : records'[k].supersedes = i /\ records'[k].reviewed # 0
    BY <2>2 DEF Revises
  <2> QED BY <2>1, <2>3, <1>1 DEF Rows
<1>8. OneActive'
  BY <1>2 DEF OneActive, Ends
<1> QED BY <1>3, <1>4, <1>5, <1>6, <1>7, <1>8

\* What is known of the record that a transaction is about.
LEMMA RecordAtHand ==
    ASSUME RegistryInv, NEW i \in DOMAIN records
    PROVE  /\ Shaped(records[i]) /\ RecordOK(records[i]) /\ records[i].id = i
           /\ Revises(records[i], records[i])
           /\ lastEvent \in Nat /\ MaxEvents \in Nat
           /\ i \in 1 .. Len(records) /\ Len(records) \in Nat
BY AuthorityBounds DEF RegistryInv, RegistryIsConsistent, RegistryTyped, TypeOK, RecordOK, Revises

\* A row with another status.
LEMMA StatusRevises ==
    ASSUME RegistryInv, NEW i \in DOMAIN records, NEW s \in Statuses
    PROVE  /\ Revises([records[i] EXCEPT !.status = s], records[i])
           /\ [records[i] EXCEPT !.status = s].status = s
           /\ [records[i] EXCEPT !.status = s].reviewed = records[i].reviewed
<1> DEFINE b == records[i]
           a == [b EXCEPT !.status = s]
<1>1. Shaped(b) /\ RecordOK(b)
  BY RecordAtHand
<1>2. /\ a \in [id : {b.id}, plot : {b.plot}, type : {b.type}, version : {b.version}, status : {s},
                area : {b.area}, rings : {b.rings}, issued : {b.issued}, uri : {b.uri}, sha : {b.sha},
                issuer : {b.issuer}, supersedes : {b.supersedes}, reviewed : {b.reviewed}]
  BY <1>1 DEF Shaped
<1> HIDE DEF a
<1>3. Shaped(a)
  BY <1>1, <1>2 DEF Shaped
<1>4. Revises(a, b) /\ a.status = s /\ a.reviewed = b.reviewed
  BY <1>1, <1>2, <1>3 DEF Revises, RecordOK, Payload
<1> QED BY <1>4 DEF a

LEMMA VerifiedRevises ==
    ASSUME RegistryInv, NEW i \in DOMAIN records, MayWrite(1)
    PROVE  /\ Revises(Verified(records[i]), records[i])
           /\ Verified(records[i]).status = "verified"
           /\ Verified(records[i]).reviewed # 0
<1> DEFINE b == records[i]
           a == [b EXCEPT !.status = "verified", !.reviewed = lastEvent + 1]
<1>1. Shaped(b) /\ RecordOK(b) /\ lastEvent \in Nat /\ MaxEvents \in Nat
  BY RecordAtHand
<1>2. /\ a \in [id : {b.id}, plot : {b.plot}, type : {b.type}, version : {b.version},
                status : {"verified"}, area : {b.area}, rings : {b.rings}, issued : {b.issued},
                uri : {b.uri}, sha : {b.sha}, issuer : {b.issuer}, supersedes : {b.supersedes},
                reviewed : {lastEvent + 1}]
  BY <1>1 DEF Shaped
<1>3. lastEvent + 1 \in 0 .. MaxEvents /\ lastEvent + 1 # 0
  BY <1>1 DEF MayWrite
<1> HIDE DEF a
<1>4. Shaped(a)
  BY <1>1, <1>2, <1>3 DEF Shaped, Statuses
<1>5. Revises(a, b) /\ a.status = "verified" /\ a.reviewed # 0
  BY <1>1, <1>2, <1>3, <1>4 DEF Revises, Payload
<1> QED BY <1>5 DEF a, Verified

LEMMA VerifyKeepsRegistry ==
    ASSUME RegistryInv, NEW p \in Operators, Verify(p)
    PROVE  RegistryInv'
<1> DEFINE k == job[p].id
           r == records[k]
<1>1. k \in DOMAIN records
  BY DEF Verify, RegistryInv, JobsTyped
<1>2. /\ MayWrite(IF Displaced(r) THEN 2 ELSE 1)
      /\ lastEvent' = lastEvent + (IF Displaced(r) THEN 2 ELSE 1)
      /\ records' = [i \in DOMAIN records |->
                       IF i = r.id THEN Verified(r)
                       ELSE IF Displaced(r) /\ i = r.supersedes
                            THEN [records[i] EXCEPT !.status = "superseded"] ELSE records[i]]
      /\ selections' = Deactivated({s \in Selections : Displaced(r) /\ s.id = r.supersedes})
      /\ job' = [job EXCEPT ![p] = IdleJob]
  BY DEF Verify
<1>3. r.id = k /\ lastEvent \in Nat /\ MaxEvents \in Nat
  BY <1>1, RecordAtHand
<1>4. MayWrite(1) /\ lastEvent' \in lastEvent .. MaxEvents
  BY <1>2, <1>3 DEF MayWrite
<1>5. Revises(Verified(r), r) /\ Verified(r).status = "verified" /\ Verified(r).reviewed # 0
  BY <1>1, <1>4, VerifiedRevises
<1>6. \A i \in DOMAIN records :
         LET a == [records[i] EXCEPT !.status = "superseded"]
         IN  Revises(a, records[i]) /\ Revises(records[i], records[i])
  BY StatusRevises, RecordAtHand DEF Statuses
<1>7. \A i \in DOMAIN records : Revises(records'[i], records[i])
  BY <1>2, <1>3, <1>5, <1>6
<1>8. ASSUME NEW i \in DOMAIN records, records'[i].status = "superseded", records[i].status # "superseded"
      PROVE  records[k].supersedes = i /\ records'[k].reviewed # 0
  <2>1. i # k
    BY <1>1, <1>2, <1>3, <1>5, <1>8
  <2>2. Displaced(r) /\ i = r.supersedes
    BY <1>2, <1>3, <1>8, <2>1
  <2>3. records'[k] = Verified(r)
    BY <1>1, <1>2, <1>3
  <2> QED BY <1>5, <2>2, <2>3
<1>9. records' = [i \in DOMAIN records |-> records'[i]]
  BY <1>2
<1> HIDE DEF k, r
<1> QED BY <1>1, <1>2, <1>4, <1>7, <1>8, <1>9, RevisionKeepsRegistry

LEMMA WithdrawKeepsRegistry ==
    ASSUME RegistryInv, NEW p \in Operators, Withdraw(p)
    PROVE  RegistryInv'
<1> DEFINE k == job[p].id
<1>1. k \in DOMAIN records
  BY DEF Withdraw, RegistryInv, JobsTyped
<1>2. /\ MayWrite(1) /\ lastEvent' = lastEvent + 1
      /\ records' = [records EXCEPT ![k] = [records[k] EXCEPT !.status = "withdrawn"]]
      /\ selections' = Deactivated({s \in Selections : s.id = k})
      /\ job' = [job EXCEPT ![p] = IdleJob]
  BY DEF Withdraw
<1>3. lastEvent' \in lastEvent .. MaxEvents
  BY <1>1, <1>2, RecordAtHand DEF MayWrite
<1>4. /\ Revises([records[k] EXCEPT !.status = "withdrawn"], records[k])
      /\ [records[k] EXCEPT !.status = "withdrawn"].status = "withdrawn"
  BY <1>1, StatusRevises DEF Statuses
<1>5. records' = [i \in DOMAIN records |->
                    IF i = k THEN [records[k] EXCEPT !.status = "withdrawn"] ELSE records[i]]
  BY <1>2
<1>6. \A i \in DOMAIN records : Revises(records'[i], records[i])
  BY <1>4, <1>5, RecordAtHand
<1>7. \A i \in DOMAIN records : records'[i].status = "superseded" => records[i].status = "superseded"
  BY <1>4, <1>5
<1>8. records' = [i \in DOMAIN records |-> records'[i]]
  BY <1>5
<1> HIDE DEF k
<1> QED BY <1>2, <1>3, <1>6, <1>7, <1>8, RevisionKeepsRegistry

LEMMA RegisterKeepsRegistry ==
    ASSUME RegistryInv, NEW p \in Operators, RegisterNew(p)
    PROVE  RegistryInv'
<1> USE DEF RegistryInv, RegistryIsConsistent
<1> DEFINE m == Head(job[p].items)
           r == NewRecord(m)
           n == Len(records)
<1>1. /\ n < MaxRecords /\ MayWrite(1) /\ ~Known(m) /\ ~Refused(m)
      /\ records' = Append(records, r) /\ lastEvent' = lastEvent + 1 /\ selections' = selections
      /\ job[p].step = "adding" /\ NextItem(p)
  BY DEF RegisterNew
<1>2. m \in Manifests
  <2>1. job[p].items \in Seq(Manifests) /\ job[p].items # <<>>
    BY <1>1 DEF JobsTyped, Jobs
  <2> QED BY <2>1, HeadTailProperties
<1>3. /\ n \in Nat /\ DOMAIN records = 1 .. n /\ DOMAIN records' = 1 .. n + 1 /\ Len(records') = n + 1
      /\ records' \in Seq(Rows') /\ records'[n + 1] = r
      /\ \A i \in DOMAIN records : records'[i] = records[i]
  BY <1>1, AppendRow DEF RegistryTyped, Rows
<1>4. lastEvent \in Nat /\ MaxEvents \in Nat /\ MaxRecords \in Nat
  BY AuthorityBounds DEF TypeOK
<1>5. Rows' = Rows \cup {r}
  BY <1>3 DEF Rows
<1>6. /\ r.id = n + 1 /\ r.plot = m.plot /\ r.type = m.type /\ r.status = "registered"
      /\ r.supersedes = m.supersedes /\ r.reviewed = 0 /\ Payload(r) = Payload(m)
  BY DEF NewRecord, Payload
<1>7. /\ m.plot \in Plots /\ m.type \in SourceTypes /\ m.uri \in Documents /\ m.sha \in Digests
      /\ m.area \in Nat /\ m.rings \in Nat /\ m.issued \in Nat /\ m.issuer \in BOOLEAN
      /\ m.supersedes \in 0 .. n
  <2>1. {m.area, m.rings, m.issued, m.version, m.supersedes} \subseteq Nat
    BY <1>2, AuthoritySets
  <2>2. m.supersedes <= n
    BY <1>1, <1>3, <2>1 DEF Refused
  <2>3. /\ m.plot \in Plots /\ m.type \in SourceTypes /\ m.uri \in Documents /\ m.sha \in Digests
        /\ m.issuer \in BOOLEAN
    BY <1>2, AuthoritySets
  <2> QED BY <1>3, <2>1, <2>2, <2>3
<1>8. Shaped(r) /\ RecordOK(r)
  <2>1. Shaped(r)
    BY <1>1, <1>3, <1>4, <1>7 DEF Shaped, NewRecord, Ids, Statuses
  <2>2. r.supersedes \in 0 .. r.id - 1 /\ r.reviewed \in 0 .. MaxEvents
    BY <1>3, <1>4, <1>6, <1>7
  <2> QED BY <2>1, <2>2 DEF Shaped, RecordOK
<1> HIDE DEF r, m
<1>9. RegistryTyped'
  BY <1>1, <1>3, <1>8 DEF RegistryTyped
<1>10. JobsTyped' /\ \A q \in Operators : job'[q].id # 0 => job'[q].id \in DOMAIN records'
  <2>1. PICK j \in Jobs : /\ job' = [job EXCEPT ![p] = j]
                          /\ j.step = "adding" => j.items # <<>>
                          /\ j.step \in {"adding", "idle"}
                          /\ j.id \in {0, job[p].id}
    BY <1>1, NextItemTyped
  <2> QED BY <1>3, <2>1 DEF JobsTyped, TypeOK
<1>11. TypeOK'
  <2>1. \A i \in DOMAIN records' : RecordOK(records'[i]) /\ records'[i].id = i
    BY <1>3, <1>6, <1>8 DEF TypeOK
  <2>2. \A i \in DOMAIN selections' : /\ selections'[i].id \in DOMAIN records'
                                      /\ selections'[i].purpose \in Purposes
    BY <1>1, <1>3 DEF TypeOK
  <2>3. Len(selections) \in Nat
    BY DEF RegistryTyped
  <2>4. lastEvent' \in 0 .. MaxEvents /\ Len(selections') + Len(records') <= lastEvent'
    BY <1>1, <1>3, <1>4, <2>3 DEF TypeOK, MayWrite
  <2>5. Len(records') <= MaxRecords
    BY <1>1, <1>3, <1>4
  <2> QED BY <2>1, <2>2, <2>4, <2>5, <1>10 DEF TypeOK
<1>12. RegisteredOnce'
  <2>1. \A i \in DOMAIN records : Payload(records[i]) # Payload(r)
    BY <1>1, <1>6 DEF Known, Rows
  <2>2. \A i \in DOMAIN records' : i \in DOMAIN records \/ i = n + 1
    BY <1>3
  <2>3. \A i, j \in DOMAIN records' : Payload(records'[i]) = Payload(records'[j]) => i = j
    BY <1>3, <2>1, <2>2 DEF RegisteredOnce
  <2> QED BY <2>3 DEF RegisteredOnce, Payload
<1>13. SupersededWasReplaced'
  BY <1>5, <1>6 DEF SupersededWasReplaced
<1>14. OneActive'
  BY <1>1 DEF OneActive
<1> QED BY <1>9, <1>10, <1>11, <1>12, <1>13, <1>14

LEMMA ActivateKeepsRegistry ==
    ASSUME RegistryInv, NEW p \in Operators, Activate(p)
    PROVE  RegistryInv'
<1> USE DEF RegistryInv, RegistryIsConsistent
<1> DEFINE k == job[p].id
           u == job[p].purpose
           out == {s \in Selections : s.plot = records[k].plot /\ s.purpose = u}
           x == [id |-> records[k].id, plot |-> records[k].plot, purpose |-> u, active |-> TRUE]
           n == Len(selections)
<1>1. k \in DOMAIN records /\ u \in Purposes
  BY DEF Activate, JobsTyped, Jobs
<1>2. /\ MayWrite(1) /\ lastEvent' = lastEvent + 1 /\ records' = records
      /\ selections' = Append(Deactivated(out), x) /\ job' = [job EXCEPT ![p] = IdleJob]
  BY DEF Activate
<1>3. /\ Shaped(records[k]) /\ records[k].id = k /\ lastEvent \in Nat /\ MaxEvents \in Nat
      /\ Len(records) \in Nat
  BY <1>1, RecordAtHand
<1>4. x \in Chosen /\ x.id = k /\ x.plot = records[k].plot /\ x.purpose = u
  BY <1>1, <1>3 DEF Chosen, Shaped
<1>5. /\ Deactivated(out) \in Seq(Chosen) /\ Len(Deactivated(out)) = n
      /\ DOMAIN Deactivated(out) = DOMAIN selections
      /\ n \in Nat /\ DOMAIN selections = 1 .. n
      /\ \A i \in DOMAIN selections : Ends(Deactivated(out)[i], selections[i])
      /\ \A i \in DOMAIN selections : selections[i] \in out => ~Deactivated(out)[i].active
  BY SomeSelectionsEnd
<1>6. \A i \in DOMAIN selections :
         selections[i].plot = records[k].plot /\ selections[i].purpose = u => ~Deactivated(out)[i].active
  BY <1>5 DEF Selections
<1> HIDE DEF out, x
<1>7. /\ selections' \in Seq(Chosen) /\ Len(selections') = n + 1 /\ DOMAIN selections' = 1 .. n + 1
      /\ selections'[n + 1] = x
      /\ \A i \in DOMAIN selections : selections'[i] = Deactivated(out)[i]
  BY <1>2, <1>4, <1>5, AppendProperties
<1>8. RegistryTyped'
  BY <1>2, <1>7 DEF RegistryTyped, Rows
<1>9. JobsTyped'
  BY <1>2, IdleJobTyped DEF JobsTyped
<1>10. TypeOK'
  <2>1. \A i \in DOMAIN selections' : /\ selections'[i].id \in DOMAIN records'
                                      /\ selections'[i].purpose \in Purposes
    <3> SUFFICES ASSUME NEW i \in DOMAIN selections'
                 PROVE  selections'[i].id \in DOMAIN records /\ selections'[i].purpose \in Purposes
      BY <1>2
    <3>1. CASE i = n + 1
      BY <3>1, <1>1, <1>4, <1>7
    <3>2. CASE i \in DOMAIN selections
      BY <3>2, <1>5, <1>7 DEF TypeOK, Ends
    <3> QED BY <3>1, <3>2, <1>5, <1>7
  <2>2. lastEvent' \in 0 .. MaxEvents /\ Len(selections') + Len(records') <= lastEvent'
    BY <1>2, <1>3, <1>5, <1>7 DEF TypeOK, MayWrite
  <2>3. \A q \in Operators : job'[q].id # 0 => job'[q].id \in DOMAIN records'
    BY <1>2, IdleJobTyped DEF TypeOK, JobsTyped
  <2>4. Len(records') <= MaxRecords /\ \A i \in DOMAIN records' : RecordOK(records'[i]) /\ records'[i].id = i
    BY <1>2 DEF TypeOK
  <2> QED BY <2>1, <2>2, <2>3, <2>4 DEF TypeOK
<1>11. OneActive'
  <2> SUFFICES ASSUME NEW i \in DOMAIN selections', NEW j \in DOMAIN selections',
                      selections'[i].active, selections'[j].active,
                      selections'[i].plot = selections'[j].plot,
                      selections'[i].purpose = selections'[j].purpose
               PROVE  i = j
    BY DEF OneActive
  <2>1. i \in DOMAIN selections \/ i = n + 1
    BY <1>5, <1>7
  <2>2. j \in DOMAIN selections \/ j = n + 1
    BY <1>5, <1>7
  <2>3. CASE i \in DOMAIN selections /\ j \in DOMAIN selections
    BY <2>3, <1>5, <1>7 DEF OneActive, Ends
  <2>4. ~(i \in DOMAIN selections /\ j = n + 1)
    BY <1>4, <1>5, <1>6, <1>7 DEF Ends
  <2>5. ~(j \in DOMAIN selections /\ i = n + 1)
    BY <1>4, <1>5, <1>6, <1>7 DEF Ends
  <2> QED BY <2>1, <2>2, <2>3, <2>4, <2>5
<1>12. (RegisteredOnce /\ SupersededWasReplaced)'
  BY <1>2 DEF RegisteredOnce, SupersededWasReplaced, Rows, Payload
<1> QED BY <1>8, <1>9, <1>10, <1>11, <1>12

LEMMA WritesKeepRegistry ==
    ASSUME RegistryInv, NEW p \in Operators, Writing(p)
    PROVE  RegistryInv'
BY RegisterKeepsRegistry, VerifyKeepsRegistry, WithdrawKeepsRegistry, ActivateKeepsRegistry DEF Writing

-------------------------------------------------------------------------------
(* Every step. *)

\* A step that changes neither the registry nor a command.
LEMMA IdleKeepsRegistry ==
    ASSUME RegistryInv, UNCHANGED <<registry, job>>
    PROVE  RegistryInv'
BY DEF registry, RegistryInv, RegistryIsConsistent, RegistryTyped, JobsTyped, TypeOK, RecordOK, RegisteredOnce,
   SupersededWasReplaced, OneActive, Rows, Payload, Shaped

LEMMA RegistryStep == RegistryInv /\ LookupInv /\ [Next]_vars => RegistryInv'
<1> SUFFICES ASSUME RegistryInv, LookupInv, [Next]_vars PROVE RegistryInv'
  OBVIOUS
<1>1. ASSUME NEW p \in Operators, Operate(p) PROVE RegistryInv'
  BY <1>1, ReadsKeepRegistry, WritesKeepRegistry
<1>2. CASE EditDocument
  BY <1>2, IdleKeepsRegistry DEF EditDocument
<1>3. ASSUME NEW l \in Lookups, Look(l) PROVE RegistryInv'
  BY <1>3, IdleKeepsRegistry DEF Look, ServeCached, StartLookup, ReadActive, SaveReport
<1>4. CASE UNCHANGED vars
  BY <1>4, IdleKeepsRegistry DEF vars, registry
<1> QED BY <1>1, <1>2, <1>3, <1>4 DEF Next

LEMMA LookupStep == LookupInv /\ EventsCount /\ EventsCount' /\ [Next]_vars => LookupInv'
<1> SUFFICES ASSUME LookupInv, EventsCount, EventsCount', [Next]_vars PROVE LookupInv'
  OBVIOUS
<1>1. ASSUME UNCHANGED <<registry, cache, lookup>> PROVE LookupInv'
  BY <1>1, AnswersStay DEF LookupInv, Current, Past, Fresh
<1>2. ASSUME NEW p \in Operators, Operate(p) PROVE LookupInv'
  BY <1>1, <1>2, OthersOnlyRead, WritesAreRevised, WriteKeepsLookups
<1>3. CASE EditDocument
  BY <1>1, <1>3 DEF EditDocument
<1>4. ASSUME NEW l \in Lookups, Look(l) PROVE LookupInv'
  BY <1>4, LookupsResolve
<1>5. CASE UNCHANGED vars
  BY <1>1, <1>5 DEF vars, registry
<1> QED BY <1>2, <1>3, <1>4, <1>5 DEF Next

LEMMA InvIsInductive == Spec => []Inv
<1>1. Inv /\ [Next]_vars => Inv'
  BY RegistryStep, LookupStep, RevisionIsEvents, PTL DEF Inv
<1> QED BY <1>1, InvInit, PTL DEF Spec

\* Whatever several operators register, verify, withdraw, activate and replace
\* at the same time (authority/store.py), the registry's records have their
\* ids, events and states, no content twice, and no record is superseded
\* without a reviewed replacement.
THEOREM RegistryStaysConsistent == Spec => []RegistryIsConsistent
<1>1. Inv => RegistryIsConsistent
  BY DEF Inv, RegistryInv
<1> QED BY <1>1, InvIsInductive, PTL

\* Concurrent activations never leave two active selections of one plot for one
\* purpose (AuthorityStore.activate).
LEMMA OneActiveSelection == Spec => []OneActive
<1>1. Inv => OneActive
  BY DEF Inv, RegistryInv
<1> QED BY <1>1, InvIsInductive, PTL

\* A report that the cache serves is what the registry resolves at that moment:
\* every write to the registry takes a revision, which the cache key contains.
THEOREM ServedReportsAreCurrent == Spec => ServedIsCurrent
<1> DEFINE ServedNow == \A l \in Lookups : lookup'[l].step = "served" /\ lookup'[l] # lookup[l] =>
                         lookup'[l].found = ResolvedNow(lookup'[l].plot)
<1>1. ASSUME Inv, EventsCount, EventsCount', [Next]_vars PROVE ServedNow
  <2> SUFFICES ASSUME NEW l \in Lookups, lookup'[l].step = "served", lookup'[l] # lookup[l]
               PROVE  lookup'[l].found = ResolvedNow(lookup'[l].plot)
    OBVIOUS
  <2>1. PICK k \in Lookups : Look(k)
    BY <1>1, OthersOnlyRead, WritesAreRevised DEF Next, EditDocument, vars
  <2>2. k = l
    BY <1>1, <2>1 DEF Look, ServeCached, StartLookup, ReadActive, SaveReport, Inv, LookupInv
  <2>3. lookup = [m \in Lookups |-> lookup[m]] /\ Current(lookup[l])
    BY <1>1 DEF Inv, LookupInv
  <2>4. ~StartLookup(l)
    BY <2>3 DEF StartLookup, IdleLookup
  <2>5. ~ReadActive(l)
    BY <2>3 DEF ReadActive, Current, Following, Purposes
  <2>6. ~SaveReport(l)
    BY <2>3 DEF SaveReport, IdleLookup
  <2>7. ServeCached(l)
    BY <2>1, <2>2, <2>4, <2>5, <2>6 DEF Look
  <2>8. PICK plot \in Plots, e \in cache :
           /\ e \in Cached(Revision, plot)
           /\ lookup' = [lookup EXCEPT ![l] = [step |-> "served", plot |-> plot,
                                              revision |-> Revision, found |-> e.found]]
    BY <2>7 DEF ServeCached
  <2>9. e.found = ResolvedNow(plot)
    BY <1>1, <2>8 DEF Cached, Inv, LookupInv, Fresh
  <2> QED BY <1>1, <2>8, <2>9 DEF Inv, LookupInv
<1>2. Inv => EventsCount
  BY RevisionIsEvents DEF Inv
<1>3. QED BY <1>1, <1>2, InvIsInductive, PTL DEF Spec, ServedIsCurrent

-------------------------------------------------------------------------------
(* The recommendation. *)

\* A verified record has a review of its own: each one takes the number of its event.
ReviewsDiffer ==
    /\ \A i \in DOMAIN records :
          /\ records[i].reviewed <= lastEvent
          /\ records[i].status = "verified" => records[i].reviewed # 0
    /\ \A i, j \in DOMAIN records :
          records[i].reviewed # 0 /\ records[i].reviewed = records[j].reviewed => i = j

LEMMA ReviewsStep ==
    ASSUME RegistryInv, ReviewsDiffer, [Next]_vars
    PROVE  ReviewsDiffer'
<1>1. lastEvent \in Nat /\ \A i \in DOMAIN records : records[i].reviewed \in Nat /\ records[i].id = i
  BY AuthorityBounds, RecordAtHand DEF RegistryInv, RegistryIsConsistent, TypeOK, Shaped
<1>2. ASSUME UNCHANGED records, lastEvent' \in {lastEvent, lastEvent + 1}
      PROVE  ReviewsDiffer'
  BY <1>1, <1>2 DEF ReviewsDiffer
<1>3. ASSUME NEW p \in Operators, RegisterNew(p)
      PROVE  ReviewsDiffer'
  <2> DEFINE r == NewRecord(Head(job[p].items))
             n == Len(records)
  <2>1. records' = Append(records, r) /\ lastEvent' = lastEvent + 1
    BY <1>3 DEF RegisterNew
  <2>2. r.reviewed = 0 /\ r.status = "registered"
    BY DEF NewRecord
  <2> HIDE DEF r
  <2>3. /\ n \in Nat /\ DOMAIN records = 1 .. n /\ DOMAIN records' = 1 .. n + 1
        /\ records'[n + 1] = r
        /\ \A i \in DOMAIN records : records'[i] = records[i]
    BY <2>1, AppendRow DEF RegistryInv, RegistryTyped, Rows
  <2>4. \A i \in DOMAIN records' : i \in DOMAIN records \/ i = n + 1
    BY <2>3
  <2> QED BY <1>1, <2>1, <2>2, <2>3, <2>4 DEF ReviewsDiffer
<1>4. ASSUME NEW p \in Operators, Verify(p)
      PROVE  ReviewsDiffer'
  <2> DEFINE k == job[p].id
             r == records[k]
  <2>1. k \in DOMAIN records
    BY <1>4 DEF Verify, RegistryInv, JobsTyped
  <2>2. /\ MayWrite(1) /\ lastEvent' \in {lastEvent + 1, lastEvent + 2}
        /\ records' = [i \in DOMAIN records |->
                         IF i = r.id THEN Verified(r)
                         ELSE IF Displaced(r) /\ i = r.supersedes
                              THEN [records[i] EXCEPT !.status = "superseded"] ELSE records[i]]
    <3>1. MayWrite(IF Displaced(r) THEN 2 ELSE 1) /\ lastEvent' = lastEvent + (IF Displaced(r) THEN 2 ELSE 1)
      BY <1>4 DEF Verify
    <3>2. MaxEvents \in Nat
      BY AuthorityBounds
    <3>3. MayWrite(1)
      BY <1>1, <3>1, <3>2 DEF MayWrite
    <3> QED BY <1>1, <1>4, <3>1, <3>3 DEF Verify
  <2>3. r.id = k /\ Shaped(r)
    BY <2>1, RecordAtHand
  <2>4. Verified(r).reviewed = lastEvent + 1 /\ Verified(r).status = "verified"
    BY <2>3 DEF Verified, Shaped
  <2>5. \A i \in DOMAIN records :
           /\ [records[i] EXCEPT !.status = "superseded"].reviewed = records[i].reviewed
           /\ [records[i] EXCEPT !.status = "superseded"].status = "superseded"
    BY StatusRevises DEF Statuses
  <2>6. /\ DOMAIN records' = DOMAIN records /\ records'[k] = Verified(r)
        /\ \A i \in (DOMAIN records) \ {k} :
              /\ records'[i].reviewed = records[i].reviewed
              /\ records'[i].status = "verified" => records[i].status = "verified"
    BY <2>1, <2>2, <2>3, <2>5
  <2> HIDE DEF k, r
  <2>7. \A i \in (DOMAIN records) \ {k} : records'[i].reviewed < lastEvent + 1 /\ records'[i].reviewed \in Nat
    BY <1>1, <2>6 DEF ReviewsDiffer
  <2>8. \A i \in DOMAIN records' :
           /\ records'[i].reviewed <= lastEvent'
           /\ records'[i].status = "verified" => records'[i].reviewed # 0
    BY <1>1, <2>2, <2>4, <2>6, <2>7 DEF ReviewsDiffer
  <2>9. \A i, j \in DOMAIN records' :
          records'[i].reviewed # 0 /\ records'[i].reviewed = records'[j].reviewed => i = j
    BY <1>1, <2>4, <2>6, <2>7 DEF ReviewsDiffer
  <2> QED BY <2>8, <2>9 DEF ReviewsDiffer
<1>5. ASSUME NEW p \in Operators, Withdraw(p)
      PROVE  ReviewsDiffer'
  <2> DEFINE k == job[p].id
  <2>1. k \in DOMAIN records
    BY <1>5 DEF Withdraw, RegistryInv, JobsTyped
  <2>2. /\ lastEvent' = lastEvent + 1
        /\ records' = [records EXCEPT ![k] = [records[k] EXCEPT !.status = "withdrawn"]]
    BY <1>5 DEF Withdraw
  <2>3. /\ [records[k] EXCEPT !.status = "withdrawn"].reviewed = records[k].reviewed
        /\ [records[k] EXCEPT !.status = "withdrawn"].status = "withdrawn"
    BY <2>1, StatusRevises DEF Statuses
  <2>4. DOMAIN records' = DOMAIN records
    BY <2>2
  <2>5. \A i \in DOMAIN records : /\ records'[i].reviewed = records[i].reviewed
                                  /\ records'[i].status = "verified" => records[i].status = "verified"
    BY <2>1, <2>2, <2>3 DEF RegistryInv, RegistryTyped
  <2> HIDE DEF k
  <2> QED BY <1>1, <2>2, <2>4, <2>5 DEF ReviewsDiffer
<1>6. ASSUME NEW p \in Operators, Operate(p)
      PROVE  ReviewsDiffer'
  <2>1. CASE ~Writing(p)
    BY <1>2, <1>6, <2>1, OthersOnlyRead DEF registry
  <2>2. CASE Activate(p)
    BY <1>2, <2>2 DEF Activate
  <2> QED BY <1>3, <1>4, <1>5, <2>1, <2>2 DEF Writing
<1>7. CASE EditDocument
  BY <1>2, <1>7 DEF EditDocument, registry
<1>8. ASSUME NEW l \in Lookups, Look(l)
      PROVE  ReviewsDiffer'
  BY <1>2, <1>8 DEF Look, ServeCached, StartLookup, ReadActive, SaveReport, registry
<1>9. CASE UNCHANGED vars
  BY <1>2, <1>9 DEF vars
<1> QED BY <1>6, <1>7, <1>8, <1>9 DEF Next

LEMMA ReviewsAlwaysDiffer == Spec => [](RegistryInv /\ ReviewsDiffer)
<1>1. Init => ReviewsDiffer
  BY DEF Init, ReviewsDiffer
<1>2. Inv => RegistryInv
  BY DEF Inv
<1>3. RegistryInv /\ ReviewsDiffer /\ [Next]_vars => ReviewsDiffer'
  BY ReviewsStep
<1> QED BY <1>1, <1>2, <1>3, InvIsInductive, PTL DEF Spec

\* A set of numbers that is not empty has a least one.
LEMMA Least ==
    ASSUME NEW S \in SUBSET Nat, S # {}
    PROVE  \E m \in S : \A n \in S : m <= n
<1>1. PICK R : R = OpToRel(<, Nat)
  OBVIOUS
<1>2. \A i, j \in Nat : <<i, j>> \in R <=> i < j
  BY <1>1 DEF OpToRel
<1>3. IsWellFoundedOn(R, Nat)
  BY <1>1, NatLessThanWellFounded
<1>4. PICK m \in S : \A n \in S : ~(<<n, m>> \in R)
  BY <1>3, WFMin
<1>5. ASSUME NEW n \in S
      PROVE  m <= n
  <2>1. n \in Nat /\ m \in Nat /\ ~(<<n, m>> \in R)
    BY <1>4
  <2>2. ~(n < m)
    BY <1>2, <2>1
  <2> QED
    BY <2>1, <2>2
<1> QED
  BY <1>5

\* A finite set on which a strict order is total has exactly one element that comes
\* before every other one.  The order is the function `before` to sets of predecessors.
LEMMA OneFirst ==
    ASSUME NEW S, IsFiniteSet(S), S # {}, NEW before \in [S -> SUBSET S],
           \A r \in S : r \notin before[r],
           \A r, s, q \in S : q \in before[s] /\ s \in before[r] => q \in before[r],
           \A r, s \in S : r # s => r \in before[s] \/ s \in before[r]
    PROVE  \E r \in S : {q \in S : \A s \in S \ {q} : q \in before[s]} = {r}
<1>1. \A r \in S : IsFiniteSet(before[r]) /\ Cardinality(before[r]) \in Nat
  <2> TAKE r \in S
  <2>1. PICK T : T = before[r]
    OBVIOUS
  <2>2. T \in SUBSET S
    BY <2>1
  <2> QED BY <2>1, <2>2, FS_Subset, FS_CardinalityType
<1>4. PICK N : N = {Cardinality(before[r]) : r \in S}
  OBVIOUS
<1>5. N \in SUBSET Nat /\ N # {}
  BY <1>1, <1>4
<1>6. PICK m \in N : \A n \in N : m <= n
  BY <1>5, Least
<1>7. PICK r \in S : Cardinality(before[r]) = m
  BY <1>4, <1>6
<1>8. before[r] = {}
  <2> SUFFICES ASSUME NEW s \in before[r]
               PROVE  FALSE
    OBVIOUS
  <2>1. PICK A, B : A = before[s] /\ B = before[r]
    OBVIOUS
  <2>2. s \in S /\ A \in SUBSET B /\ A # B /\ IsFiniteSet(B)
    BY <1>1, <2>1
  <2>3. Cardinality(A) < Cardinality(B)
    BY <1>1, <2>1, <2>2, FS_Subset
  <2>4. Cardinality(A) \in N
    BY <1>4, <2>1, <2>2
  <2> QED BY <1>1, <1>5, <1>6, <1>7, <2>1, <2>2, <2>3, <2>4
<1>9. {q \in S : \A s \in S \ {q} : q \in before[s]} = {r}
  BY <1>8
<1> QED BY <1>9

\* The ranks are small numbers.
LEMMA Ranked ==
    ASSUME NEW r, r.type \in SourceTypes, NEW u \in Purposes
    PROVE  /\ Rank(r, u) \in 0 .. 110
           /\ u = "planning" /\ Rank(r, u) > 0 => r.type = "dp_remarks"
<1>1. AreaRank[r.type] \in 0 .. 110
  BY DEF AreaRank
<1>2. GeometryRank[r.type] \in 0 .. 110
  BY DEF GeometryRank
<1>3. PlanningRank[r.type] = IF r.type = "dp_remarks" THEN 100 ELSE 0
  BY DEF PlanningRank
<1> QED BY <1>1, <1>2, <1>3 DEF Rank, Purposes

\* Of records that are eligible some have the highest rank.
LEMMA TopRanked ==
    ASSUME NEW S, \A r \in S : r.type \in SourceTypes, NEW u \in Purposes, NEW plot,
           \E r \in S : Eligible(r, u, plot)
    PROVE  Top(S, u, plot) # {}
<1>1. PICK fit : fit = {r \in S : Eligible(r, u, plot)}
  OBVIOUS
<1>2. \A r \in fit : Rank(r, u) \in 0 .. 110 /\ 110 - Rank(r, u) \in Nat
  BY <1>1, Ranked
<1>5. PICK N : N = {110 - Rank(r, u) : r \in fit}
  OBVIOUS
<1>6. N \in SUBSET Nat /\ N # {}
  BY <1>1, <1>2, <1>5
<1>7. PICK m \in N : \A n \in N : m <= n
  BY <1>6, Least
<1>8. PICK r \in fit : 110 - Rank(r, u) = m
  BY <1>5, <1>7
<1>9. ASSUME NEW s \in fit
      PROVE  Rank(s, u) <= Rank(r, u)
  <2>1. 110 - Rank(r, u) <= 110 - Rank(s, u)
    BY <1>2, <1>5, <1>7, <1>8
  <2> QED BY <1>2, <2>1
<1> QED BY <1>1, <1>8, <1>9 DEF Top

\* What is eligible can be activated, unless it lacks the boundary that it is for.
LEMMA EligibleIsSuitable ==
    ASSUME NEW r, r.type \in SourceTypes, NEW u \in Purposes, NEW plot, Eligible(r, u, plot),
           u = "geometry" => r.rings # 0
    PROVE  Suitable(r, u)
BY Ranked DEF Eligible, Suitable, Serves, RecordArea, Purposes

\* Records that agree on their boundary have all none if one of them has none.
LEMMA NoOtherBoundary ==
    ASSUME NEW top, IsFiniteSet(top), ~Disagree(top, "geometry"), NEW r \in top, r.rings = 0
    PROVE  \A s \in top : s.rings = 0
<1> SUFFICES ASSUME NEW s \in top, s.rings # 0
             PROVE  FALSE
  OBVIOUS
<1>1. PICK A, B : A = {r.rings} /\ B = {q.rings : q \in top}
  OBVIOUS
<1>2. PICK f : f = [q \in top |-> q.rings]
  OBVIOUS
<1>3. f \in Surjection(top, B)
  BY <1>1, <1>2 DEF Surjection
<1>4. IsFiniteSet(B)
  BY <1>3, FS_Surjection
<1>5. A \in SUBSET B /\ A # B
  BY <1>1
<1>6. Cardinality(A) = 1 /\ Cardinality(B) \in Nat
  BY <1>1, <1>4, FS_Singleton, FS_CardinalityType
<1>7. Cardinality(A) < Cardinality(B)
  BY <1>4, <1>5, <1>6, FS_Subset
<1>8. ~(Cardinality(B) > 1)
  BY <1>1 DEF Disagree
<1> QED BY <1>6, <1>7, <1>8

\* The recommendation selects exactly one record when the eligible ones agree and none when
\* they conflict (authority/selection.py): ties cannot remain, because no two records have the
\* same review.  `sources activate` accepts what it selects (AuthorityStore.activate), unless
\* it is a boundary that no record of the highest rank has.
THEOREM RecommendationsDecide == Spec => []RecommendationDecides
<1>1. ASSUME RegistryInv, ReviewsDiffer
      PROVE  RecommendationDecides
  <2> SUFFICES ASSUME NEW plot \in Plots, NEW u \in Purposes
               PROVE  LET rec == Recommend(Rows, u, plot)
                      IN  /\ rec.conflict => rec.selected = {}
                          /\ ~rec.conflict => Cardinality(rec.selected) =
                                                (IF \E r \in Rows : Eligible(r, u, plot) THEN 1 ELSE 0)
                          /\ \A r \in rec.selected :
                                \/ Suitable(r, u)
                                \/ u = "geometry" /\ \A s \in Top(Rows, u, plot) : s.rings = 0
    BY DEF RecommendationDecides
  <2>1. PICK top : top = Top(Rows, u, plot)
    OBVIOUS
  <2>2. PICK one : one = {r \in top : \A s \in top \ {r} : Preferred(r, s)}
    OBVIOUS
  <2>3. PICK rec : rec = Recommend(Rows, u, plot)
    OBVIOUS
  <2>4. \A r \in Rows : r.type \in SourceTypes /\ r.issued \in Nat /\ r.reviewed \in Nat
    BY <1>1, RecordAtHand DEF Rows, Shaped
  <2>5. \A r \in top : r \in Rows /\ Eligible(r, u, plot)
    BY <2>1 DEF Top
  <2>6. rec.conflict => rec.selected = {}
    BY <2>3 DEF Recommend
  <2>7. ~rec.conflict => rec.selected = one
    BY <2>1, <2>2, <2>3 DEF Recommend
  <2>10. IsFiniteSet(top)
    <3>1. PICK n : n = Len(records)
      OBVIOUS
    <3>2. n \in Nat /\ DOMAIN records = 1 .. n
      BY <1>1, <3>1 DEF RegistryInv, RegistryTyped
    <3>3. IsFiniteSet(1 .. n)
      BY <3>2, FS_Interval
    <3>4. records \in Surjection(1 .. n, Rows)
      BY <1>1, <3>2 DEF RegistryInv, RegistryTyped, Rows, Surjection
    <3>5. IsFiniteSet(Rows)
      BY <3>3, <3>4, FS_Surjection
    <3>6. top \in SUBSET Rows
      BY <2>5
    <3> QED BY <3>5, <3>6, FS_Subset
  <2>8. ASSUME NEW r \in rec.selected
        PROVE  \/ Suitable(r, u)
               \/ u = "geometry" /\ \A s \in Top(Rows, u, plot) : s.rings = 0
    <3>1. r \in top /\ ~rec.conflict
      BY <2>2, <2>6, <2>7, <2>8
    <3>2. CASE u = "geometry" => r.rings # 0
      BY <2>4, <2>5, <3>1, <3>2, EligibleIsSuitable
    <3>3. CASE u = "geometry" /\ r.rings = 0
      <4>1. ~Disagree(top, "geometry")
        BY <2>1, <2>3, <3>1, <3>3 DEF Recommend
      <4>2. \A s \in top : s.rings = 0
        BY <2>10, <3>1, <3>3, <4>1, NoOtherBoundary
      <4> QED BY <2>1, <3>3, <4>2
    <3> QED BY <3>2, <3>3
  <2>9. CASE top = {}
    <3>1. ~ \E r \in Rows : Eligible(r, u, plot)
      BY <2>1, <2>4, <2>9, TopRanked
    <3>2. one = {}
      BY <2>2, <2>9
    <3> QED BY <2>3, <2>6, <2>7, <2>8, <3>1, <3>2, FS_EmptySet
  <2>11. CASE top # {}
    <3>1. \E r \in Rows : Eligible(r, u, plot)
      BY <2>5, <2>11
    <3>3. ASSUME NEW r \in top, NEW s \in top, r # s
          PROVE  r.reviewed # s.reviewed
      <4>1. PICK i \in DOMAIN records, j \in DOMAIN records : r = records[i] /\ s = records[j]
        BY <2>5 DEF Rows
      <4>2. r.status = "verified" /\ i # j
        BY <2>5, <3>3, <4>1 DEF Eligible
      <4>3. records[i].reviewed # 0
        BY <1>1, <4>1, <4>2 DEF ReviewsDiffer
      <4>4. records[i].reviewed # records[j].reviewed
        BY <1>1, <4>2, <4>3 DEF ReviewsDiffer
      <4> QED BY <4>1, <4>4
    <3>4. PICK before : before = [s \in top |-> {r \in top : r # s /\ Preferred(r, s)}]
      OBVIOUS
    <3>5. before \in [top -> SUBSET top]
      BY <3>4
    <3>6. \A r, s \in top : r \in before[s] <=>
             r.issued > s.issued \/ (r.issued = s.issued /\ r.reviewed > s.reviewed)
      BY <2>4, <2>5, <3>3, <3>4 DEF Preferred
    <3>7. /\ \A r \in top : r \notin before[r]
          /\ \A r, s, q \in top : q \in before[s] /\ s \in before[r] => q \in before[r]
          /\ \A r, s \in top : r # s => r \in before[s] \/ s \in before[r]
      BY <2>4, <2>5, <3>3, <3>6
    <3>8. PICK r \in top : {q \in top : \A s \in top \ {q} : q \in before[s]} = {r}
      BY <2>10, <2>11, <3>5, <3>7, OneFirst
    <3>9. one = {r}
      BY <2>2, <3>4, <3>8
    <3>10. Cardinality(one) = 1
      BY <3>9, FS_Singleton
    <3> QED BY <2>3, <2>6, <2>7, <2>8, <3>1, <3>10
  <2> QED BY <2>9, <2>11
<1> QED BY <1>1, ReviewsAlwaysDiffer, PTL

-------------------------------------------------------------------------------
(* What is active.  An activation tests its record and then writes; what    *)
(* the test found may have changed by then, but not all of it.              *)

\* A step revises rows; a row that is no longer verified has lost its selections.
LEMMA RowsMove ==
    ASSUME RegistryInv, [Next]_vars
    PROVE  \A i \in DOMAIN records :
              /\ i \in DOMAIN records' /\ Revises(records'[i], records[i])
              /\ records[i].status = "verified" /\ records'[i].status # "verified" =>
                    /\ DOMAIN selections' = DOMAIN selections
                    /\ \A j \in DOMAIN selections : selections[j].id = i => ~selections'[j].active
<1>1. \A i \in DOMAIN records : Revises(records[i], records[i])
  BY RecordAtHand
<1>2. CASE UNCHANGED records
  BY <1>1, <1>2
<1>3. ASSUME NEW p \in Operators, RegisterNew(p), NEW i \in DOMAIN records
      PROVE  i \in DOMAIN records' /\ records'[i] = records[i]
  <2>1. PICK r : records' = Append(records, r)
    BY <1>3 DEF RegisterNew
  <2> QED BY <2>1, AppendRow DEF RegistryInv, RegistryTyped, Rows
<1>4. ASSUME NEW p \in Operators, Verify(p), NEW i \in DOMAIN records
      PROVE  /\ i \in DOMAIN records' /\ Revises(records'[i], records[i])
             /\ records[i].status = "verified" /\ records'[i].status # "verified" =>
                   /\ DOMAIN selections' = DOMAIN selections
                   /\ \A j \in DOMAIN selections : selections[j].id = i => ~selections'[j].active
  <2>1. PICK r : r = records[job[p].id]
    OBVIOUS
  <2>2. job[p].id \in DOMAIN records /\ r.id = job[p].id /\ MayWrite(1)
    <3>1. job[p].id \in DOMAIN records
      BY <1>4 DEF Verify, RegistryInv, JobsTyped
    <3>2. MayWrite(IF Displaced(r) THEN 2 ELSE 1) /\ lastEvent \in Nat /\ MaxEvents \in Nat
      BY <1>4, <2>1, <3>1, RecordAtHand DEF Verify
    <3> QED BY <2>1, <3>1, <3>2, RecordAtHand DEF MayWrite
  <2>3. PICK out : out = {s \in Selections : Displaced(r) /\ s.id = r.supersedes}
    OBVIOUS
  <2>4. /\ records' = [k \in DOMAIN records |->
                         IF k = r.id THEN Verified(r)
                         ELSE IF Displaced(r) /\ k = r.supersedes
                              THEN [records[k] EXCEPT !.status = "superseded"] ELSE records[k]]
        /\ selections' = Deactivated(out)
    BY <1>4, <2>1, <2>3 DEF Verify
  <2>5. CASE i = r.id
    <3>1. records'[i] = Verified(r) /\ r = records[i]
      BY <2>1, <2>2, <2>4, <2>5
    <3> QED BY <2>2, <2>4, <3>1, VerifiedRevises
  <2>6. CASE i # r.id /\ Displaced(r) /\ i = r.supersedes
    <3>1. records'[i] = [records[i] EXCEPT !.status = "superseded"]
      BY <2>4, <2>6
    <3>2. Revises(records'[i], records[i])
      BY <3>1, StatusRevises DEF Statuses
    <3>3. \A j \in DOMAIN selections : selections[j].id = i => selections[j] \in out
      BY <2>3, <2>6 DEF Selections
    <3> QED BY <2>4, <3>2, <3>3, SomeSelectionsEnd DEF RegistryInv
  <2>7. CASE i # r.id /\ ~(Displaced(r) /\ i = r.supersedes)
    BY <1>1, <2>4, <2>7
  <2> QED BY <2>5, <2>6, <2>7
<1>5. ASSUME NEW p \in Operators, Withdraw(p), NEW i \in DOMAIN records
      PROVE  /\ i \in DOMAIN records' /\ Revises(records'[i], records[i])
             /\ records[i].status = "verified" /\ records'[i].status # "verified" =>
                   /\ DOMAIN selections' = DOMAIN selections
                   /\ \A j \in DOMAIN selections : selections[j].id = i => ~selections'[j].active
  <2>1. PICK k : k = job[p].id
    OBVIOUS
  <2>2. PICK out : out = {s \in Selections : s.id = k}
    OBVIOUS
  <2>3. /\ records' = [records EXCEPT ![k] = [records[k] EXCEPT !.status = "withdrawn"]]
        /\ selections' = Deactivated(out)
    BY <1>5, <2>1, <2>2 DEF Withdraw
  <2>4. CASE i = k
    <3>1. records'[i] = [records[i] EXCEPT !.status = "withdrawn"] /\ i \in DOMAIN records'
      BY <2>3, <2>4
    <3>2. Revises(records'[i], records[i])
      BY <3>1, StatusRevises DEF Statuses
    <3>3. \A j \in DOMAIN selections : selections[j].id = i => selections[j] \in out
      BY <2>2, <2>4 DEF Selections
    <3> QED BY <2>3, <3>1, <3>2, <3>3, SomeSelectionsEnd DEF RegistryInv
  <2>5. CASE i # k
    BY <1>1, <2>3, <2>5
  <2> QED BY <2>4, <2>5
<1>6. ASSUME NEW p \in Operators, Operate(p), records' # records
      PROVE  RegisterNew(p) \/ Verify(p) \/ Withdraw(p)
  BY <1>6, OthersOnlyRead DEF Writing, Activate, registry
<1>7. CASE records' # records
  <2>1. PICK p \in Operators : Operate(p)
    BY <1>7 DEF Next, EditDocument, Look, ServeCached, StartLookup, ReadActive, SaveReport, registry, vars
  <2> QED BY <1>1, <1>3, <1>4, <1>5, <1>6, <1>7, <2>1
<1> QED BY <1>2, <1>7

\* A selection is active after a step if it was before, or was just activated.
LEMMA SelectionsMove ==
    ASSUME RegistryInv, [Next]_vars, NEW j \in DOMAIN selections', selections'[j].active
    PROVE  \/ j \in DOMAIN selections /\ Ends(selections'[j], selections[j])
           \/ \E p \in Operators :
                 /\ job[p].step = "activating"
                 /\ selections'[j] = [id |-> records[job[p].id].id, plot |-> records[job[p].id].plot,
                                      purpose |-> job[p].purpose, active |-> TRUE]
                 /\ UNCHANGED records
<1>1. CASE UNCHANGED selections
  BY <1>1 DEF RegistryInv, RegistryTyped, Ends
<1>2. ASSUME NEW out, selections' = Deactivated(out)
      PROVE  j \in DOMAIN selections /\ Ends(selections'[j], selections[j])
  BY <1>2, SomeSelectionsEnd DEF RegistryInv
<1>3. ASSUME NEW p \in Operators, Activate(p)
      PROVE  \/ j \in DOMAIN selections /\ Ends(selections'[j], selections[j])
             \/ /\ job[p].step = "activating"
                /\ selections'[j] = [id |-> records[job[p].id].id, plot |-> records[job[p].id].plot,
                                     purpose |-> job[p].purpose, active |-> TRUE]
                /\ UNCHANGED records
  <2>1. PICK r : r = records[job[p].id]
    OBVIOUS
  <2>2. PICK new : new = [id |-> r.id, plot |-> r.plot, purpose |-> job[p].purpose, active |-> TRUE]
    OBVIOUS
  <2>3. PICK out : selections' = Append(Deactivated(out), new)
    BY <1>3, <2>1, <2>2 DEF Activate
  <2>4. PICK rest : rest = Deactivated(out)
    OBVIOUS
  <2>5. /\ rest \in Seq(Chosen) /\ DOMAIN rest = DOMAIN selections
        /\ \A i \in DOMAIN selections : Ends(rest[i], selections[i])
    BY <2>4, SomeSelectionsEnd DEF RegistryInv
  <2>6. rest \in Seq({rest[i] : i \in DOMAIN rest})
    <3>1. rest \in [1 .. Len(rest) -> {rest[i] : i \in DOMAIN rest}] /\ Len(rest) \in Nat
      BY <2>5
    <3> QED BY <3>1
  <2>7. /\ DOMAIN selections' = 1 .. Len(rest) + 1 /\ selections'[Len(rest) + 1] = new
        /\ \A i \in DOMAIN rest : selections'[i] = rest[i]
        /\ DOMAIN rest = 1 .. Len(rest) /\ Len(rest) \in Nat
    BY <2>3, <2>4, <2>6, AppendRow
  <2>8. CASE j \in DOMAIN rest
    BY <2>5, <2>7, <2>8
  <2>9. CASE j \notin DOMAIN rest
    <3>1. selections'[j] = new
      BY <2>7, <2>9
    <3> QED BY <1>3, <2>1, <2>2, <3>1 DEF Activate
  <2> QED BY <2>8, <2>9
<1>4. ASSUME NEW p \in Operators, Operate(p)
      PROVE  UNCHANGED selections \/ Activate(p) \/ \E out : selections' = Deactivated(out)
  BY <1>4, OthersOnlyRead DEF Writing, RegisterNew, Verify, Withdraw, registry
<1>5. UNCHANGED selections \/ \E p \in Operators : Operate(p)
  BY DEF Next, EditDocument, Look, ServeCached, StartLookup, ReadActive, SaveReport, registry, vars
<1> QED BY <1>1, <1>2, <1>3, <1>4, <1>5

\* A command that is about to activate was so before, or has just tested its record.
LEMMA JobsMove ==
    ASSUME RegistryInv, [Next]_vars, NEW p \in Operators, job'[p].step = "activating"
    PROVE  /\ ~Writing(p)
           /\ \/ job'[p] = job[p]
              \/ /\ Suitable(records[job'[p].id], job'[p].purpose)
                 /\ job'[p].id \in DOMAIN records /\ UNCHANGED registry
<1>1. job = [q \in Operators |-> job[q]]
  BY DEF RegistryInv, JobsTyped
<1>2. NextItem(p) => job'[p].step # "activating" \/ job'[p].step = job[p].step
  <2> SUFFICES ASSUME NextItem(p), job'[p].step = "activating" PROVE job[p].step = "activating"
    OBVIOUS
  <2>1. job'[p] = IF Len(job[p].items) = 1 THEN IdleJob ELSE [job[p] EXCEPT !.items = Tail(@)]
    BY <1>1 DEF NextItem
  <2>2. job[p] \in Jobs
    BY DEF RegistryInv, JobsTyped
  <2>3. job'[p] # IdleJob
    BY IdleJobTyped
  <2>4. PICK items : job'[p] = [job[p] EXCEPT !.items = items]
    BY <2>1, <2>3
  <2> QED BY <2>2, <2>4 DEF Jobs
<1>3. ~Writing(p)
  <2>1. ~RegisterNew(p)
    BY <1>2 DEF RegisterNew
  <2>2. ~(Verify(p) \/ Withdraw(p) \/ Activate(p))
    BY <1>1, IdleJobTyped DEF Verify, Withdraw, Activate
  <2> QED BY <2>1, <2>2 DEF Writing
<1>4. ASSUME NEW q \in Operators, q # p, Operate(q) PROVE job'[p] = job[p]
  BY <1>1, <1>4 DEF Operate, StartAdd, RegisterKnown, RegisterRefused, RegisterNew, NextItem, TestVerify,
     Verify, TestWithdraw, Withdraw, TestActivate, Activate, GiveUp
<1>5. ASSUME Operate(p)
      PROVE  /\ Suitable(records[job'[p].id], job'[p].purpose)
             /\ job'[p].id \in DOMAIN records /\ UNCHANGED registry
  <2>1. ~(RegisterKnown(p) \/ RegisterRefused(p) \/ GiveUp(p))
    BY <1>1, <1>2, IdleJobTyped DEF RegisterKnown, RegisterRefused, GiveUp
  <2>2. ~StartAdd(p)
    <3> SUFFICES ASSUME StartAdd(p) PROVE FALSE
      OBVIOUS
    <3>1. PICK b : job' = [job EXCEPT ![p] = [IdleJob EXCEPT !.step = "adding", !.items = b]]
      BY DEF StartAdd
    <3> QED BY <1>1, <3>1 DEF IdleJob
  <2>3. ~(TestVerify(p) \/ TestWithdraw(p))
    BY <1>1 DEF TestVerify, TestWithdraw, IdleJob
  <2>4. TestActivate(p)
    BY <1>3, <1>5, <2>1, <2>2, <2>3 DEF Operate, Writing
  <2>5. PICK i \in DOMAIN records, u \in Purposes :
          /\ Suitable(records[i], u)
          /\ job' = [job EXCEPT ![p] = [IdleJob EXCEPT !.step = "activating", !.id = i, !.purpose = u]]
    BY <2>4 DEF TestActivate
  <2>6. job'[p].id = i /\ job'[p].purpose = u
    BY <1>1, <2>5 DEF IdleJob
  <2> QED BY <2>4, <2>5, <2>6 DEF TestActivate
<1>6. (\E q \in Operators : Operate(q)) \/ UNCHANGED job
  BY DEF Next, EditDocument, Look, ServeCached, StartLookup, ReadActive, SaveReport, vars
<1> QED BY <1>3, <1>4, <1>5, <1>6

\* What the test of an activation found and no other command can take back.
EarnedInv ==
    /\ SelectedWasReviewed
    /\ \A p \in Operators : job[p].step = "activating" =>
          records[job[p].id].reviewed # 0 /\ Serves(records[job[p].id], job[p].purpose)

\* A row's review, plot and contents stay.
LEMMA RevisedServes ==
    ASSUME NEW a, NEW b, Revises(a, b), NEW u
    PROVE  /\ b.reviewed # 0 => a.reviewed # 0
           /\ a.plot = b.plot
           /\ Serves(b, u) => Serves(a, u)
BY DEF Revises, Payload, Serves

LEMMA EarnedStep ==
    ASSUME RegistryInv, ReviewsDiffer, EarnedInv, [Next]_vars
    PROVE  EarnedInv'
<1>1. \A i \in DOMAIN selections : selections[i].id \in DOMAIN records
  BY DEF RegistryInv, RegistryIsConsistent, TypeOK
<1>2. \A p \in Operators : job[p].step = "activating" => job[p].id \in DOMAIN records
  BY DEF RegistryInv, JobsTyped
<1>3. SelectedWasReviewed'
  <2> SUFFICES ASSUME NEW j \in DOMAIN selections', selections'[j].active
               PROVE  /\ records'[selections'[j].id].reviewed # 0
                      /\ records'[selections'[j].id].plot = selections'[j].plot
                      /\ Serves(records'[selections'[j].id], selections'[j].purpose)
    BY DEF SelectedWasReviewed, Serves
  <2>1. CASE j \in DOMAIN selections /\ Ends(selections'[j], selections[j])
    <3>1. /\ selections[j].active /\ selections'[j].id = selections[j].id
          /\ selections'[j].plot = selections[j].plot /\ selections'[j].purpose = selections[j].purpose
      BY <2>1 DEF Ends
    <3>2. PICK k : k = selections[j].id
      OBVIOUS
    <3>3. /\ records[k].reviewed # 0 /\ records[k].plot = selections[j].plot
          /\ Serves(records[k], selections[j].purpose)
      BY <2>1, <3>1, <3>2 DEF EarnedInv, SelectedWasReviewed
    <3>4. Revises(records'[k], records[k])
      BY <1>1, <2>1, <3>2, RowsMove
    <3> QED BY <3>1, <3>2, <3>3, <3>4, RevisedServes
  <2>2. ASSUME NEW p \in Operators, job[p].step = "activating", UNCHANGED records,
               selections'[j] = [id |-> records[job[p].id].id, plot |-> records[job[p].id].plot,
                                 purpose |-> job[p].purpose, active |-> TRUE]
        PROVE  /\ records'[selections'[j].id].reviewed # 0
               /\ records'[selections'[j].id].plot = selections'[j].plot
               /\ Serves(records'[selections'[j].id], selections'[j].purpose)
    <3>1. records[job[p].id].id = job[p].id
      BY <1>2, <2>2, RecordAtHand
    <3>2. /\ selections'[j].id = job[p].id /\ selections'[j].plot = records[job[p].id].plot
          /\ selections'[j].purpose = job[p].purpose
      BY <2>2, <3>1
    <3> QED BY <2>2, <3>2 DEF EarnedInv
  <2> QED BY <2>1, <2>2, SelectionsMove
<1>4. ASSUME NEW p \in Operators, job'[p].step = "activating"
      PROVE  records'[job'[p].id].reviewed # 0 /\ Serves(records'[job'[p].id], job'[p].purpose)
  <2>1. CASE job'[p] = job[p]
    <3>1. PICK k : k = job[p].id
      OBVIOUS
    <3>2. k \in DOMAIN records /\ records[k].reviewed # 0 /\ Serves(records[k], job[p].purpose)
      BY <1>2, <1>4, <2>1, <3>1 DEF EarnedInv
    <3>3. Revises(records'[k], records[k])
      BY <3>2, RowsMove
    <3> QED BY <2>1, <3>1, <3>2, <3>3, RevisedServes
  <2>2. CASE /\ Suitable(records[job'[p].id], job'[p].purpose)
             /\ job'[p].id \in DOMAIN records /\ UNCHANGED registry
    BY <2>2 DEF Suitable, ReviewsDiffer, registry
  <2> QED BY <1>4, <2>1, <2>2, JobsMove
<1> QED BY <1>3, <1>4 DEF EarnedInv, Serves

\* However many operators test and write in between: what is active for a purpose of a
\* plot is one record of that plot, reviewed once, that can serve the purpose
\* (authority/store.py, activate).
THEOREM SelectionsStaySound == Spec => []SelectionsAreSound
<1>1. Init => EarnedInv
  BY DEF Init, EarnedInv, SelectedWasReviewed, IdleJob
<1>2. RegistryInv /\ ReviewsDiffer /\ EarnedInv /\ [Next]_vars => EarnedInv'
  BY EarnedStep
<1>3. EarnedInv /\ OneActive => SelectionsAreSound
  BY DEF EarnedInv, SelectionsAreSound
<1> QED BY <1>1, <1>2, <1>3, ReviewsAlwaysDiffer, OneActiveSelection, PTL DEF Spec

OneOperator == \A p, q \in Operators : p = q

SuitedInv ==
    /\ SelectedIsVerified
    /\ \A p \in Operators : job[p].step = "activating" => records[job[p].id].status = "verified"

LEMMA SuitedStep ==
    ASSUME OneOperator, RegistryInv, SuitedInv, [Next]_vars
    PROVE  SuitedInv'
<1>1. \A i \in DOMAIN selections : selections[i].id \in DOMAIN records
  BY DEF RegistryInv, RegistryIsConsistent, TypeOK
<1>2. \A p \in Operators : job[p].step = "activating" => job[p].id \in DOMAIN records
  BY DEF RegistryInv, JobsTyped
<1>3. SelectedIsVerified'
  <2> SUFFICES ASSUME NEW j \in DOMAIN selections', selections'[j].active
               PROVE  /\ records'[selections'[j].id].status = "verified"
                      /\ records'[selections'[j].id].plot = selections'[j].plot
    BY DEF SelectedIsVerified
  <2>1. CASE j \in DOMAIN selections /\ Ends(selections'[j], selections[j])
    <3>1. /\ selections[j].active /\ selections'[j].id = selections[j].id
          /\ selections'[j].plot = selections[j].plot
      BY <2>1 DEF Ends
    <3>2. PICK k : k = selections[j].id
      OBVIOUS
    <3>3. records[k].status = "verified" /\ records[k].plot = selections[j].plot
      BY <2>1, <3>1, <3>2 DEF SuitedInv, SelectedIsVerified
    <3>4. Revises(records'[k], records[k]) /\ records'[k].status = "verified"
      BY <1>1, <2>1, <3>2, <3>3, RowsMove
    <3> QED BY <3>1, <3>2, <3>3, <3>4 DEF Revises
  <2>2. ASSUME NEW p \in Operators, job[p].step = "activating", UNCHANGED records,
               selections'[j] = [id |-> records[job[p].id].id, plot |-> records[job[p].id].plot,
                                 purpose |-> job[p].purpose, active |-> TRUE]
        PROVE  /\ records'[selections'[j].id].status = "verified"
               /\ records'[selections'[j].id].plot = selections'[j].plot
    <3>1. records[job[p].id].id = job[p].id
      BY <1>2, <2>2, RecordAtHand
    <3>2. selections'[j].id = job[p].id /\ selections'[j].plot = records[job[p].id].plot
      BY <2>2, <3>1
    <3> QED BY <2>2, <3>2 DEF SuitedInv
  <2> QED BY <2>1, <2>2, SelectionsMove
<1>4. ASSUME NEW p \in Operators, job'[p].step = "activating"
      PROVE  records'[job'[p].id].status = "verified"
  <2>1. ~Writing(p)
    BY <1>4, JobsMove
  <2>2. UNCHANGED registry
    <3>1. ASSUME NEW q \in Operators, Operate(q) PROVE UNCHANGED registry
      BY <2>1, <3>1, OthersOnlyRead DEF OneOperator
    <3> QED BY <3>1 DEF Next, EditDocument, Look, ServeCached, StartLookup, ReadActive, SaveReport, vars, registry
  <2> QED BY <1>4, <2>2, JobsMove DEF Suitable, SuitedInv, registry
<1> QED BY <1>3, <1>4 DEF SuitedInv

\* With one command at a time the record of every active selection is verified, as the
\* health audit demands: only an operator between the test of another one and its
\* transaction can make it otherwise (authority/store.py, activate).
THEOREM ActiveIsVerified ==
    ASSUME OneOperator
    PROVE  Spec => []SelectedIsVerified
<1>1. Init => SuitedInv
  BY DEF Init, SuitedInv, SelectedIsVerified, IdleJob
<1>2. RegistryInv /\ SuitedInv /\ [Next]_vars => SuitedInv'
  BY SuitedStep
<1>3. Inv => RegistryInv
  BY DEF Inv
<1>4. SuitedInv => SelectedIsVerified
  BY DEF SuitedInv
<1> QED BY <1>1, <1>2, <1>3, <1>4, InvIsInductive, PTL DEF Spec
===============================================================================
