------------------------- MODULE LookupEvidenceProofs -------------------------
(***************************************************************************)
(* The evidence of a lookup, for every set of layers, probes and stores and  *)
(* for tasks that run at the same time.  The inductive invariant has a part   *)
(* for the requests and one for each task; a task's part is disturbed by its  *)
(* own steps only, because the requests of the tasks differ in their kind.    *)
(***************************************************************************)
EXTENDS LookupEvidence, FiniteSetTheorems, WellFoundedInduction, TLAPS

PlanningRequests == LayerRequests \cup {Identify}
ScrutinyRequests == {LayerRequest(l) : l \in AllLayers}

States == {"unsent", "queued", "sent"} \cup Outcomes

Findings == Roads \cup Plots \cup AllLayers \cup Features \cup [layer : Layers, coded : BOOLEAN]

Records == [state : States, attempts : 0 .. MaxAttempts, found : SUBSET Findings]

RequestTyped == request \in [Requests -> Records]

SlotsHeld == \A pool \in DOMAIN Slots : Cardinality(InFlight(pool)) <= Slots[pool]

\* The requests of a task that are under way go on; the others stay as they are.
Moves(rs) ==
    \A r \in rs :
        \/ request'[r] = request[r]
        \/ request[r].state \in {"queued", "sent"} /\ request'[r].state # "unsent"

Fresh(rs) == \A r \in rs : request[r].state = "unsent"

\* No answer is outstanding.
Settled(rs) == \A r \in rs : request[r].state \in {"unsent"} \cup Outcomes

-----------------------------------------------------------------------------
(* The inductive invariant                                                 *)

RequestsInv == RequestTyped /\ SlotsHeld

PlanningSteps == {"start", "asked", "decide", "done", "failed"}

Sources == [from : {"none", "local", "live", "error"}, fallback : BOOLEAN, stale : BOOLEAN]

\* Only a request that was answered has found something, and a layer only what is there.
FoundOnGround ==
    /\ \A r \in PlanningRequests : request[r].state # "answered" => request[r].found = {}
    /\ \A l \in Layers : request[<<"layer", l>>].found \subseteq ground[l]

\* What the decision will be taken from: nothing is outstanding, a snapshot that is
\* not declared stale is fresh, and what was found is on the ground.
PlanningInv ==
    /\ mode \in Modes /\ ground \in Grounds /\ encloses \in BOOLEAN
    /\ planning \in PlanningSteps /\ source \in Sources
    /\ planning = "start" => Fresh(PlanningRequests)
    /\ planning \in {"decide", "done", "failed"} => Settled(PlanningRequests)
    /\ source.from = "local" /\ ~source.stale => store = "fresh"
    /\ FoundOnGround
    /\ planning = "done" => decision.badge \in Badges /\ decision.percent \in 0 .. 100
    /\ ConfirmedIsEarned /\ AnsweredIsListed /\ NothingKnownIsAnError

RoadIsRead ==
    /\ road.state = "not_present" => \A r \in nearRoads : r.distance > Reach
    /\ road.state = "confirmed" => \E r \in nearRoads : r.named \/ r.wide

\* What the probes have found is near the parcel, and what a store has said is so
\* from the moment it was read.
AbuttingInv ==
    /\ nearRoads \in SUBSET Roads /\ nearPlots \in SUBSET Plots
    /\ roadStore \in BOOLEAN /\ plotStore \in BOOLEAN
    /\ abutting \in {"start", "asked", "done"}
    /\ \A r \in RoadRequests : request[r].found \subseteq nearRoads
    /\ abutting # "start" /\ roadStore => RoadIsRead
    /\ abutting = "done" => Settled(RoadRequests \cup PlotRequests)
    /\ FailureIsNotAbsence

\* What was asked in the rounds so far; a layer of the second round is left out only
\* where its trigger was answered, or failed, without a finding.
ScrutinyInv ==
    /\ scrutiny \in {"start", "first", "second", "done"}
    /\ profile \in Profiles
    /\ \A l \in AllLayers :
          /\ request[LayerRequest(l)].found \subseteq {l} \cap there
          /\ request[LayerRequest(l)].state = "answered" => request[LayerRequest(l)].found = {l} \cap there
    /\ scrutiny = "start" => Fresh(ScrutinyRequests)
    /\ scrutiny # "done" => report = NoReport
    /\ scrutiny \in {"first", "second"} => profile # "basic"
    /\ scrutiny = "first" => Round = LayersOf(profile)
    /\ scrutiny = "second" =>
          /\ LayersOf(profile) \subseteq Round
          /\ Round \subseteq LayersOf(profile) \cup ConditionalLayers
          /\ \A l \in LayersOf(profile) : request[LayerRequest(l)].state \in Outcomes
          /\ profile = "full" => \A l \in ConditionalLayers \ Round : request[LayerRequest(Trigger[l])].found = {}
    /\ ScrutinyIsHonest

Inv == RequestsInv /\ PlanningInv /\ AbuttingInv /\ ScrutinyInv

-----------------------------------------------------------------------------
(* The requests                                                            *)

\* A record is typed by its fields.
LEMMA RecordTyped ==
    ASSUME NEW state \in States, NEW attempts \in 0 .. MaxAttempts, NEW found \in SUBSET Findings
    PROVE  [state |-> state, attempts |-> attempts, found |-> found] \in Records
BY DEF Records

\* Each task has its own requests.
LEMMA RequestsOfTasks ==
    /\ PlanningRequests \subseteq Requests /\ RoadRequests \subseteq Requests
    /\ PlotRequests \subseteq Requests /\ ScrutinyRequests \subseteq Requests
    /\ PlanningRequests \cap (RoadRequests \cup PlotRequests \cup ScrutinyRequests) = {}
    /\ RoadRequests \cap (PlotRequests \cup ScrutinyRequests) = {}
    /\ PlotRequests \cap ScrutinyRequests = {}
<1>1. \A r \in PlanningRequests : Kind(r) \in {"layer", "identify"}
  BY DEF PlanningRequests, LayerRequests, Identify, Kind
<1>2. \A r \in RoadRequests : Kind(r) = "road"
  BY DEF RoadRequests, Kind
<1>3. \A r \in PlotRequests : Kind(r) = "plot"
  BY DEF PlotRequests, Kind
<1>4. \A r \in ScrutinyRequests : Kind(r) = "scrutiny"
  BY DEF ScrutinyRequests, LayerRequest, Kind
<1> QED
  BY <1>1, <1>2, <1>3, <1>4, LookupRequests DEF PlanningRequests, ScrutinyRequests

\* The requests in flight are finitely many.
LEMMA InFlightFinite == \A pool : IsFiniteSet(InFlight(pool)) /\ Cardinality(InFlight(pool)) \in Nat
<1> TAKE pool
<1>1. InFlight(pool) \in SUBSET Requests
  BY DEF InFlight
<1> QED
  BY <1>1, LookupRequests, FS_Subset, FS_CardinalityType

\* When no further request of a pool gets in flight, its slots suffice.
LEMMA FewerInFlight ==
    ASSUME RequestTyped, SlotsHeld, NEW pool \in DOMAIN Slots,
           InFlight(pool)' \subseteq InFlight(pool)
    PROVE  Cardinality(InFlight(pool)') <= Slots[pool]
<1>1. PICK S : S = InFlight(pool)
  OBVIOUS
<1>2. PICK T : T = InFlight(pool)'
  OBVIOUS
<1>3. IsFiniteSet(S) /\ Cardinality(S) \in Nat /\ T \in SUBSET S
  BY <1>1, <1>2, InFlightFinite
<1>4. Cardinality(T) <= Cardinality(S) /\ Cardinality(T) \in Nat
  BY <1>3, FS_Subset, FS_CardinalityType
<1>5. Cardinality(S) <= Slots[pool] /\ Slots[pool] \in Nat
  BY <1>1, RetryPolicy DEF SlotsHeld
<1> QED
  BY <1>2, <1>3, <1>4, <1>5

\* Sending requests leaves the others alone, and takes no slot.
LEMMA Sending ==
    ASSUME RequestTyped, SlotsHeld, NEW rs, request' = Sent(rs)
    PROVE  /\ RequestTyped' /\ SlotsHeld'
           /\ \A r \in Requests \ rs : request'[r] = request[r]
           /\ \A r \in Requests \cap rs : request'[r].state \in {"queued", "sent"} /\ request'[r].found = {}
<1>1. ASSUME NEW r \in Requests \cap rs
      PROVE  /\ request'[r].state = IF Limited(r) THEN "queued" ELSE "sent"
             /\ request'[r].found = {}
             /\ request'[r] \in Records
  <2>1. request'[r] = IF Limited(r)
                      THEN [state |-> "queued", attempts |-> 0, found |-> {}]
                      ELSE [state |-> "sent", attempts |-> 1, found |-> {}]
    <3>1. [Unsent EXCEPT !.state = "queued"] = [state |-> "queued", attempts |-> 0, found |-> {}]
      BY DEF Unsent
    <3>2. [Unsent EXCEPT !.state = "sent", !.attempts = 1] = [state |-> "sent", attempts |-> 1, found |-> {}]
      <4>1. PICK one : one = [Unsent EXCEPT !.state = "sent", !.attempts = 1]
        OBVIOUS
      <4>2. one = [state |-> "sent", attempts |-> 1, found |-> {}]
        BY <4>1 DEF Unsent
      <4> QED
        BY <4>1, <4>2
    <3>3. request'[r] = IF Limited(r) THEN [Unsent EXCEPT !.state = "queued"]
                        ELSE [Unsent EXCEPT !.state = "sent", !.attempts = 1]
      BY DEF Sent
    <3> QED
      BY <3>1, <3>2, <3>3
  <2>2. 0 \in 0 .. MaxAttempts /\ 1 \in 0 .. MaxAttempts
    BY RetryPolicy
  <2>3. "queued" \in States /\ "sent" \in States /\ {} \in SUBSET Findings
    BY DEF States
  <2>4. request'[r] \in Records
    BY <2>1, <2>2, <2>3, RecordTyped
  <2> QED
    BY <2>1, <2>4
<1>2. \A r \in Requests \ rs : request'[r] = request[r]
  BY DEF Sent
<1>3. RequestTyped'
  <2>1. \A r \in Requests :
          request'[r] \in Records
    BY <1>1, <1>2 DEF RequestTyped
  <2>2. request' = [r \in Requests |-> request'[r]]
    BY DEF Sent
  <2> QED
    BY <2>1, <2>2 DEF RequestTyped
<1>4. SlotsHeld'
  <2> SUFFICES ASSUME NEW pool \in DOMAIN Slots
               PROVE  Cardinality(InFlight(pool)') <= Slots[pool]
    BY DEF SlotsHeld
  <2>1. InFlight(pool)' \subseteq InFlight(pool)
    BY <1>1, <1>2 DEF InFlight, Limited
  <2> QED
    BY <2>1, FewerInFlight
<1> QED
  BY <1>1, <1>2, <1>3, <1>4

\* An answer ends its request and changes no other one.
LEMMA Answering ==
    ASSUME RequestTyped, SlotsHeld, NEW r \in Requests, NEW outcome \in Outcomes,
           NEW found \in SUBSET Findings, Answer(r, outcome, found)
    PROVE  /\ RequestTyped' /\ SlotsHeld'
           /\ request[r].state = "sent"
           /\ request'[r].state = outcome /\ request'[r].found = found
           /\ \A q \in Requests \ {r} : request'[q] = request[q]
           /\ Moves(Requests)
<1>1. PICK new : new = [Unsent EXCEPT !.state = outcome, !.found = found]
  OBVIOUS
<1>2. /\ new.state = outcome /\ new.found = found
      /\ new \in Records
  <2>1. new = [state |-> outcome, attempts |-> 0, found |-> found]
    BY <1>1 DEF Unsent
  <2>2. outcome \in States /\ 0 \in 0 .. MaxAttempts
    BY RetryPolicy DEF States
  <2> QED
    BY <2>1, <2>2, RecordTyped
<1>3. request' = [request EXCEPT ![r] = new] /\ request[r].state = "sent"
  BY <1>1 DEF Answer
<1>4. RequestTyped'
  BY <1>2, <1>3 DEF RequestTyped
<1>5. request'[r] = new /\ \A q \in Requests \ {r} : request'[q] = request[q]
  BY <1>3 DEF RequestTyped
<1>6. outcome \notin {"sent", "unsent"}
  BY DEF Outcomes
<1>7. SlotsHeld'
  <2> SUFFICES ASSUME NEW pool \in DOMAIN Slots
               PROVE  Cardinality(InFlight(pool)') <= Slots[pool]
    BY DEF SlotsHeld
  <2>1. InFlight(pool)' \subseteq InFlight(pool)
    BY <1>2, <1>5, <1>6 DEF InFlight
  <2> QED
    BY <2>1, FewerInFlight
<1>8. Moves(Requests)
  BY <1>2, <1>3, <1>5, <1>6 DEF Moves
<1> QED
  BY <1>2, <1>3, <1>4, <1>5, <1>7, <1>8

\* A step of the transport: a request takes a slot, is sent again, or fails.
LEMMA Transporting ==
    ASSUME RequestTyped, SlotsHeld, NEW r \in Requests, Transport(r)
    PROVE  /\ RequestTyped' /\ SlotsHeld'
           /\ \A q \in Requests \ {r} : request'[q] = request[q]
           /\ Moves(Requests)
           /\ request'[r].state \in {"sent", "failed"}
           /\ request'[r].found = IF request'[r].state = "failed" THEN {} ELSE request[r].found
<1>1. CASE Admit(r)
  <2>1. PICK new : new = [request[r] EXCEPT !.state = "sent", !.attempts = 1]
    OBVIOUS
  <2>2. /\ new.state = "sent" /\ new.found = request[r].found
        /\ new \in Records
    <3>1. request[r] \in Records /\ 1 \in 0 .. MaxAttempts /\ "sent" \in States
      BY RetryPolicy DEF RequestTyped, States
    <3> QED
      BY <2>1, <3>1 DEF Records
  <2>3. request' = [request EXCEPT ![r] = new] /\ request[r].state = "queued"
    BY <1>1, <2>1 DEF Admit, RequestTyped
  <2>4. RequestTyped'
    BY <2>2, <2>3 DEF RequestTyped
  <2>5. request'[r] = new /\ \A q \in Requests \ {r} : request'[q] = request[q]
    BY <2>3 DEF RequestTyped
  <2>6. SlotsHeld'
    <3> SUFFICES ASSUME NEW pool \in DOMAIN Slots
                 PROVE  Cardinality(InFlight(pool)') <= Slots[pool]
      BY DEF SlotsHeld
    <3>1. CASE pool # Pool(r)
      <4>1. InFlight(pool)' \subseteq InFlight(pool)
        BY <3>1, <2>5 DEF InFlight
      <4> QED
        BY <4>1, FewerInFlight
    <3>2. CASE pool = Pool(r)
      <4>1. PICK S : S = InFlight(pool)
        OBVIOUS
      <4>2. InFlight(pool)' = S \cup {r} /\ r \notin S
        BY <2>2, <2>3, <2>5, <3>2, <4>1 DEF InFlight
      <4>3. IsFiniteSet(S) /\ Cardinality(S) \in Nat
        BY <4>1, InFlightFinite
      <4>4. Cardinality(S \cup {r}) = Cardinality(S) + 1
        BY <4>2, <4>3, FS_AddElement
      <4>5. Cardinality(S) < Slots[pool] /\ Slots[pool] \in Nat
        BY <1>1, <3>2, <4>1, RetryPolicy DEF Admit
      <4> QED
        BY <4>2, <4>3, <4>4, <4>5
    <3> QED
      BY <3>1, <3>2
  <2>7. Moves(Requests)
    BY <2>2, <2>3, <2>5 DEF Moves
  <2> QED
    BY <2>2, <2>4, <2>5, <2>6, <2>7
<1>2. CASE Retry(r)
  <2>1. PICK new : new = [request[r] EXCEPT !.attempts = request[r].attempts + 1]
    OBVIOUS
  <2>2. /\ new.state = "sent" /\ new.found = request[r].found
        /\ new \in Records
    <3>1. request[r] \in Records /\ request[r].state = "sent" /\ request[r].attempts < MaxAttempts
      BY <1>2 DEF RequestTyped, Retry
    <3>2. request[r].attempts \in 0 .. MaxAttempts
      BY <3>1 DEF Records
    <3>3. request[r].attempts + 1 \in 0 .. MaxAttempts
      BY <3>1, <3>2, RetryPolicy
    <3> QED
      BY <2>1, <3>1, <3>3 DEF Records
  <2>3. request' = [request EXCEPT ![r] = new] /\ request[r].state = "sent"
    BY <1>2, <2>1 DEF Retry, RequestTyped
  <2>4. RequestTyped'
    BY <2>2, <2>3 DEF RequestTyped
  <2>5. request'[r] = new /\ \A q \in Requests \ {r} : request'[q] = request[q]
    BY <2>3 DEF RequestTyped
  <2>6. SlotsHeld'
    <3> SUFFICES ASSUME NEW pool \in DOMAIN Slots
                 PROVE  Cardinality(InFlight(pool)') <= Slots[pool]
      BY DEF SlotsHeld
    <3>1. InFlight(pool)' \subseteq InFlight(pool)
      BY <2>3, <2>5 DEF InFlight
    <3> QED
      BY <3>1, FewerInFlight
  <2>7. Moves(Requests)
    BY <2>2, <2>3, <2>5 DEF Moves
  <2> QED
    BY <2>2, <2>4, <2>5, <2>6, <2>7
<1>3. CASE Fail(r)
  <2>1. [Unsent EXCEPT !.state = "failed"] = [Unsent EXCEPT !.state = "failed", !.found = {}]
    <3>1. [Unsent EXCEPT !.state = "failed"] = [state |-> "failed", attempts |-> 0, found |-> {}]
      BY DEF Unsent
    <3>2. [Unsent EXCEPT !.state = "failed", !.found = {}] = [state |-> "failed", attempts |-> 0, found |-> {}]
      <4>1. PICK one : one = [Unsent EXCEPT !.state = "failed", !.found = {}]
        OBVIOUS
      <4>2. one = [state |-> "failed", attempts |-> 0, found |-> {}]
        BY <4>1 DEF Unsent
      <4> QED
        BY <4>1, <4>2
    <3> QED
      BY <3>1, <3>2
  <2>2. Answer(r, "failed", {})
    BY <1>3, <2>1 DEF Fail, Answer
  <2> QED
    BY <2>2, Answering DEF Outcomes
<1> QED
  BY <1>1, <1>2, <1>3 DEF Transport

-----------------------------------------------------------------------------
(* The planning task                                                       *)

\* A share of the parcel is a percentage, and nothing has none.
LEMMA Measured ==
    /\ Measure({}) = 0
    /\ \A cells \in SUBSET DOMAIN Measures : Measure(cells) \in 0 .. 100
<1>1. Measure({}) = 0
  <2>1. UNION {Measures[c] : c \in {}} = {}
    OBVIOUS
  <2> QED
    BY <2>1, FS_EmptySet DEF Measure
<1>2. ASSUME NEW cells \in SUBSET DOMAIN Measures
      PROVE  Measure(cells) \in 0 .. 100
  <2>1. PICK S : S = UNION {Measures[c] : c \in cells}
    OBVIOUS
  <2>2. PICK P : P = 1 .. 100
    OBVIOUS
  <2>3. S \in SUBSET P
    BY <2>1, <2>2, PlanningSets
  <2>4. IsFiniteSet(P) /\ Cardinality(P) = 100
    <3>1. PICK a \in Int, b \in Int : a = 1 /\ b = 100
      OBVIOUS
    <3>2. IsFiniteSet(a .. b) /\ Cardinality(a .. b) = IF a > b THEN 0 ELSE b - a + 1
      BY FS_Interval
    <3>3. Cardinality(P) = IF a > b THEN 0 ELSE b - a + 1
      BY <2>2, <3>1, <3>2
    <3> QED
      BY <2>2, <3>1, <3>2, <3>3
  <2>5. Cardinality(S) \in Nat /\ Cardinality(S) <= 100
    BY <2>3, <2>4, FS_Subset, FS_CardinalityType
  <2> QED
    BY <2>1, <2>5 DEF Measure
<1> QED
  BY <1>1, <1>2

\* More cells have no smaller share.
LEMMA MeasureGrows ==
    ASSUME NEW more \in SUBSET DOMAIN Measures, NEW fewer \in SUBSET more
    PROVE  Measure(fewer) <= Measure(more)
<1>1. PICK S : S = UNION {Measures[c] : c \in fewer}
  OBVIOUS
<1>2. PICK T : T = UNION {Measures[c] : c \in more}
  OBVIOUS
<1>3. PICK P : P = 1 .. 100
  OBVIOUS
<1>4. S \in SUBSET T /\ T \in SUBSET P
  BY <1>1, <1>2, <1>3, PlanningSets
<1>5. IsFiniteSet(P)
  <2>1. PICK a \in Int, b \in Int : a = 1 /\ b = 100
    OBVIOUS
  <2>2. IsFiniteSet(a .. b)
    BY FS_Interval
  <2> QED
    BY <1>3, <2>1, <2>2
<1>6. IsFiniteSet(T)
  BY <1>4, <1>5, FS_Subset
<1>7. Cardinality(S) <= Cardinality(T)
  BY <1>4, <1>6, FS_Subset
<1> QED
  BY <1>1, <1>2, <1>7 DEF Measure

\* What a snapshot or a query gives for a layer is on the ground, so what is listed and
\* what is counted of it overlaps the parcel.
LEMMA GivenIsThere ==
    ASSUME FoundOnGround, NEW l \in Layers
    PROVE  /\ Given(l) \subseteq ground[l]
           /\ Listed(l) \subseteq Counted(l) /\ Counted(l) \subseteq Present(l)
           /\ Listed(l) = {f \in Given(l) \cap Present(l) : f.reads = "whole"}
<1>1. Given(l) \subseteq ground[l]
  BY DEF FoundOnGround, Given
<1>2. \A f : Overlaps(f) <=> Measure(f.cells) > Sliver
  BY DEF Overlaps
<1>3. PICK O : O = {f \in Given(l) : Overlaps(f)}
  OBVIOUS
<1>4. O = Given(l) \cap Present(l)
  BY <1>1, <1>2, <1>3 DEF Present
<1>5. Listed(l) = {f \in O : f.reads = "whole"} /\ Counted(l) = {f \in O : f.reads # "none"}
  BY <1>3 DEF Listed, Counted
<1> QED
  BY <1>1, <1>4, <1>5

\* The share that was found is a percentage of the parcel, and no more than there is.
LEMMA Shares ==
    ASSUME ground \in Grounds, FoundOnGround
    PROVE  Share \in 0 .. 100 /\ Encumbered \in 0 .. 100 /\ Encumbered <= Share
<1>1. PICK there46, there47 : there46 = Present(46) /\ there47 = Present(47)
  OBVIOUS
<1>2. PICK found46, found47 : found46 = Counted(46) /\ found47 = Counted(47)
  OBVIOUS
<1>3. found46 \subseteq there46 /\ found47 \subseteq there47
  BY <1>1, <1>2, GivenIsThere, PlanningSets
<1>4. \A f \in there46 \cup there47 : f.cells \in SUBSET DOMAIN Measures
  <2>1. ground[46] \in SUBSET Features /\ ground[47] \in SUBSET Features
    BY PlanningSets
  <2>2. there46 \subseteq ground[46] /\ there47 \subseteq ground[47]
    BY <1>1 DEF Present
  <2> QED
    BY <2>1, <2>2 DEF Features
<1>5. PICK more : more = UNION {f.cells : f \in there46 \cup there47}
  OBVIOUS
<1>6. PICK fewer : fewer = UNION {f.cells : f \in found46 \cup found47}
  OBVIOUS
<1>7. more \in SUBSET DOMAIN Measures /\ fewer \in SUBSET more
  BY <1>3, <1>4, <1>5, <1>6
<1>8. Measure(more) = Share /\ Measure(fewer) = Encumbered
  BY <1>1, <1>2, <1>5, <1>6 DEF Share, Encumbered
<1>9. fewer \in SUBSET DOMAIN Measures
  BY <1>7
<1> QED
  BY <1>7, <1>8, <1>9, Measured, MeasureGrows

\* The identify adds nothing to a layer that was answered.
LEMMA ReconciledAnswer ==
    ASSUME NEW answered, NEW l \in {46, 47, 192}, l \in answered
    PROVE  Reconciled(answered)[l] = {[by |-> "query", cells |-> f.cells] : f \in Listed(l)}
<1> DEFINE listed == [k \in {46, 47, 192} |-> {[by |-> "query", cells |-> f.cells] : f \in Listed(k)}]
<1>1. l \notin FoundInstead(answered, listed)
  BY DEF FoundInstead
<1>2. Reconciled(answered)[l] = listed[l]
  BY <1>1 DEF Reconciled
<1>3. listed[l] = {[by |-> "query", cells |-> f.cells] : f \in Listed(l)}
  OBVIOUS
<1> QED
  BY <1>2, <1>3

\* When nothing was lost, all that overlaps the parcel is listed and counted.
LEMMA NothingLostIsAll ==
    ASSUME FoundOnGround, NothingLost
    PROVE  /\ \A l \in {46, 47, 192} : Listed(l) = Present(l)
           /\ Encumbered = Share
<1>1. ASSUME NEW l \in {46, 47, 192}
      PROVE  Listed(l) = Present(l) /\ Counted(l) = Present(l)
  <2>1. /\ Listed(l) = {f \in Given(l) \cap Present(l) : f.reads = "whole"}
        /\ Listed(l) \subseteq Counted(l) /\ Counted(l) \subseteq Present(l)
    BY GivenIsThere, PlanningSets
  <2>2. \A f \in Present(l) : f \in Given(l) /\ f.reads = "whole"
    BY DEF NothingLost
  <2> QED
    BY <2>1, <2>2
<1>2. Counted(46) = Present(46) /\ Counted(47) = Present(47)
  BY <1>1
<1> QED
  BY <1>1, <1>2 DEF Encumbered, Share

\* The badge of a result for which every layer answered is the one that the ground requires,
\* or a milder one if something was lost.
LEMMA BadgeIsTrue ==
    ASSUME ground \in Grounds, FoundOnGround, NEW badge, badge = Badge(Reconciled(Layers), Encumbered)
    PROVE  /\ NothingLost => badge = Required
           /\ badge = "modified" => Present(192) # {}
           /\ badge \in {"partly_reserved", "reserved"} => Share > 0
           /\ badge = "reserved" => Share >= 90
<1>1. PICK items : items = Reconciled(Layers)
  OBVIOUS
<1>2. PICK l46, l47, l192 : l46 = Listed(46) /\ l47 = Listed(47) /\ l192 = Listed(192)
  OBVIOUS
<1>3. /\ items[46] = {[by |-> "query", cells |-> f.cells] : f \in l46}
      /\ items[47] = {[by |-> "query", cells |-> f.cells] : f \in l47}
      /\ items[192] = {[by |-> "query", cells |-> f.cells] : f \in l192}
  BY <1>1, <1>2, ReconciledAnswer, PlanningSets
<1>4. (items[192] = {} <=> l192 = {}) /\ (items[46] \cup items[47] = {} <=> l46 \cup l47 = {})
  <2>1. ASSUME NEW p, NEW queried, queried = {[by |-> "query", cells |-> f.cells] : f \in p}
        PROVE  queried = {} <=> p = {}
    <3>1. ASSUME NEW f \in p PROVE queried # {}
      BY <2>1
    <3>2. p = {} => queried = {}
      BY <2>1
    <3> QED
      BY <3>1, <3>2
  <2>2. /\ items[46] = {} <=> l46 = {}
        /\ items[47] = {} <=> l47 = {}
        /\ items[192] = {} <=> l192 = {}
    BY <1>3, <2>1
  <2> QED
    BY <2>2
<1>5. PICK percent, share : percent = Encumbered /\ share = Share
  OBVIOUS
<1>6. percent \in 0 .. 100 /\ share \in 0 .. 100 /\ percent <= share
  BY <1>5, Shares
<1>7. badge = IF l192 # {} THEN "modified"
              ELSE IF percent = 0 \/ l46 \cup l47 = {} THEN "clear"
              ELSE IF percent < 90 THEN "partly_reserved"
              ELSE "reserved"
  BY <1>1, <1>4, <1>5 DEF Badge
<1>8. l192 \subseteq Present(192)
  <2>1. 192 \in Layers
    BY PlanningSets
  <2> QED
    BY <1>2, <2>1, GivenIsThere
<1>9. ASSUME NothingLost
      PROVE  badge = Required
  <2>1. l46 = Present(46) /\ l47 = Present(47) /\ l192 = Present(192) /\ percent = share
    BY <1>2, <1>5, <1>9, NothingLostIsAll
  <2>2. l46 \cup l47 = {} => share = 0
    <3>1. l46 \cup l47 = {} => Measure(UNION {f.cells : f \in l46 \cup l47}) = 0
      BY Measured
    <3> QED
      BY <1>5, <2>1, <3>1 DEF Share
  <2>3. PICK required : required = Required
    OBVIOUS
  <2>4. required = CASE l192 # {}                             -> "modified"
                     [] l192 = {} /\ share = 0            -> "clear"
                     [] l192 = {} /\ share \in 1 .. 89 -> "partly_reserved"
                     [] OTHER                                -> "reserved"
    BY <1>5, <2>1, <2>3 DEF Required
  <2>5. badge = required
    BY <1>6, <1>7, <2>1, <2>2, <2>4
  <2> QED
    BY <2>3, <2>5
<1>10. badge = "modified" => Present(192) # {}
  BY <1>7, <1>8
<1>11. /\ badge \in {"partly_reserved", "reserved"} => share > 0
       /\ badge = "reserved" => share >= 90
  BY <1>6, <1>7
<1> QED
  BY <1>5, <1>9, <1>10, <1>11

\* What is reported is not disturbed by requests that go on, none of which is its own.
LEMMA PlanningKept ==
    ASSUME PlanningInv, UNCHANGED planningVars, Moves(PlanningRequests), FoundOnGround'
    PROVE  PlanningInv'
<1>1. /\ mode' = mode /\ store' = store /\ ground' = ground /\ encloses' = encloses
      /\ planning' = planning /\ source' = source /\ decision' = decision
  BY DEF planningVars
<1>2. /\ \A r \in PlanningRequests : request[r].state = "unsent" <=> request'[r].state = "unsent"
      /\ \A r \in PlanningRequests :
            request[r].state \in {"unsent"} \cup Outcomes => request'[r] = request[r]
  BY DEF Moves, Outcomes
<1>3. planning = "start" => Fresh(PlanningRequests)'
  BY <1>2 DEF PlanningInv, Fresh
<1>4. planning \in {"decide", "done", "failed"} =>
        /\ Settled(PlanningRequests)'
        /\ \A r \in PlanningRequests : request'[r] = request[r]
  BY <1>2 DEF PlanningInv, Settled
<1>5. Identify \in PlanningRequests /\ \A l \in Layers : <<"layer", l>> \in PlanningRequests
  BY DEF PlanningRequests, LayerRequests
<1>6. ConfirmedIsEarned'
  <2>1. ConfirmedIsTrue'
    <3> SUFFICES ASSUME planning = "done", decision.confirmed
                 PROVE  ConfirmedIsTrue'
      BY <1>1 DEF ConfirmedIsTrue
    <3>1. /\ NothingLost => decision.badge = Required
          /\ decision.badge = "modified" => Present(192) # {}
          /\ decision.badge \in {"partly_reserved", "reserved"} => Share > 0
          /\ decision.badge = "reserved" => Share >= 90
      BY DEF PlanningInv, ConfirmedIsEarned, ConfirmedIsTrue
    <3>2. Present(192)' = Present(192) /\ Share' = Share /\ Required' = Required
      BY <1>1 DEF Present, Share, Required, Measure
    <3>3. NothingLost' => NothingLost
      <4>1. ASSUME NEW l \in {46, 47, 192}
            PROVE  Present(l)' = Present(l) /\ Given(l)' = Given(l)
        <5>1. request'[<<"layer", l>>] = request[<<"layer", l>>]
          BY <1>4, <1>5, PlanningSets
        <5> QED
          BY <1>1, <5>1 DEF Present, Given, Measure
      <4> QED
        BY <4>1 DEF NothingLost
    <3> QED
      BY <1>1, <3>1, <3>2, <3>3 DEF ConfirmedIsTrue
  <2>2. ConfirmedIsComplete'
    BY <1>1, <1>4, <1>5 DEF PlanningInv, ConfirmedIsEarned, ConfirmedIsComplete
  <2>3. SourceIsDisclosed'
    BY <1>1, <1>2 DEF PlanningInv, ConfirmedIsEarned, SourceIsDisclosed, PlanningRequests
  <2> QED
    BY <2>1, <2>2, <2>3 DEF ConfirmedIsEarned
<1>7. AnsweredIsListed'
  <2> SUFFICES ASSUME planning = "done", NEW l \in {46, 47, 192} \cap decision.answered
               PROVE  decision.items[l] = {[by |-> "query", cells |-> f.cells] :
                          f \in {g \in Given(l)' \cap Present(l)' : g.reads = "whole"}}
    BY <1>1 DEF AnsweredIsListed
  <2>1. Given(l)' = Given(l) /\ Present(l)' = Present(l)
    BY <1>1, <1>4, <1>5, PlanningSets DEF Present, Given, Measure
  <2> QED
    BY <2>1 DEF PlanningInv, AnsweredIsListed
<1>8. NothingKnownIsAnError'
  BY <1>1, <1>4, <1>5, PlanningSets DEF PlanningInv, NothingKnownIsAnError, Present, Measure
<1> QED
  BY <1>1, <1>3, <1>4, <1>6, <1>7, <1>8 DEF PlanningInv

\* Before there is a decision, the parts of the invariant that are about one hold.
LEMMA Pending ==
    planning # "done" =>
        ConfirmedIsTrue /\ ConfirmedIsComplete /\ AnsweredIsListed /\ NothingKnownIsAnError
BY DEF ConfirmedIsTrue, ConfirmedIsComplete, AnsweredIsListed, NothingKnownIsAnError

\* A source is chosen, and the map service is asked if that is the one.
LEMMA SourceStep ==
    ASSUME RequestsInv, PlanningInv, ReadLocalPlanning \/ LocalPlanningFails \/ AskLive
    PROVE  /\ RequestsInv' /\ PlanningInv'
           /\ \A r \in Requests \ PlanningRequests : request'[r] = request[r]
<1>1. Fresh(PlanningRequests) /\ planning = "start"
  BY DEF PlanningInv, ReadLocalPlanning, LocalPlanningFails, AskLive
<1>2. Identify \in PlanningRequests /\ LayerRequests \subseteq PlanningRequests /\ PlanningRequests \subseteq Requests
  BY RequestsOfTasks DEF PlanningRequests
<1>3. CASE ReadLocalPlanning
  <2>1. /\ request' = request /\ mode' = mode /\ store' = store /\ ground' = ground /\ encloses' = encloses
        /\ planning' = "decide" /\ decision' = decision /\ mode # "live"
        /\ source' = [from |-> "local", fallback |-> FALSE, stale |-> store = "stale"]
        /\ store \in {"fresh", "stale"}
    BY <1>3 DEF ReadLocalPlanning, Usable
  <2>2. RequestsInv'
    BY <2>1 DEF RequestsInv, RequestTyped, SlotsHeld, InFlight
  <2>3. Settled(PlanningRequests)'
    BY <1>1, <2>1 DEF Fresh, Settled
  <2>4. SourceIsDisclosed'
    BY <1>1, <1>2, <2>1 DEF SourceIsDisclosed, Fresh, PlanningRequests
  <2>5. (ConfirmedIsTrue /\ ConfirmedIsComplete /\ AnsweredIsListed /\ NothingKnownIsAnError)'
    <3>1. (planning # "done")'
      BY <2>1
    <3> QED
      BY <3>1, Pending, PTL
  <2>6. source' \in Sources /\ (source'.from = "local" /\ ~source'.stale => store' = "fresh")
    BY <2>1 DEF Sources
  <2>7. FoundOnGround'
    BY <2>1 DEF PlanningInv, FoundOnGround
  <2>8. PlanningInv'
    BY <2>1, <2>3, <2>4, <2>5, <2>6, <2>7 DEF PlanningInv, ConfirmedIsEarned, PlanningSteps
  <2> QED
    BY <2>1, <2>2, <2>8
<1>4. CASE LocalPlanningFails /\ mode = "auto" /\ encloses
  <2>1. /\ request' = Sent(LayerRequests) /\ mode' = mode /\ store' = store /\ ground' = ground
        /\ encloses' = encloses /\ planning' = "asked" /\ decision' = decision
        /\ source' = [from |-> "live", fallback |-> TRUE, stale |-> FALSE]
    BY <1>4 DEF LocalPlanningFails
  <2>2. /\ RequestsInv'
        /\ \A r \in Requests \ LayerRequests : request'[r] = request[r]
        /\ \A r \in LayerRequests : request'[r].found = {}
    BY <1>2, <2>1, Sending DEF RequestsInv
  <2>3. FoundOnGround'
    <3>1. request'[Identify] = request[Identify]
      BY <1>2, <2>2 DEF LayerRequests, Identify
    <3>2. \A l \in Layers : <<"layer", l>> \in LayerRequests
      BY DEF LayerRequests
    <3> QED
      BY <2>2, <3>1, <3>2 DEF PlanningInv, FoundOnGround, PlanningRequests
  <2>4. SourceIsDisclosed'
    BY <1>4, <2>1 DEF SourceIsDisclosed
  <2>5. (ConfirmedIsTrue /\ ConfirmedIsComplete /\ AnsweredIsListed /\ NothingKnownIsAnError)'
    <3>1. (planning # "done")'
      BY <2>1
    <3> QED
      BY <3>1, Pending, PTL
  <2>6. source' \in Sources /\ source'.from = "live"
    BY <2>1 DEF Sources
  <2>7. PlanningInv'
    BY <2>1, <2>3, <2>4, <2>5, <2>6 DEF PlanningInv, ConfirmedIsEarned, PlanningSteps
  <2> QED
    BY <1>2, <2>2, <2>7
<1>5. CASE LocalPlanningFails /\ ~(mode = "auto" /\ encloses)
  <2>1. /\ request' = request /\ mode' = mode /\ store' = store /\ ground' = ground
        /\ encloses' = encloses /\ planning' = "decide" /\ decision' = decision
        /\ source' = [from |-> "error", fallback |-> mode = "auto", stale |-> FALSE]
    BY <1>5 DEF LocalPlanningFails
  <2>2. RequestsInv'
    BY <2>1 DEF RequestsInv, RequestTyped, SlotsHeld, InFlight
  <2>3. Settled(PlanningRequests)'
    BY <1>1, <2>1 DEF Fresh, Settled
  <2>4. SourceIsDisclosed'
    BY <1>1, <1>2, <2>1 DEF SourceIsDisclosed, Fresh, PlanningRequests
  <2>5. (ConfirmedIsTrue /\ ConfirmedIsComplete /\ AnsweredIsListed /\ NothingKnownIsAnError)'
    <3>1. (planning # "done")'
      BY <2>1
    <3> QED
      BY <3>1, Pending, PTL
  <2>6. source' \in Sources /\ source'.from = "error"
    BY <2>1 DEF Sources
  <2>7. FoundOnGround'
    BY <2>1 DEF PlanningInv, FoundOnGround
  <2>8. PlanningInv'
    BY <2>1, <2>3, <2>4, <2>5, <2>6, <2>7 DEF PlanningInv, ConfirmedIsEarned, PlanningSteps
  <2> QED
    BY <2>1, <2>2, <2>8
<1>6. CASE AskLive
  <2>1. PICK asked : asked = {Identify} \cup (IF encloses THEN LayerRequests ELSE {})
    OBVIOUS
  <2>2. /\ request' = Sent(asked) /\ mode' = mode /\ mode = "live" /\ store' = store /\ ground' = ground
        /\ encloses' = encloses /\ planning' = "asked" /\ decision' = decision
        /\ source' = [from |-> IF encloses THEN "live" ELSE "error", fallback |-> FALSE, stale |-> FALSE]
    BY <1>6, <2>1 DEF AskLive
  <2>3. /\ RequestsInv'
        /\ \A r \in Requests \ asked : request'[r] = request[r]
        /\ FoundOnGround'
    <3>1. \A l \in Layers : <<"layer", l>> \in PlanningRequests
      BY DEF PlanningRequests, LayerRequests
    <3>2. /\ RequestTyped' /\ SlotsHeld'
          /\ \A r \in Requests \ asked : request'[r] = request[r]
          /\ \A r \in Requests \cap asked : request'[r].found = {}
      BY <2>2, Sending DEF RequestsInv
    <3>3. ASSUME NEW r \in PlanningRequests
          PROVE  request'[r].found = {} \/ request'[r] = request[r]
      BY <1>2, <3>2
    <3>4. FoundOnGround'
      BY <2>2, <3>1, <3>3 DEF PlanningInv, FoundOnGround
    <3> QED
      BY <3>2, <3>4 DEF RequestsInv
  <2>4. SourceIsDisclosed'
    BY <2>2 DEF SourceIsDisclosed
  <2>5. (ConfirmedIsTrue /\ ConfirmedIsComplete /\ AnsweredIsListed /\ NothingKnownIsAnError)'
    <3>1. (planning # "done")'
      BY <2>2
    <3> QED
      BY <3>1, Pending, PTL
  <2>6. source' \in Sources /\ source'.from # "local"
    BY <2>2 DEF Sources
  <2>7. PlanningInv'
    BY <2>2, <2>3, <2>4, <2>5, <2>6 DEF PlanningInv, ConfirmedIsEarned, PlanningSteps
  <2> QED
    BY <1>2, <2>1, <2>3, <2>7
<1> QED
  BY <1>3, <1>4, <1>5, <1>6

\* The answers are gathered when all have ended.
LEMMA GatheredStep ==
    ASSUME RequestsInv, PlanningInv, Gathered
    PROVE  PlanningInv'
<1>1. /\ request' = request /\ mode' = mode /\ store' = store /\ ground' = ground /\ encloses' = encloses
      /\ planning' = "decide" /\ decision' = decision /\ source' = source
  BY DEF Gathered
<1>2. Settled(PlanningRequests)'
  BY <1>1 DEF Gathered, Ended, Settled, PlanningRequests
<1>3. SourceIsDisclosed'
  BY <1>1 DEF PlanningInv, ConfirmedIsEarned, SourceIsDisclosed
<1>4. (ConfirmedIsTrue /\ ConfirmedIsComplete /\ AnsweredIsListed /\ NothingKnownIsAnError)'
  <2>1. (planning # "done")'
    BY <1>1
  <2> QED
    BY <2>1, Pending, PTL
<1>5. FoundOnGround'
  BY <1>1 DEF PlanningInv, FoundOnGround
<1> QED
  BY <1>1, <1>2, <1>3, <1>4, <1>5 DEF PlanningInv, ConfirmedIsEarned, PlanningSteps

\* A task that gives up leaves everything else as it is.
LEMMA GivenUp ==
    ASSUME PlanningInv, planning = "decide", planning' = "failed",
           UNCHANGED <<request, mode, store, ground, encloses, source, decision>>
    PROVE  PlanningInv'
<1>1. Settled(PlanningRequests)'
  BY DEF PlanningInv, Settled
<1>2. SourceIsDisclosed'
  BY DEF PlanningInv, ConfirmedIsEarned, SourceIsDisclosed
<1>3. (ConfirmedIsTrue /\ ConfirmedIsComplete /\ AnsweredIsListed /\ NothingKnownIsAnError)'
  <2>1. (planning # "done")'
    OBVIOUS
  <2> QED
    BY <2>1, Pending, PTL
<1>4. FoundOnGround'
  BY DEF PlanningInv, FoundOnGround
<1> QED
  BY <1>1, <1>2, <1>3, <1>4 DEF PlanningInv, ConfirmedIsEarned, PlanningSteps

\* The decision from the planning layers, of the snapshot or of the queries.
LEMMA DecideStep ==
    ASSUME RequestsInv, PlanningInv, Decide
    PROVE  PlanningInv'
<1> DEFINE answered == IF source.from = "local" THEN Layers ELSE Answered
           warned   == answered # Layers \/ source.stale
<1>1. /\ request' = request /\ mode' = mode /\ store' = store /\ ground' = ground /\ encloses' = encloses
      /\ source' = source /\ planning = "decide" /\ source.from # "error"
  BY DEF Decide
<1>2. CASE ~(Zoned \/ ZoneIdentified)
  <2>1. planning' = "failed" /\ decision' = decision
    BY <1>2 DEF Decide
  <2> QED
    BY <1>1, <2>1, GivenUp
<1>3. CASE Zoned \/ ZoneIdentified
  <2>1. /\ planning' = "done"
        /\ decision' = Decided(~warned, warned, source.from, Reconciled(answered), Encumbered, answered)
    BY <1>3 DEF Decide
  <2>2. /\ decision'.confirmed = ~warned /\ decision'.warned = warned
        /\ decision'.badge = Badge(Reconciled(answered), Encumbered)
        /\ decision'.percent = Encumbered /\ decision'.answered = answered
        /\ decision'.items = Reconciled(answered)
    BY <2>1 DEF Decided
  <2>3. \A l \in Layers : <<"layer", l>> \in PlanningRequests
    BY DEF PlanningRequests, LayerRequests
  <2>4. ConfirmedIsTrue'
    <3> SUFFICES ASSUME decision'.confirmed
                 PROVE  ConfirmedIsTrue'
      BY DEF ConfirmedIsTrue
    <3>1. answered = Layers
      BY <2>2
    <3>2. decision'.badge = Badge(Reconciled(Layers), Encumbered)
      BY <2>2, <3>1
    <3>3. PICK badge : badge = decision'.badge
      OBVIOUS
    <3>4. /\ NothingLost => badge = Required
          /\ badge = "modified" => Present(192) # {}
          /\ badge \in {"partly_reserved", "reserved"} => Share > 0
          /\ badge = "reserved" => Share >= 90
      BY <3>2, <3>3, BadgeIsTrue DEF PlanningInv
    <3>5. Present(192)' = Present(192) /\ Share' = Share /\ Required' = Required
      BY <1>1 DEF Present, Share, Required, Measure
    <3>6. NothingLost' => NothingLost
      BY <1>1 DEF NothingLost, Present, Given, Measure
    <3> QED
      BY <3>3, <3>4, <3>5, <3>6 DEF ConfirmedIsTrue
  <2>5. ConfirmedIsComplete'
    <3>1. decision'.confirmed => ~decision'.warned /\ ~source.stale /\ answered = Layers
      BY <2>2
    <3>2. ~decision'.confirmed => decision'.warned
      BY <2>2
    <3>3. source.from = "local" /\ ~source.stale => store = "fresh"
      BY DEF PlanningInv
    <3>4. source.from = "live" /\ answered = Layers => \A l \in Layers : request[<<"layer", l>>].state = "answered"
      BY DEF Answered
    <3> QED
      BY <1>1, <3>1, <3>2, <3>3, <3>4 DEF ConfirmedIsComplete
  <2>6. AnsweredIsListed'
    <3> SUFFICES ASSUME NEW l \in {46, 47, 192}, l \in answered
                 PROVE  decision'.items[l] = {[by |-> "query", cells |-> f.cells] :
                            f \in {g \in Given(l)' \cap Present(l)' : g.reads = "whole"}}
      BY <2>2 DEF AnsweredIsListed
    <3>1. Reconciled(answered)[l] = {[by |-> "query", cells |-> f.cells] : f \in Listed(l)}
      BY ReconciledAnswer
    <3>2. Listed(l) = {g \in Given(l) \cap Present(l) : g.reads = "whole"}
      BY GivenIsThere, PlanningSets DEF PlanningInv
    <3>3. Given(l)' = Given(l) /\ Present(l)' = Present(l)
      BY <1>1 DEF Given, Present, Measure
    <3> QED
      BY <2>2, <3>1, <3>2, <3>3
  <2>7. NothingKnownIsAnError'
    <3>1. Present(0)' = Present(0)
      BY <1>1 DEF Present, Measure
    <3>2. CASE Zoned
      <4>1. PICK f \in Listed(0) : f.coded
        BY <3>2 DEF Zoned
      <4>2. 0 \in Layers /\ <<"layer", 0>> \in PlanningRequests
        BY <2>3, PlanningSets
      <4>3. f \in Present(0)
        BY <4>2, GivenIsThere DEF PlanningInv
      <4>4. source.from = "local" \/ request[<<"layer", 0>>].state = "answered"
        BY <4>2 DEF Listed, Given, PlanningInv, FoundOnGround
      <4> QED
        BY <1>1, <3>1, <4>1, <4>3, <4>4 DEF NothingKnownIsAnError
    <3>3. CASE ZoneIdentified
      <4>1. Identify \in PlanningRequests
        BY DEF PlanningRequests
      <4> QED
        BY <1>1, <3>3, <4>1 DEF ZoneIdentified, NothingKnownIsAnError, PlanningInv, FoundOnGround
    <3> QED
      BY <1>3, <3>2, <3>3
  <2>8. SourceIsDisclosed'
    BY <1>1 DEF PlanningInv, ConfirmedIsEarned, SourceIsDisclosed
  <2>9. decision'.badge \in Badges /\ decision'.percent \in 0 .. 100
    BY <2>2, Shares DEF Badge, Badges, PlanningInv
  <2>10. Settled(PlanningRequests)'
    BY <1>1 DEF PlanningInv, Settled
  <2>11. FoundOnGround'
    BY <1>1 DEF PlanningInv, FoundOnGround
  <2> QED
    BY <1>1, <2>1, <2>4, <2>5, <2>6, <2>7, <2>8, <2>9, <2>10, <2>11 DEF PlanningInv, ConfirmedIsEarned, PlanningSteps
<1> QED
  BY <1>2, <1>3

\* The decision from the identify alone is never confirmed.
LEMMA DecideFromIdentifyStep ==
    ASSUME RequestsInv, PlanningInv, DecideFromIdentify
    PROVE  PlanningInv'
<1> DEFINE known == request[Identify].state = "answered" /\ ZoneIdentified
<1>1. /\ request' = request /\ mode' = mode /\ store' = store /\ ground' = ground /\ encloses' = encloses
      /\ source' = source /\ planning = "decide"
  BY DEF DecideFromIdentify
<1>2. CASE ~known
  <2>1. planning' = "failed" /\ decision' = decision
    BY <1>2 DEF DecideFromIdentify
  <2> QED
    BY <1>1, <2>1, GivenUp
<1>3. CASE known
  <2>1. PICK share \in {0, 100} :
          /\ planning' = "done"
          /\ decision' = Decided(FALSE, TRUE, "identify_fallback", Identified, share, {})
    BY <1>3 DEF DecideFromIdentify
  <2>2. /\ decision'.confirmed = FALSE /\ decision'.warned = TRUE /\ decision'.percent = share
        /\ decision'.badge = Badge(Identified, share) /\ decision'.answered = {}
    BY <2>1 DEF Decided
  <2>3. ConfirmedIsTrue' /\ ConfirmedIsComplete' /\ AnsweredIsListed'
    BY <2>2 DEF ConfirmedIsTrue, ConfirmedIsComplete, AnsweredIsListed
  <2>4. NothingKnownIsAnError'
    BY <1>1, <1>3 DEF ZoneIdentified, NothingKnownIsAnError
  <2>5. SourceIsDisclosed'
    BY <1>1 DEF PlanningInv, ConfirmedIsEarned, SourceIsDisclosed
  <2>6. decision'.badge \in Badges /\ decision'.percent \in 0 .. 100
    BY <2>2 DEF Badge, Badges
  <2>7. Settled(PlanningRequests)'
    BY <1>1 DEF PlanningInv, Settled
  <2>8. FoundOnGround'
    BY <1>1 DEF PlanningInv, FoundOnGround
  <2> QED
    BY <1>1, <2>1, <2>3, <2>4, <2>5, <2>6, <2>7, <2>8 DEF PlanningInv, ConfirmedIsEarned, PlanningSteps
<1> QED
  BY <1>2, <1>3

-----------------------------------------------------------------------------
(* The roads and plots around                                              *)

\* A set of naturals that is not empty has a least element.
LEMMA Least ==
    ASSUME NEW S \in SUBSET Nat, S # {}
    PROVE  \E m \in S : \A n \in S : m <= n
<1>1. PICK R : R = OpToRel(<, Nat)
  OBVIOUS
<1>2. \A i, j \in Nat : <<i, j>> \in R <=> i < j
  BY <1>1 DEF OpToRel
<1>3. IsWellFoundedOn(R, Nat)
  BY <1>1, NatLessThanWellFounded
<1>4. PICK m \in S : \A n \in S : ~(<<n, m>> \in R)
  BY <1>3, WFMin
<1>5. ASSUME NEW n \in S
      PROVE  m <= n
  <2>1. n \in Nat /\ m \in Nat /\ ~(<<n, m>> \in R)
    BY <1>4
  <2>2. ~(n < m)
    BY <1>2, <2>1
  <2> QED
    BY <2>1, <2>2
<1> QED
  BY <1>5

\* There is a first road among those in reach: the order is decided by the
\* distance, then by the evidence, then by the id.
LEMMA FirstRoad ==
    ASSUME nearRoads \in SUBSET Roads, InReach # {}
    PROVE  \E q \in InReach : \A r \in InReach : Before(q, r)
<1>1. \A r \in InReach : /\ r.distance \in Nat /\ r.id \in Nat /\ Quality(r) \in 0 .. 2
                         /\ 2 - Quality(r) \in Nat
  BY AbuttingSets DEF InReach, Quality
<1>2. PICK q1 \in InReach : \A r \in InReach : q1.distance <= r.distance
  <2>1. {r.distance : r \in InReach} \in SUBSET Nat /\ {r.distance : r \in InReach} # {}
    BY <1>1
  <2>2. PICK d \in {r.distance : r \in InReach} : \A n \in {r.distance : r \in InReach} : d <= n
    BY <2>1, Least
  <2> QED
    BY <2>2
<1>3. PICK A : A = {r \in InReach : r.distance = q1.distance}
  OBVIOUS
<1>4. PICK q2 \in A : \A r \in A : 2 - Quality(q2) <= 2 - Quality(r)
  <2>1. {2 - Quality(r) : r \in A} \in SUBSET Nat /\ {2 - Quality(r) : r \in A} # {}
    BY <1>1, <1>3
  <2>2. PICK d \in {2 - Quality(r) : r \in A} : \A n \in {2 - Quality(r) : r \in A} : d <= n
    BY <2>1, Least
  <2> QED
    BY <2>2
<1>5. PICK B : B = {r \in A : Quality(r) = Quality(q2)}
  OBVIOUS
<1>6. PICK q3 \in B : \A r \in B : q3.id <= r.id
  <2>1. {r.id : r \in B} \in SUBSET Nat /\ {r.id : r \in B} # {}
    BY <1>1, <1>3, <1>4, <1>5
  <2>2. PICK d \in {r.id : r \in B} : \A n \in {r.id : r \in B} : d <= n
    BY <2>1, Least
  <2> QED
    BY <2>2
<1>7. q3 \in InReach /\ q3.distance = q1.distance /\ Quality(q3) = Quality(q2)
  BY <1>3, <1>5
<1>8. ASSUME NEW r \in InReach
      PROVE  Before(q3, r)
  <2>1. q1.distance <= r.distance
    BY <1>2
  <2>2. CASE q1.distance < r.distance
    BY <1>7, <2>2 DEF Before
  <2>3. CASE r \in A /\ Quality(q2) > Quality(r)
    BY <1>3, <1>7, <2>3 DEF Before
  <2>4. CASE r \in B
    BY <1>3, <1>5, <1>6, <1>7, <2>4 DEF Before
  <2>5. r \in A => Quality(q2) >= Quality(r)
    BY <1>1, <1>3, <1>4
  <2> QED
    BY <1>1, <1>3, <1>4, <1>5, <2>1, <2>2, <2>3, <2>4, <2>5
<1> QED
  BY <1>7, <1>8

\* What the store of roads says is so: none means that none is in reach, and a
\* confirmed one has a name or a width.
LEMMA StoreIsRead ==
    ASSUME nearRoads \in SUBSET Roads, NEW read, read = ReadRoads
    PROVE  /\ read.state = "not_present" => \A r \in nearRoads : r.distance > Reach
           /\ read.state = "confirmed" => \E r \in nearRoads : r.named \/ r.wide
<1>1. CASE InReach = {}
  <2>1. read.state = "not_present"
    BY <1>1 DEF ReadRoads
  <2>2. ASSUME NEW r \in nearRoads
        PROVE  r.distance > Reach
    <3>1. r.distance \in Nat /\ Reach \in Nat
      BY AbuttingSets
    <3> QED
      BY <1>1, <3>1 DEF InReach
  <2> QED
    BY <2>1, <2>2
<1>2. CASE InReach # {}
  <2>1. PICK first : first = CHOOSE q \in InReach : \A r \in InReach : Before(q, r)
    OBVIOUS
  <2>2. first \in InReach
    BY <1>2, <2>1, FirstRoad
  <2>3. read.state = IF first.named \/ first.wide THEN "confirmed" ELSE "unknown"
    BY <1>2, <2>1 DEF ReadRoads
  <2> QED
    BY <2>2, <2>3 DEF InReach
<1> QED
  BY <1>1, <1>2

\* Probes of which none failed have all answered.
LEMMA NoFailure ==
    ASSUME NEW rs \in SUBSET Requests, Failures(rs) = 0
    PROVE  \A r \in rs : request[r].state = "answered"
<1>1. PICK S : S = {r \in rs : request[r].state # "answered"}
  OBVIOUS
<1>2. IsFiniteSet(S)
  <2>1. S \in SUBSET Requests
    BY <1>1
  <2> QED
    BY <2>1, LookupRequests, FS_Subset
<1>3. Cardinality(S) = 0
  BY <1>1 DEF Failures
<1>4. S = {}
  BY <1>2, <1>3, FS_EmptySet
<1> QED
  BY <1>1, <1>4

\* What is reported about the surroundings is not disturbed by requests that go on.
LEMMA AbuttingKept ==
    ASSUME AbuttingInv, UNCHANGED abuttingVars, Moves(RoadRequests \cup PlotRequests),
           \A r \in RoadRequests : request'[r].found \subseteq nearRoads
    PROVE  AbuttingInv'
<1>1. /\ abutting' = abutting /\ nearRoads' = nearRoads /\ nearPlots' = nearPlots
      /\ roadStore' = roadStore /\ plotStore' = plotStore /\ road' = road /\ neighbours' = neighbours
  BY DEF abuttingVars
<1>2. abutting = "done" => \A r \in RoadRequests \cup PlotRequests : request'[r] = request[r]
  BY DEF AbuttingInv, Settled, Moves, Outcomes
<1>3. abutting = "done" => Settled(RoadRequests \cup PlotRequests)'
  BY <1>2 DEF AbuttingInv, Settled
<1>4. FailureIsNotAbsence'
  BY <1>1, <1>2 DEF AbuttingInv, FailureIsNotAbsence
<1>5. RoadIsRead => RoadIsRead'
  BY <1>1 DEF RoadIsRead
<1> QED
  BY <1>1, <1>3, <1>4, <1>5 DEF AbuttingInv

\* The stores are read, and points around are probed instead of a store that fails.
LEMMA ReadAroundStep ==
    ASSUME RequestsInv, AbuttingInv, ReadAround
    PROVE  /\ RequestsInv' /\ AbuttingInv'
           /\ \A r \in Requests \ (RoadRequests \cup PlotRequests) : request'[r] = request[r]
<1>1. PICK asked : asked = (IF roadStore THEN {} ELSE RoadRequests) \cup (IF plotStore THEN {} ELSE PlotRequests)
  OBVIOUS
<1>2. /\ request' = Sent(asked) /\ abutting' = "asked"
      /\ nearRoads' = nearRoads /\ nearPlots' = nearPlots /\ roadStore' = roadStore /\ plotStore' = plotStore
      /\ roadStore => road' = ReadRoads
  BY <1>1 DEF ReadAround
<1>3. /\ RequestTyped' /\ SlotsHeld'
      /\ \A r \in Requests \ asked : request'[r] = request[r]
      /\ \A r \in Requests \cap asked : request'[r].found = {}
  BY <1>2, Sending DEF RequestsInv
<1>4. \A r \in RoadRequests : request'[r].found \subseteq nearRoads
  <2>1. RoadRequests \subseteq Requests
    BY RequestsOfTasks
  <2> QED
    BY <1>3, <2>1 DEF AbuttingInv
<1>5. roadStore => RoadIsRead'
  <2>1. PICK read : read = ReadRoads
    OBVIOUS
  <2>2. /\ read.state = "not_present" => \A r \in nearRoads : r.distance > Reach
        /\ read.state = "confirmed" => \E r \in nearRoads : r.named \/ r.wide
    BY <2>1, StoreIsRead DEF AbuttingInv
  <2> QED
    BY <1>2, <2>1, <2>2 DEF RoadIsRead
<1>6. FailureIsNotAbsence'
  BY <1>2 DEF FailureIsNotAbsence
<1>7. AbuttingInv'
  BY <1>2, <1>4, <1>5, <1>6 DEF AbuttingInv
<1> QED
  BY <1>1, <1>3, <1>7 DEF RequestsInv

\* The probes are taken together when all have ended.
LEMMA SurroundStep ==
    ASSUME RequestsInv, AbuttingInv, Surround
    PROVE  AbuttingInv'
<1>1. /\ request' = request /\ abutting' = "done" /\ nearRoads' = nearRoads /\ nearPlots' = nearPlots
      /\ roadStore' = roadStore /\ plotStore' = plotStore /\ abutting = "asked"
  BY DEF Surround
<1>2. RoadRequests \in SUBSET Requests /\ PlotRequests \in SUBSET Requests
  BY RequestsOfTasks
<1>3. Settled(RoadRequests \cup PlotRequests)'
  BY <1>1 DEF Surround, Ended, Settled
<1>4. roadStore => RoadIsRead /\ road' = road
  BY <1>1 DEF AbuttingInv, Surround
<1>5. ASSUME ~roadStore
      PROVE  /\ road'.failures = 0 => \A r \in RoadRequests : request[r].state = "answered"
             /\ road'.state # "not_present"
             /\ road'.state = "confirmed" =>
                  \E r \in nearRoads : (r.named \/ r.wide) /\ \E q \in RoadRequests : r \in request[q].found
  <2>1. PICK kind \in Selected(Probed(RoadRequests)) :
          road' = [kind |-> kind, failures |-> Failures(RoadRequests),
                   state |-> IF Failures(RoadRequests) = Cardinality(RoadRequests) THEN "failed"
                             ELSE IF kind = "named" THEN "confirmed" ELSE "unknown"]
    BY <1>5 DEF Surround, RoadOfProbes
  <2>2. /\ road'.failures = Failures(RoadRequests) /\ road'.state \in {"failed", "confirmed", "unknown"}
        /\ road'.state = "confirmed" => kind = "named"
    BY <2>1
  <2>3. ASSUME kind = "named"
        PROVE  \E r \in Probed(RoadRequests) : r.named \/ r.wide
    BY <2>1, <2>3 DEF Selected
  <2>4. \A r \in Probed(RoadRequests) : r \in nearRoads /\ \E q \in RoadRequests : r \in request[q].found
    BY DEF Probed, AbuttingInv
  <2> QED
    BY <1>2, <2>2, <2>3, <2>4, NoFailure
<1>6. ASSUME ~plotStore, neighbours'.failures = 0
      PROVE  \A r \in PlotRequests : request[r].state = "answered"
  <2>1. neighbours'.failures = Failures(PlotRequests)
    BY <1>6 DEF Surround, PlotsOfProbes
  <2> QED
    BY <1>2, <1>6, <2>1, NoFailure
<1>7. FailureIsNotAbsence'
  BY <1>1, <1>4, <1>5, <1>6 DEF FailureIsNotAbsence, RoadIsRead
<1>8. roadStore => RoadIsRead'
  BY <1>1, <1>4 DEF RoadIsRead
<1> QED
  BY <1>1, <1>3, <1>7, <1>8 DEF AbuttingInv

-----------------------------------------------------------------------------
(* The scrutiny                                                            *)

LEMMA ScrutinyLayers ==
    /\ \A l \in AllLayers : LayerRequest(l) \in ScrutinyRequests /\ LayerRequest(l) \in Requests
    /\ \A k, l \in AllLayers : LayerRequest(k) = LayerRequest(l) => k = l
    /\ \A l \in ConditionalLayers : Trigger[l] \in FullLayers
    /\ LayersOf("full") = StandardLayers \cup FullLayers
    /\ \A p \in Profiles : LayersOf(p) \subseteq StandardLayers \cup FullLayers
    /\ \A p \in Profiles \ {"basic"} : StandardLayers \subseteq LayersOf(p)
<1>1. \A l \in AllLayers : LayerRequest(l) \in ScrutinyRequests /\ LayerRequest(l) \in Requests
  BY RequestsOfTasks DEF ScrutinyRequests
<1>2. \A k, l \in AllLayers : LayerRequest(k) = LayerRequest(l) => k = l
  BY DEF LayerRequest
<1> QED
  BY <1>1, <1>2, ScrutinySets DEF LayersOf

\* An honest report: what it says of a layer without damage is so, and if it is
\* complete, the layers that are left out do not apply to the parcel.
LEMMA ReportIsHonest ==
    ASSUME NEW outcomes, DOMAIN outcomes \subseteq AllLayers,
           \A l \in DOMAIN outcomes :
               /\ outcomes[l].state \in {"hit", "not_present"} => outcomes[l].found = (l \in there)
               /\ outcomes[l].state = "not_present" => l \notin there,
           Complete(outcomes) =>
               \A l \in (AllLayers \ DOMAIN outcomes) \cap there :
                   \/ profile # "full" /\ l \notin StandardLayers
                   \/ l \in ConditionalLayers /\ Trigger[l] \notin there,
           NEW warned, NEW from, report' = Reported(outcomes, warned, from),
           there' = there, profile' = profile
    PROVE  ScrutinyIsHonest'
<1>1. /\ report'.outcomes = outcomes /\ report'.complete = Complete(outcomes)
      /\ report'.asi = AsiZone(outcomes)
      /\ report'.warned = (warned \/ \E l \in DOMAIN outcomes : outcomes[l].state \notin {"hit", "not_present"})
      /\ report'.note = (~Complete(outcomes) /\ profile # "shadow")
  BY DEF Reported
<1>2. CompleteIsAll'
  BY <1>1 DEF CompleteIsAll, Complete
<1>3. AsiIsChecked'
  BY <1>1 DEF AsiIsChecked, AsiZone
<1>4. IncompleteIsSaid'
  BY <1>1 DEF IncompleteIsSaid, Complete
<1> QED
  BY <1>2, <1>3, <1>4 DEF ScrutinyIsHonest

\* As long as there is no report nothing is claimed.
LEMMA Unreported ==
    report = NoReport /\ scrutiny # "done" => ScrutinyIsHonest
BY DEF ScrutinyIsHonest, CompleteIsAll, AsiIsChecked, IncompleteIsSaid, NoReport

\* A report is not disturbed by requests that go on, nor is what the rounds have asked.
LEMMA ScrutinyKept ==
    ASSUME ScrutinyInv, UNCHANGED scrutinyVars, Moves(ScrutinyRequests),
           \A l \in AllLayers :
               /\ request'[LayerRequest(l)].found \subseteq {l} \cap there
               /\ request'[LayerRequest(l)].state = "answered" => request'[LayerRequest(l)].found = {l} \cap there
    PROVE  ScrutinyInv'
<1>1. scrutiny' = scrutiny /\ profile' = profile /\ there' = there /\ report' = report
  BY DEF scrutinyVars
<1>2. \A l \in AllLayers :
        /\ request'[LayerRequest(l)].state = "unsent" <=> request[LayerRequest(l)].state = "unsent"
        /\ request[LayerRequest(l)].state \in Outcomes => request'[LayerRequest(l)] = request[LayerRequest(l)]
  BY ScrutinyLayers DEF Moves, Outcomes
<1>3. Round' = Round
  BY <1>2 DEF Round
<1>4. Fresh(ScrutinyRequests) => Fresh(ScrutinyRequests)'
  BY <1>2 DEF Fresh, ScrutinyRequests
<1>5. ScrutinyIsHonest'
  BY <1>1 DEF ScrutinyInv, ScrutinyIsHonest, CompleteIsAll, AsiIsChecked, IncompleteIsSaid
<1>6. ASSUME scrutiny = "second"
      PROVE  /\ \A l \in LayersOf(profile) : request'[LayerRequest(l)].state \in Outcomes
             /\ profile = "full" =>
                  \A l \in ConditionalLayers \ Round : request'[LayerRequest(Trigger[l])].found = {}
  <2>1. \A l \in LayersOf(profile) : request'[LayerRequest(l)] = request[LayerRequest(l)]
    BY <1>2, <1>6, ScrutinyLayers DEF ScrutinyInv, AllLayers
  <2>2. profile = "full" => \A l \in ConditionalLayers : Trigger[l] \in LayersOf(profile)
    BY ScrutinyLayers
  <2> QED
    BY <1>6, <2>1, <2>2 DEF ScrutinyInv
<1> QED
  BY <1>1, <1>3, <1>4, <1>5, <1>6 DEF ScrutinyInv

\* The report from the snapshot.
LEMMA LocalReport ==
    ASSUME RequestsInv, ScrutinyInv, ReadLocalEvidence
    PROVE  ScrutinyInv'
<1> DEFINE first == [l \in LayersOf(profile) |-> LocalOutcome(l)]
           more  == IF profile = "full" THEN {l \in ConditionalLayers : Applies(first, l)} ELSE {}
           outcomes == [l \in LayersOf(profile) \cup more |-> LocalOutcome(l)]
<1>1. /\ report' = Reported(outcomes, snapshot = "stale", "local") /\ scrutiny' = "done" /\ request' = request
      /\ profile' = profile /\ there' = there /\ profile # "basic"
  BY DEF ReadLocalEvidence
<1>2. DOMAIN outcomes \subseteq AllLayers /\ profile \in Profiles
  BY ScrutinyLayers DEF ScrutinyInv, AllLayers
<1>3. ASSUME NEW l \in DOMAIN outcomes
      PROVE  /\ outcomes[l].state \in {"hit", "not_present"} =>
                    l \notin damaged /\ outcomes[l].found = (l \in there)
             /\ outcomes[l].state = "not_present" => l \notin there
  <2>1. outcomes[l].state = IF l \in damaged THEN "malformed" ELSE State("answered", l \in there)
    BY DEF LocalOutcome
  <2>2. outcomes[l].found = (l \in there \ damaged)
    BY DEF LocalOutcome
  <2> QED
    BY <2>1, <2>2 DEF State
<1>4. ASSUME Complete(outcomes), NEW l \in (AllLayers \ DOMAIN outcomes) \cap there
      PROVE  \/ profile # "full" /\ l \notin StandardLayers
             \/ l \in ConditionalLayers /\ Trigger[l] \notin there
  <2>1. CASE profile # "full"
    BY <1>1, <1>2, <2>1, ScrutinyLayers
  <2>2. CASE profile = "full"
    <3>1. l \in ConditionalLayers /\ l \notin more
      BY <2>2, ScrutinyLayers DEF AllLayers
    <3>2. Trigger[l] \in LayersOf(profile)
      BY <2>2, <3>1, ScrutinyLayers
    <3>3. ~first[Trigger[l]].found /\ outcomes[Trigger[l]] = first[Trigger[l]]
      BY <2>2, <3>1, <3>2 DEF Applies
    <3>4. outcomes[Trigger[l]].state \in {"hit", "not_present"}
      BY <1>4, <3>2 DEF Complete
    <3> QED
      BY <1>3, <3>1, <3>2, <3>3, <3>4
  <2> QED
    BY <2>1, <2>2
<1>5. ScrutinyIsHonest'
  <2>1. PICK given : given = outcomes
    OBVIOUS
  <2>2. PICK warned : warned = (snapshot = "stale")
    OBVIOUS
  <2>3. /\ DOMAIN given \subseteq AllLayers
        /\ \A l \in DOMAIN given :
               /\ given[l].state \in {"hit", "not_present"} => given[l].found = (l \in there)
               /\ given[l].state = "not_present" => l \notin there
        /\ Complete(given) =>
               \A l \in (AllLayers \ DOMAIN given) \cap there :
                   \/ profile # "full" /\ l \notin StandardLayers
                   \/ l \in ConditionalLayers /\ Trigger[l] \notin there
    BY <1>2, <1>3, <1>4, <2>1
  <2>4. report' = Reported(given, warned, "local")
    BY <1>1, <2>1, <2>2
  <2> QED
    BY <1>1, <2>3, <2>4, ReportIsHonest
<1> QED
  BY <1>1, <1>5 DEF ScrutinyInv

\* The report from the answers of both rounds.
LEMMA LiveReport ==
    ASSUME RequestsInv, ScrutinyInv, ReportLive
    PROVE  ScrutinyInv'
<1> DEFINE outcomes == [l \in Round |-> LiveOutcome(l)]
<1>1. /\ report' = Reported(outcomes, policy = "auto", "live") /\ scrutiny' = "done" /\ request' = request
      /\ profile' = profile /\ there' = there /\ scrutiny = "second"
  BY DEF ReportLive
<1>2. /\ profile \in Profiles \ {"basic"} /\ LayersOf(profile) \subseteq Round
      /\ profile = "full" => \A l \in ConditionalLayers \ Round : request[LayerRequest(Trigger[l])].found = {}
  BY <1>1 DEF ScrutinyInv
<1>3. DOMAIN outcomes \subseteq AllLayers
  BY DEF Round
<1>4. ASSUME NEW l \in DOMAIN outcomes
      PROVE  /\ outcomes[l].state \in {"hit", "not_present"} =>
                    /\ request[LayerRequest(l)].found = {l} \cap there
                    /\ outcomes[l].found = (l \in there)
             /\ outcomes[l].state = "not_present" => l \notin there
  <2>1. PICK r : r = request[LayerRequest(l)]
    OBVIOUS
  <2>2. outcomes[l].state = State(r.state, r.found # {}) /\ outcomes[l].found = (r.found # {})
    BY <2>1 DEF LiveOutcome
  <2>3. r.state \in Outcomes
    BY <1>3, <2>1 DEF ReportLive, Ended
  <2>4. r.state = "answered" => r.found = {l} \cap there
    BY <1>3, <2>1 DEF ScrutinyInv
  <2> QED
    BY <2>1, <2>2, <2>3, <2>4 DEF State, Outcomes
<1>5. ASSUME Complete(outcomes), NEW l \in (AllLayers \ DOMAIN outcomes) \cap there
      PROVE  \/ profile # "full" /\ l \notin StandardLayers
             \/ l \in ConditionalLayers /\ Trigger[l] \notin there
  <2>1. CASE profile # "full"
    BY <1>2, <2>1, ScrutinyLayers
  <2>2. CASE profile = "full"
    <3>1. l \in ConditionalLayers \ Round
      BY <1>2, <2>2, ScrutinyLayers DEF AllLayers
    <3>2. Trigger[l] \in Round
      BY <1>2, <2>2, <3>1, ScrutinyLayers
    <3>3. outcomes[Trigger[l]].state \in {"hit", "not_present"}
      BY <1>5, <3>2 DEF Complete
    <3>4. request[LayerRequest(Trigger[l])].found = {}
      BY <1>2, <2>2, <3>1
    <3> QED
      BY <1>4, <3>1, <3>2, <3>3, <3>4
  <2> QED
    BY <2>1, <2>2
<1>6. ScrutinyIsHonest'
  <2>1. PICK given : given = outcomes
    OBVIOUS
  <2>2. PICK warned : warned = (policy = "auto")
    OBVIOUS
  <2>3. /\ DOMAIN given \subseteq AllLayers
        /\ \A l \in DOMAIN given :
               /\ given[l].state \in {"hit", "not_present"} => given[l].found = (l \in there)
               /\ given[l].state = "not_present" => l \notin there
        /\ Complete(given) =>
               \A l \in (AllLayers \ DOMAIN given) \cap there :
                   \/ profile # "full" /\ l \notin StandardLayers
                   \/ l \in ConditionalLayers /\ Trigger[l] \notin there
    BY <1>3, <1>4, <1>5, <2>1
  <2>4. report' = Reported(given, warned, "live")
    BY <1>1, <2>1, <2>2
  <2> QED
    BY <1>1, <2>3, <2>4, ReportIsHonest
<1> QED
  BY <1>1, <1>6 DEF ScrutinyInv

\* The steps that end the task without a report, or with one that says it is incomplete.
LEMMA NoEvidence ==
    ASSUME RequestsInv, ScrutinyInv, BasicHasNone \/ LocalEvidenceFails
    PROVE  ScrutinyInv'
<1>1. /\ request' = request /\ scrutiny' = "done" /\ profile' = profile /\ there' = there
      /\ scrutiny = "start" /\ report = NoReport
  BY DEF BasicHasNone, LocalEvidenceFails, ScrutinyInv
<1>2. CASE BasicHasNone
  <2>1. report' = NoReport /\ profile = "basic"
    BY <1>1, <1>2 DEF BasicHasNone
  <2>2. ScrutinyIsHonest'
    BY <1>1, <2>1 DEF ScrutinyIsHonest, CompleteIsAll, AsiIsChecked, IncompleteIsSaid, NoReport
  <2> QED
    BY <1>1, <2>2 DEF ScrutinyInv
<1>3. CASE LocalEvidenceFails
  <2>1. /\ report'.complete = FALSE /\ report'.asi = "unknown" /\ report'.warned = TRUE
        /\ report'.note = (profile # "shadow")
    BY <1>3 DEF LocalEvidenceFails, NoReport
  <2>2. ScrutinyIsHonest'
    BY <1>1, <2>1 DEF ScrutinyIsHonest, CompleteIsAll, AsiIsChecked, IncompleteIsSaid
  <2> QED
    BY <1>1, <2>2 DEF ScrutinyInv
<1> QED
  BY <1>2, <1>3

\* The first round asks the layers of the profile.
LEMMA FirstRound ==
    ASSUME RequestsInv, ScrutinyInv, AskFirst
    PROVE  /\ RequestsInv' /\ ScrutinyInv'
           /\ \A r \in Requests \ ScrutinyRequests : request'[r] = request[r]
<1>1. PICK asked : asked = {LayerRequest(l) : l \in LayersOf(profile)}
  OBVIOUS
<1>2. /\ request' = Sent(asked) /\ scrutiny' = "first" /\ profile' = profile /\ there' = there /\ report' = report
      /\ scrutiny = "start" /\ profile # "basic"
  BY <1>1 DEF AskFirst
<1>3. /\ RequestTyped' /\ SlotsHeld'
      /\ \A r \in Requests \ asked : request'[r] = request[r]
      /\ \A r \in Requests \cap asked : request'[r].state \in {"queued", "sent"} /\ request'[r].found = {}
  BY <1>2, Sending DEF RequestsInv
<1>4. LayersOf(profile) \subseteq AllLayers
  BY ScrutinyLayers DEF ScrutinyInv, AllLayers
<1>5. \A l \in AllLayers : LayerRequest(l) \in asked <=> l \in LayersOf(profile)
  BY <1>1, <1>4, ScrutinyLayers
<1>6. \A l \in AllLayers :
        IF l \in LayersOf(profile)
        THEN request'[LayerRequest(l)].state \in {"queued", "sent"} /\ request'[LayerRequest(l)].found = {}
        ELSE request'[LayerRequest(l)] = request[LayerRequest(l)]
  BY <1>3, <1>5, ScrutinyLayers
<1>7. \A l \in AllLayers : request[LayerRequest(l)].state = "unsent"
  BY <1>2, ScrutinyLayers DEF ScrutinyInv, Fresh
<1>8. Round' = LayersOf(profile)
  BY <1>4, <1>6, <1>7 DEF Round
<1>9. \A l \in AllLayers :
        /\ request'[LayerRequest(l)].found \subseteq {l} \cap there
        /\ request'[LayerRequest(l)].state = "answered" => request'[LayerRequest(l)].found = {l} \cap there
  BY <1>6 DEF ScrutinyInv
<1>10. ScrutinyIsHonest'
  <2>1. (report = NoReport /\ scrutiny # "done")'
    BY <1>2 DEF ScrutinyInv, NoReport
  <2> QED
    BY <2>1, Unreported, PTL
<1>11. ScrutinyInv'
  BY <1>2, <1>8, <1>9, <1>10 DEF ScrutinyInv, NoReport, LayersOf
<1>12. asked \subseteq ScrutinyRequests
  BY <1>1, <1>4, ScrutinyLayers
<1> QED
  BY <1>3, <1>11, <1>12 DEF RequestsInv

\* The second round asks the further layers that apply, none of which was asked before.
LEMMA SecondRound ==
    ASSUME RequestsInv, ScrutinyInv, AskMore
    PROVE  /\ RequestsInv' /\ ScrutinyInv'
           /\ \A r \in Requests \ ScrutinyRequests : request'[r] = request[r]
<1>1. PICK outcomes : outcomes = [l \in Round |-> LiveOutcome(l)]
  OBVIOUS
<1>2. PICK more : more = IF profile = "full" THEN {l \in ConditionalLayers : Applies(outcomes, l)} ELSE {}
  OBVIOUS
<1>3. PICK asked : asked = {LayerRequest(l) : l \in more}
  OBVIOUS
<1>4. /\ request' = Sent(asked) /\ scrutiny' = "second" /\ profile' = profile /\ there' = there /\ report' = report
      /\ scrutiny = "first"
  BY <1>1, <1>2, <1>3 DEF AskMore
<1>5. /\ RequestTyped' /\ SlotsHeld'
      /\ \A r \in Requests \ asked : request'[r] = request[r]
      /\ \A r \in Requests \cap asked : request'[r].state \in {"queued", "sent"} /\ request'[r].found = {}
  BY <1>4, Sending DEF RequestsInv
<1>6. /\ Round = LayersOf(profile) /\ profile \in Profiles \ {"basic"} /\ report = NoReport
      /\ \A l \in Round : request[LayerRequest(l)].state \in Outcomes
  BY <1>4 DEF ScrutinyInv, AskMore, Ended
<1>7. /\ more \subseteq ConditionalLayers /\ more \cap Round = {}
      /\ Round \subseteq AllLayers /\ ConditionalLayers \subseteq AllLayers
  BY <1>2, <1>6, ScrutinyLayers, ScrutinySets DEF AllLayers
<1>8. \A l \in AllLayers : LayerRequest(l) \in asked <=> l \in more
  BY <1>3, <1>7, ScrutinyLayers
<1>9. \A l \in AllLayers :
        IF l \in more
        THEN request'[LayerRequest(l)].state \in {"queued", "sent"} /\ request'[LayerRequest(l)].found = {}
        ELSE request'[LayerRequest(l)] = request[LayerRequest(l)]
  BY <1>5, <1>8, ScrutinyLayers
<1>10. Round' = Round \cup more
  BY <1>7, <1>9 DEF Round
<1>11. \A l \in AllLayers :
        /\ request'[LayerRequest(l)].found \subseteq {l} \cap there
        /\ request'[LayerRequest(l)].state = "answered" => request'[LayerRequest(l)].found = {l} \cap there
  BY <1>9 DEF ScrutinyInv
<1>12. \A l \in LayersOf(profile) : request'[LayerRequest(l)].state \in Outcomes
  BY <1>6, <1>7, <1>9
<1>13. ASSUME profile = "full", NEW l \in ConditionalLayers \ Round'
       PROVE  request'[LayerRequest(Trigger[l])].found = {}
  <2>1. l \notin more /\ Trigger[l] \in Round
    BY <1>6, <1>10, <1>13, ScrutinyLayers
  <2>2. ~outcomes[Trigger[l]].found
    BY <1>2, <1>13, <2>1 DEF Applies
  <2>3. outcomes[Trigger[l]].found = (request[LayerRequest(Trigger[l])].found # {})
    BY <1>1, <2>1 DEF LiveOutcome
  <2> QED
    BY <1>7, <1>9, <2>1, <2>2, <2>3
<1>14. ScrutinyIsHonest'
  <2>1. (report = NoReport /\ scrutiny # "done")'
    BY <1>4, <1>6 DEF NoReport
  <2> QED
    BY <2>1, Unreported, PTL
<1>15. LayersOf(profile)' = LayersOf(profile) /\ NoReport' = NoReport
  BY <1>4 DEF LayersOf, NoReport
<1>16. ScrutinyInv'
  BY <1>4, <1>6, <1>7, <1>10, <1>11, <1>12, <1>13, <1>14, <1>15 DEF ScrutinyInv
<1>17. asked \subseteq ScrutinyRequests
  BY <1>3, <1>7, ScrutinyLayers
<1> QED
  BY <1>5, <1>16, <1>17 DEF RequestsInv

-----------------------------------------------------------------------------
(* The steps of the lookup                                                 *)

\* A task is not disturbed by the requests of the others.
LEMMA PlanningAside ==
    ASSUME PlanningInv, UNCHANGED planningVars, \A r \in PlanningRequests : request'[r] = request[r]
    PROVE  PlanningInv'
<1>1. Moves(PlanningRequests)
  BY DEF Moves
<1>2. FoundOnGround'
  <2>1. \A l \in Layers : <<"layer", l>> \in PlanningRequests
    BY DEF PlanningRequests, LayerRequests
  <2> QED
    BY <2>1 DEF planningVars, PlanningInv, FoundOnGround
<1> QED
  BY <1>1, <1>2, PlanningKept

LEMMA AbuttingAside ==
    ASSUME AbuttingInv, UNCHANGED abuttingVars, \A r \in RoadRequests \cup PlotRequests : request'[r] = request[r]
    PROVE  AbuttingInv'
<1>1. Moves(RoadRequests \cup PlotRequests)
  BY DEF Moves
<1>2. \A r \in RoadRequests : request'[r].found \subseteq nearRoads
  BY DEF AbuttingInv
<1> QED
  BY <1>1, <1>2, AbuttingKept

LEMMA ScrutinyAside ==
    ASSUME ScrutinyInv, UNCHANGED scrutinyVars, \A r \in ScrutinyRequests : request'[r] = request[r]
    PROVE  ScrutinyInv'
<1>1. Moves(ScrutinyRequests)
  BY DEF Moves
<1>2. \A l \in AllLayers : request'[LayerRequest(l)] = request[LayerRequest(l)]
  BY DEF ScrutinyRequests
<1> QED
  BY <1>1, <1>2, ScrutinyKept DEF ScrutinyInv

\* Every step of the planning task.
LEMMA PlanningTaskStep ==
    ASSUME RequestsInv, PlanningInv, PlanningTask
    PROVE  /\ RequestsInv' /\ PlanningInv'
           /\ \A r \in Requests \ PlanningRequests : request'[r] = request[r]
<1>1. CASE ReadLocalPlanning \/ LocalPlanningFails \/ AskLive
  BY <1>1, SourceStep
<1>2. CASE Gathered \/ Decide \/ DecideFromIdentify
  <2>1. request' = request
    BY <1>2 DEF Gathered, Decide, DecideFromIdentify
  <2>2. RequestsInv'
    BY <2>1 DEF RequestsInv, RequestTyped, SlotsHeld, InFlight
  <2> QED
    BY <1>2, <2>1, <2>2, GatheredStep, DecideStep, DecideFromIdentifyStep
<1> QED
  BY <1>1, <1>2 DEF PlanningTask

\* Every step of the scrutiny.
LEMMA ScrutinyTaskStep ==
    ASSUME RequestsInv, ScrutinyInv, ScrutinyTask
    PROVE  /\ RequestsInv' /\ ScrutinyInv'
           /\ \A r \in Requests \ ScrutinyRequests : request'[r] = request[r]
<1>1. CASE AskFirst \/ AskMore
  BY <1>1, FirstRound, SecondRound
<1>2. CASE BasicHasNone \/ ReadLocalEvidence \/ LocalEvidenceFails \/ ReportLive
  <2>1. request' = request
    BY <1>2 DEF BasicHasNone, ReadLocalEvidence, LocalEvidenceFails, ReportLive
  <2>2. RequestsInv'
    BY <2>1 DEF RequestsInv, RequestTyped, SlotsHeld, InFlight
  <2> QED
    BY <1>2, <2>1, <2>2, NoEvidence, LocalReport, LiveReport
<1> QED
  BY <1>1, <1>2 DEF ScrutinyTask

\* Every step of the task that looks around.
LEMMA AbuttingTaskStep ==
    ASSUME RequestsInv, AbuttingInv, AbuttingTask
    PROVE  /\ RequestsInv' /\ AbuttingInv'
           /\ \A r \in Requests \ (RoadRequests \cup PlotRequests) : request'[r] = request[r]
<1>1. CASE ReadAround
  BY <1>1, ReadAroundStep
<1>2. CASE Surround
  <2>1. request' = request
    BY <1>2 DEF Surround
  <2>2. RequestsInv'
    BY <2>1 DEF RequestsInv, RequestTyped, SlotsHeld, InFlight
  <2> QED
    BY <1>2, <2>1, <2>2, SurroundStep
<1> QED
  BY <1>1, <1>2 DEF AbuttingTask

\* A step of one task keeps the whole invariant.
LEMMA TaskKeepsInv ==
    ASSUME Inv, Task
    PROVE  Inv'
<1>1. CASE PlanningTask /\ UNCHANGED <<abuttingVars, scrutinyVars>>
  <2>1. /\ RequestsInv' /\ PlanningInv'
        /\ \A r \in Requests \ PlanningRequests : request'[r] = request[r]
    BY <1>1, PlanningTaskStep DEF Inv
  <2>2. /\ \A r \in RoadRequests \cup PlotRequests : request'[r] = request[r]
        /\ \A r \in ScrutinyRequests : request'[r] = request[r]
    BY <2>1, RequestsOfTasks
  <2> QED
    BY <1>1, <2>1, <2>2, AbuttingAside, ScrutinyAside DEF Inv
<1>2. CASE AbuttingTask /\ UNCHANGED <<planningVars, scrutinyVars>>
  <2>1. /\ RequestsInv' /\ AbuttingInv'
        /\ \A r \in Requests \ (RoadRequests \cup PlotRequests) : request'[r] = request[r]
    BY <1>2, AbuttingTaskStep DEF Inv
  <2>2. /\ \A r \in PlanningRequests : request'[r] = request[r]
        /\ \A r \in ScrutinyRequests : request'[r] = request[r]
    BY <2>1, RequestsOfTasks
  <2> QED
    BY <1>2, <2>1, <2>2, PlanningAside, ScrutinyAside DEF Inv
<1>3. CASE ScrutinyTask /\ UNCHANGED <<planningVars, abuttingVars>>
  <2>1. /\ RequestsInv' /\ ScrutinyInv'
        /\ \A r \in Requests \ ScrutinyRequests : request'[r] = request[r]
    BY <1>3, ScrutinyTaskStep DEF Inv
  <2>2. /\ \A r \in PlanningRequests : request'[r] = request[r]
        /\ \A r \in RoadRequests \cup PlotRequests : request'[r] = request[r]
    BY <2>1, RequestsOfTasks
  <2> QED
    BY <1>3, <2>1, <2>2, PlanningAside, AbuttingAside DEF Inv
<1> QED
  BY <1>1, <1>2, <1>3 DEF Task

\* An answer about the planning layers.
LEMMA PlanningAnswerStep ==
    ASSUME Inv, PlanningAnswers, UNCHANGED <<abuttingVars, scrutinyVars>>
    PROVE  Inv'
<1>1. PICK r \in PlanningRequests, found \in SUBSET Findings :
          /\ Answer(r, "answered", found)
          /\ \A l \in Layers : r = <<"layer", l>> => found \subseteq ground[l]
  <2>1. CASE IdentifyAnswers
    <3>1. PICK hits \in SUBSET UNION {{[layer |-> l, coded |-> f.coded] : f \in ground[l]} : l \in Layers} :
            Answer(Identify, "answered", hits)
      BY <2>1 DEF IdentifyAnswers
    <3>2. \A l \in Layers : \A f \in ground[l] : f.coded \in BOOLEAN
      <4>1. \A l \in Layers : ground[l] \in SUBSET Features
        BY PlanningSets DEF Inv, PlanningInv
      <4>2. \A f \in Features : f.coded \in BOOLEAN
        BY DEF Features
      <4> QED
        BY <4>1, <4>2
    <3>3. hits \in SUBSET Findings
      BY <3>1, <3>2 DEF Findings
    <3>4. Identify \in PlanningRequests /\ \A l \in Layers : Identify # <<"layer", l>>
      BY DEF PlanningRequests, Identify
    <3> QED
      BY <3>1, <3>3, <3>4
  <2>2. ASSUME NEW l \in Layers, LayerAnswers(l)
        PROVE  \E r \in PlanningRequests, found \in SUBSET Findings :
                  /\ Answer(r, "answered", found)
                  /\ \A k \in Layers : r = <<"layer", k>> => found \subseteq ground[k]
    <3>1. PICK found \in SUBSET ground[l] : Answer(<<"layer", l>>, "answered", found)
      BY <2>2 DEF LayerAnswers
    <3>2. found \in SUBSET Findings
      BY PlanningSets DEF Inv, PlanningInv, Findings
    <3>3. <<"layer", l>> \in PlanningRequests /\ \A k \in Layers : <<"layer", l>> = <<"layer", k>> => k = l
      BY DEF PlanningRequests, LayerRequests
    <3> QED
      BY <3>1, <3>2, <3>3
  <2> QED
    BY <2>1, <2>2 DEF PlanningAnswers
<1>2. UNCHANGED planningVars
  BY DEF PlanningAnswers, IdentifyAnswers, LayerAnswers
<1>3. r \in Requests /\ "answered" \in Outcomes
  BY RequestsOfTasks DEF Outcomes
<1>4. /\ RequestsInv' /\ Moves(Requests)
      /\ request'[r].state = "answered" /\ request'[r].found = found
      /\ \A q \in Requests \ {r} : request'[q] = request[q]
  BY <1>1, <1>3, Answering DEF Inv, RequestsInv
<1>5. Moves(PlanningRequests)
  BY <1>4, RequestsOfTasks DEF Moves
<1>6. FoundOnGround'
  <2>1. /\ PlanningRequests \subseteq Requests
        /\ \A l \in Layers : <<"layer", l>> \in PlanningRequests
    BY RequestsOfTasks DEF PlanningRequests, LayerRequests
  <2>2. ground' = ground
    BY <1>2 DEF planningVars
  <2>3. ASSUME NEW q \in PlanningRequests, request'[q].state # "answered"
        PROVE  request'[q].found = {}
    BY <1>4, <2>1, <2>3 DEF Inv, PlanningInv, FoundOnGround
  <2>4. ASSUME NEW l \in Layers
        PROVE  request'[<<"layer", l>>].found \subseteq ground[l]
    BY <1>1, <1>4, <2>1 DEF Inv, PlanningInv, FoundOnGround
  <2> QED
    BY <2>2, <2>3, <2>4 DEF FoundOnGround
<1>7. /\ \A q \in RoadRequests \cup PlotRequests : request'[q] = request[q]
      /\ \A q \in ScrutinyRequests : request'[q] = request[q]
  BY <1>4, RequestsOfTasks
<1> QED
  BY <1>2, <1>4, <1>5, <1>6, <1>7, PlanningKept, AbuttingAside, ScrutinyAside DEF Inv

\* An answer to a probe finds what is near the parcel.
LEMMA ProbeAnswerStep ==
    ASSUME Inv, AbuttingAnswers, UNCHANGED <<planningVars, scrutinyVars>>
    PROVE  Inv'
<1>1. PICK r \in RoadRequests \cup PlotRequests, found \in SUBSET Findings :
          /\ Answer(r, "answered", found)
          /\ r \in RoadRequests => found \subseteq nearRoads
  <2>1. ASSUME NEW p \in RoadProbes, RoadProbeAnswers(p)
        PROVE  \E r \in RoadRequests \cup PlotRequests, found \in SUBSET Findings :
                  /\ Answer(r, "answered", found)
                  /\ r \in RoadRequests => found \subseteq nearRoads
    <3>1. PICK found \in SUBSET nearRoads : Answer(<<"road", p>>, "answered", found)
      BY <2>1 DEF RoadProbeAnswers
    <3>2. <<"road", p>> \in RoadRequests /\ found \in SUBSET Findings
      BY DEF RoadRequests, Findings, Inv, AbuttingInv
    <3> QED
      BY <3>1, <3>2
  <2>2. ASSUME NEW p \in PlotProbes, PlotProbeAnswers(p)
        PROVE  \E r \in RoadRequests \cup PlotRequests, found \in SUBSET Findings :
                  /\ Answer(r, "answered", found)
                  /\ r \in RoadRequests => found \subseteq nearRoads
    <3>1. PICK found \in SUBSET nearPlots : Answer(<<"plot", p>>, "answered", found)
      BY <2>2 DEF PlotProbeAnswers
    <3>2. <<"plot", p>> \in PlotRequests /\ found \in SUBSET Findings
      BY DEF PlotRequests, Findings, Inv, AbuttingInv
    <3>3. <<"plot", p>> \notin RoadRequests
      BY <3>2, RequestsOfTasks
    <3> QED
      BY <3>1, <3>2, <3>3
  <2> QED
    BY <2>1, <2>2 DEF AbuttingAnswers
<1>2. UNCHANGED abuttingVars
  BY DEF AbuttingAnswers, RoadProbeAnswers, PlotProbeAnswers
<1>3. r \in Requests /\ "answered" \in Outcomes
  BY RequestsOfTasks DEF Outcomes
<1>4. /\ RequestsInv' /\ Moves(Requests) /\ request'[r].found = found
      /\ \A q \in Requests \ {r} : request'[q] = request[q]
  BY <1>1, <1>3, Answering DEF Inv, RequestsInv
<1>5. Moves(RoadRequests \cup PlotRequests)
  BY <1>4, RequestsOfTasks DEF Moves
<1>6. \A q \in RoadRequests : request'[q].found \subseteq nearRoads
  <2>1. RoadRequests \subseteq Requests
    BY RequestsOfTasks
  <2> QED
    BY <1>1, <1>4, <2>1 DEF Inv, AbuttingInv
<1>7. /\ \A q \in PlanningRequests : request'[q] = request[q]
      /\ \A q \in ScrutinyRequests : request'[q] = request[q]
  BY <1>4, RequestsOfTasks
<1> QED
  BY <1>2, <1>4, <1>5, <1>6, <1>7, PlanningAside, AbuttingKept, ScrutinyAside DEF Inv

\* An answer of a scrutiny layer: only a complete one tells what is there.
LEMMA ScrutinyAnswerStep ==
    ASSUME Inv, NEW l \in AllLayers, ScrutinyAnswers(l), UNCHANGED <<planningVars, abuttingVars>>
    PROVE  Inv'
<1>1. PICK outcome \in Outcomes, found \in SUBSET ({l} \cap there) :
          /\ Answer(LayerRequest(l), outcome, found)
          /\ outcome = "answered" => found = {l} \cap there
  BY DEF ScrutinyAnswers, Outcomes
<1>2. UNCHANGED scrutinyVars
  BY DEF ScrutinyAnswers
<1>3. LayerRequest(l) \in ScrutinyRequests /\ LayerRequest(l) \in Requests /\ found \in SUBSET Findings
  BY ScrutinyLayers DEF Findings
<1>4. /\ RequestsInv' /\ Moves(Requests)
      /\ request'[LayerRequest(l)].state = outcome /\ request'[LayerRequest(l)].found = found
      /\ \A q \in Requests \ {LayerRequest(l)} : request'[q] = request[q]
  BY <1>1, <1>3, Answering DEF Inv, RequestsInv
<1>5. Moves(ScrutinyRequests)
  BY <1>4, RequestsOfTasks DEF Moves
<1>6. \A k \in AllLayers :
        /\ request'[LayerRequest(k)].found \subseteq {k} \cap there
        /\ request'[LayerRequest(k)].state = "answered" => request'[LayerRequest(k)].found = {k} \cap there
  <2> TAKE k \in AllLayers
  <2>1. CASE k = l
    BY <1>1, <1>4, <2>1
  <2>2. CASE k # l
    <3>1. request'[LayerRequest(k)] = request[LayerRequest(k)]
      BY <1>4, <2>2, ScrutinyLayers
    <3> QED
      BY <3>1 DEF Inv, ScrutinyInv
  <2> QED
    BY <2>1, <2>2
<1>7. /\ \A q \in PlanningRequests : request'[q] = request[q]
      /\ \A q \in RoadRequests \cup PlotRequests : request'[q] = request[q]
  BY <1>3, <1>4, RequestsOfTasks
<1> QED
  BY <1>2, <1>4, <1>5, <1>6, <1>7, PlanningAside, AbuttingAside, ScrutinyKept DEF Inv

\* A request that takes its slot, is sent again or fails has found nothing.
LEMMA AttemptStep ==
    ASSUME Inv, NEW r \in Requests, Attempt(r)
    PROVE  Inv'
<1>1. UNCHANGED planningVars /\ UNCHANGED abuttingVars /\ UNCHANGED scrutinyVars /\ Transport(r)
  BY DEF Attempt
<1>2. /\ RequestsInv' /\ Moves(Requests)
      /\ \A q \in Requests \ {r} : request'[q] = request[q]
      /\ request'[r].state \in {"sent", "failed"}
      /\ request'[r].found = IF request'[r].state = "failed" THEN {} ELSE request[r].found
  BY <1>1, Transporting DEF Inv, RequestsInv
<1>3. Moves(PlanningRequests) /\ Moves(RoadRequests \cup PlotRequests) /\ Moves(ScrutinyRequests)
  BY <1>2, RequestsOfTasks DEF Moves
<1>4. FoundOnGround'
  <2>1. /\ PlanningRequests \subseteq Requests
        /\ \A l \in Layers : <<"layer", l>> \in PlanningRequests
    BY RequestsOfTasks DEF PlanningRequests, LayerRequests
  <2>2. ground' = ground
    BY <1>1 DEF planningVars
  <2>3. request[r].state \in {"queued", "sent"}
    BY <1>1 DEF Transport, Admit, Retry, Fail
  <2>4. \A q \in PlanningRequests :
          request'[q] = request[q] \/ (request[q].state # "answered" /\ request'[q].found \subseteq request[q].found)
    BY <1>2, <2>1, <2>3
  <2>5. ASSUME NEW q \in PlanningRequests, request'[q].state # "answered"
        PROVE  request'[q].found = {}
    BY <2>4, <2>5 DEF Inv, PlanningInv, FoundOnGround
  <2>6. ASSUME NEW l \in Layers
        PROVE  request'[<<"layer", l>>].found \subseteq ground[l]
    BY <2>1, <2>4 DEF Inv, PlanningInv, FoundOnGround
  <2> QED
    BY <2>2, <2>5, <2>6 DEF FoundOnGround
<1>5. \A q \in RoadRequests : request'[q].found \subseteq nearRoads
  <2>1. RoadRequests \subseteq Requests
    BY RequestsOfTasks
  <2> QED
    BY <1>2, <2>1 DEF Inv, AbuttingInv
<1>6. \A k \in AllLayers :
        /\ request'[LayerRequest(k)].found \subseteq {k} \cap there
        /\ request'[LayerRequest(k)].state = "answered" => request'[LayerRequest(k)].found = {k} \cap there
  BY <1>2, ScrutinyLayers DEF Inv, ScrutinyInv
<1> QED
  BY <1>1, <1>2, <1>3, <1>4, <1>5, <1>6, PlanningKept, AbuttingKept, ScrutinyKept DEF Inv

-----------------------------------------------------------------------------
(* The theorems                                                            *)

LEMMA InitIsInv == Init => Inv
<1> SUFFICES ASSUME Init
             PROVE  Inv
  OBVIOUS
<1>1. \A r \in Requests : request[r] = Unsent
  BY DEF Init
<1>2. Unsent.state = "unsent" /\ Unsent.found = {} /\ Unsent \in Records
  <2>1. "unsent" \in States /\ 0 \in 0 .. MaxAttempts /\ {} \in SUBSET Findings
    BY RetryPolicy DEF States
  <2> QED
    BY <2>1, RecordTyped DEF Unsent
<1>3. RequestsInv
  <2>1. RequestTyped
    BY <1>1, <1>2 DEF Init, RequestTyped
  <2>2. ASSUME NEW pool \in DOMAIN Slots
        PROVE  Cardinality(InFlight(pool)) <= Slots[pool]
    <3>1. InFlight(pool) = {}
      BY <1>1, <1>2 DEF InFlight
    <3>2. Slots[pool] \in Nat
      BY RetryPolicy
    <3> QED
      BY <3>1, <3>2, FS_EmptySet
  <2> QED
    BY <2>1, <2>2 DEF RequestsInv, SlotsHeld
<1>4. /\ Fresh(PlanningRequests) /\ Fresh(ScrutinyRequests)
      /\ \A r \in RoadRequests : request[r].found = {}
      /\ \A l \in AllLayers : request[LayerRequest(l)].state = "unsent" /\ request[LayerRequest(l)].found = {}
      /\ FoundOnGround
  <2>1. \A l \in Layers : <<"layer", l>> \in PlanningRequests
    BY DEF PlanningRequests, LayerRequests
  <2> QED
    BY <1>1, <1>2, <2>1, RequestsOfTasks, ScrutinyLayers DEF Fresh, FoundOnGround
<1>5. PlanningInv
  <2>1. planning = "start" /\ source = NoSource /\ mode \in Modes /\ ground \in Grounds /\ encloses \in BOOLEAN
    BY DEF Init, PlanningInit
  <2>2. ConfirmedIsTrue /\ ConfirmedIsComplete /\ AnsweredIsListed /\ NothingKnownIsAnError
    BY <2>1, Pending
  <2>3. SourceIsDisclosed
    BY <1>4 DEF SourceIsDisclosed, Fresh, PlanningRequests
  <2>4. source \in Sources /\ source.from = "none"
    BY <2>1 DEF NoSource, Sources
  <2> QED
    BY <1>4, <2>1, <2>2, <2>3, <2>4 DEF PlanningInv, PlanningSteps, ConfirmedIsEarned
<1>6. AbuttingInv
  BY <1>4 DEF Init, AbuttingInit, AbuttingInv, FailureIsNotAbsence
<1>7. ScrutinyInv
  <2>1. scrutiny = "start" /\ report = NoReport /\ profile \in Profiles
    BY DEF Init, ScrutinyInit
  <2> QED
    BY <1>4, <2>1, Unreported DEF ScrutinyInv
<1> QED
  BY <1>3, <1>5, <1>6, <1>7 DEF Inv

LEMMA NextKeepsInv == Inv /\ [Next]_vars => Inv'
<1> SUFFICES ASSUME Inv, [Next]_vars
             PROVE  Inv'
  OBVIOUS
<1>1. CASE Task
  BY <1>1, TaskKeepsInv
<1>2. CASE ServiceAnswers
  BY <1>2, PlanningAnswerStep, ProbeAnswerStep, ScrutinyAnswerStep DEF ServiceAnswers
<1>3. ASSUME NEW r \in Requests, Attempt(r)
      PROVE  Inv'
  BY <1>3, AttemptStep
<1>4. CASE UNCHANGED vars
  <2>1. request' = request /\ UNCHANGED planningVars /\ UNCHANGED abuttingVars /\ UNCHANGED scrutinyVars
    BY <1>4 DEF vars
  <2>2. RequestsInv'
    BY <2>1 DEF Inv, RequestsInv, RequestTyped, SlotsHeld, InFlight
  <2> QED
    BY <2>1, <2>2, PlanningAside, AbuttingAside, ScrutinyAside DEF Inv
<1> QED
  BY <1>1, <1>2, <1>3, <1>4 DEF Next

\* The inductive invariant holds of every lookup, however its tasks interleave.
THEOREM EvidenceInvariant == Spec => []Inv
BY InitIsInv, NextKeepsInv, PTL DEF Spec

\* Road and neighbour probes together hold at most the slots of their pool, and scrutiny layers
\* those of theirs; at most MaxAttempts attempts are made of each request (live_queries.py,
\* planning_evidence_queries.py, transport.py), and the badge and its percentage are ones there are.
THEOREM EvidenceTypeOK == Spec => []TypeOK
<1>1. Inv => TypeOK
  <2> SUFFICES ASSUME Inv
               PROVE  TypeOK
    OBVIOUS
  <2>1. ASSUME NEW r \in Requests
        PROVE  request[r] \in RequestState
    <3>1. request[r] \in Records
      BY DEF Inv, RequestsInv, RequestTyped
    <3>2. request[r].found \subseteq UNION {request[q].found : q \in Requests}
      OBVIOUS
    <3> QED
      BY <3>1, <3>2 DEF Records, States, RequestState
  <2>2. request \in [Requests -> RequestState]
    BY <2>1 DEF Inv, RequestsInv, RequestTyped
  <2> QED
    BY <2>2 DEF TypeOK, Inv, RequestsInv, SlotsHeld, PlanningInv, PlanningSteps, AbuttingInv, ScrutinyInv
<1> QED
  BY <1>1, EvidenceInvariant, PTL

\* Constraints are called confirmed only when every planning layer was read or answered, and
\* then the badge is the one the ground requires, unless answers lacked features or features
\* could not be read: then it may be milder and is never more severe (planning_queries.py,
\* planning_normalization.py, planning_status.py).
THEOREM EvidenceConfirmedIsEarned == Spec => []ConfirmedIsEarned
<1>1. Inv => ConfirmedIsEarned
  BY DEF Inv, PlanningInv
<1> QED
  BY <1>1, EvidenceInvariant, PTL

\* What is listed for a layer that answered is what its answer had that overlaps the parcel and
\* could be read, however much that was: the identify, whose hits may lie beside the parcel,
\* neither adds to it nor replaces it (planning_queries.py, planning_normalization.py).
THEOREM EvidenceAnsweredIsListed == Spec => []AnsweredIsListed
<1>1. Inv => AnsweredIsListed
  BY DEF Inv, PlanningInv
<1> QED
  BY <1>1, EvidenceInvariant, PTL

\* No request that failed is taken for ground on which there is nothing, neither zones
\* and reservations nor roads and neighbours (planning_normalization.py, road_normalization.py,
\* neighbour_normalization.py).
THEOREM EvidenceFailureIsNeverAbsence == Spec => []FailureIsNeverAbsence
<1>1. Inv => FailureIsNeverAbsence
  BY DEF Inv, PlanningInv, AbuttingInv, FailureIsNeverAbsence
<1> QED
  BY <1>1, EvidenceInvariant, PTL

\* A scrutiny report is complete only if it has everything that applies, also what applies
\* because of another finding, and an incomplete one says so (planning_evidence_queries.py).
THEOREM EvidenceScrutinyIsHonest == Spec => []ScrutinyIsHonest
<1>1. Inv => ScrutinyIsHonest
  BY DEF Inv, ScrutinyInv
<1> QED
  BY <1>1, EvidenceInvariant, PTL

=============================================================================
