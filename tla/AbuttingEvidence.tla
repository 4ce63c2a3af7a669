--------------------------- MODULE AbuttingEvidence ----------------------------
(***************************************************************************)
(* The road and the plots beside one parcel.  A parcel of the local         *)
(* snapshot has them from the local stores; when one of these fails, or the *)
(* parcel is a live one, points around it are probed at the map service.     *)
(***************************************************************************)
EXTENDS LiveQueries

CONSTANTS
    RoadProbes,   \* points beside the parcel's edges that are asked for a road
    PlotProbes,   \* points around the parcel that are asked for a plot
    Roads,        \* records: [id, distance, named, wide]; wide has a recorded width
    Plots,        \* records: [village, cts, shared, gap, overlap]
    Reach,        \* search_distance_m
    SharedAtLeast, Tolerance  \* lengths and gaps that make two plots adjoin

ASSUME AbuttingSets ==
    /\ RoadProbes # {} /\ PlotProbes # {}
    /\ Roads \subseteq [id : Nat, distance : Nat, named : BOOLEAN, wide : BOOLEAN]
    /\ Reach \in Nat \ {0} /\ SharedAtLeast \in Nat /\ Tolerance \in Nat

VARIABLES
    abutting,     \* step of the task
    localParcel,  \* the parcel came from the local snapshot
    nearRoads, nearPlots,  \* what there is around the parcel
    roadStore, plotStore,  \* the local stores can be read
    road,         \* RoadContext: record, state and number of failed probes
    neighbours    \* NeighbourContext: reported plots, state, failed probes

abuttingVars == <<abutting, localParcel, nearRoads, nearPlots, roadStore, plotStore, road, neighbours>>

RoadRequests == {<<"road", p>> : p \in RoadProbes}
PlotRequests == {<<"plot", p>> : p \in PlotProbes}

NoRoad == [kind |-> "none", state |-> "unasked", failures |-> 0]
NoPlots == [plots |-> {}, state |-> "unasked", failures |-> 0]

\* The requested plot is CTS "own" of village "own".
AbuttingInit ==
    /\ abutting = "start"
    /\ localParcel \in BOOLEAN
    /\ nearRoads \in SUBSET Roads /\ nearPlots \in SUBSET Plots
    /\ roadStore \in BOOLEAN /\ plotStore \in BOOLEAN
    /\ (~localParcel => ~roadStore /\ ~plotStore)
    /\ road = NoRoad /\ neighbours = NoPlots

-----------------------------------------------------------------------------
(* The local stores                                                        *)

InReach == {r \in nearRoads : r.distance <= Reach}

Quality(r) == (IF r.named THEN 1 ELSE 0) + (IF r.wide THEN 1 ELSE 0)

\* The nearest first, then the one with more evidence, then the lower id.
Before(q, r) ==
    \/ q.distance < r.distance
    \/ q.distance = r.distance /\ Quality(q) > Quality(r)
    \/ q.distance = r.distance /\ Quality(q) = Quality(r) /\ q.id <= r.id

Adjoins(p) == ~p.overlap /\ (p.shared >= SharedAtLeast \/ p.gap \in 1 .. Tolerance)

IsOwn(p) == p.village = "own" /\ p.cts = "own"

ReadRoads ==
    IF InReach = {} THEN [kind |-> "none", state |-> "not_present", failures |-> 0]
    ELSE LET first == CHOOSE q \in InReach : \A r \in InReach : Before(q, r)
         IN  [kind     |-> IF first.named THEN "named" ELSE "unnamed",
              state    |-> IF first.named \/ first.wide THEN "confirmed" ELSE "unknown",
              failures |-> 0]

ReadPlots ==
    [plots |-> {[village |-> p.village, cts |-> p.cts] : p \in {q \in nearPlots : Adjoins(q) /\ ~IsOwn(q)}},
     state |-> "confirmed", failures |-> 0]

\* A store that fails is replaced by probes, with a note.
ReadAround ==
    /\ abutting = "start"
    /\ road' = IF roadStore THEN ReadRoads ELSE road
    /\ neighbours' = IF plotStore THEN ReadPlots ELSE neighbours
    /\ request' = Sent((IF roadStore THEN {} ELSE RoadRequests) \cup (IF plotStore THEN {} ELSE PlotRequests))
    /\ abutting' = "asked"
    /\ UNCHANGED <<localParcel, nearRoads, nearPlots, roadStore, plotStore>>

-----------------------------------------------------------------------------
(* The probes                                                              *)

\* A probe hits some of the roads, or of the plots, that are near it.
RoadProbeAnswers(p) ==
    /\ \E found \in SUBSET nearRoads : Answer(<<"road", p>>, "answered", found)
    /\ UNCHANGED abuttingVars

PlotProbeAnswers(p) ==
    /\ \E found \in SUBSET nearPlots : Answer(<<"plot", p>>, "answered", found)
    /\ UNCHANGED abuttingVars

Probed(rs) == UNION {request[r].found : r \in rs}
Failures(rs) == Cardinality({r \in rs : request[r].state # "answered"})

\* A real name and a recorded width, then either, then whatever there is.
Selected(found) ==
    LET both   == {r \in found : r.named /\ r.wide}
        either == {r \in found : r.named \/ r.wide}
    IN  IF both # {} THEN {"named"}
        ELSE IF either # {} THEN {IF r.named THEN "named" ELSE "unnamed" : r \in either}
        ELSE IF found # {} THEN {"unnamed"} ELSE {"none"}

\* Mutant: a probe that failed has found no road.
RoadOfAnswers ==
    \E kind \in Selected(Probed(RoadRequests)) :
        road' = [kind |-> kind, failures |-> 0,
                 state |-> IF kind = "named" THEN "confirmed" ELSE "unknown"]

RoadOfProbes ==
    \E kind \in Selected(Probed(RoadRequests)) :
        road' = [kind |-> kind, failures |-> Failures(RoadRequests),
                 state |-> IF Failures(RoadRequests) = Cardinality(RoadRequests) THEN "failed"
                           ELSE IF kind = "named" THEN "confirmed" ELSE "unknown"]

\* Plots with the parcel's own number are left out, in whichever village, and
\* one remains of those with the same number.
PlotsOfProbes ==
    LET others == {p \in Probed(PlotRequests) : p.cts # "own"}
    IN  \E kept \in SUBSET others :
            /\ {p.cts : p \in kept} = {p.cts : p \in others}
            /\ \A p, q \in kept : p.cts = q.cts => p = q
            /\ neighbours' =
                [plots    |-> {[village |-> p.village, cts |-> p.cts] : p \in kept},
                 failures |-> Failures(PlotRequests),
                 state    |-> IF Failures(PlotRequests) = Cardinality(PlotRequests)
                              THEN "failed" ELSE "confirmed"]

Surround ==
    /\ abutting = "asked"
    /\ Ended({r \in RoadRequests \cup PlotRequests : request[r].state # "unsent"})
    /\ IF roadStore THEN UNCHANGED road ELSE RoadOfProbes
    /\ IF plotStore THEN UNCHANGED neighbours ELSE PlotsOfProbes
    /\ abutting' = "done"
    /\ UNCHANGED <<request, localParcel, nearRoads, nearPlots, roadStore, plotStore>>

AbuttingTask == ReadAround \/ Surround

AbuttingAnswers ==
    \/ \E p \in RoadProbes : RoadProbeAnswers(p)
    \/ \E p \in PlotProbes : PlotProbeAnswers(p)

-----------------------------------------------------------------------------
(* Properties *)

\* A failure is not an absence: that no road, or no neighbour, is reported
\* without a warning means that every probe answered, or that the store has
\* none.
FailureIsNotAbsence ==
    abutting = "done" =>
        /\ road.failures = 0 /\ ~roadStore => \A r \in RoadRequests : request[r].state = "answered"
        /\ road.state = "not_present" => roadStore /\ \A r \in nearRoads : r.distance > Reach
        /\ neighbours.failures = 0 /\ ~plotStore => \A r \in PlotRequests : request[r].state = "answered"
        /\ road.state = "confirmed" =>
             \E r \in nearRoads : (r.named \/ r.wide)
                               /\ (roadStore \/ \E q \in RoadRequests : r \in request[q].found)

=============================================================================
