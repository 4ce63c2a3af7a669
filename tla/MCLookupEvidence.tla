--------------------------- MODULE MCLookupEvidence ----------------------------
(* One plot's evidence for TLC. The tasks share no state, so one is explored at a time. *)
EXTENDS LookupEvidence, TLC

SomeLayers == {0, 46, 47, 192, 1550}
Shares == [c \in 1 .. 3 |-> CASE c = 1 -> 1 .. 89 [] c = 2 -> 90 .. 99 [] c = 3 -> {100}]

F(cells, coded) == [cells |-> cells, coded |-> coded, reads |-> "whole"]
Damaged(cells, reads) == [F(cells, TRUE) EXCEPT !.reads = reads]
Beside == F({}, TRUE)

Zoning == {F({1, 2, 3}, TRUE)}
Split == {F({1, 2}, FALSE), F({3}, TRUE)}
Ground(zones, reserved, designated, modified) ==
    0 :> zones @@ 46 :> reserved @@ 47 :> designated @@ 192 :> modified @@ 1550 :> {}

\* Reservations, designations and modifications on all of the parcel, on a part of it, overlapping
\* each other, on a sliver, or beside it, and some that cannot be read.
SomeGrounds ==
    {Ground(Zoning, {}, {}, {}),
     Ground(Split, {F({1, 2, 3}, TRUE)}, {}, {}),
     Ground(Zoning, {F({3}, TRUE)}, {}, {Beside}),
     Ground(Zoning, {F({1}, TRUE)}, {Beside}, {}),
     Ground(Zoning, {F({1, 3}, FALSE)}, {}, {}),
     Ground(Zoning, {F({1}, TRUE), F({1, 2}, TRUE)}, {F({2, 3}, TRUE)}, {}),
     Ground(Zoning, {F({2}, TRUE)}, {Damaged({1, 3}, "counted")}, {}),
     Ground(Zoning, {Damaged({1}, "none")}, {Damaged({2}, "counted")}, {}),
     Ground(Zoning, {F({1, 2}, TRUE)}, {}, {F({2}, TRUE), Damaged({3}, "none")})}

AllModes == {"live", "local", "auto"}
AllStores == {"missing", "unreadable", "fresh", "stale"}

TwoProbes == {1, 2}
OneProbe == {1}
R(id, distance, named, wide) == [id |-> id, distance |-> distance, named |-> named, wide |-> wide]
SomeRoads == {R(1, 1, FALSE, FALSE), R(2, 2, FALSE, TRUE), R(3, 3, TRUE, TRUE)}
P(village, cts, shared, gap) ==
    [village |-> village, cts |-> cts, shared |-> shared, gap |-> gap, overlap |-> FALSE]
SomePlots == {P("own", "next", 2, 0), P("other", "next", 0, 1), P("other", "own", 1, 0)}

SomeSnapshots == {"missing", "fresh", "stale"}
AllProfiles == {"basic", "shadow", "standard", "full"}
SomeStandard == {83}
SomeFull == {29, 30, 112}
SomeConditional == {105}
SomeSituations == {{}, {83, 112}, {29, 112, 105}, {30}, {29, 30}}
SomeTrigger == [l \in {105} |-> 112]

SomeRequests == {<<"layer", l>> : l \in SomeLayers} \cup {<<"identify", 0>>}
                \cup {<<"road", p>> : p \in TwoProbes} \cup {<<"plot", p>> : p \in OneProbe}
                \cup {<<"scrutiny", l>> : l \in SomeStandard \cup SomeFull \cup SomeConditional}
FewSlots == [pool \in {"probes", "scrutiny"} |-> 2]

\* Tasks that ended before the first request of another one.
PlanningOver ==
    /\ mode = "local" /\ store = "missing" /\ encloses = TRUE /\ ground = CHOOSE g \in SomeGrounds : TRUE
    /\ planning = "failed" /\ source = [NoSource EXCEPT !.from = "error"] /\ decision = Undecided
AbuttingOver ==
    /\ localParcel = TRUE /\ roadStore = TRUE /\ plotStore = TRUE /\ nearRoads = {} /\ nearPlots = {}
    /\ abutting = "done" /\ road = [NoRoad EXCEPT !.state = "not_present"]
    /\ neighbours = [NoPlots EXCEPT !.state = "confirmed"]
ScrutinyOver ==
    /\ profile = "basic" /\ policy = "live" /\ snapshot = "missing" /\ there = {} /\ damaged = {}
    /\ scrutiny = "done" /\ report = NoReport

MCInit ==
    /\ request = [r \in Requests |-> Unsent]
    /\ \/ PlanningInit /\ AbuttingOver /\ ScrutinyOver
       \/ PlanningOver /\ AbuttingInit /\ ScrutinyOver
       \/ PlanningOver /\ AbuttingOver /\ ScrutinyInit

MCSpec == MCInit /\ [][Next]_vars /\ Fairness
=============================================================================
