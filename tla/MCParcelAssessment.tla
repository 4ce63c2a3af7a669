-------------------------- MODULE MCParcelAssessment ---------------------------
(* Parcels on a line of five cells for TLC; the last cell is below SmallArea. *)
(* Beside them, assemblies of parcels on a grid: the two share no state, and  *)
(* one is explored at a time.                                                 *)
EXTENDS ParcelAssessment, PlotAssembly, TLC

CONSTANTS i1, i2, i3

\* 2 percent more than 100 for two cells, exactly.
FiveCells == 0 .. 4
AreaOf(cells) == MapThenSumSet(LAMBDA c : IF c = 4 THEN 1 ELSE 51, cells)
Areas == [cells \in SUBSET FiveCells |-> AreaOf(cells)]

AllModes == {"live", "local", "auto"}
AllDatabases == {"missing", "unreadable", "inactive", "fresh", "stale"}

Ring(lo, hi) == [lo |-> lo, hi |-> hi]
Left == <<Ring(0, 2)>>
Right == <<Ring(3, 4)>>
Wide == <<Ring(0, 3)>>
Courtyard == <<Ring(0, 3), Ring(1, 2)>>
Yard == <<Ring(1, 2)>>
Speck == <<Ring(4, 5)>>
Edge == <<Ring(2, 3)>>
Nothing == <<Ring(1, 1)>>

Row(rings, area, cts) == [rings |-> rings, area |-> area, cts |-> cts]
ManyRows ==
    {Row(rings, area, "asked") : rings \in {Left, Right, Wide, Yard, Edge}, area \in {-1, 0, 100, 150}}
    \cup {Row(rings, 100, "asked") : rings \in {Courtyard, Speck, Nothing, <<>>}}
    \cup {Row(Left, 100, "other")}
ManyListings == {<<>>} \cup {<<r>> : r \in ManyRows} \cup {<<q, r>> : q, r \in ManyRows}
                \cup {<<q, r, t>> : q, r, t \in {Row(Left, 100, "asked"), Row(Right, 100, "asked"),
                                                Row(Edge, 0, "asked"), Row(Right, 150, "asked")}}

Source(type, area, rings) ==
    [type |-> type, plot |-> "plot", status |-> "verified", area |-> area, rings |-> rings,
     issued |-> 1, reviewed |-> 1, sha |-> 1, version |-> 1]
SomeSources == {Source("property_card", 100, 0), Source("total_station_survey", 0, 102),
                Source("total_station_survey", 120, 140), Source("dp_remarks", 100, 0)}

Plot(cells, oid) == [cells |-> cells, recorded |-> 100, oids |-> {oid}, repaired |-> FALSE]
Square(x, y) == {<<x, y>>}

\* A plot of one piece, and one of two.
Firsts == {Plot(Square(1, 1) \cup Square(2, 1), 1), Plot(Square(1, 1) \cup Square(3, 3), 1)}
\* Adjacent to the first, at a corner of it, one and two squares away, over a part
\* of it, adjacent but repaired, without a recorded area, and missing.
Seconds == {Plot(Square(3, 1), 2), Plot(Square(3, 2), 2), Plot(Square(4, 1), 2), Plot(Square(5, 1), 2),
            Plot(Square(2, 1) \cup Square(3, 1), 2), [Plot(Square(3, 1), 2) EXCEPT !.repaired = TRUE],
            [Plot(Square(2, 2), 2) EXCEPT !.recorded = 0], NoPlot}
\* Adjacent to some of the others, away from them, over them, and with a record of the first.
Thirds == {Plot(Square(4, 1) \cup Square(4, 2), 3), Plot(Square(1, 2), 3), Plot(Square(2, 1), 3),
           Plot(Square(2, 2), 1)}

Place(x, y, z) == i1 :> x @@ i2 :> y @@ i3 :> z
\* Between the snapshots the second plot differs, or nothing.
SomeLands == {1 :> Place(x, y, z) @@ 2 :> Place(x, w, z) :
                 x \in Firsts, y \in Seconds, z \in Thirds, w \in {Plot(Square(3, 1), 2), NoPlot}}
SomeSelections == {<<i1>>, <<i1, i1>>, <<i1, i2>>, <<i2, i3, i1>>}
AllIdentities == {i1, i2, i3}
TwoSnapshots == {1, 2}
SmallGaps == {0, 1}

\* A task that is over before the other one begins.
AssessmentOver ==
    /\ mode = "live" /\ database = "missing" /\ rows = <<>> /\ step = "failed"
    /\ feature = NoFeature /\ parcel = NoParcel /\ baseline = NoParcel /\ applied = NothingApplied
AssemblyOver ==
    /\ land = CHOOSE l \in SomeLands : TRUE
    /\ current = 1 /\ site = NoSite /\ bundle = [f \in ToSet(Outputs) |-> "none"]
    /\ study = [step |-> "refused", asked |-> <<i1>>, tolerance |-> 0, snapshot |-> Nowhere,
                members |-> <<>>, planned |-> FALSE, next |-> 1]

MCInit == (Init /\ AssemblyOver) \/ (AssessmentOver /\ AssemblyInit)

MCNext ==
    \/ Next /\ UNCHANGED assemblyVars
    \/ AssemblyNext /\ UNCHANGED vars

MCSpec == MCInit /\ [][MCNext]_<<vars, assemblyVars>>
===============================================================================
