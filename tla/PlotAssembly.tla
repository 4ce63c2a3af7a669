----------------------------- MODULE PlotAssembly -----------------------------
(***************************************************************************)
(* The experimental screening of several plots as one site: the plots are   *)
(* read from one parcel snapshot, their geometries compared in pairs and    *)
(* united, the union is asked of the planning snapshot, and a bundle of     *)
(* four files is written over that of an earlier screening.                 *)
(*                                                                         *)
(* The ground is a grid of squares of side 1, so that plots can share an    *)
(* edge, meet in a corner, overlap, or lie a gap apart.                     *)
(***************************************************************************)
EXTENDS Integers, Sequences, FiniteSets, SequencesExt

CONSTANTS
    Identities,     \* VILLAGE:CTS identities
    Snapshots,      \* finalized parcel snapshots
    Nowhere,        \* no snapshot is active
    Lands,          \* what the snapshots may hold: [Snapshots -> [Identities -> plots]]
    Selections,     \* sequences of identities that are asked for
    Tolerances      \* gap tolerances

ASSUME AssemblySets ==
    /\ Nowhere \notin Snapshots
    /\ Lands \subseteq [Snapshots -> [Identities ->
                           [cells : SUBSET (Int \X Int), recorded : Nat, oids : SUBSET Nat, repaired : BOOLEAN]]]
    /\ \A l \in Lands : \A s \in Snapshots, i \in Identities : IsFiniteSet(l[s][i].cells)
    /\ Selections \subseteq Seq(Identities)
    /\ Tolerances \subseteq Nat

VARIABLES
    land,       \* the plots of each snapshot, their source records merged
    current,    \* the active parcel snapshot
    study,      \* the command: its step, arguments, snapshot, and the members read
    site,       \* what the analysis returned
    bundle      \* what the files of the output directory are of

assemblyVars == <<land, current, study, site, bundle>>

NoPlot == [cells |-> {}, recorded |-> 0, oids |-> {}, repaired |-> FALSE]
NoSite == [status |-> "none"]

\* Mutant: the analysis is written before the drawings.
AnalysisFirst == <<"json", "geojson", "members", "kml", "dxf">>

\* The files in the order they are written; the source plots are appended to the GeoJSON.
Outputs == <<"geojson", "members", "kml", "dxf", "json">>

AssemblyInit ==
    /\ land \in Lands
    /\ current \in Snapshots \cup {Nowhere}
    /\ \E asked \in Selections, tolerance \in Tolerances :
          study = [step |-> "start", asked |-> asked, tolerance |-> tolerance,
                   snapshot |-> Nowhere, members |-> <<>>, planned |-> FALSE, next |-> 1]
    /\ site = NoSite
    /\ \E of \in {"none", "earlier"} : bundle = [f \in ToSet(Outputs) |-> of]

-------------------------------------------------------------------------------
(* Pairs of plots                                                          *)

Beside(c) == {<<c[1] + 1, c[2]>>, <<c[1] - 1, c[2]>>, <<c[1], c[2] + 1>>, <<c[1], c[2] - 1>>}

\* The boundary: an edge is the pair of squares it separates.
Edges(cells) == UNION {{{c, d} : d \in Beside(c) \ cells} : c \in cells}

Between(a, b) == IF a = b THEN 0 ELSE (IF a > b THEN a - b ELSE b - a) - 1
GapOf(c, d) == Between(c[1], d[1]) * Between(c[1], d[1]) + Between(c[2], d[2]) * Between(c[2], d[2])
\* The square of the distance.
Gap(p, q) == Min({GapOf(c, d) : c \in p.cells, d \in q.cells})

Overlapping(p, q) == p.cells \cap q.cells # {}
SharedEdges(p, q) == IF Overlapping(p, q) THEN {} ELSE Edges(p.cells) \cap Edges(q.cells)
WithinTolerance(p, q) == Gap(p, q) \in 1 .. (study.tolerance * study.tolerance)

\* Mutant: a corner in common connects.
LinkedAtCorner(p, q) == Gap(p, q) = 0
Linked(p, q) == Overlapping(p, q) \/ SharedEdges(p, q) # {}

Links(ps) == {e \in (DOMAIN ps) \X (DOMAIN ps) : Linked(ps[e[1]], ps[e[2]])}
LinksWithin(ps) == Links(ps) \cup {e \in (DOMAIN ps) \X (DOMAIN ps) : WithinTolerance(ps[e[1]], ps[e[2]])}

\* Whether a search from the first plot visits them all.
Connected(ps, links) ==
    LET Visited[n \in 0 .. Len(ps)] ==
            IF n = 0 THEN {1}
            ELSE {i \in DOMAIN ps : \E j \in Visited[n - 1] : i = j \/ <<i, j>> \in links}
    IN  Visited[Len(ps)] = DOMAIN ps

-------------------------------------------------------------------------------
(* The analysis                                                            *)

Pairs(ps) == {e \in (DOMAIN ps) \X (DOMAIN ps) : e[1] < e[2]}
Union(ps) == UNION {ps[i].cells : i \in DOMAIN ps}

\* A square in two plots counts for both.
InputArea(ps) == Cardinality(UNION {{i} \X ps[i].cells : i \in DOMAIN ps})
\* Mutant: the areas of the members are added up.
AddedArea(ps) == InputArea(ps)
CombinedArea(ps) == Cardinality(Union(ps))
RemovedLength(ps) == Cardinality(UNION {{e} \X SharedEdges(ps[e[1]], ps[e[2]]) : e \in Pairs(ps)})

AnyOverlap(ps) == \E e \in Pairs(ps) : Overlapping(ps[e[1]], ps[e[2]])
AnyGap(ps) == \E e \in Pairs(ps) : WithinTolerance(ps[e[1]], ps[e[2]])
AnyRepaired(ps) == \E i \in DOMAIN ps : ps[i].repaired
RecordedComplete(ps) == \A i \in DOMAIN ps : ps[i].recorded # 0

\* The first that applies.
Status(ps) ==
    CASE AnyOverlap(ps) -> "review_overlaps"
      [] ~AnyOverlap(ps) /\ ~Connected(ps, LinksWithin(ps)) -> "not_contiguous"
      [] ~AnyOverlap(ps) /\ Connected(ps, LinksWithin(ps)) /\ AnyRepaired(ps) -> "review_source_geometry"
      [] ~AnyOverlap(ps) /\ ~AnyRepaired(ps) /\ Connected(ps, Links(ps)) -> "ready"
      [] OTHER -> "review_tolerance_gaps"

Warnings(ps) ==
    {"screening_only"}
    \cup (IF RecordedComplete(ps) THEN {} ELSE {"recorded_area_incomplete"})
    \cup (IF AnyRepaired(ps) THEN {"source_geometry_repaired"} ELSE {})
    \cup (IF AnyOverlap(ps) THEN {"source_boundary_overlap"} ELSE {})
    \cup (IF AnyGap(ps) THEN {"tolerance_gap"} ELSE {})
    \cup (IF Connected(ps, LinksWithin(ps)) THEN {} ELSE {"non_contiguous"})

Analysis(ps) ==
    [status |-> Status(ps), contiguous |-> Connected(ps, Links(ps)), warnings |-> Warnings(ps),
     recorded |-> IF RecordedComplete(ps) THEN MapThenSumSet(LAMBDA i : ps[i].recorded, DOMAIN ps) ELSE 0,
     input |-> InputArea(ps), combined |-> CombinedArea(ps), perimeter |-> Cardinality(Edges(Union(ps))),
     removed |-> RemovedLength(ps), excess |-> InputArea(ps) - CombinedArea(ps)]

\* An identity or a source record that is selected twice is refused.
Repeated(ps) ==
    \/ ~IsInjective(study.asked)
    \/ \E e \in Pairs(ps) : ps[e[1]].oids \cap ps[e[2]].oids # {}

-------------------------------------------------------------------------------
(* The command                                                             *)

Refuse == study' = [study EXCEPT !.step = "refused"] /\ UNCHANGED <<land, current, site, bundle>>

StartStudy ==
    /\ study.step = "start"
    /\ Len(study.asked) >= 2 /\ current # Nowhere
    /\ study' = [study EXCEPT !.step = "read", !.snapshot = current]
    /\ UNCHANGED <<land, current, site, bundle>>

RefuseStudy ==
    /\ study.step = "start"
    /\ Len(study.asked) < 2 \/ current = Nowhere
    /\ Refuse

Member == land[study.snapshot][study.asked[Len(study.members) + 1]]

\* One plot after the other, each with a query of its own.
ReadMember ==
    /\ study.step = "read" /\ Len(study.members) < Len(study.asked)
    /\ Member.cells # {}
    /\ study' = [study EXCEPT !.members = Append(@, Member)]
    /\ UNCHANGED <<land, current, site, bundle>>

\* No record of the plot, or none with a usable boundary.
MemberMissing ==
    /\ study.step = "read" /\ Len(study.members) < Len(study.asked)
    /\ Member.cells = {}
    /\ Refuse

Analyse ==
    /\ study.step = "read" /\ Len(study.members) = Len(study.asked)
    /\ ~Repeated(study.members)
    /\ site' = Analysis(study.members)
    /\ study' = [study EXCEPT !.step = "plan"]
    /\ UNCHANGED <<land, current, bundle>>

RefuseSelection ==
    /\ study.step = "read" /\ Len(study.members) = Len(study.asked)
    /\ Repeated(study.members)
    /\ Refuse

\* Planning that cannot be read leaves a warning.
AskPlanning ==
    /\ study.step = "plan"
    /\ \/ /\ study' = [study EXCEPT !.step = "write", !.planned = TRUE]
          /\ UNCHANGED site
       \/ /\ study' = [study EXCEPT !.step = "write"]
          /\ site' = [site EXCEPT !.warnings = @ \cup {"planning_unavailable"}]
    /\ UNCHANGED <<land, current, bundle>>

\* A new GeoJSON has no source plots until they are appended.
WriteOutput ==
    /\ study.step = "write"
    /\ LET file == Outputs[study.next]
           kept == IF file = "geojson" THEN [bundle EXCEPT !["members"] = "none"] ELSE bundle
       IN  bundle' = [kept EXCEPT ![file] = "this"]
    /\ study' = IF study.next = Len(Outputs) THEN [study EXCEPT !.step = "done"]
                                             ELSE [study EXCEPT !.next = @ + 1]
    /\ UNCHANGED <<land, current, site>>

\* A writer raises, or the process ends: the files written so far stay.
WriteStops ==
    /\ study.step = "write"
    /\ study' = [study EXCEPT !.step = "failed"]
    /\ UNCHANGED <<land, current, site, bundle>>

\* An operator activates another snapshot, or rolls back.
SwitchLand ==
    /\ study.step \in {"start", "read"}
    /\ current' \in Snapshots \ {current}
    /\ UNCHANGED <<land, study, site, bundle>>

AssemblyNext ==
    \/ StartStudy \/ RefuseStudy \/ ReadMember \/ MemberMissing \/ Analyse \/ RefuseSelection
    \/ AskPlanning \/ WriteOutput \/ WriteStops \/ SwitchLand

AssemblySpec == AssemblyInit /\ [][AssemblyNext]_assemblyVars

-------------------------------------------------------------------------------
(* Properties                                                              *)

\* However the squares are parted, an edge leads from one part to the other.
OnePiece(cells) ==
    \A part \in (SUBSET cells) \ {{}, cells} : \E c \in part : Beside(c) \cap (cells \ part) # {}

Whole(ps) == \A i \in DOMAIN ps : OnePiece(ps[i].cells)
Disjoint(ps) == \A e \in Pairs(ps) : ps[e[1]].cells \cap ps[e[2]].cells = {}

\* Plots that are each one piece are called contiguous exactly when their union is one
\* piece, a site is only called ready when it has neither overlaps nor repaired
\* boundaries, and all of it is of one snapshot, although another may be activated
\* between the reads of two plots.
ReadyIsOneSite ==
    site # NoSite =>
        /\ \E s \in Snapshots : \A i \in DOMAIN study.asked : study.members[i] = land[s][study.asked[i]]
        /\ Whole(study.members) => (site.contiguous <=> OnePiece(Union(study.members)))
        /\ site.status = "ready" => site.contiguous /\ Disjoint(study.members) /\ ~AnyRepaired(study.members)

\* The measures of a site agree: without overlaps the removed boundary is what the
\* perimeters of the plots lose twice and no area is lost; any overlap shows as area.
MeasuresAddUp ==
    site # NoSite =>
        LET ps == study.members
        IN  /\ site.combined + site.excess = site.input
            /\ Disjoint(ps) <=> site.excess = 0
            /\ Disjoint(ps) =>
                  site.perimeter + 2 * site.removed
                      = Cardinality(UNION {{i} \X Edges(ps[i].cells) : i \in DOMAIN ps})

\* The analysis is written last: one that is there belongs to drawings that are there
\* and are its own, even if a writer failed or the directory held an earlier screening.
BundleIsWhole == bundle["json"] = "this" => \A f \in ToSet(Outputs) : bundle[f] = "this"

===============================================================================
