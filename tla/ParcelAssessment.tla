--------------------------- MODULE ParcelAssessment ---------------------------
(***************************************************************************)
(* The parcel of one lookup: it is read from the pinned local snapshot or  *)
(* from the live service, its parts are merged, its area is assessed and   *)
(* labelled, and the plot's active authority sources are applied to it.    *)
(*                                                                         *)
(* Areas are integers: 0 stands for an absent one, and a record's area may  *)
(* also be a number that is not positive.                                  *)
(***************************************************************************)
EXTENDS AuthoritySelection, ParcelGeometry

CONSTANTS
    Modes,       \* source modes: subset of {"live", "local", "auto"}
    Databases,   \* conditions of the local file that a lookup may meet
    Rows,        \* source records of the requested plot that may exist
    Listings,    \* sequences of Rows a source may answer with
    Sources,     \* verified authority records that may be active
    SmallArea    \* UNUSUALLY_SMALL_AREA_SQM, in the units of Ground

ASSUME AssessmentSets ==
    /\ Modes \subseteq {"live", "local", "auto"}
    /\ Databases \subseteq {"missing", "unreadable", "inactive", "fresh", "stale"}
    /\ Listings \subseteq Seq(Rows)
    /\ \A r \in Rows : /\ r.rings \in Seq([lo : Int, hi : Int]) /\ r.area \in Int
                       /\ \A i \in DOMAIN r.rings : Cells(r.rings[i]) \subseteq Line
    /\ \A r \in Sources : r.type \in SourceTypes /\ r.area \in Nat /\ r.rings \in Nat
    /\ SmallArea \in Nat

VARIABLES
    mode, database, rows,  \* the request, and what the pinned snapshot holds
    step,                  \* stage of the lookup
    feature,               \* the feature that the source returned
    parcel,                \* the working parcel: boundary, area, basis, label, flags
    baseline,              \* its assessment before the authority sources
    applied                \* the authority records applied: [area, geometry]

vars == <<mode, database, rows, step, feature, parcel, baseline, applied>>

NoFeature == [rings |-> <<>>, recorded |-> 0, conflict |-> FALSE, missing |-> FALSE,
              duplicate |-> FALSE, unmerged |-> FALSE, ambiguous |-> FALSE,
              cts |-> "asked", stale |-> FALSE, source |-> "live", reason |-> FALSE,
              parts |-> 1]
NoParcel == [boundary |-> 0, area |-> 0, basis |-> "unavailable", label |-> "none", flags |-> {}]
NothingApplied == [area |-> {}, geometry |-> {}]

Init ==
    /\ mode \in Modes
    /\ database \in (IF mode = "live" THEN {"missing"} ELSE Databases)
    /\ rows \in (IF database \in {"fresh", "stale"}
                 THEN {s \in Listings : \A i \in DOMAIN s : s[i].cts = "asked"} ELSE {<<>>})
    /\ step = IF mode = "live" THEN "exact" ELSE "local"
    /\ feature = NoFeature
    /\ parcel = NoParcel /\ baseline = NoParcel
    /\ applied = NothingApplied

-----------------------------------------------------------------------------
(* The local snapshot                                                      *)

\* A later row with the geometry of an earlier one adds no rings.
Distinct(s, i) == \A j \in 1 .. (i - 1) : Geometry(s[j].rings) # Geometry(s[i].rings)

Recorded(s) == {s[i].area : i \in DOMAIN s} \cap (Nat \ {0})

\* Mutant: only the first of the parts is taken.
FirstOnly(s) ==
    [NoFeature EXCEPT !.rings = s[1].rings, !.recorded = s[1].area, !.source = "local", !.parts = Len(s)]

Merged(s) ==
    [NoFeature EXCEPT
        !.rings = [p \in UNION {{i} \X (DOMAIN s[i].rings) : i \in {k \in DOMAIN s : Distinct(s, k)}} |->
                      s[p[1]].rings[p[2]]],
        !.recorded = IF Cardinality(Recorded(s)) = 1 THEN CHOOSE a \in Recorded(s) : TRUE ELSE 0,
        !.conflict = Cardinality(Recorded(s)) > 1,
        !.missing = Recorded(s) # {} /\ \E i \in DOMAIN s : s[i].area = 0,
        !.duplicate = \E i \in DOMAIN s : ~Distinct(s, i),
        !.source = "local",
        !.parts = Len(s)]

\* A part without rings, or parts that enclose nothing, cannot be trusted.
Untrusted(s) ==
    s # <<>> /\ (Geometry(Merged(s).rings) = {} \/ \E i \in DOMAIN s : s[i].rings = <<>>)

LocalFails == database \notin {"fresh", "stale"} \/ Untrusted(rows)

ReadLocal ==
    /\ step = "local"
    /\ ~LocalFails /\ rows # <<>>
    /\ feature' = [Merged(rows) EXCEPT !.stale = (database = "stale")]
    /\ step' = "build"
    /\ UNCHANGED <<mode, database, rows, parcel, baseline, applied>>

\* Mutant: a fallback that leaves no trace.
FallBackSilently ==
    /\ step = "local"
    /\ LocalFails \/ rows = <<>>
    /\ IF mode = "auto" THEN step' = "exact"
       ELSE step' = (IF LocalFails THEN "failed" ELSE "not_found")
    /\ UNCHANGED <<mode, database, rows, feature, parcel, baseline, applied>>

\* Only "auto" has a fallback, and it remembers why it was taken.
FallBack ==
    /\ step = "local"
    /\ LocalFails \/ rows = <<>>
    /\ IF mode = "auto"
       THEN step' = "exact" /\ feature' = [feature EXCEPT !.reason = TRUE]
       ELSE step' = (IF LocalFails THEN "failed" ELSE "not_found") /\ UNCHANGED feature
    /\ UNCHANGED <<mode, database, rows, parcel, baseline, applied>>

-----------------------------------------------------------------------------
(* The live service                                                        *)

\* The first match, with what the other matches put in doubt.  The CTS
\* numbers of matches without a recorded area are not compared.
Annotated(s, prefix) ==
    [NoFeature EXCEPT
        !.rings = s[1].rings,
        !.recorded = IF s[1].area > 0 THEN s[1].area ELSE 0,
        !.conflict = Cardinality(Recorded(s)) > 1,
        !.ambiguous = prefix /\ {s[i].cts : i \in {k \in DOMAIN s : s[k].area # 0 /\ s[k].cts # "none"}}
                                  # {"asked"},
        !.unmerged = Len(s) > 1,
        !.cts = s[1].cts,
        !.reason = feature.reason,
        !.parts = Len(s)]

\* An exact match, an empty answer, or a request that fails.
QueryExact ==
    /\ step = "exact"
    /\ \E s \in Listings :
        /\ \A i \in DOMAIN s : s[i].cts = "asked"
        /\ IF s = <<>> THEN step' = "prefix" /\ UNCHANGED feature
           ELSE step' = "build" /\ feature' = Annotated(s, FALSE)
    /\ UNCHANGED <<mode, database, rows, parcel, baseline, applied>>

\* An answer that cannot be decoded counts as a miss here, not as a failure.
QueryPrefix ==
    /\ step = "prefix"
    /\ \E s \in Listings :
        IF s = <<>> THEN step' = "not_found" /\ UNCHANGED feature
        ELSE step' = "build" /\ feature' = Annotated(s, TRUE)
    /\ UNCHANGED <<mode, database, rows, parcel, baseline, applied>>

QueryFails ==
    /\ step \in {"exact", "prefix"}
    /\ step' = "failed"
    /\ UNCHANGED <<mode, database, rows, feature, parcel, baseline, applied>>

-----------------------------------------------------------------------------
(* Assessment of the area                                                  *)

\* Strictly more than t percent of the recorded area.
Exceeds(calculated, recorded, t) ==
    100 * (IF calculated > recorded THEN calculated - recorded ELSE recorded - calculated) > t * recorded

DifferenceFlags(calculated, recorded) ==
    IF calculated = 0 \/ recorded = 0 THEN {}
    ELSE IF Exceeds(calculated, recorded, 10) THEN {"over_10_percent"}
    ELSE IF Exceeds(calculated, recorded, 5) THEN {"over_5_percent"}
    ELSE IF Exceeds(calculated, recorded, 2) THEN {"over_2_percent"}
    ELSE {}

\* A contested value is not used, whichever record carried it.
Stated(f) == IF f.conflict THEN 0 ELSE f.recorded

\* Mutant: the age of the snapshot is not looked at.
FreshFlags(f) == (IF f.conflict THEN {"conflicting_recorded_areas"} ELSE {})
                 \cup (IF Stated(f) = 0 THEN {"recorded_area_unavailable"} ELSE {})
                 \cup (IF f.duplicate THEN {"duplicate_geometry"} ELSE {})

EvidenceFlags(f) ==
    LET holds == [source_geometry_invalid        |-> RawInvalid(f.rings) \/ Repaired(f.rings),
                  boundary_area_unavailable      |-> Area(f.rings) = 0,
                  unusually_small_geometry       |-> Area(f.rings) \in 1 .. (SmallArea - 1),
                  fragmented_boundary            |-> Fragmented(f.rings),
                  conflicting_recorded_areas     |-> f.conflict,
                  partial_recorded_area_evidence |-> f.missing,
                  duplicate_geometry             |-> f.duplicate,
                  multiple_live_source_records   |-> f.unmerged,
                  ambiguous_identity             |-> f.ambiguous \/ f.cts = "other",
                  incomplete_identity            |-> f.cts = "none",
                  stale_source_snapshot          |-> f.stale,
                  recorded_area_unavailable      |-> Stated(f) = 0]
    IN  {flag \in DOMAIN holds : holds[flag]}

Assessed(f) ==
    LET calculated == Area(f.rings)
        flags == EvidenceFlags(f) \cup DifferenceFlags(calculated, Stated(f))
    IN  [boundary |-> calculated,
         area     |-> IF Stated(f) # 0 THEN Stated(f) ELSE calculated,
         basis    |-> IF Stated(f) # 0 THEN "recorded_plot_area"
                      ELSE IF calculated # 0 THEN "calculated_boundary_area" ELSE "unavailable",
         label    |-> IF flags # {} THEN "qualified_with_warnings"
                      ELSE IF f.source = "local" THEN "verified_source" ELSE "screening",
         flags    |-> flags]

\* A boundary that encloses nothing cannot be prepared, whatever its area.
BuildParcel ==
    /\ step = "build"
    /\ IF Assessed(feature).area = 0 \/ feature.rings = <<>>
       THEN step' = "failed" /\ UNCHANGED <<parcel, baseline>>
       ELSE /\ step' = "authority"
            /\ parcel' = Assessed(feature)
            /\ baseline' = Assessed(feature)
    /\ UNCHANGED <<mode, database, rows, feature, applied>>

-----------------------------------------------------------------------------
(* The plot's active authority sources                                     *)

\* The difference is measured again, against the MCGM recorded area; what the
\* parcel record itself left in doubt stays.
Working(area, boundary, basis, complete) ==
    LET flags == {f \in parcel.flags : f \notin {"over_2_percent", "over_5_percent", "over_10_percent"}}
                 \cup DifferenceFlags(boundary, Stated(feature))
    IN  [boundary |-> boundary, area |-> area, basis |-> basis, flags |-> flags,
         label    |-> IF complete /\ flags = {} THEN "certified" ELSE parcel.label]

\* At most one source is active for a purpose; one without a boundary cannot be
\* activated for "geometry".
Active(purpose) == {{}} \cup {{r} : r \in {s \in Sources : purpose = "geometry" => s.rings # 0}}

ApplyAuthority ==
    /\ step = "authority"
    /\ \E forArea \in Active("area"), forGeometry \in Active("geometry") :
        LET area     == Recommend(forArea, "area", "plot").selected
            geometry == Recommend(forGeometry, "geometry", "plot").selected
            boundary == IF geometry = {} THEN parcel.boundary
                        ELSE (CHOOSE r \in geometry : TRUE).rings
            size     == IF area = {} THEN parcel.area
                        ELSE RecordArea(CHOOSE r \in area : TRUE, "area")
        IN  /\ parcel' = Working(size, boundary,
                                 IF area # {} THEN "authority_area" ELSE parcel.basis,
                                 area # {} /\ geometry # {})
            /\ applied' = [area |-> area, geometry |-> geometry]
    /\ step' = "done"
    /\ UNCHANGED <<mode, database, rows, feature, baseline>>

\* An unreadable registry leaves the parcel as it was, with a warning.
AuthorityFails ==
    /\ step = "authority"
    /\ step' = "done"
    /\ UNCHANGED <<mode, database, rows, feature, parcel, baseline, applied>>

-----------------------------------------------------------------------------

Next ==
    \/ ReadLocal \/ FallBack
    \/ QueryExact \/ QueryPrefix \/ QueryFails
    \/ BuildParcel
    \/ ApplyAuthority \/ AuthorityFails

Spec == Init /\ [][Next]_vars

-----------------------------------------------------------------------------
(* Properties *)

Labels == {"screening", "verified_source", "qualified_with_warnings", "certified"}
Bases == {"recorded_plot_area", "calculated_boundary_area", "authority_area"}

\* A parcel that is reported has a positive area with a basis and a label.
TypeOK ==
    /\ step \in {"local", "exact", "prefix", "build", "authority", "done", "failed", "not_found"}
    /\ feature.source \in {"local", "live"} /\ feature.parts \in Nat \ {0}
    /\ step \in {"authority", "done"} =>
         parcel.area > 0 /\ parcel.basis \in Bases /\ parcel.label \in Labels

\* The cells that some source record of the plot covers.
Covered(s) == UNION {Geometry(s[i].rings) : i \in DOMAIN s}

\* A part inside another one becomes a hole of the combined geometry.
Nested(s) == \E i, j \in DOMAIN s : Geometry(s[i].rings) # Geometry(s[j].rings)
                                 /\ Geometry(s[i].rings) \subseteq Geometry(s[j].rings)

\* "Verified source" is only said of a parcel from a fresh local snapshot, all
\* of whose positive areas are one and none is missing, which the ground they cover together has
\* within 2 percent.
VerifiedIsEarned ==
    baseline.label = "verified_source" /\ ~Nested(rows) =>
        /\ feature.source = "local" /\ database = "fresh" /\ ~feature.reason
        /\ \A i \in DOMAIN rows : rows[i].area = baseline.area \/ rows[i].area < 0
        /\ ~Exceeds(Ground[Covered(rows)], baseline.area, 2)

\* "Certified" needs both an area and a boundary that were activated, a
\* boundary that agrees with the MCGM record, and a record without defects.
CertifiedIsEarned ==
    parcel.label = "certified" =>
        /\ applied.area # {} /\ applied.geometry # {}
        /\ Stated(feature) # 0
        /\ ~Exceeds(parcel.boundary, Stated(feature), 2)
        /\ ~feature.unmerged /\ ~feature.stale /\ ~feature.duplicate /\ ~feature.missing

\* No label promises more than the records and the documents of the plot support.
LabelsAreEarned == VerifiedIsEarned /\ CertifiedIsEarned

\* A plot's area is a recorded one only when no record of the plot contests it;
\* otherwise it is the one of the boundary that is shown, as long as no
\* authority source replaces either.
RecordedIsUncontested ==
    /\ baseline.basis = "recorded_plot_area" /\ feature.source = "local" =>
         \A i \in DOMAIN rows : rows[i].area <= 0 \/ rows[i].area = baseline.area
    /\ parcel.basis = "calculated_boundary_area" /\ applied.geometry = {} =>
         parcel.area = Area(feature.rings)

\* A reported area has a basis, and the basis is true.
AreaIsSound == TypeOK /\ RecordedIsUncontested

\* A live answer given in place of the snapshot says so, and "local" never
\* gives one.
SubstitutionIsDisclosed ==
    step \in {"build", "authority", "done"} /\ feature.source = "live" =>
        mode = "live" \/ (mode = "auto" /\ feature.reason)

\* "Local" reports a plot as not found only when a readable snapshot has no
\* record of it, never because its records could not be read or merged.
NotFoundIsAMiss ==
    step = "not_found" /\ mode = "local" => database \in {"fresh", "stale"} /\ rows = <<>>

\* The answer of a source is not passed off as that of another, nor its failure as
\* the absence of the plot.
AnswerIsHonest == SubstitutionIsDisclosed /\ NotFoundIsAMiss

===============================================================================
