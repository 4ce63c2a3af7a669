-------------------------- MODULE AuthoritySelection --------------------------
(***************************************************************************)
(* How verified authority records are ranked for a purpose.  No state:     *)
(* AuthorityStore applies these operators to its records, ParcelAssessment *)
(* to the ones that are explicitly active.                                 *)
(*                                                                         *)
(* A boundary is an integer, which is also its calculated area; 0 stands   *)
(* for "absent" in areas, boundaries and dates.                            *)
(***************************************************************************)
EXTENDS Integers, FiniteSets, FiniteSetsExt

Purposes == {"area", "geometry", "planning"}

SourceTypes == {"property_card", "cts_final_plot_plan", "city_survey_measurement",
                "total_station_survey", "dp_remarks",
                "certified_survey_reconciliation", "other_official_document"}

AreaRank == [t \in SourceTypes |->
    CASE t = "certified_survey_reconciliation" -> 110
      [] t = "property_card"                   -> 100
      [] t = "city_survey_measurement"         -> 95
      [] t = "cts_final_plot_plan"             -> 90
      [] t = "total_station_survey"            -> 70
      [] OTHER                                 -> 0]

GeometryRank == [t \in SourceTypes |->
    CASE t = "certified_survey_reconciliation" -> 110
      [] t = "total_station_survey"            -> 100
      [] t = "city_survey_measurement"         -> 95
      [] t = "cts_final_plot_plan"             -> 90
      [] OTHER                                 -> 0]

PlanningRank == [t \in SourceTypes |-> IF t = "dp_remarks" THEN 100 ELSE 0]

Rank(r, purpose) ==
    CASE purpose = "area"     -> AreaRank[r.type]
      [] purpose = "geometry" -> GeometryRank[r.type]
      [] purpose = "planning" -> PlanningRank[r.type]

\* The recorded area, or the one of the boundary; for "geometry" the other way round.
RecordArea(r, purpose) ==
    IF purpose = "geometry" /\ r.rings # 0 THEN r.rings
    ELSE IF r.area # 0 THEN r.area ELSE r.rings

\* A record without a boundary has an empty one, which "geometry" does not refuse.
Eligible(r, purpose, plot) ==
    /\ r.plot = plot
    /\ r.status = "verified"
    /\ Rank(r, purpose) > 0
    /\ purpose = "area" => RecordArea(r, purpose) # 0

\* The eligible records of the highest rank.
Top(records, purpose, plot) ==
    LET fit == {r \in records : Eligible(r, purpose, plot)}
    IN  {r \in fit : \A s \in fit \ {r} : Rank(s, purpose) <= Rank(r, purpose)}

\* Records without a boundary have one checksum, which is no other boundary's.
Disagree(top, purpose) ==
    \/ purpose = "area" /\ Cardinality({RecordArea(r, purpose) : r \in top}) > 1
    \/ purpose = "geometry" /\ Cardinality({r.rings : r \in top}) > 1

\* Ties go to the later issue, then the later review, then the lesser
\* document checksum; the listing's order decides between equal checksums.
BadPreferred(r, s) == r.issued > s.issued

Preferred(r, s) ==
    \/ r.issued > s.issued
    \/ /\ r.issued = s.issued
       /\ \/ r.reviewed > s.reviewed
          \/ /\ r.reviewed = s.reviewed
             /\ \/ r.sha < s.sha
                \/ r.sha = s.sha /\ r.version < s.version

NoSelection == [selected |-> {}, conflict |-> FALSE]

Recommend(records, purpose, plot) ==
    LET top == Top(records, purpose, plot)
    IN  IF Disagree(top, purpose) THEN [selected |-> {}, conflict |-> TRUE]
        ELSE [selected |-> {r \in top : \A s \in top \ {r} : Preferred(r, s)},
              conflict |-> FALSE]

===============================================================================
