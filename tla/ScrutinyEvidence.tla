--------------------------- MODULE ScrutinyEvidence ----------------------------
(***************************************************************************)
(* The optional due-diligence evidence of a lookup: more planning layers    *)
(* are read from the pinned snapshot or queried, a few at a time; in the     *)
(* full profile what the first round finds decides which further layers     *)
(* apply, and these are asked in a second round.                            *)
(***************************************************************************)
EXTENDS LiveQueries

CONSTANTS
    Profiles,       \* evidence profiles: subset of {"basic", "shadow", "standard", "full"}
    SourceModes,    \* source policies: subset of {"live", "local", "auto"}
    Snapshots,      \* conditions of the local planning snapshot
    StandardLayers, FullLayers,  \* always asked in the standard, and in the full profile
    ConditionalLayers,           \* asked where the layer Trigger[l] has a finding
    Trigger,
    Situations,     \* sets of layers that may have a feature on the parcel
    InnerBand, OuterBand         \* the ASI monument buffers, 29 and 30

ASSUME ScrutinySets ==
    /\ Profiles \subseteq {"basic", "shadow", "standard", "full"}
    /\ SourceModes \subseteq {"live", "local", "auto"}
    /\ Snapshots \subseteq {"missing", "unreadable", "fresh", "stale"}
    /\ ConditionalLayers \cap (StandardLayers \cup FullLayers) = {}
    /\ Trigger \in [ConditionalLayers -> FullLayers]
    /\ {InnerBand, OuterBand} \subseteq FullLayers

VARIABLES
    scrutiny,       \* step of the task
    profile, policy, snapshot,   \* the request and what the snapshot is worth
    there,          \* layers with a feature on the parcel
    damaged,        \* layers of the snapshot with a record that cannot be parsed
    report          \* PlanningEvidenceReport: outcomes by layer, and its context

scrutinyVars == <<scrutiny, profile, policy, snapshot, there, damaged, report>>

AllLayers == StandardLayers \cup FullLayers \cup ConditionalLayers
LayersOf(p) == IF p = "basic" THEN {} ELSE StandardLayers \cup (IF p = "full" THEN FullLayers ELSE {})
LayerRequest(l) == <<"scrutiny", l>>

NoReport == [outcomes |-> [l \in {} |-> {}], complete |-> FALSE, asi |-> "unknown",
             warned |-> FALSE, note |-> FALSE, from |-> "none"]

ScrutinyInit ==
    /\ scrutiny = "start"
    /\ profile \in Profiles /\ policy \in SourceModes
    /\ snapshot \in (IF policy = "live" THEN {"missing"} ELSE Snapshots)
    /\ there \in Situations
    /\ damaged \in (IF snapshot \in {"fresh", "stale"} THEN {{}} \cup {{l} : l \in AllLayers} ELSE {{}})
    /\ report = NoReport

-----------------------------------------------------------------------------
(* Outcomes, the same policy for both sources                              *)

State(state, found) ==
    IF state # "answered" THEN state ELSE IF found THEN "hit" ELSE "not_present"

\* A damaged record hides what it stands for, and the other records count.
LocalOutcome(l) ==
    [state |-> IF l \in damaged THEN "malformed" ELSE State("answered", l \in there),
     found |-> l \in there \ damaged]

LiveOutcome(l) ==
    [state |-> State(request[LayerRequest(l)].state, request[LayerRequest(l)].found # {}),
     found |-> request[LayerRequest(l)].found # {}]

\* The findings of a layer decide about others, whatever its own state is.
Applies(outcomes, l) == outcomes[Trigger[l]].found

\* Mutant: all that did not fail is complete.
CompleteIfAnswered(outcomes) == \A l \in DOMAIN outcomes : outcomes[l].state # "failed"

Complete(outcomes) == \A l \in DOMAIN outcomes : outcomes[l].state \in {"hit", "not_present"}

AsiZone(outcomes) ==
    IF InnerBand \in DOMAIN outcomes /\ outcomes[InnerBand].found THEN "prohibited"
    ELSE IF OuterBand \in DOMAIN outcomes /\ outcomes[OuterBand].found THEN "regulated"
    ELSE IF \A l \in {InnerBand, OuterBand} : l \in DOMAIN outcomes /\ outcomes[l].state = "not_present"
    THEN "not_present"
    ELSE "unknown"

Reported(outcomes, warned, from) ==
    [outcomes |-> outcomes, complete |-> Complete(outcomes), asi |-> AsiZone(outcomes),
     warned |-> warned \/ \E l \in DOMAIN outcomes : outcomes[l].state \notin {"hit", "not_present"},
     note |-> ~Complete(outcomes) /\ profile # "shadow", from |-> from]

-----------------------------------------------------------------------------
(* The sources                                                             *)

SnapshotUsable == snapshot \in (IF policy = "local" THEN {"fresh", "stale"} ELSE {"fresh"})

BasicHasNone ==
    /\ scrutiny = "start" /\ profile = "basic"
    /\ scrutiny' = "done"
    /\ UNCHANGED <<request, profile, policy, snapshot, there, damaged, report>>

ReadLocalEvidence ==
    /\ scrutiny = "start" /\ profile # "basic" /\ policy # "live"
    /\ SnapshotUsable
    /\ LET first == [l \in LayersOf(profile) |-> LocalOutcome(l)]
           more  == IF profile = "full" THEN {l \in ConditionalLayers : Applies(first, l)} ELSE {}
       IN  report' = Reported([l \in LayersOf(profile) \cup more |-> LocalOutcome(l)],
                              snapshot = "stale", "local")
    /\ scrutiny' = "done"
    /\ UNCHANGED <<request, profile, policy, snapshot, there, damaged>>

\* A failure of the evidence leaves the lookup as it is, with a note.
LocalEvidenceFails ==
    /\ scrutiny = "start" /\ profile # "basic" /\ policy = "local"
    /\ ~SnapshotUsable
    /\ report' = [NoReport EXCEPT !.warned = TRUE, !.note = profile # "shadow"]
    /\ scrutiny' = "done"
    /\ UNCHANGED <<request, profile, policy, snapshot, there, damaged>>

AskFirst ==
    /\ scrutiny = "start" /\ profile # "basic"
    /\ policy = "live" \/ (policy = "auto" /\ ~SnapshotUsable)
    /\ request' = Sent({LayerRequest(l) : l \in LayersOf(profile)})
    /\ scrutiny' = "first"
    /\ UNCHANGED <<profile, policy, snapshot, there, damaged, report>>

\* Damage and a transfer limit may each hide a feature that is there.
ScrutinyAnswers(l) ==
    /\ \/ Answer(LayerRequest(l), "answered", {l} \cap there)
       \/ \E outcome \in {"malformed", "truncated"}, found \in SUBSET ({l} \cap there) :
            Answer(LayerRequest(l), outcome, found)
    /\ UNCHANGED scrutinyVars

Round == {l \in AllLayers : request[LayerRequest(l)].state # "unsent"}

\* The second round of the full profile, which may be empty.
AskMore ==
    /\ scrutiny = "first"
    /\ Ended({LayerRequest(l) : l \in Round})
    /\ LET outcomes == [l \in Round |-> LiveOutcome(l)]
           more     == IF profile = "full" THEN {l \in ConditionalLayers : Applies(outcomes, l)} ELSE {}
       IN  request' = Sent({LayerRequest(l) : l \in more})
    /\ scrutiny' = "second"
    /\ UNCHANGED <<profile, policy, snapshot, there, damaged, report>>

ReportLive ==
    /\ scrutiny = "second"
    /\ Ended({LayerRequest(l) : l \in Round})
    /\ report' = Reported([l \in Round |-> LiveOutcome(l)], policy = "auto", "live")
    /\ scrutiny' = "done"
    /\ UNCHANGED <<request, profile, policy, snapshot, there, damaged>>

ScrutinyTask ==
    \/ BasicHasNone \/ ReadLocalEvidence \/ LocalEvidenceFails
    \/ AskFirst \/ AskMore \/ ReportLive

-----------------------------------------------------------------------------
(* Properties *)

\* A complete report lists what there is in every layer that applies to the
\* parcel, those included that apply only because of what another layer has.
CompleteIsAll ==
    report.complete =>
        \A l \in AllLayers :
            /\ l \in DOMAIN report.outcomes => report.outcomes[l].found = (l \in there)
            /\ l \notin DOMAIN report.outcomes /\ l \in there =>
                 \/ profile # "full" /\ l \notin StandardLayers
                 \/ l \in ConditionalLayers /\ Trigger[l] \notin there

\* "Not present" is only said of the monument bands when neither is there.
AsiIsChecked == report.asi = "not_present" => {InnerBand, OuterBand} \cap there = {}

\* An incomplete report is never silent.
IncompleteIsSaid ==
    scrutiny = "done" /\ profile \in {"standard", "full"} /\ ~report.complete => report.warned /\ report.note

\* A scrutiny report is honest: it is complete only if it has everything, rules
\* monument bands out only if it looked, and says what is missing.
ScrutinyIsHonest == CompleteIsAll /\ AsiIsChecked /\ IncompleteIsSaid

=============================================================================
