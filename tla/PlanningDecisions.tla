-------------------------- MODULE PlanningDecisions ---------------------------
(***************************************************************************)
(* The planning status of one parcel: the planning layers are read from the *)
(* pinned local snapshot or queried from the map service, the point identify *)
(* of the live mode fills in for layers that did not answer, and the        *)
(* reservations, designations and modifications decide the status badge.    *)
(*                                                                         *)
(* The parcel is a set of cells, each a number of hundredths of its area.   *)
(***************************************************************************)
EXTENDS LiveQueries

CONSTANTS
    Modes,        \* source modes of the lookup
    Stores,       \* conditions of the local planning snapshot that it may meet
    Layers,       \* planning layers: zone 0, reservations 46, designations 47, ...
    Measures,     \* cell of the parcel -> the hundredths of its area
    Grounds,      \* functions from Layers to the features there are
    Sliver        \* overlaps up to this percentage are not counted

\* A feature is read as a whole, or what it says of itself raises once its overlap was
\* counted, or its geometry does before that; what raises is skipped without a warning.
Readings == {"whole", "counted", "none"}

Features == [cells : SUBSET DOMAIN Measures, coded : BOOLEAN, reads : Readings]

ASSUME PlanningSets ==
    /\ Modes \subseteq {"live", "local", "auto"}
    /\ Stores \subseteq {"missing", "unreadable", "fresh", "stale"}
    /\ {0, 46, 47, 192} \subseteq Layers
    /\ Measures \in [DOMAIN Measures -> SUBSET (1 .. 100)]
    /\ Grounds \subseteq [Layers -> SUBSET Features]
    /\ Sliver \in Nat

VARIABLES
    mode, store,  \* the request, and what the local snapshot is worth
    ground,       \* layer -> features, of which some overlap the parcel
    encloses,     \* the parcel's rings enclose an area
    planning,     \* step of the planning task
    source,       \* where the spatial result comes from, and why
    decision      \* the PlanningContext

planningVars == <<mode, store, ground, encloses, planning, source, decision>>

LayerRequests == {<<"layer", l>> : l \in Layers}
Identify == <<"identify", 0>>

NoSource == [from |-> "none", fallback |-> FALSE, stale |-> FALSE]
Undecided == [confirmed |-> FALSE, warned |-> FALSE, method |-> "none", badge |-> "none",
              percent |-> 0, answered |-> {}, items |-> [l \in {46, 47, 192} |-> {}]]

PlanningInit ==
    /\ mode \in Modes
    /\ store \in (IF mode = "live" THEN {"missing"} ELSE Stores)
    /\ ground \in Grounds
    /\ encloses \in BOOLEAN
    /\ planning = "start"
    /\ source = NoSource
    /\ decision = Undecided

-----------------------------------------------------------------------------
(* The spatial result                                                      *)

Measure(cells) == Cardinality(UNION {Measures[c] : c \in cells})

\* Mutant: an overlap as large as the threshold counts.
OverlapsAtAll(f) == Measure(f.cells) > 0

Overlaps(f) == Measure(f.cells) > Sliver

\* The features that the snapshot, or the answer to the query, gave for a layer.
Given(l) == IF source.from = "local" THEN ground[l] ELSE request[<<"layer", l>>].found

\* One without overlap, with a sliver, or that cannot be read is not listed.
Listed(l) == {f \in Given(l) : Overlaps(f) /\ f.reads = "whole"}

Counted(l) == {f \in Given(l) : Overlaps(f) /\ f.reads # "none"}

Encumbered == Measure(UNION {f.cells : f \in Counted(46) \cup Counted(47)})

\* The zone of the largest overlap has a code.
Zoned ==
    \E f \in Listed(0) :
        f.coded /\ \A g \in Listed(0) : Measure(g.cells) <= Measure(f.cells)

Answered == {l \in Layers : request[<<"layer", l>>].state = "answered"}

-----------------------------------------------------------------------------
(* The sources                                                             *)

Usable == encloses /\ store \in (IF mode = "local" THEN {"fresh", "stale"} ELSE {"fresh"})

ReadLocalPlanning ==
    /\ planning = "start" /\ mode # "live"
    /\ Usable
    /\ source' = [from |-> "local", fallback |-> FALSE, stale |-> store = "stale"]
    /\ planning' = "decide"
    /\ UNCHANGED <<request, mode, store, ground, encloses, decision>>

\* Only "auto" asks the map service instead.
LocalPlanningFails ==
    /\ planning = "start" /\ mode # "live"
    /\ ~Usable
    /\ source' = [from     |-> IF mode = "auto" /\ encloses THEN "live" ELSE "error",
                  fallback |-> mode = "auto", stale |-> FALSE]
    /\ IF source'.from = "live" THEN request' = Sent(LayerRequests) /\ planning' = "asked"
       ELSE UNCHANGED request /\ planning' = "decide"
    /\ UNCHANGED <<mode, store, ground, encloses, decision>>

\* The layers and the identify are asked together; without an area the spatial
\* query raises and the identify is all there is.
AskLive ==
    /\ planning = "start" /\ mode = "live"
    /\ source' = [from |-> IF encloses THEN "live" ELSE "error", fallback |-> FALSE, stale |-> FALSE]
    /\ request' = Sent({Identify} \cup (IF encloses THEN LayerRequests ELSE {}))
    /\ planning' = "asked"
    /\ UNCHANGED <<mode, store, ground, encloses, decision>>

\* A collection that is not a list is a failure of its layer.  One without features,
\* or one cut off at the transfer limit, is taken as it is.
LayerAnswers(l) ==
    /\ \E found \in SUBSET ground[l] : Answer(<<"layer", l>>, "answered", found)
    /\ UNCHANGED planningVars

\* The identify hits features near the representative point, in the parcel or
\* beside it, and misses others.
IdentifyAnswers ==
    /\ \E hits \in SUBSET UNION {{[layer |-> l, coded |-> f.coded] : f \in ground[l]} : l \in Layers} :
        /\ \A g, h \in hits : g.layer = h.layer => g = h
        /\ Answer(Identify, "answered", hits)
    /\ UNCHANGED planningVars

Gathered ==
    /\ planning = "asked"
    /\ Ended({r \in LayerRequests \cup {Identify} : request[r].state # "unsent"})
    /\ planning' = "decide"
    /\ UNCHANGED <<request, mode, store, ground, encloses, source, decision>>

-----------------------------------------------------------------------------
(* Normalization                                                           *)

\* Mutant: the identify also stands in for a layer that answered.
FoundEverywhere(answered, listed) ==
    {h.layer : h \in {g \in request[Identify].found : g.coded}} \cap {l \in DOMAIN listed : listed[l] = {}}

\* Layers whose items come from the identify: it cannot replace the answer of
\* a query that found nothing.
FoundInstead(answered, listed) ==
    {h.layer : h \in {g \in request[Identify].found : g.coded}}
    \cap {l \in DOMAIN listed : listed[l] = {} /\ l \notin answered}

Whole(by) == [by |-> by, cells |-> DOMAIN Measures]

Reconciled(answered) ==
    LET listed == [l \in {46, 47, 192} |-> {[by |-> "query", cells |-> f.cells] : f \in Listed(l)}]
    IN  [l \in DOMAIN listed |->
            IF l \in FoundInstead(answered, listed) THEN {Whole("identify")} ELSE listed[l]]

\* Without a spatial result every item is one that was identified, code or not.
Identified ==
    [l \in {46, 47, 192} |-> IF \E h \in request[Identify].found : h.layer = l
                             THEN {Whole("identify")} ELSE {}]

\* Modified comes first; without an encumbered share the parcel is clear.
Badge(items, percent) ==
    IF items[192] # {} THEN "modified"
    ELSE IF percent = 0 \/ items[46] \cup items[47] = {} THEN "clear"
    ELSE IF percent < 90 THEN "partly_reserved"
    ELSE "reserved"

Decided(confirmed, warned, method, items, percent, answered) ==
    [confirmed |-> confirmed, warned |-> warned, method |-> method, badge |-> Badge(items, percent),
     percent |-> percent, answered |-> answered, items |-> items]

ZoneIdentified == \E h \in request[Identify].found : h.layer = 0 /\ h.coded

\* Confirmed when every layer answered and nothing raised a warning; without a
\* zone there is no result.
Decide ==
    /\ planning = "decide" /\ source.from # "error"
    /\ LET answered == IF source.from = "local" THEN Layers ELSE Answered
           warned   == answered # Layers \/ source.stale
       IN  IF Zoned \/ ZoneIdentified
           THEN /\ planning' = "done"
                /\ decision' = Decided(~warned, warned, source.from, Reconciled(answered),
                                       Encumbered, answered)
           ELSE planning' = "failed" /\ UNCHANGED decision
    /\ UNCHANGED <<request, mode, store, ground, encloses, source>>

DecideFromIdentify ==
    /\ planning = "decide" /\ source.from = "error"
    /\ IF request[Identify].state = "answered" /\ ZoneIdentified
       THEN /\ planning' = "done"
            /\ decision' = Decided(FALSE, TRUE, "identify_fallback", Identified,
                                   IF Identified[46] \cup Identified[47] # {} THEN 100 ELSE 0, {})
       ELSE planning' = "failed" /\ UNCHANGED decision
    /\ UNCHANGED <<request, mode, store, ground, encloses, source>>

PlanningTask ==
    \/ ReadLocalPlanning \/ LocalPlanningFails \/ AskLive
    \/ Gathered
    \/ Decide \/ DecideFromIdentify

PlanningAnswers == IdentifyAnswers \/ \E l \in Layers : LayerAnswers(l)

-----------------------------------------------------------------------------
(* Properties *)

Badges == {"modified", "clear", "partly_reserved", "reserved"}

\* The features that overlap the parcel by more than a sliver.
Present(l) == {f \in ground[l] : Measure(f.cells) > Sliver}
Share == Measure(UNION {f.cells : f \in Present(46) \cup Present(47)})

\* The badge that the features on the ground require.
Required ==
    CASE Present(192) # {}                            -> "modified"
      [] Present(192) = {} /\ Share = 0               -> "clear"
      [] Present(192) = {} /\ Share \in 1 .. 89       -> "partly_reserved"
      [] OTHER                                        -> "reserved"

\* Everything that decides about the badge was given and could be read.
NothingLost ==
    \A l \in {46, 47, 192} : \A f \in Present(l) : f \in Given(l) /\ f.reads = "whole"

\* Planning constraints are only called confirmed when the badge is the one
\* that the features on the ground require, whatever the identify hit beside
\* the parcel and in whatever order the requests were answered.  Answers that
\* lack features, and features that cannot be read, make the badge too mild
\* and never too severe.
ConfirmedIsTrue ==
    planning = "done" /\ decision.confirmed =>
        /\ NothingLost => decision.badge = Required
        /\ decision.badge = "modified" => Present(192) # {}
        /\ decision.badge \in {"partly_reserved", "reserved"} => Share > 0
        /\ decision.badge = "reserved" => Share >= 90

\* Confirmed constraints come from a snapshot that is not stale or from a query
\* of every layer that was answered, and a result that is not confirmed is
\* never given without a warning.
ConfirmedIsComplete ==
    planning = "done" =>
        /\ decision.confirmed => ~decision.warned /\ source.from # "error"
                              /\ (source.from = "local" => store = "fresh")
                              /\ (source.from = "live" => \A l \in Layers : request[<<"layer", l>>].state = "answered")
        /\ ~decision.confirmed => decision.warned

\* What the result lists for a layer that answered is what the answer had that
\* overlaps the parcel and could be read: all of it, even if other layers failed,
\* and nothing that only the identify hit, nor anything that is not on the ground.
AnsweredIsListed ==
    planning = "done" =>
        \A l \in {46, 47, 192} \cap decision.answered :
            decision.items[l] = {[by |-> "query", cells |-> f.cells] :
                                    f \in {g \in Given(l) \cap Present(l) : g.reads = "whole"}}

\* No status is given on a parcel whose zone nobody stated: a failure of the
\* snapshot, of the queries and of the identify is an error, not a clear parcel.
NothingKnownIsAnError ==
    planning = "done" =>
        \/ \E f \in Present(0) : f.coded /\ (source.from = "local" \/ request[<<"layer", 0>>].state = "answered")
        \/ request[Identify].state = "answered" /\ \E h \in request[Identify].found : h.layer = 0 /\ h.coded

\* "Local" never asks the map service, and "auto" says when it did.
SourceIsDisclosed ==
    /\ mode = "local" => \A r \in LayerRequests \cup {Identify} : request[r].state = "unsent"
    /\ mode = "auto" /\ (\E r \in LayerRequests : request[r].state # "unsent") => source.fallback

\* Confirmed constraints are true as far as the sources told, and are earned: by a
\* fresh snapshot or by all eight answers, from where the caller asked for them.
ConfirmedIsEarned == ConfirmedIsTrue /\ ConfirmedIsComplete /\ SourceIsDisclosed

\* A parcel for which a reservation or designation is listed is not called
\* clear ("missing planning evidence must not be interpreted as a clear
\* parcel", lookup_service.py).
ListedIsNotClear ==
    planning = "done" /\ decision.items[46] \cup decision.items[47] # {} => decision.badge # "clear"

=============================================================================
