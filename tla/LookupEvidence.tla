---------------------------- MODULE LookupEvidence -----------------------------
(***************************************************************************)
(* The evidence of one lookup: the planning task, the road and neighbour     *)
(* probes and the optional scrutiny run concurrently on one client and wait  *)
(* for the map service, whose answers come in any order.                     *)
(***************************************************************************)
EXTENDS PlanningDecisions, AbuttingEvidence, ScrutinyEvidence

\* The requests of the three tasks, of which there are finitely many.
ASSUME LookupRequests ==
    /\ Requests = LayerRequests \cup {Identify} \cup RoadRequests \cup PlotRequests
                  \cup {LayerRequest(l) : l \in AllLayers}
    /\ IsFiniteSet(Requests)

vars == <<request, planningVars, abuttingVars, scrutinyVars>>

Init ==
    /\ request = [r \in Requests |-> Unsent]
    /\ PlanningInit /\ AbuttingInit /\ ScrutinyInit

\* A step of one of the tasks, all of which run on the event loop.
Task ==
    \/ PlanningTask /\ UNCHANGED <<abuttingVars, scrutinyVars>>
    \/ AbuttingTask /\ UNCHANGED <<planningVars, scrutinyVars>>
    \/ ScrutinyTask /\ UNCHANGED <<planningVars, abuttingVars>>

\* The map service answers, which it need not do.
ServiceAnswers ==
    \/ PlanningAnswers /\ UNCHANGED <<abuttingVars, scrutinyVars>>
    \/ AbuttingAnswers /\ UNCHANGED <<planningVars, scrutinyVars>>
    \/ (\E l \in AllLayers : ScrutinyAnswers(l)) /\ UNCHANGED <<planningVars, abuttingVars>>

Attempt(r) == Transport(r) /\ UNCHANGED <<planningVars, abuttingVars, scrutinyVars>>

Next == Task \/ ServiceAnswers \/ \E r \in Requests : Attempt(r)

Spec == Init /\ [][Next]_vars

\* Every attempt of the client has a timeout, so a request that is not answered
\* gets to its next attempt or fails; the event loop runs the tasks that can go on.
Fairness == WF_vars(Task) /\ \A r \in Requests : WF_vars(Attempt(r))

FairSpec == Spec /\ Fairness

-----------------------------------------------------------------------------
(* Properties *)

RequestState ==
    [state : {"unsent", "queued", "sent"} \cup Outcomes, attempts : 0 .. MaxAttempts, found : SUBSET
        UNION {request[r].found : r \in Requests}]

\* The probes of roads and neighbours together, and the layers of the scrutiny, hold at
\* most the slots of their pool.
TypeOK ==
    /\ request \in [Requests -> RequestState]
    /\ \A pool \in DOMAIN Slots : Cardinality(InFlight(pool)) <= Slots[pool]
    /\ planning \in {"start", "asked", "decide", "done", "failed"}
    /\ planning = "done" => decision.badge \in Badges /\ decision.percent \in 0 .. 100
    /\ abutting \in {"start", "asked", "done"}
    /\ scrutiny \in {"start", "first", "second", "done"}

\* No task takes a request that failed for ground on which there is nothing: neither
\* zones and reservations nor roads and neighbours.
FailureIsNeverAbsence == NothingKnownIsAnError /\ FailureIsNotAbsence

\* Every lookup gets to its evidence, or to an error, however its requests are
\* answered: a request that is retried keeps its slot, others wait for it.
EvidenceComes ==
    <>(planning \in {"done", "failed"} /\ abutting = "done" /\ scrutiny = "done")

=============================================================================
