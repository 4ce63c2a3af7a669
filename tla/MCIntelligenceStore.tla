------------------------- MODULE MCIntelligenceStore --------------------------
(* Small intelligence databases for TLC. *)
EXTENDS IntelligenceStore, TLC

CONSTANTS k1, k2, b1, b2, p1, r1

TwoPlots == {k1, k2}
OnePlot == {k1}
OneBuilder == {b1}
TwoBuilders == {b1, b2}
OneOperator == {p1}
OneReader == {r1}
Nobody == {}
OneSnapshot == {1}
TwoSnapshots == {1, 2}
FullOnly == {"full"}
BothScopes == {"full", "sample"}

\* The second command only builds the sample, beside a first one that does so
\* too, before anything is switched or activated; states beyond are not explored.
Quiet ==
    \/ job[b2].pc = "idle"
    \/ /\ switches = 0 /\ begun <= 1 /\ activations = <<>>
       /\ \A b \in Builders : job[b].scope = "sample" \/ job[b].pc = "idle"
       /\ \A p \in Operators : command[p].pc = "idle"
       /\ \A n \in BuildIds : builds[n].scope = "sample" \/ builds[n].state = "none"
===============================================================================
