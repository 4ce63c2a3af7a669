---------------------------- MODULE MCLookupReports ----------------------------
(* Two lookups at a time, in one process or in two, for TLC. *)
EXTENDS LookupReports

CONSTANTS a, b, p, q, x, y

TwoRuns == {a, b}
TwoProcesses == {p, q}
TogetherOrApart == {[r \in TwoRuns |-> p], a :> p @@ b :> q}
Apart == {a :> p @@ b :> q}
OnePlot == {x}
TwoPlots == {x, y}
LiveAndAuto == {<<"live", "basic">>, <<"auto", "standard">>}
LocalBasic == {<<"local", "basic">>}
TwoVersions == {1, 2}

MCInit == active = [store \in {"parcel", "planning"} |-> 1] /\ Init
\* Runs a and b are alike: a begins first.
FirstIsA == run[b].serial # 1

MCSpec == MCInit /\ [][Next]_vars /\ Fairness
================================================================================
