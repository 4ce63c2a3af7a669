--------------------------- MODULE MCPlanningStore ----------------------------
(* A small planning database for TLC. *)
EXTENDS PlanningStore, TLC

CONSTANTS p1, v1, v2

TwoLayers == {1, 2}
OneId == {1}
TwoIds == {1, 2}
OneVersion == {v1}
TwoVersions == {v1, v2}
OneOperator == {p1}

\* Full builds only; full builds and a refresh of the first layer.
FullOnly == {{}}
FullAndRefresh == {{}, {1}}
===============================================================================
