--------------------------- MODULE MCSnapshotStore ----------------------------
(* A small parcel database for TLC. *)
EXTENDS SnapshotStore, TLC

CONSTANTS b1, b2, p1, p2, good, better, degenerate, broken

OneBuilder == {b1}
TwoBuilders == {b1, b2}
OneOperator == {p1}
TwoOperators == {p1, p2}
TwoIds == 1 .. 2
OneId == {1}

\* Two versions of a proper polygon; one with a ring too short for the store's
\* validation but not for the importer; one the importer drops.
AllPayloads == {good, better, degenerate, broken}
UsablePayloads == {good, better, degenerate}
ProperPayloads == {good, better}
===============================================================================
