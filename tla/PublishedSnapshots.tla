-------------------------- MODULE PublishedSnapshots --------------------------
(***************************************************************************)
(* What a snapshot store promises to its readers, whatever the steps it    *)
(* takes inside: a snapshot becomes visible once, complete, and never      *)
(* changes again; one pointer names the snapshot that lookups read, and it *)
(* only ever names a visible one.                                          *)
(*                                                                         *)
(* The parcel store, the planning store and the store of derived facts of  *)
(* dp_lookup are each checked, and proved, to implement this module.       *)
(***************************************************************************)
CONSTANTS
    SnapshotIds,    \* the identifiers the store may hand out
    Contents,       \* the complete contents a snapshot may be published with
    Unpublished,    \* "no content is visible under this identifier"
    NoSnapshot      \* "no snapshot is active"

VARIABLES
    visible,        \* visible[s]: what readers see under identifier s
    current         \* the snapshot lookups read

vars == <<visible, current>>

Init ==
    /\ visible = [s \in SnapshotIds |-> Unpublished]
    /\ current = NoSnapshot

\* A finished build becomes visible under an identifier of its own.
Publish(s, c) ==
    /\ visible[s] = Unpublished
    /\ visible' = [visible EXCEPT ![s] = c]
    /\ UNCHANGED current

\* Activation and rollback alike only move the pointer.
Switch(s) ==
    /\ visible[s] # Unpublished
    /\ current' = s
    /\ UNCHANGED visible

Next ==
    \E s \in SnapshotIds : Switch(s) \/ \E c \in Contents : Publish(s, c)

Spec == Init /\ [][Next]_vars
===============================================================================
