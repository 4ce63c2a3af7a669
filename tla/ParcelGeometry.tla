---------------------------- MODULE ParcelGeometry ----------------------------
(***************************************************************************)
(* How the rings of a parcel become its analysis geometry, on a line: a    *)
(* ring encloses the cells lo .. hi - 1, and Ground gives the area that a   *)
(* set of cells has on the ground.  Containment depth decides what is a     *)
(* shell and what is a hole, rings that touch or overlap are united, and a  *)
(* ring that encloses nothing is dropped.  The rings are given by their     *)
(* index, which may be a place in a sequence or a pair of part and place.   *)
(***************************************************************************)
EXTENDS Integers, FiniteSets, Sequences

CONSTANTS
    Line,   \* the cells
    Ground  \* area of each set of cells, in units of SmallArea's

ASSUME GroundMeasures ==
    /\ Line \subseteq Int
    /\ Ground \in [SUBSET Line -> Nat]

Cells(ring) == ring.lo .. (ring.hi - 1)

Usable(rings) == {i \in DOMAIN rings : Cells(rings[i]) # {}}

Within(a, b) == Cells(a) # Cells(b) /\ Cells(a) \subseteq Cells(b)

Containers(rings, i) == {j \in Usable(rings) : Within(rings[i], rings[j])}

Depth(rings, i) == Cardinality(Containers(rings, i))

Shells(rings) == {i \in Usable(rings) : Depth(rings, i) % 2 = 0}

\* The holes of a shell: the odd rings for which it is the smallest direct container.
Holes(rings, s) ==
    {i \in Usable(rings) \ Shells(rings) :
        LET direct == {j \in Containers(rings, i) : Depth(rings, j) = Depth(rings, i) - 1}
        IN  /\ s \in direct
            /\ \A j \in direct : Cardinality(Cells(rings[s])) <= Cardinality(Cells(rings[j]))}

Part(rings, s) == Cells(rings[s]) \ UNION {Cells(rings[h]) : h \in Holes(rings, s)}

Geometry(rings) == UNION {Part(rings, s) : s \in Shells(rings)}

\* Two parts that share an edge (or more) are not a valid multipolygon.
Touch(a, b) == \E x \in a, y \in b : x - y \in {-1, 0, 1}

HoleOnEdge(rings, s) ==
    \E h \in Holes(rings, s) :
        \/ {rings[h].lo - 1, rings[h].hi} \cap Part(rings, s) # {rings[h].lo - 1, rings[h].hi}
        \/ \E g \in Holes(rings, s) \ {h} : Touch(Cells(rings[h]), Cells(rings[g]))

Repaired(rings) ==
    \/ \E s, t \in Shells(rings) : s # t /\ Touch(Part(rings, s), Part(rings, t))
    \/ \E s \in Shells(rings) : HoleOnEdge(rings, s)

RawInvalid(rings) == rings = <<>> \/ Usable(rings) # DOMAIN rings

\* More than one polygon remains after the touching ones are united.
Fragmented(rings) ==
    \E S \in (SUBSET Shells(rings)) \ {{}, Shells(rings)} :
        \A s \in S, t \in Shells(rings) \ S : ~Touch(Part(rings, s), Part(rings, t))

\* The calculated boundary area; 0 when there is none.
Area(rings) == Ground[Geometry(rings)]

===============================================================================
