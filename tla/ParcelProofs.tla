----------------------------- MODULE ParcelProofs ------------------------------
(***************************************************************************)
(* What holds of the parcel of a lookup and of an assembly of parcels for   *)
(* every line of cells and every plot: the label and the area are earned,   *)
(* an answer says where it comes from, and the relations of pairs of plots  *)
(* add up to the site.                                                     *)
(***************************************************************************)
EXTENDS ParcelAssessment, PlotAssembly, FiniteSetTheorems, SequenceTheorems, WellFoundedInduction, TLAPS

\* A set of numbers that is not empty has a least one.
LEMMA Least ==
    ASSUME NEW S \in SUBSET Nat, S # {}
    PROVE  \E m \in S : \A n \in S : m <= n
<1>1. PICK R : R = OpToRel(<, Nat)
  OBVIOUS
<1>2. \A i, j \in Nat : <<i, j>> \in R <=> i < j
  BY <1>1 DEF OpToRel
<1>3. IsWellFoundedOn(R, Nat)
  BY <1>1, NatLessThanWellFounded
<1>4. PICK m \in S : \A n \in S : ~(<<n, m>> \in R)
  BY <1>3, WFMin
<1>5. ASSUME NEW n \in S
      PROVE  m <= n
  <2>1. m \in Nat /\ n \in Nat
    OBVIOUS
  <2>2. ~(n < m)
    BY <1>2, <1>4, <2>1
  <2> QED BY <2>1, <2>2
<1> QED BY <1>5

\* What a sequence holds.
LEMMA Elements ==
    ASSUME NEW X, NEW q \in Seq(X)
    PROVE  /\ \A j \in DOMAIN q : q[j] \in X
           /\ DOMAIN q = 1 .. Len(q) /\ Len(q) \in Nat
           /\ IsFiniteSet(DOMAIN q)
           /\ q # <<>> => 1 \in DOMAIN q
<1>1. DOMAIN q = 1 .. Len(q) /\ Len(q) \in Nat /\ q \in [1 .. Len(q) -> X]
  OBVIOUS
<1>2. PICK b : b = Len(q)
  OBVIOUS
<1>5. b \in Int
  BY <1>1, <1>2
<1>3. IsFiniteSet(DOMAIN q)
  BY <1>1, <1>2, <1>5, FS_Interval
<1>4. q # <<>> => Len(q) > 0
  BY <1>1, EmptySeq
<1> QED BY <1>1, <1>3, <1>4

-------------------------------------------------------------------------------
(* Rings. *)

\* Rings are intervals, and each one encloses something.
Sane(rings) ==
    /\ IsFiniteSet(DOMAIN rings)
    /\ \A i \in DOMAIN rings : rings[i].lo \in Int /\ rings[i].hi \in Int
    /\ Usable(rings) = DOMAIN rings

\* Containment is a strict order, and the depth counts it.
LEMMA Depths ==
    ASSUME NEW rings, Sane(rings), NEW i \in DOMAIN rings
    PROVE  /\ Depth(rings, i) \in Nat
           /\ Containers(rings, i) = {} <=> Depth(rings, i) = 0
           /\ \A k : Containers(rings, i) = {k} => Depth(rings, i) = 1
           /\ \A k, l : k # l /\ Containers(rings, i) = {k, l} => Depth(rings, i) = 2
           /\ i \notin Containers(rings, i)
           /\ Containers(rings, i) \subseteq DOMAIN rings
           /\ \A j \in Containers(rings, i) :
                 /\ Containers(rings, j) \subseteq Containers(rings, i)
                 /\ Depth(rings, j) < Depth(rings, i)
<1>1. PICK C : C = Containers(rings, i)
  OBVIOUS
<1>2. C \in SUBSET DOMAIN rings /\ i \notin C
  BY <1>1 DEF Containers, Usable, Within
<1>3. IsFiniteSet(C) /\ Cardinality(C) \in Nat
  BY <1>2, FS_Subset, FS_CardinalityType DEF Sane
<1>4. Depth(rings, i) = Cardinality(C)
  BY <1>1 DEF Depth
<1>5. C = {} <=> Cardinality(C) = 0
  BY <1>3, FS_EmptySet
<1>6. \A k : C = {k} => Cardinality(C) = 1
  BY FS_Singleton
<1>7. ASSUME NEW k, NEW l, k # l, C = {k, l}
      PROVE  Cardinality(C) = 2
  <2>1. C = {k} \cup {l} /\ IsFiniteSet({k}) /\ Cardinality({k}) = 1
    BY <1>7, FS_Singleton
  <2> QED BY <1>7, <2>1, FS_AddElement
<1>8. ASSUME NEW j \in C
      PROVE  /\ Containers(rings, j) \subseteq C
             /\ Depth(rings, j) < Cardinality(C)
  <2>1. PICK D : D = Containers(rings, j)
    OBVIOUS
  <2>2. j \notin D /\ D \in SUBSET C
    BY <1>1, <1>8, <2>1 DEF Containers, Usable, Within
  <2>3. IsFiniteSet(D) /\ Cardinality(D) \in Nat /\ Cardinality(D) <= Cardinality(C) /\ Cardinality(C) # Cardinality(D)
    BY <1>3, <1>8, <2>2, FS_Subset, FS_CardinalityType
  <2>4. Depth(rings, j) = Cardinality(D)
    BY <2>1 DEF Depth
  <2> QED BY <1>3, <2>1, <2>2, <2>3, <2>4
<1> QED BY <1>1, <1>2, <1>3, <1>4, <1>5, <1>6, <1>7, <1>8

\* A ring that lies in others lies in an outermost one.
LEMMA Outermost ==
    ASSUME NEW rings, Sane(rings), NEW i \in DOMAIN rings, Containers(rings, i) # {}
    PROVE  \E k \in Containers(rings, i) : Containers(rings, k) = {} /\ k \in Shells(rings)
<1>1. PICK N : N = {Depth(rings, k) : k \in Containers(rings, i)}
  OBVIOUS
<1>2. \A k \in Containers(rings, i) : k \in DOMAIN rings /\ Depth(rings, k) \in Nat
  BY Depths
<1>3. N \in SUBSET Nat /\ N # {}
  BY <1>1, <1>2
<1>4. PICK n \in N : \A d \in N : n <= d
  BY <1>3, Least
<1>5. PICK k \in Containers(rings, i) : Depth(rings, k) = n
  BY <1>1, <1>4
<1>6. Containers(rings, k) = {}
  <2> SUFFICES ASSUME NEW l \in Containers(rings, k)
               PROVE  FALSE
    OBVIOUS
  <2>1. l \in Containers(rings, i) /\ Depth(rings, l) < n
    BY <1>2, <1>5, Depths
  <2>2. Depth(rings, l) \in Nat /\ n <= Depth(rings, l)
    BY <1>1, <1>2, <1>4, <2>1
  <2> QED BY <1>3, <2>1, <2>2
<1>7. Depth(rings, k) = 0
  BY <1>2, <1>6, Depths
<1> QED BY <1>2, <1>6, <1>7 DEF Shells, Sane

\* Rings that all lie directly in one of them are its holes.
LEMMA FlatGeometry ==
    ASSUME NEW rings, Sane(rings), NEW m \in DOMAIN rings, Containers(rings, m) = {},
           \A j \in (DOMAIN rings) \ {m} : Containers(rings, j) = {m}
    PROVE  /\ Shells(rings) = {m}
           /\ Holes(rings, m) = (DOMAIN rings) \ {m}
           /\ Geometry(rings) = Part(rings, m)
           /\ \A x : x \in Part(rings, m) <=> /\ x \in Cells(rings[m])
                                            /\ \A j \in (DOMAIN rings) \ {m} : x \notin Cells(rings[j])
<1>1. Depth(rings, m) = 0 /\ \A j \in (DOMAIN rings) \ {m} : Depth(rings, j) = 1
  BY Depths
<1>2. Shells(rings) = {m}
  BY <1>1 DEF Shells, Sane
<1>3. ASSUME NEW j \in (DOMAIN rings) \ {m}
      PROVE  j \in Holes(rings, m)
  <2>1. {k \in Containers(rings, j) : Depth(rings, k) = Depth(rings, j) - 1} = {m}
    BY <1>1
  <2>2. PICK a \in Int, b \in Int : a = rings[m].lo /\ b = rings[m].hi - 1
    BY DEF Sane
  <2>3. Cardinality(Cells(rings[m])) \in Nat
    BY <2>2, FS_Interval, FS_CardinalityType DEF Cells
  <2>4. Cardinality(Cells(rings[m])) <= Cardinality(Cells(rings[m]))
    BY <2>3
  <2> QED BY <1>2, <2>1, <2>4 DEF Holes, Sane
<1>4. Holes(rings, m) = (DOMAIN rings) \ {m}
  BY <1>2, <1>3 DEF Holes, Sane
<1> QED BY <1>2, <1>4 DEF Geometry, Part

\* Rings that make one sound polygon: a shell, with everything else its holes.
LEMMA OneShell ==
    ASSUME NEW rings, Sane(rings), ~Repaired(rings), ~Fragmented(rings), Geometry(rings) # {}
    PROVE  \E m \in DOMAIN rings : /\ Shells(rings) = {m}
                                   /\ Containers(rings, m) = {}
                                   /\ \A j \in (DOMAIN rings) \ {m} : Containers(rings, j) = {m}
<1>1. Shells(rings) # {} /\ Shells(rings) \subseteq DOMAIN rings
  BY DEF Geometry, Shells, Sane
<1>2. ASSUME NEW s \in Shells(rings), NEW t \in Shells(rings), s # t
      PROVE  FALSE
  <2>1. \A a \in {s}, b \in Shells(rings) \ {s} : ~Touch(Part(rings, a), Part(rings, b))
    BY DEF Repaired
  <2>2. {s} \in (SUBSET Shells(rings)) \ {{}, Shells(rings)}
    BY <1>2
  <2> QED BY <2>1, <2>2 DEF Fragmented
<1>3. PICK m \in DOMAIN rings : Shells(rings) = {m}
  BY <1>1, <1>2
<1>4. Containers(rings, m) = {}
  <2> SUFFICES ASSUME Containers(rings, m) # {}
               PROVE  FALSE
    OBVIOUS
  <2>1. m \in Containers(rings, m)
    BY <1>3, Outermost
  <2> QED BY <2>1, Depths
<1>5. ASSUME NEW j \in (DOMAIN rings) \ {m}
      PROVE  m \in Containers(rings, j)
  <2>1. Depth(rings, j) # 0
    BY <1>3 DEF Shells, Sane
  <2>2. Containers(rings, j) # {}
    BY <2>1, Depths
  <2> QED BY <1>3, <2>2, Outermost
<1>6. ASSUME NEW j \in (DOMAIN rings) \ {m}, Containers(rings, j) = {m}
      PROVE  j \in Holes(rings, m)
  <2>1. Depth(rings, j) = 1 /\ Depth(rings, m) = 0
    BY <1>4, <1>6, Depths
  <2>2. {k \in Containers(rings, j) : Depth(rings, k) = Depth(rings, j) - 1} = {m}
    BY <1>6, <2>1
  <2>3. PICK a \in Int, b \in Int : a = rings[m].lo /\ b = rings[m].hi - 1
    BY DEF Sane
  <2>4. Cardinality(Cells(rings[m])) \in Nat
    BY <2>3, FS_Interval, FS_CardinalityType DEF Cells
  <2>5. Cardinality(Cells(rings[m])) <= Cardinality(Cells(rings[m]))
    BY <2>4
  <2> QED BY <1>3, <2>2, <2>5 DEF Holes, Sane
<1>7. \A j \in (DOMAIN rings) \ {m} : Containers(rings, j) = {m}
  <2> SUFFICES ASSUME \E j \in (DOMAIN rings) \ {m} : Containers(rings, j) # {m}
               PROVE  FALSE
    OBVIOUS
  <2>1. PICK J : J = {j \in (DOMAIN rings) \ {m} : Containers(rings, j) # {m}}
    OBVIOUS
  <2>2. PICK N : N = {Depth(rings, j) : j \in J}
    OBVIOUS
  <2>3. N \in SUBSET Nat /\ N # {}
    BY <2>1, <2>2, Depths
  <2>4. PICK n \in N : \A d \in N : n <= d
    BY <2>3, Least
  <2>5. PICK j \in J : Depth(rings, j) = n
    BY <2>2, <2>4
  <2>6. ASSUME NEW k \in Containers(rings, j) \ {m}
        PROVE  k \in Holes(rings, m)
    <3>1. k \in (DOMAIN rings) \ {m} /\ Depth(rings, k) < n
      BY <2>1, <2>5, Depths
    <3>2. k \notin J
      <4> SUFFICES ASSUME k \in J PROVE FALSE
        OBVIOUS
      <4>1. n <= Depth(rings, k) /\ n \in Nat /\ Depth(rings, k) \in Nat
        BY <2>2, <2>3, <2>4
      <4> QED BY <3>1, <4>1
    <3> QED BY <1>6, <2>1, <3>1, <3>2
  <2>7. PICK a \in Containers(rings, j) \ {m} : TRUE
    BY <1>5, <2>1
  <2>8. PICK b \in Containers(rings, j) \ {m} : b # a
    <3>1. Containers(rings, j) # {m, a}
      <4> SUFFICES ASSUME Containers(rings, j) = {m, a}
                   PROVE  FALSE
        OBVIOUS
      <4>1. Depth(rings, j) = 2
        BY <2>1, <2>7, Depths
      <4>2. j \in Shells(rings)
        BY <2>1, <4>1 DEF Shells, Sane
      <4> QED BY <1>3, <2>1, <4>2
    <3> QED BY <1>5, <2>1, <2>7, <3>1
  <2>9. PICK x \in Cells(rings[j]) : TRUE
    BY <2>1 DEF Sane, Usable
  <2>10. x \in Cells(rings[a]) /\ x \in Cells(rings[b]) /\ x \in Int
    BY <2>1, <2>7, <2>8, <2>9 DEF Containers, Within, Cells, Sane
  <2>11. Touch(Cells(rings[a]), Cells(rings[b]))
    BY <2>10 DEF Touch
  <2>12. HoleOnEdge(rings, m)
    BY <2>6, <2>7, <2>8, <2>11 DEF HoleOnEdge
  <2> QED BY <1>3, <2>12 DEF Repaired
<1> QED BY <1>3, <1>4, <1>7

-------------------------------------------------------------------------------
(* The parts of a parcel. *)

\* The rings of a merged parcel are those of its parts, each at its place.
Places(s) == UNION {{i} \X (DOMAIN s[i].rings) : i \in DOMAIN s}

LEMMA MergedRings ==
    ASSUME NEW s \in Listings, \A i \in DOMAIN s : Distinct(s, i)
    PROVE  LET all == Merged(s).rings IN
           /\ DOMAIN all = Places(s) /\ IsFiniteSet(DOMAIN all)
           /\ \A i \in DOMAIN s : \A j \in DOMAIN s[i].rings :
                 <<i, j>> \in DOMAIN all /\ all[<<i, j>>] = s[i].rings[j]
           /\ \A p \in DOMAIN all : all[p].lo \in Int /\ all[p].hi \in Int
<1>1. PICK n : n = Len(s)
  OBVIOUS
<1>2. s \in Seq(Rows) /\ DOMAIN s = 1 .. n /\ n \in Nat
  BY <1>1, AssessmentSets
<1>3. \A i \in DOMAIN s : s[i].rings \in Seq([lo : Int, hi : Int])
  BY <1>2, AssessmentSets
<1>4. PICK all : all = [p \in Places(s) |-> s[p[1]].rings[p[2]]]
  OBVIOUS
<1>5. Merged(s).rings = all
  <2>1. {k \in DOMAIN s : Distinct(s, k)} = DOMAIN s
    OBVIOUS
  <2> QED BY <1>4, <2>1 DEF Merged, NoFeature, Places
<1>6. IsFiniteSet(Places(s))
  <2>1. IsFiniteSet(DOMAIN s)
    BY <1>2, FS_Interval
  <2>2. PICK S : S = {{i} \X (DOMAIN s[i].rings) : i \in DOMAIN s}
    OBVIOUS
  <2>3. IsFiniteSet(S)
    <3>1. PICK f : f = [i \in DOMAIN s |-> {i} \X (DOMAIN s[i].rings)]
      OBVIOUS
    <3>2. f \in Surjection(DOMAIN s, S)
      BY <2>2, <3>1 DEF Surjection
    <3> QED BY <2>1, <3>2, FS_Surjection
  <2>4. ASSUME NEW i \in DOMAIN s
        PROVE  IsFiniteSet({i} \X (DOMAIN s[i].rings))
    <3>1. IsFiniteSet(DOMAIN s[i].rings)
      BY <1>3, Elements
    <3>2. IsFiniteSet({i})
      BY FS_Singleton
    <3> QED BY <3>1, <3>2, FS_Product
  <2>5. \A T \in S : IsFiniteSet(T)
    BY <2>2, <2>4
  <2> QED BY <2>2, <2>3, <2>5, FS_UNION DEF Places
<1>7. DOMAIN all = Places(s)
  BY <1>4
<1>8. ASSUME NEW i \in DOMAIN s, NEW j \in DOMAIN s[i].rings
      PROVE  <<i, j>> \in Places(s) /\ all[<<i, j>>] = s[i].rings[j]
  <2>1. <<i, j>> \in Places(s)
    BY DEF Places
  <2> QED BY <1>4, <2>1
<1>9. ASSUME NEW p \in Places(s)
      PROVE  all[p].lo \in Int /\ all[p].hi \in Int
  <2>1. PICK i \in DOMAIN s : \E j \in DOMAIN s[i].rings : p = <<i, j>>
    BY DEF Places
  <2>2. PICK j \in DOMAIN s[i].rings : p = <<i, j>>
    BY <2>1
  <2>3. s[i].rings[j] \in [lo : Int, hi : Int]
    BY <1>3, Elements
  <2> QED BY <1>8, <2>2, <2>3
<1> QED BY <1>5, <1>6, <1>7, <1>8, <1>9

\* When the rings of all parts make one sound polygon and no part lies inside another
\* one, there is only one part, and the parcel is what it covers: a part beside it would
\* be a shell of its own, and one inside it a hole that the first part has not got.
LEMMA SoundIsCovered ==
    ASSUME NEW s \in Listings, \A i \in DOMAIN s : Distinct(s, i) /\ s[i].rings # <<>>, ~Nested(s),
           LET all == Merged(s).rings IN
             ~RawInvalid(all) /\ ~Repaired(all) /\ ~Fragmented(all) /\ Geometry(all) # {}
    PROVE  Geometry(Merged(s).rings) = Covered(s)
<1>1. PICK all : all = Merged(s).rings
  OBVIOUS
<1>2. /\ DOMAIN all = Places(s) /\ IsFiniteSet(DOMAIN all)
      /\ \A i \in DOMAIN s : \A j \in DOMAIN s[i].rings :
            <<i, j>> \in DOMAIN all /\ all[<<i, j>>] = s[i].rings[j]
      /\ \A p \in DOMAIN all : all[p].lo \in Int /\ all[p].hi \in Int
  BY <1>1, MergedRings
<1>3. Sane(all)
  BY <1>1, <1>2 DEF Sane, RawInvalid
<1>4. PICK m \in DOMAIN all : /\ Shells(all) = {m}
                              /\ Containers(all, m) = {}
                              /\ \A p \in (DOMAIN all) \ {m} : Containers(all, p) = {m}
  BY <1>1, <1>3, OneShell
<1>5. /\ Holes(all, m) = (DOMAIN all) \ {m}
      /\ Geometry(all) = Part(all, m)
      /\ \A x : x \in Part(all, m) <=> /\ x \in Cells(all[m])
                                       /\ \A p \in (DOMAIN all) \ {m} : x \notin Cells(all[p])
  BY <1>3, <1>4, FlatGeometry
<1>14. PICK a \in DOMAIN s : \E b \in DOMAIN s[a].rings : m = <<a, b>>
  BY <1>2, <1>4 DEF Places
<1>6. PICK b \in DOMAIN s[a].rings : m = <<a, b>>
  BY <1>14
<1>7. ASSUME NEW i \in DOMAIN s
      PROVE  /\ Sane(s[i].rings)
             /\ \A j, k \in DOMAIN s[i].rings :
                   k \in Containers(s[i].rings, j) <=> <<i, k>> \in Containers(all, <<i, j>>)
  <2>1. PICK r : r = s[i].rings
    OBVIOUS
  <2>2. s \in Seq(Rows)
    BY AssessmentSets
  <2>3. r \in Seq([lo : Int, hi : Int])
    BY <2>1, <2>2, AssessmentSets
  <2>4. IsFiniteSet(DOMAIN r) /\ \A j \in DOMAIN r : r[j] \in [lo : Int, hi : Int]
    BY <2>3, Elements
  <2>5. \A j \in DOMAIN r : <<i, j>> \in DOMAIN all /\ all[<<i, j>>] = r[j] /\ Cells(all[<<i, j>>]) # {}
    BY <1>2, <1>3, <2>1 DEF Sane, Usable
  <2>6. Usable(r) = DOMAIN r
    BY <2>5 DEF Usable
  <2>7. Sane(r)
    BY <2>4, <2>6 DEF Sane
  <2>8. \A j, k \in DOMAIN r : k \in Containers(r, j) <=> <<i, k>> \in Containers(all, <<i, j>>)
    BY <1>3, <2>5, <2>6 DEF Containers, Sane, Within
  <2> QED BY <2>1, <2>7, <2>8
<1>8. \A x : x \in Geometry(s[a].rings) <=>
                 /\ x \in Cells(all[m])
                 /\ \A j \in (DOMAIN s[a].rings) \ {b} : x \notin Cells(all[<<a, j>>])
  <2>1. PICK r : r = s[a].rings
    OBVIOUS
  <2>2. Sane(r) /\ b \in DOMAIN r /\ Containers(r, b) \subseteq DOMAIN r
    BY <1>7, <2>1, Depths
  <2>3. Containers(r, b) = {}
    BY <1>4, <1>6, <1>7, <2>1, <2>2
  <2>4. ASSUME NEW j \in (DOMAIN r) \ {b}
        PROVE  Containers(r, j) = {b}
    <3>1. <<a, j>> \in (DOMAIN all) \ {m} /\ Containers(r, j) \subseteq DOMAIN r
      BY <1>2, <1>6, <2>1, <2>2, Depths
    <3>3. Containers(all, <<a, j>>) = {m}
      BY <1>4, <3>1
    <3>2. \A k \in DOMAIN r : k \in Containers(r, j) <=> <<a, k>> = m
      BY <1>7, <2>1, <3>3
    <3> QED BY <1>6, <2>2, <3>1, <3>2
  <2>5. \A x : x \in Geometry(r) <=> x \in Cells(r[b]) /\ \A j \in (DOMAIN r) \ {b} : x \notin Cells(r[j])
    BY <2>2, <2>3, <2>4, FlatGeometry
  <2>6. r[b] = all[m] /\ \A j \in DOMAIN r : r[j] = all[<<a, j>>]
    BY <1>2, <1>6, <2>1
  <2> QED BY <2>1, <2>5, <2>6
<1>9. ASSUME NEW i \in DOMAIN s, i # a
      PROVE  FALSE
  <2>1. PICK r : r = s[i].rings
    OBVIOUS
  <2>2. Sane(r)
    BY <1>7, <2>1
  <2>3. \A j \in DOMAIN r : /\ <<i, j>> \in (DOMAIN all) \ {m} /\ all[<<i, j>>] = r[j]
                            /\ <<i, j>> \in Holes(all, m)
    BY <1>2, <1>5, <1>6, <1>9, <2>1
  <2>4. ASSUME NEW j \in DOMAIN r
        PROVE  Containers(r, j) = {}
    <3>2. Containers(all, <<i, j>>) = {m}
      BY <1>4, <2>3
    <3>3. \A k \in DOMAIN r : <<i, k>> # m
      BY <1>6, <1>9
    <3>1. \A k \in DOMAIN r : k \notin Containers(r, j)
      BY <1>7, <2>1, <3>2, <3>3
    <3> QED BY <2>2, <3>1, Depths
  <2>15. \A j \in DOMAIN r : Depth(r, j) = 0
    BY <2>2, <2>4, Depths
  <2>5. Shells(r) = DOMAIN r
    <3>1. 0 % 2 = 0
      OBVIOUS
    <3>2. \A j \in DOMAIN r : j \in Usable(r) /\ Depth(r, j) % 2 = 0
      BY <2>2, <2>15, <3>1 DEF Sane
    <3> QED BY <2>2, <3>2 DEF Shells, Sane
  <2>6. \A j \in DOMAIN r : Part(r, j) = Cells(r[j])
    BY <2>2, <2>5 DEF Part, Holes, Sane
  <2>7. Geometry(r) = UNION {Cells(r[j]) : j \in DOMAIN r}
    BY <2>5, <2>6 DEF Geometry
  <2>8. \A p, q \in (DOMAIN all) \ {m} : p # q => Cells(all[p]) \cap Cells(all[q]) = {}
    <3> SUFFICES ASSUME NEW p \in (DOMAIN all) \ {m}, NEW q \in (DOMAIN all) \ {m}, p # q,
                        NEW x \in Cells(all[p]), x \in Cells(all[q])
                 PROVE  FALSE
      OBVIOUS
    <3>1. x \in Int
      BY <1>2 DEF Cells
    <3>2. Touch(Cells(all[p]), Cells(all[q]))
      BY <3>1 DEF Touch
    <3> QED BY <1>1, <1>4, <1>5, <3>2 DEF Repaired, HoleOnEdge
  <2>9. ASSUME NEW x \in Geometry(r)
        PROVE  x \in Geometry(s[a].rings)
    <3>1. PICK j \in DOMAIN r : x \in Cells(r[j])
      BY <2>7
    <3>2. x \in Cells(all[m])
      BY <1>4, <2>3, <3>1 DEF Containers, Within
    <3>3. \A k \in (DOMAIN s[a].rings) \ {b} : x \notin Cells(all[<<a, k>>])
      BY <1>2, <1>6, <1>9, <2>3, <2>8, <3>1
    <3> QED BY <1>8, <3>2, <3>3
  <2>10. PICK h \in DOMAIN r : TRUE
    <3>1. s \in Seq(Rows) /\ r # <<>>
      BY <2>1, AssessmentSets
    <3>2. r \in Seq([lo : Int, hi : Int])
      BY <2>1, <3>1, AssessmentSets
    <3> QED BY <3>1, <3>2, Elements
  <2>11. PICK x : x = r[h].lo - 1
    OBVIOUS
  <2>12. x \in Part(all, m)
    <3>1. ~HoleOnEdge(all, m) /\ <<i, h>> \in Holes(all, m) /\ all[<<i, h>>].lo - 1 = x
      BY <1>1, <1>4, <2>3, <2>11 DEF Repaired
    <3>2. PICK y : y = all[<<i, h>>].hi
      OBVIOUS
    <3>3. {x, y} \cap Part(all, m) = {x, y}
      BY <3>1, <3>2 DEF HoleOnEdge
    <3> QED BY <3>3
  <2>13. x \in Geometry(s[a].rings)
    BY <1>2, <1>5, <1>6, <1>8, <2>12
  <2>14. x \notin Geometry(r)
    <3>1. \A j \in DOMAIN r : x \notin Cells(r[j])
      BY <1>5, <2>3, <2>12
    <3> QED BY <2>7, <3>1
  <2> QED BY <2>1, <2>9, <2>13, <2>14 DEF Nested
<1>10. DOMAIN s = {a}
  BY <1>9
<1>11. Covered(s) = Geometry(s[a].rings)
  BY <1>10 DEF Covered
<1>12. \A p \in DOMAIN all : \E j \in DOMAIN s[a].rings : p = <<a, j>>
  BY <1>2, <1>10 DEF Places
<1>13. ASSUME NEW x
       PROVE  x \in Part(all, m) <=> x \in Geometry(s[a].rings)
  <2>1. (\A p \in (DOMAIN all) \ {m} : x \notin Cells(all[p])) <=>
        (\A j \in (DOMAIN s[a].rings) \ {b} : x \notin Cells(all[<<a, j>>]))
    BY <1>2, <1>6, <1>12
  <2> QED BY <1>5, <1>8, <2>1
<1>15. PICK P, G : P = Part(all, m) /\ G = Geometry(s[a].rings)
  OBVIOUS
<1>16. P = G
  <2>1. \A x : x \in P <=> x \in G
    BY <1>13, <1>15
  <2>2. P \subseteq G /\ G \subseteq P
    BY <2>1
  <2> QED BY <2>2
<1> QED BY <1>1, <1>5, <1>11, <1>15, <1>16

-------------------------------------------------------------------------------
(* What the flags mean. *)

Differences == {"over_2_percent", "over_5_percent", "over_10_percent"}

\* Without a flag there is nothing that a flag is for.
LEMMA FlagsAreComplete ==
    ASSUME NEW f
    PROVE  /\ EvidenceFlags(f) \cap Differences = {}
           /\ EvidenceFlags(f) = {} =>
                 /\ ~RawInvalid(f.rings) /\ ~Repaired(f.rings) /\ ~Fragmented(f.rings)
                 /\ Area(f.rings) # 0 /\ Stated(f) # 0
                 /\ ~f.conflict /\ ~f.missing /\ ~f.duplicate /\ ~f.unmerged /\ ~f.stale
<1>1. PICK holds : holds =
         [source_geometry_invalid        |-> RawInvalid(f.rings) \/ Repaired(f.rings),
          boundary_area_unavailable      |-> Area(f.rings) = 0,
          unusually_small_geometry       |-> Area(f.rings) \in 1 .. (SmallArea - 1),
          fragmented_boundary            |-> Fragmented(f.rings),
          conflicting_recorded_areas     |-> f.conflict,
          partial_recorded_area_evidence |-> f.missing,
          duplicate_geometry             |-> f.duplicate,
          multiple_live_source_records   |-> f.unmerged,
          ambiguous_identity             |-> f.ambiguous \/ f.cts = "other",
          incomplete_identity            |-> f.cts = "none",
          stale_source_snapshot          |-> f.stale,
          recorded_area_unavailable      |-> Stated(f) = 0]
  OBVIOUS
<1>2. EvidenceFlags(f) = {flag \in DOMAIN holds : holds[flag]}
  BY <1>1 DEF EvidenceFlags
<1>3. DOMAIN holds = {"source_geometry_invalid", "boundary_area_unavailable", "unusually_small_geometry",
          "fragmented_boundary", "conflicting_recorded_areas", "partial_recorded_area_evidence",
          "duplicate_geometry", "multiple_live_source_records", "ambiguous_identity",
          "incomplete_identity", "stale_source_snapshot", "recorded_area_unavailable"}
  BY <1>1
<1>4. EvidenceFlags(f) \cap Differences = {}
  BY <1>2, <1>3 DEF Differences
<1>5. /\ holds["source_geometry_invalid"] = (RawInvalid(f.rings) \/ Repaired(f.rings))
      /\ holds["boundary_area_unavailable"] = (Area(f.rings) = 0)
      /\ holds["fragmented_boundary"] = Fragmented(f.rings)
      /\ holds["recorded_area_unavailable"] = (Stated(f) = 0)
  BY <1>1
<1>6. /\ holds["conflicting_recorded_areas"] = f.conflict
      /\ holds["partial_recorded_area_evidence"] = f.missing
      /\ holds["duplicate_geometry"] = f.duplicate
      /\ holds["multiple_live_source_records"] = f.unmerged
      /\ holds["stale_source_snapshot"] = f.stale
  BY <1>1
<1>7. ASSUME EvidenceFlags(f) = {}
      PROVE  \A flag \in DOMAIN holds : ~holds[flag]
  BY <1>2, <1>7
<1>8. ASSUME EvidenceFlags(f) = {}
      PROVE  /\ ~RawInvalid(f.rings) /\ ~Repaired(f.rings) /\ ~Fragmented(f.rings)
             /\ Area(f.rings) # 0 /\ Stated(f) # 0
  BY <1>3, <1>5, <1>7, <1>8
<1>9. ASSUME EvidenceFlags(f) = {}
      PROVE  ~f.conflict /\ ~f.missing /\ ~f.duplicate /\ ~f.unmerged /\ ~f.stale
  BY <1>3, <1>6, <1>7, <1>9
<1> QED BY <1>4, <1>8, <1>9

\* Without a difference flag the areas agree.
LEMMA NoDifference ==
    ASSUME NEW a \in Nat \ {0}, NEW b \in Nat \ {0}, DifferenceFlags(a, b) = {}
    PROVE  ~Exceeds(a, b, 2)
BY DEF DifferenceFlags

LEMMA DifferencesOnly ==
    ASSUME NEW a, NEW b
    PROVE  DifferenceFlags(a, b) \subseteq Differences
BY DEF DifferenceFlags, Differences

-------------------------------------------------------------------------------
(* What the sources give. *)

LEMMA AreasRecorded ==
    ASSUME NEW s \in Listings
    PROVE  /\ Recorded(s) \subseteq Nat \ {0} /\ IsFiniteSet(Recorded(s))
           /\ Cardinality(Recorded(s)) \in Nat
<1>1. s \in Seq(Rows)
  BY AssessmentSets
<1>2. PICK A : A = {s[i].area : i \in DOMAIN s}
  OBVIOUS
<1>3. PICK g : g = [i \in DOMAIN s |-> s[i].area]
  OBVIOUS
<1>4. g \in Surjection(DOMAIN s, A)
  BY <1>2, <1>3 DEF Surjection
<1>5. IsFiniteSet(A)
  BY <1>1, <1>4, Elements, FS_Surjection
<1>6. Recorded(s) = A \cap (Nat \ {0})
  BY <1>2 DEF Recorded
<1>7. Recorded(s) \in SUBSET A
  BY <1>6
<1>8. IsFiniteSet(Recorded(s))
  BY <1>5, <1>7, FS_Subset
<1> QED BY <1>6, <1>8, FS_CardinalityType

\* A feature that an assessment can be made of.
Usual(f) ==
    /\ f.source \in {"local", "live"} /\ f.parts \in Nat \ {0}
    /\ f.recorded \in Nat /\ f.conflict \in BOOLEAN
    /\ \A p \in DOMAIN f.rings : Cells(f.rings[p]) \subseteq Line

LEMMA AreaTypes ==
    ASSUME NEW f, Usual(f)
    PROVE  Area(f.rings) \in Nat /\ Stated(f) \in Nat
<1>1. Geometry(f.rings) \in SUBSET Line
  BY DEF Usual, Geometry, Part, Shells, Usable
<1> QED BY <1>1, GroundMeasures DEF Area, Stated, Usual

FromSnapshot(s, old) == [Merged(s) EXCEPT !.stale = old]

LEMMA SnapshotFields ==
    ASSUME NEW s, NEW old, NEW f, f = FromSnapshot(s, old)
    PROVE  /\ f.rings = Merged(s).rings
           /\ f.source = "local" /\ f.parts = Len(s) /\ f.conflict \in BOOLEAN
BY DEF FromSnapshot, Merged, NoFeature

LEMMA SnapshotArea ==
    ASSUME NEW s, NEW old, NEW f, f = FromSnapshot(s, old)
    PROVE  f.recorded = IF Cardinality(Recorded(s)) = 1 THEN CHOOSE a \in Recorded(s) : TRUE ELSE 0
BY DEF FromSnapshot, Merged, NoFeature

\* What it means that nothing is in doubt.
LEMMA Uncontested ==
    ASSUME NEW s, NEW old, NEW f, f = FromSnapshot(s, old), ~f.conflict
    PROVE  ~(Cardinality(Recorded(s)) > 1)
BY DEF FromSnapshot, Merged, NoFeature

LEMMA NoneMissing ==
    ASSUME NEW s, NEW old, NEW f, f = FromSnapshot(s, old), ~f.missing
    PROVE  Recorded(s) = {} \/ \A i \in DOMAIN s : s[i].area # 0
BY DEF FromSnapshot, Merged, NoFeature

LEMMA NoneRepeated ==
    ASSUME NEW s, NEW old, NEW f, f = FromSnapshot(s, old), ~f.duplicate
    PROVE  \A i \in DOMAIN s : Distinct(s, i)
BY DEF FromSnapshot, Merged, NoFeature

LEMMA SnapshotIsCurrent ==
    ASSUME NEW s, NEW old, NEW f, f = FromSnapshot(s, old)
    PROVE  ~f.reason /\ (~f.stale => ~old)
BY DEF FromSnapshot, Merged, NoFeature

LEMMA SnapshotIsUsual ==
    ASSUME NEW s \in Listings, s # <<>>, NEW old
    PROVE  Usual(FromSnapshot(s, old))
<1>1. PICK f : f = FromSnapshot(s, old)
  OBVIOUS
<1>2. s \in Seq(Rows) /\ Len(s) \in Nat /\ Len(s) # 0
  BY AssessmentSets, EmptySeq
<1>3. f.source = "local" /\ f.parts = Len(s) /\ f.conflict \in BOOLEAN
  BY <1>1, SnapshotFields
<1>4. f.recorded \in Nat
  <2>1. f.recorded = IF Cardinality(Recorded(s)) = 1 THEN CHOOSE a \in Recorded(s) : TRUE ELSE 0
    BY <1>1, SnapshotArea
  <2>2. Cardinality(Recorded(s)) = 1 => Recorded(s) # {}
    BY FS_EmptySet
  <2>3. Cardinality(Recorded(s)) = 1 => (CHOOSE a \in Recorded(s) : TRUE) \in Nat
    BY <2>2, AreasRecorded
  <2> QED BY <2>1, <2>3
<1>5. ASSUME NEW p \in DOMAIN f.rings
      PROVE  Cells(f.rings[p]) \subseteq Line
  <2>5. f.rings = Merged(s).rings
    BY <1>1, SnapshotFields
  <2>6. Merged(s).rings =
           [q \in UNION {{i} \X (DOMAIN s[i].rings) : i \in {k \in DOMAIN s : Distinct(s, k)}} |->
               s[q[1]].rings[q[2]]]
    BY DEF Merged, NoFeature
  <2>1. f.rings = [q \in UNION {{i} \X (DOMAIN s[i].rings) : i \in {k \in DOMAIN s : Distinct(s, k)}} |->
                      s[q[1]].rings[q[2]]]
    BY <2>5, <2>6
  <2>2. PICK i \in DOMAIN s : p \in {i} \X (DOMAIN s[i].rings)
    BY <2>1
  <2>3. PICK j \in DOMAIN s[i].rings : p = <<i, j>>
    BY <2>2
  <2>4. f.rings[p] = s[i].rings[j]
    BY <2>1, <2>3
  <2>7. s[i] \in Rows
    BY <1>2, Elements
  <2> QED BY <2>4, <2>7, AssessmentSets
<1> QED BY <1>1, <1>2, <1>3, <1>4, <1>5 DEF Usual

LEMMA AnnotatedIsUsual ==
    ASSUME NEW s \in Listings, s # <<>>, NEW prefix
    PROVE  LET f == Annotated(s, prefix) IN
           Usual(f) /\ f.source = "live" /\ f.reason = feature.reason
<1>1. PICK f : f = Annotated(s, prefix)
  OBVIOUS
<1>2. s \in Seq(Rows) /\ Len(s) \in Nat /\ Len(s) # 0
  BY AssessmentSets, EmptySeq
<1>3. s[1] \in Rows
  BY <1>2, Elements
<1>4. /\ f.source = "live" /\ f.reason = feature.reason /\ f.parts = Len(s)
      /\ f.rings = s[1].rings /\ f.conflict = (Cardinality(Recorded(s)) > 1)
      /\ f.recorded = IF s[1].area > 0 THEN s[1].area ELSE 0
  BY <1>1 DEF Annotated, NoFeature
<1>5. s[1].area \in Int /\ \A i \in DOMAIN s[1].rings : Cells(s[1].rings[i]) \subseteq Line
  BY <1>3, AssessmentSets
<1> QED BY <1>1, <1>2, <1>4, <1>5 DEF Usual

-------------------------------------------------------------------------------
(* The inductive invariant. *)

Requested ==
    /\ mode \in {"live", "local", "auto"}
    /\ step \in {"local", "exact", "prefix", "build", "authority", "done", "failed", "not_found"}
    /\ rows \in Listings \cup {<<>>}
    /\ rows # <<>> => database \in {"fresh", "stale"}
    /\ step = "local" => mode # "live" /\ feature = NoFeature
    /\ step \in {"exact", "prefix"} =>
          feature.source = "live" /\ (mode = "live" \/ (mode = "auto" /\ feature.reason))

\* A feature is of the source it names.
Answered ==
    /\ Usual(feature)
    /\ feature.source = "local" =>
          /\ rows \in Listings /\ rows # <<>> /\ ~Untrusted(rows)
          /\ feature = FromSnapshot(rows, database = "stale")
    /\ SubstitutionIsDisclosed
    /\ NotFoundIsAMiss

\* What is reported was assessed from the feature, and then only changed by what was activated.
Reported ==
    /\ step \in {"authority", "done"} =>
          /\ baseline = Assessed(feature) /\ baseline.area # 0
          /\ parcel.area \in Nat \ {0} /\ parcel.basis \in Bases /\ parcel.label \in Labels
    /\ step \notin {"authority", "done"} => baseline = NoParcel /\ parcel = NoParcel /\ applied = NothingApplied
    /\ step = "authority" => parcel = baseline /\ applied = NothingApplied
    /\ parcel.basis = "calculated_boundary_area" /\ applied.geometry = {} => parcel.area = Area(feature.rings)
    /\ CertifiedIsEarned

AssessmentInv == Requested /\ Answered /\ Reported

LEMMA NothingIsUsual == Usual(NoFeature) /\ NoFeature.source = "live"
BY DEF Usual, NoFeature

LEMMA AssessmentInit == Init => AssessmentInv
<1> SUFFICES ASSUME Init PROVE AssessmentInv
  OBVIOUS
<1>1. Requested
  <2>1. mode \in {"live", "local", "auto"}
    BY AssessmentSets DEF Init
  <2>2. rows \in Listings \cup {<<>>} /\ (rows # <<>> => database \in {"fresh", "stale"})
    BY DEF Init
  <2> QED BY <2>1, <2>2, NothingIsUsual DEF Init, Requested
<1>2. Answered
  BY NothingIsUsual DEF Init, Answered, SubstitutionIsDisclosed, NotFoundIsAMiss
<1>3. Reported
  BY DEF Init, Reported, NoParcel, CertifiedIsEarned
<1> QED BY <1>1, <1>2, <1>3 DEF AssessmentInv

\* A step before the assessment leaves nothing reported.
LEMMA NothingReported ==
    ASSUME AssessmentInv, step \notin {"authority", "done"}, step' \notin {"authority", "done"},
           UNCHANGED <<parcel, baseline, applied>>
    PROVE  Reported'
<1>1. parcel = NoParcel /\ NoParcel.basis = "unavailable" /\ NoParcel.label = "none"
  BY DEF AssessmentInv, Reported, NoParcel
<1> QED BY <1>1 DEF AssessmentInv, Reported, CertifiedIsEarned

LEMMA ReadLocalKeeps == ASSUME AssessmentInv, ReadLocal PROVE AssessmentInv'
<1>1. PICK f : f = FromSnapshot(rows, database = "stale")
  OBVIOUS
<1>2. feature' = f
  BY <1>1 DEF ReadLocal, FromSnapshot
<1>3. rows \in Listings /\ rows # <<>> /\ ~Untrusted(rows)
  BY DEF ReadLocal, LocalFails, AssessmentInv, Requested
<1>4. Usual(f) /\ f.source = "local"
  BY <1>1, <1>3, SnapshotIsUsual, SnapshotFields
<1>5. step = "local" /\ step' = "build" /\ UNCHANGED <<mode, database, rows, parcel, baseline, applied>>
  BY DEF ReadLocal
<1>6. Requested'
  BY <1>5 DEF AssessmentInv, Requested
<1>7. Answered'
  BY <1>1, <1>2, <1>3, <1>4, <1>5 DEF Answered, SubstitutionIsDisclosed, NotFoundIsAMiss
<1>8. Reported'
  BY <1>5, NothingReported
<1> QED BY <1>6, <1>7, <1>8 DEF AssessmentInv

LEMMA FallBackKeeps == ASSUME AssessmentInv, FallBack PROVE AssessmentInv'
<1>1. /\ step = "local" /\ feature = NoFeature /\ mode \in {"local", "auto"}
      /\ LocalFails \/ rows = <<>>
      /\ UNCHANGED <<mode, database, rows, parcel, baseline, applied>>
  BY DEF FallBack, AssessmentInv, Requested
<1>2. PICK f : f = [NoFeature EXCEPT !.reason = TRUE]
  OBVIOUS
<1>3. Usual(f) /\ f.source = "live" /\ f.reason
  BY <1>2 DEF Usual, NoFeature
<1>4. CASE mode = "auto"
  <2>1. step' = "exact" /\ feature' = f
    BY <1>1, <1>2, <1>4 DEF FallBack
  <2>2. Requested'
    BY <1>1, <1>3, <1>4, <2>1 DEF AssessmentInv, Requested
  <2>3. Answered'
    BY <1>1, <1>3, <1>4, <2>1 DEF Answered, SubstitutionIsDisclosed, NotFoundIsAMiss
  <2> QED BY <1>1, <2>1, <2>2, <2>3, NothingReported DEF AssessmentInv
<1>5. CASE mode = "local"
  <2>1. UNCHANGED feature /\ step' = IF LocalFails THEN "failed" ELSE "not_found"
    BY <1>1, <1>5 DEF FallBack
  <2>2. Requested'
    BY <1>1, <2>1 DEF AssessmentInv, Requested
  <2>3. step' = "not_found" => database \in {"fresh", "stale"} /\ rows = <<>>
    BY <1>1, <2>1 DEF LocalFails
  <2>4. Answered'
    BY <1>1, <2>1, <2>3 DEF AssessmentInv, Answered, SubstitutionIsDisclosed, NotFoundIsAMiss
  <2> QED BY <1>1, <2>1, <2>2, <2>4, NothingReported DEF AssessmentInv
<1> QED BY <1>1, <1>4, <1>5

LEMMA QueriesKeep == ASSUME AssessmentInv, QueryExact \/ QueryPrefix \/ QueryFails PROVE AssessmentInv'
<1>1. /\ step \in {"exact", "prefix"} /\ UNCHANGED <<mode, database, rows, parcel, baseline, applied>>
      /\ feature.source = "live" /\ (mode = "live" \/ (mode = "auto" /\ feature.reason))
  BY DEF QueryExact, QueryPrefix, QueryFails, AssessmentInv, Requested
<1>2. CASE UNCHANGED feature /\ step' \in {"prefix", "not_found", "failed"}
  BY <1>1, <1>2, NothingReported
     DEF AssessmentInv, Requested, Answered, SubstitutionIsDisclosed, NotFoundIsAMiss
<1>3. ASSUME NEW s \in Listings, s # <<>>, NEW prefix \in BOOLEAN,
             step' = "build", feature' = Annotated(s, prefix)
      PROVE  AssessmentInv'
  <2>1. PICK f : f = Annotated(s, prefix)
    OBVIOUS
  <2>2. Usual(f) /\ f.source = "live" /\ f.reason = feature.reason
    BY <1>3, <2>1, AnnotatedIsUsual
  <2>3. Requested'
    BY <1>1, <1>3 DEF AssessmentInv, Requested
  <2>4. Answered'
    BY <1>1, <1>3, <2>1, <2>2 DEF Answered, SubstitutionIsDisclosed, NotFoundIsAMiss
  <2> QED BY <1>1, <1>3, <2>3, <2>4, NothingReported DEF AssessmentInv
<1> QED BY <1>2, <1>3 DEF QueryExact, QueryPrefix, QueryFails

\* What an assessment says.
LEMMA AssessedIs ==
    ASSUME NEW f, Usual(f), NEW a, a = Assessed(f)
    PROVE  /\ a.boundary = Area(f.rings) /\ a.area \in Nat
           /\ a.flags = EvidenceFlags(f) \cup DifferenceFlags(Area(f.rings), Stated(f))
           /\ a.label \in Labels \ {"certified"}
           /\ a.label = "verified_source" => a.flags = {} /\ f.source = "local"
           /\ a.area # 0 => a.basis \in Bases \ {"authority_area"}
           /\ a.basis = "recorded_plot_area" => Stated(f) # 0 /\ a.area = Stated(f)
           /\ a.basis = "calculated_boundary_area" => a.area = Area(f.rings)
BY AreaTypes DEF Assessed, Labels, Bases

LEMMA BuildParcelKeeps == ASSUME AssessmentInv, BuildParcel PROVE AssessmentInv'
<1>1. step = "build" /\ UNCHANGED <<mode, database, rows, feature, applied>> /\ Usual(feature)
  BY DEF BuildParcel, AssessmentInv, Answered
<1>2. PICK a : a = Assessed(feature)
  OBVIOUS
<1>3. CASE step' = "failed" /\ UNCHANGED <<parcel, baseline>>
  <2>1. Requested' /\ Answered'
    BY <1>1, <1>3 DEF AssessmentInv, Requested, Answered, SubstitutionIsDisclosed, NotFoundIsAMiss
  <2> QED BY <1>1, <1>3, <2>1, NothingReported DEF AssessmentInv
<1>4. CASE step' = "authority" /\ parcel' = a /\ baseline' = a /\ a.area # 0
  <2>1. Requested' /\ Answered'
    BY <1>1, <1>4 DEF AssessmentInv, Requested, Answered, SubstitutionIsDisclosed, NotFoundIsAMiss
  <2>2. applied = NothingApplied
    BY <1>1 DEF AssessmentInv, Reported
  <2>3. /\ a.area \in Nat \ {0} /\ a.basis \in Bases /\ a.label \in Labels \ {"certified"}
        /\ a.basis = "calculated_boundary_area" => a.area = Area(feature.rings)
    BY <1>1, <1>2, <1>4, AssessedIs
  <2>4. Reported'
    BY <1>1, <1>2, <1>4, <2>2, <2>3 DEF Reported, CertifiedIsEarned
  <2> QED BY <2>1, <2>4 DEF AssessmentInv
<1> QED BY <1>1, <1>2, <1>3, <1>4 DEF BuildParcel

\* What is recommended is active and eligible, and a boundary that is active is one.
LEMMA RecommendedIsEligible ==
    ASSUME NEW u, NEW active \in Active(u), NEW r \in Recommend(active, u, "plot").selected
    PROVE  r \in Sources /\ Eligible(r, u, "plot") /\ (u = "geometry" => r.rings # 0)
<1>1. r \in Top(active, u, "plot")
  BY DEF Recommend
<1>2. r \in active /\ Eligible(r, u, "plot")
  BY <1>1 DEF Top
<1> QED BY <1>2 DEF Active

LEMMA ApplyAuthorityKeeps == ASSUME AssessmentInv, ApplyAuthority PROVE AssessmentInv'
<1>1. /\ step = "authority" /\ step' = "done" /\ UNCHANGED <<mode, database, rows, feature, baseline>>
      /\ parcel = baseline /\ baseline = Assessed(feature) /\ Usual(feature)
      /\ parcel.area \in Nat \ {0} /\ parcel.basis \in Bases
  BY DEF ApplyAuthority, AssessmentInv, Reported, Answered
<1>2. PICK forArea \in Active("area"), forGeometry \in Active("geometry") :
        LET area     == Recommend(forArea, "area", "plot").selected
            geometry == Recommend(forGeometry, "geometry", "plot").selected
            boundary == IF geometry = {} THEN parcel.boundary
                        ELSE (CHOOSE r \in geometry : TRUE).rings
            size     == IF area = {} THEN parcel.area
                        ELSE RecordArea(CHOOSE r \in area : TRUE, "area")
        IN  /\ parcel' = Working(size, boundary,
                                 IF area # {} THEN "authority_area" ELSE parcel.basis,
                                 area # {} /\ geometry # {})
            /\ applied' = [area |-> area, geometry |-> geometry]
  BY DEF ApplyAuthority
<1>3. PICK area : area = Recommend(forArea, "area", "plot").selected
  OBVIOUS
<1>4. PICK geometry : geometry = Recommend(forGeometry, "geometry", "plot").selected
  OBVIOUS
<1>5. PICK g : g = CHOOSE r \in geometry : TRUE
  OBVIOUS
<1>6. PICK h : h = CHOOSE r \in area : TRUE
  OBVIOUS
<1>7. PICK boundary : boundary = IF geometry = {} THEN parcel.boundary ELSE g.rings
  OBVIOUS
<1>8. PICK size : size = IF area = {} THEN parcel.area ELSE RecordArea(h, "area")
  OBVIOUS
<1>9. PICK basis : basis = IF area # {} THEN "authority_area" ELSE parcel.basis
  OBVIOUS
<1>10. /\ parcel' = Working(size, boundary, basis, area # {} /\ geometry # {})
       /\ applied' = [area |-> area, geometry |-> geometry]
  BY <1>2, <1>3, <1>4, <1>5, <1>6, <1>7, <1>8, <1>9
<1>11. area # {} => h \in area
  BY <1>6
<1>12. geometry # {} => g \in geometry
  BY <1>5
<1>13. area # {} => RecordArea(h, "area") \in Nat \ {0}
  <2>1. area # {} => h \in Sources /\ Eligible(h, "area", "plot")
    BY <1>3, <1>11, RecommendedIsEligible
  <2> QED BY <2>1, AssessmentSets DEF Eligible, RecordArea
<1>14. geometry # {} => boundary \in Nat \ {0}
  <2>1. geometry # {} => g \in Sources /\ g.rings # 0
    BY <1>4, <1>12, RecommendedIsEligible
  <2> QED BY <1>7, <2>1, AssessmentSets
<1>15. PICK flags : flags = {f \in parcel.flags : f \notin Differences} \cup DifferenceFlags(boundary, Stated(feature))
  OBVIOUS
<1>16. /\ parcel'.area = size /\ parcel'.basis = basis /\ parcel'.boundary = boundary
       /\ parcel'.label = IF area # {} /\ geometry # {} /\ flags = {} THEN "certified" ELSE parcel.label
       /\ applied'.area = area /\ applied'.geometry = geometry
  BY <1>10, <1>15 DEF Working, Differences
<1>17. parcel.label \in Labels \ {"certified"}
  BY <1>1, AssessedIs
<1>18. Requested' /\ Answered'
  BY <1>1 DEF AssessmentInv, Requested, Answered, SubstitutionIsDisclosed, NotFoundIsAMiss
<1>19. parcel'.area \in Nat \ {0} /\ parcel'.basis \in Bases /\ parcel'.label \in Labels
  BY <1>1, <1>8, <1>9, <1>13, <1>16, <1>17 DEF Bases, Labels
<1>20. parcel'.basis = "calculated_boundary_area" => parcel'.area = Area(feature.rings)
  <2>1. parcel.basis = "calculated_boundary_area" => parcel.area = Area(feature.rings)
    BY <1>1, AssessedIs
  <2> QED BY <1>8, <1>9, <1>16, <2>1
<1>21. CertifiedIsEarned'
  <2> SUFFICES ASSUME parcel'.label = "certified"
               PROVE  /\ applied'.area # {} /\ applied'.geometry # {}
                      /\ Stated(feature) # 0
                      /\ ~Exceeds(parcel'.boundary, Stated(feature), 2)
                      /\ ~feature.unmerged /\ ~feature.stale /\ ~feature.duplicate /\ ~feature.missing
    BY <1>1 DEF CertifiedIsEarned
  <2>1. area # {} /\ geometry # {} /\ flags = {}
    BY <1>16, <1>17
  <2>2. parcel.flags = EvidenceFlags(feature) \cup DifferenceFlags(Area(feature.rings), Stated(feature))
    BY <1>1, AssessedIs
  <2>3. EvidenceFlags(feature) = {}
    BY <1>15, <2>1, <2>2, FlagsAreComplete
  <2>4. Stated(feature) \in Nat \ {0}
    BY <1>1, <2>3, FlagsAreComplete, AreaTypes
  <2>5. ~Exceeds(boundary, Stated(feature), 2)
    BY <1>14, <1>15, <2>1, <2>4, NoDifference
  <2>6. ~feature.unmerged /\ ~feature.stale /\ ~feature.duplicate /\ ~feature.missing
    BY <2>3, FlagsAreComplete
  <2> QED BY <1>16, <2>1, <2>4, <2>5, <2>6
<1>22. Reported'
  <2>1. baseline' = Assessed(feature)' /\ baseline'.area # 0
    BY <1>1
  <2> QED BY <1>1, <1>19, <1>20, <1>21, <2>1 DEF Reported
<1> QED BY <1>18, <1>22 DEF AssessmentInv

LEMMA AuthorityFailsKeeps == ASSUME AssessmentInv, AuthorityFails PROVE AssessmentInv'
BY DEF AuthorityFails, AssessmentInv, Requested, Answered, Reported, SubstitutionIsDisclosed,
       NotFoundIsAMiss, CertifiedIsEarned

LEMMA AssessmentHolds == Spec => []AssessmentInv
<1>1. AssessmentInv /\ [Next]_vars => AssessmentInv'
  <2> SUFFICES ASSUME AssessmentInv, [Next]_vars PROVE AssessmentInv'
    OBVIOUS
  <2>1. CASE UNCHANGED vars
    BY <2>1 DEF vars, AssessmentInv, Requested, Answered, Reported, SubstitutionIsDisclosed,
                NotFoundIsAMiss, CertifiedIsEarned
  <2>2. CASE Next
    BY <2>2, ReadLocalKeeps, FallBackKeeps, QueriesKeep, BuildParcelKeeps, ApplyAuthorityKeeps,
       AuthorityFailsKeeps DEF Next
  <2> QED BY <2>1, <2>2
<1> QED BY <1>1, AssessmentInit, PTL DEF Spec

-------------------------------------------------------------------------------
(* What follows for one parcel. *)

\* A feature of the snapshot states an area only when no record of the plot contests it.
LEMMA StatedIsUncontested ==
    ASSUME AssessmentInv, feature.source = "local", Stated(feature) # 0
    PROVE  Recorded(rows) = {Stated(feature)}
<1>1. rows \in Listings /\ feature = FromSnapshot(rows, database = "stale") /\ Usual(feature)
  BY DEF AssessmentInv, Answered
<1>6. PICK old : old = (database = "stale")
  OBVIOUS
<1>7. PICK f : f = feature /\ f = FromSnapshot(rows, old)
  BY <1>1, <1>6
<1>2. f.recorded = IF Cardinality(Recorded(rows)) = 1 THEN CHOOSE a \in Recorded(rows) : TRUE ELSE 0
  BY <1>7, SnapshotArea
<1>3. ~f.conflict /\ Stated(feature) = f.recorded
  BY <1>7 DEF Stated
<1>8. ~(Cardinality(Recorded(rows)) > 1)
  BY <1>3, <1>7, Uncontested
<1>4. Cardinality(Recorded(rows)) = 1
  BY <1>2, <1>3
<1>5. PICK a : Recorded(rows) = {a}
  BY <1>1, <1>4, AreasRecorded, FS_Singleton
<1>9. (CHOOSE x \in Recorded(rows) : TRUE) = a
  BY <1>5
<1> QED BY <1>2, <1>3, <1>4, <1>5, <1>9

\* The answer of a source is not passed off as that of another, nor its failure as the
\* absence of the plot (clients/local_parcels.py, application/lookup_service.py).
THEOREM AnswersAreHonest == Spec => []AnswerIsHonest
<1>1. AssessmentInv => AnswerIsHonest
  BY DEF AssessmentInv, Answered, AnswerIsHonest
<1> QED BY <1>1, AssessmentHolds, PTL

\* A reported parcel has a positive area with a basis that is true of it: a recorded area
\* is one that no record of the plot contests, a calculated one that of the boundary
\* (core/area_assessment.py).
THEOREM AreasAreSound == Spec => []AreaIsSound
<1>1. ASSUME AssessmentInv
      PROVE  AreaIsSound
  <2>1. TypeOK
    BY <1>1 DEF AssessmentInv, Requested, Answered, Reported, Usual, TypeOK
  <2>2. ASSUME baseline.basis = "recorded_plot_area", feature.source = "local", NEW i \in DOMAIN rows
        PROVE  rows[i].area <= 0 \/ rows[i].area = baseline.area
    <3>1. baseline = Assessed(feature) /\ Usual(feature)
      BY <1>1, <2>2 DEF AssessmentInv, Reported, Answered, NoParcel
    <3>2. Stated(feature) # 0 /\ baseline.area = Stated(feature)
      BY <2>2, <3>1, AssessedIs
    <3>3. Recorded(rows) = {baseline.area}
      BY <1>1, <2>2, <3>2, StatedIsUncontested
    <3>4. rows \in Seq(Rows)
      BY <1>1, <2>2, AssessmentSets DEF AssessmentInv, Answered
    <3>5. rows[i].area \in Int
      BY <3>4, Elements, AssessmentSets
    <3>6. rows[i].area > 0 => rows[i].area \in Recorded(rows)
      BY <3>5 DEF Recorded
    <3> QED BY <3>3, <3>5, <3>6
  <2>3. RecordedIsUncontested
    BY <1>1, <2>2 DEF AssessmentInv, Reported, RecordedIsUncontested
  <2> QED BY <2>1, <2>3 DEF AreaIsSound
<1> QED BY <1>1, AssessmentHolds, PTL

\* "Verified source" is only said of a parcel from a fresh snapshot whose records agree with
\* the ground they cover, however many rings and parts they have, unless one lies within
\* another; "certified" needs both documents and a boundary that agrees with the record
\* (core/area_assessment.py, application/authority_resolver.py).
THEOREM LabelsMeanIt == Spec => []LabelsAreEarned
<1>1. ASSUME AssessmentInv, baseline.label = "verified_source", ~Nested(rows)
      PROVE  /\ feature.source = "local" /\ database = "fresh" /\ ~feature.reason
             /\ \A i \in DOMAIN rows : rows[i].area = baseline.area \/ rows[i].area < 0
             /\ ~Exceeds(Ground[Covered(rows)], baseline.area, 2)
  <2>1. baseline = Assessed(feature) /\ Usual(feature)
    BY <1>1 DEF AssessmentInv, Reported, Answered, NoParcel
  <2>2. feature.source = "local" /\ baseline.flags = {}
    BY <1>1, <2>1, AssessedIs
  <2>3. /\ rows \in Listings /\ rows # <<>> /\ ~Untrusted(rows) /\ database \in {"fresh", "stale"}
        /\ feature = FromSnapshot(rows, database = "stale")
    BY <1>1, <2>2 DEF AssessmentInv, Answered, Requested
  <2>4. PICK old : old = (database = "stale")
    OBVIOUS
  <2>13. PICK f : f = feature /\ f = FromSnapshot(rows, old)
    BY <2>3, <2>4
  <2>14. f.rings = Merged(rows).rings
    BY <2>13, SnapshotFields
  <2>5. EvidenceFlags(feature) = {} /\ DifferenceFlags(Area(feature.rings), Stated(feature)) = {}
    BY <2>1, <2>2, AssessedIs
  <2>6. /\ ~RawInvalid(feature.rings) /\ ~Repaired(feature.rings) /\ ~Fragmented(feature.rings)
        /\ Area(feature.rings) # 0 /\ Stated(feature) # 0
        /\ ~feature.missing /\ ~feature.duplicate /\ ~feature.stale
    BY <2>5, FlagsAreComplete
  <2>7. baseline.area = Stated(feature) /\ Stated(feature) \in Nat \ {0} /\ Area(feature.rings) \in Nat \ {0}
    BY <2>1, <2>6, AreaTypes DEF Assessed
  <2>8. Recorded(rows) = {baseline.area}
    BY <1>1, <2>2, <2>6, <2>7, StatedIsUncontested
  <2>9. ASSUME NEW i \in DOMAIN rows
        PROVE  rows[i].area = baseline.area \/ rows[i].area < 0
    <3>5. ~f.missing
      BY <2>6, <2>13
    <3>6. Recorded(rows) = {} \/ rows[i].area # 0
      BY <2>13, <3>5, NoneMissing
    <3>1. rows[i].area # 0
      BY <2>8, <3>6
    <3>2. rows \in Seq(Rows)
      BY <2>3, AssessmentSets
    <3>3. rows[i].area \in Int
      BY <3>2, Elements, AssessmentSets
    <3>4. rows[i].area > 0 => rows[i].area \in Recorded(rows)
      BY <3>3 DEF Recorded
    <3> QED BY <2>8, <3>1, <3>3, <3>4
  <2>10. Geometry(Merged(rows).rings) = Covered(rows)
    <3>4. ~f.duplicate
      BY <2>6, <2>13
    <3>1. \A i \in DOMAIN rows : Distinct(rows, i)
      BY <2>13, <3>4, NoneRepeated
    <3>2. Geometry(Merged(rows).rings) # {} /\ \A i \in DOMAIN rows : rows[i].rings # <<>>
      BY <2>3 DEF Untrusted
    <3> QED BY <1>1, <2>3, <2>6, <2>13, <2>14, <3>1, <3>2, SoundIsCovered
  <2>11. ~Exceeds(Ground[Covered(rows)], baseline.area, 2)
    BY <2>5, <2>7, <2>10, <2>13, <2>14, NoDifference DEF Area
  <2>12. ~f.reason /\ (~f.stale => ~old)
    BY <2>13, SnapshotIsCurrent
  <2>15. ~f.stale
    BY <2>6, <2>13
  <2>16. database = "fresh"
    BY <2>3, <2>4, <2>12, <2>15
  <2>17. ~feature.reason
    BY <2>12, <2>13
  <2> QED BY <2>2, <2>9, <2>11, <2>16, <2>17
<1>2. AssessmentInv => LabelsAreEarned
  BY <1>1 DEF LabelsAreEarned, VerifiedIsEarned, AssessmentInv, Reported
<1> QED BY <1>2, AssessmentHolds, PTL

-------------------------------------------------------------------------------
(* The search over the plots. *)

\* What one more round of the search reaches.
Further(D, links, V) == {i \in D : \E j \in V : i = j \/ <<i, j>> \in links}

Rounds(D, links, f, n) == f = [k \in 0 .. n |-> IF k = 0 THEN {1} ELSE Further(D, links, f[k - 1])]

\* The least number of a kind.
LEMMA First ==
    ASSUME NEW N \in Nat, NEW Bad, \A n \in Bad : n \in 0 .. N, Bad # {}
    PROVE  \E m \in 0 .. N : m \in Bad /\ (m # 0 => m - 1 \in 0 .. N /\ m \in 1 .. N /\ m - 1 \notin Bad)
<1>1. Bad \in SUBSET Nat
  OBVIOUS
<1>2. PICK m \in Bad : \A n \in Bad : m <= n
  BY <1>1, Least
<1>3. m \in 0 .. N /\ m \in Nat
  BY <1>2
<1>4. m # 0 => m - 1 \notin Bad
  BY <1>2, <1>3
<1> QED BY <1>2, <1>3, <1>4

LEMMA RoundsExist ==
    ASSUME NEW N \in Nat, NEW D, NEW links
    PROVE  \E v : Rounds(D, links, v, N)
<1>2. PICK Bad : Bad = {n \in 0 .. N : ~\E f : Rounds(D, links, f, n)}
  OBVIOUS
<1>1. ASSUME Bad # {}
      PROVE  FALSE
  <2>1. PICK m \in 0 .. N : m \in Bad /\ (m # 0 => m - 1 \in 0 .. N /\ m \in 1 .. N /\ m - 1 \notin Bad)
    <3>1. \A n \in Bad : n \in 0 .. N
      BY <1>2
    <3> QED BY <1>1, <3>1, First
  <2>2. m # 0
    <3>1. PICK f : f = [k \in 0 .. 0 |-> {1}]
      OBVIOUS
    <3>2. f = [k \in 0 .. 0 |-> IF k = 0 THEN {1} ELSE Further(D, links, f[k - 1])]
      BY <3>1
    <3>3. Rounds(D, links, f, 0)
      BY <3>2 DEF Rounds
    <3> QED BY <1>2, <2>1, <3>3
  <2>4. PICK f : Rounds(D, links, f, m - 1)
    BY <1>2, <2>1, <2>2
  <2>5. PICK g : g = [k \in 0 .. m |-> IF k = m THEN Further(D, links, f[m - 1]) ELSE f[k]]
    OBVIOUS
  <2>6. ASSUME NEW k \in 0 .. m
        PROVE  g[k] = IF k = 0 THEN {1} ELSE Further(D, links, g[k - 1])
    <3>3. m \in Nat /\ m - 1 \in 0 .. m /\ m - 1 # m
      BY <2>1, <2>2
    <3>1. CASE k = m
      BY <2>2, <2>5, <3>1, <3>3
    <3>2. CASE k # m
      <4>1. k \in 0 .. (m - 1) /\ (k # 0 => k - 1 \in 0 .. m /\ k - 1 # m)
        BY <2>1, <3>2
      <4>2. f[k] = IF k = 0 THEN {1} ELSE Further(D, links, f[k - 1])
        BY <2>4, <4>1 DEF Rounds
      <4> QED BY <2>5, <3>2, <4>1, <4>2
    <3> QED BY <3>1, <3>2
  <2>8. g = [k \in 0 .. m |-> g[k]]
    BY <2>5
  <2>7. Rounds(D, links, g, m)
    BY <2>6, <2>8 DEF Rounds
  <2> QED BY <1>2, <2>1, <2>7
<1>3. N \in 0 .. N
  OBVIOUS
<1> QED BY <1>1, <1>2, <1>3

Closed(D, links, S) == \A i \in D, j \in S : <<i, j>> \in links => i \in S

LEMMA FurtherStays ==
    ASSUME NEW D, NEW links, NEW V, NEW S, V \subseteq S, Closed(D, links, S)
    PROVE  Further(D, links, V) \subseteq S
<1>1. ASSUME NEW i \in Further(D, links, V)
      PROVE  i \in S
  <2>1. i \in D
    BY DEF Further
  <2>2. PICK j \in V : i = j \/ <<i, j>> \in links
    BY DEF Further
  <2>3. j \in S
    BY <2>2
  <2>4. CASE i = j
    BY <2>3, <2>4
  <2>5. CASE <<i, j>> \in links
    BY <2>1, <2>3, <2>5 DEF Closed
  <2> QED BY <2>2, <2>4, <2>5
<1> QED BY <1>1

\* After as many rounds as there are plots, what was reached is closed, and it is the
\* least such set with the first plot.
LEMMA SearchEnds ==
    ASSUME NEW N \in Nat \ {0}, NEW D, D = 1 .. N, NEW links, NEW v, Rounds(D, links, v, N)
    PROVE  /\ v[N] \subseteq D /\ 1 \in v[N] /\ Closed(D, links, v[N])
           /\ \A S : 1 \in S /\ Closed(D, links, S) => v[N] \subseteq S
<1>1. v[0] = {1} /\ \A n \in 1 .. N : n - 1 \in 0 .. N /\ v[n] = Further(D, links, v[n - 1])
  <2>1. \A n \in 0 .. N : v[n] = IF n = 0 THEN {1} ELSE Further(D, links, v[n - 1])
    BY DEF Rounds
  <2>2. 0 \in 0 .. N /\ \A n \in 1 .. N : n \in 0 .. N /\ n # 0 /\ n - 1 \in 0 .. N
    OBVIOUS
  <2> QED BY <2>1, <2>2
<1>2. \A n \in 0 .. N : v[n] \subseteq D
  <2>1. \A n \in 0 .. N : n = 0 \/ n \in 1 .. N
    OBVIOUS
  <2>2. 1 \in D
    OBVIOUS
  <2> QED BY <1>1, <2>1, <2>2 DEF Further
<1>3. \A n \in 1 .. N : v[n - 1] \subseteq v[n]
  BY <1>1, <1>2 DEF Further
<1>4. 1 \in v[N]
  <2>3. PICK Bad : Bad = {n \in 0 .. N : 1 \notin v[n]}
    OBVIOUS
  <2>1. ASSUME Bad # {}
        PROVE  FALSE
    <3>1. PICK m \in 0 .. N : m \in Bad /\ (m # 0 => m - 1 \in 0 .. N /\ m \in 1 .. N /\ m - 1 \notin Bad)
      <4>1. \A n \in Bad : n \in 0 .. N
        BY <2>3
      <4> QED BY <2>1, <4>1, First
    <3>2. m # 0
      BY <1>1, <2>3, <3>1
    <3> QED BY <1>3, <2>3, <3>1, <3>2
  <2>2. N \in 0 .. N
    OBVIOUS
  <2> QED BY <2>1, <2>2, <2>3
<1>5. \A n \in 1 .. N : Closed(D, links, v[n - 1]) => v[n] = v[n - 1]
  <2>1. ASSUME NEW n \in 1 .. N, Closed(D, links, v[n - 1])
        PROVE  v[n] = v[n - 1]
    <3>1. v[n] = Further(D, links, v[n - 1]) /\ v[n - 1] \subseteq D
      BY <1>1, <1>2
    <3>2. v[n] \subseteq v[n - 1]
      BY <2>1, <3>1, FurtherStays
    <3> QED BY <1>3, <3>2
  <2> QED BY <2>1
<1>6. \A n \in 1 .. N : v[n] = v[n - 1] => Closed(D, links, v[n - 1])
  BY <1>1, <1>2 DEF Closed, Further
<1>7. IsFiniteSet(D) /\ Cardinality(D) = N
  <2>1. N \in Int /\ 1 \in Int /\ 1 <= N
    OBVIOUS
  <2> QED BY <2>1, FS_Interval
<1>8. \A n \in 0 .. N : IsFiniteSet(v[n]) /\ Cardinality(v[n]) \in Nat /\ Cardinality(v[n]) <= N
  BY <1>2, <1>7, FS_Subset, FS_CardinalityType
<1>9. Closed(D, links, v[N])
  <2>3. PICK Bad : Bad = {n \in 0 .. N : ~(Cardinality(v[n]) >= n + 1 \/ Closed(D, links, v[n]))}
    OBVIOUS
  <2>1. ASSUME Bad # {}
        PROVE  FALSE
    <3>1. PICK m \in 0 .. N : m \in Bad /\ (m # 0 => m - 1 \in 0 .. N /\ m \in 1 .. N /\ m - 1 \notin Bad)
      <4>1. \A n \in Bad : n \in 0 .. N
        BY <2>3
      <4> QED BY <2>1, <4>1, First
    <3>2. m # 0
      <4>1. Cardinality({1}) = 1
        BY FS_Singleton
      <4>2. Cardinality(v[0]) >= 0 + 1
        BY <1>1, <4>1
      <4> QED BY <2>3, <3>1, <4>2
    <3>3. m \in 1 .. N /\ m - 1 \in 0 .. N /\ m - 1 \notin Bad
      BY <3>1, <3>2
    <3>6. Cardinality(v[m - 1]) >= m \/ Closed(D, links, v[m - 1])
      BY <2>3, <3>3
    <3>4. CASE Closed(D, links, v[m - 1])
      BY <1>5, <2>3, <3>1, <3>3, <3>4
    <3>5. CASE Cardinality(v[m - 1]) >= m /\ ~Closed(D, links, v[m - 1])
      <4>1. v[m - 1] \in SUBSET v[m] /\ IsFiniteSet(v[m])
        BY <1>3, <1>8, <3>3
      <4>2. v[m - 1] # v[m]
        BY <1>6, <3>3, <3>5
      <4>3. Cardinality(v[m - 1]) <= Cardinality(v[m]) /\ Cardinality(v[m - 1]) # Cardinality(v[m])
        BY <4>1, <4>2, FS_Subset
      <4>4. PICK a, b : a = Cardinality(v[m - 1]) /\ b = Cardinality(v[m])
        OBVIOUS
      <4>5. a \in Nat /\ b \in Nat /\ a >= m /\ a <= b /\ a # b /\ ~(b >= m + 1)
        BY <1>8, <2>3, <3>1, <3>3, <3>5, <4>3, <4>4
      <4> QED BY <4>5
    <3> QED BY <3>4, <3>5, <3>6
  <2>2. N \in 0 .. N /\ N \notin Bad
    BY <2>1
  <2>4. Cardinality(v[N]) \in Nat /\ Cardinality(v[N]) <= N
    BY <1>8, <2>2
  <2> QED BY <2>2, <2>3, <2>4
<1>10. ASSUME NEW S, 1 \in S, Closed(D, links, S)
       PROVE  v[N] \subseteq S
  <2>3. PICK Bad : Bad = {n \in 0 .. N : ~(v[n] \subseteq S)}
    OBVIOUS
  <2>1. ASSUME Bad # {}
        PROVE  FALSE
    <3>1. PICK m \in 0 .. N : m \in Bad /\ (m # 0 => m - 1 \in 0 .. N /\ m \in 1 .. N /\ m - 1 \notin Bad)
      <4>1. \A n \in Bad : n \in 0 .. N
        BY <2>3
      <4> QED BY <2>1, <4>1, First
    <3>2. m # 0
      <4>1. v[0] \subseteq S
        BY <1>1, <1>10
      <4> QED BY <2>3, <3>1, <4>1
    <3>4. v[m] = Further(D, links, v[m - 1]) /\ v[m - 1] \subseteq S
      BY <1>1, <2>3, <3>1, <3>2
    <3>3. v[m] \subseteq S
      BY <1>10, <3>4, FurtherStays
    <3> QED BY <2>3, <3>1, <3>3
  <2>2. N \in 0 .. N
    OBVIOUS
  <2> QED BY <2>1, <2>2, <2>3
<1>11. N \in 0 .. N
  OBVIOUS
<1> QED BY <1>2, <1>4, <1>9, <1>10, <1>11

LEMMA ConnectedIsClosed ==
    ASSUME NEW X, NEW ps \in Seq(X), ps # <<>>, NEW links
    PROVE  Connected(ps, links) <=>
              \A S \in SUBSET (DOMAIN ps) : 1 \in S /\ Closed(DOMAIN ps, links, S) => S = DOMAIN ps
<1>1. PICK N : N = Len(ps)
  OBVIOUS
<1>2. N \in Nat \ {0} /\ DOMAIN ps = 1 .. N
  BY <1>1, Elements, EmptySeq
<1>3. PICK v : /\ v = CHOOSE f : f = [n \in 0 .. Len(ps) |-> IF n = 0 THEN {1}
                                         ELSE {i \in DOMAIN ps : \E j \in f[n - 1] : i = j \/ <<i, j>> \in links}]
               /\ Connected(ps, links) <=> v[Len(ps)] = DOMAIN ps
  BY DEF Connected
<1>4. v = CHOOSE f : Rounds(DOMAIN ps, links, f, N)
  BY <1>1, <1>3 DEF Rounds, Further
<1>5. Rounds(DOMAIN ps, links, v, N)
  BY <1>2, <1>4, RoundsExist
<1>7. PICK D : D = DOMAIN ps
  OBVIOUS
<1>6. /\ v[N] \subseteq D /\ 1 \in v[N] /\ Closed(D, links, v[N])
      /\ \A S : 1 \in S /\ Closed(D, links, S) => v[N] \subseteq S
  BY <1>2, <1>5, <1>7, SearchEnds
<1> QED BY <1>1, <1>2, <1>3, <1>6, <1>7

-------------------------------------------------------------------------------
(* Squares and edges. *)

LEMMA BesideIsMutual ==
    ASSUME NEW c \in Int \X Int, NEW d \in Beside(c)
    PROVE  c \in Beside(d) /\ d \in Int \X Int /\ c # d
<1>1. c = <<c[1], c[2]>> /\ c[1] \in Int /\ c[2] \in Int
  OBVIOUS
<1>2. \/ d = <<c[1] + 1, c[2]>> \/ d = <<c[1] - 1, c[2]>>
      \/ d = <<c[1], c[2] + 1>> \/ d = <<c[1], c[2] - 1>>
  BY DEF Beside
<1>3. /\ d[1] \in Int /\ d[2] \in Int /\ d = <<d[1], d[2]>>
      /\ \/ d[1] = c[1] + 1 /\ d[2] = c[2]
         \/ d[1] = c[1] - 1 /\ d[2] = c[2]
         \/ d[1] = c[1] /\ d[2] = c[2] + 1
         \/ d[1] = c[1] /\ d[2] = c[2] - 1
  BY <1>1, <1>2
<1>4. \/ c = <<d[1] + 1, d[2]>> \/ c = <<d[1] - 1, d[2]>>
      \/ c = <<d[1], d[2] + 1>> \/ c = <<d[1], d[2] - 1>>
  BY <1>1, <1>3
<1> QED BY <1>1, <1>3, <1>4 DEF Beside

LEMMA EdgeOf ==
    ASSUME NEW cells, NEW x \in Edges(cells)
    PROVE  \E c \in cells : \E d \in Beside(c) : d \notin cells /\ x = {c, d}
BY DEF Edges

LEMMA OnEdge ==
    ASSUME NEW cells, NEW c \in cells, NEW d \in Beside(c), d \notin cells
    PROVE  {c, d} \in Edges(cells)
BY DEF Edges

\* Two plots that do not overlap and are linked have squares beside each other.
LEMMA LinkedMeans ==
    ASSUME NEW p, NEW q, p.cells \subseteq Int \X Int, q.cells \subseteq Int \X Int, Linked(p, q)
    PROVE  Overlapping(p, q) \/ \E c \in p.cells : \E d \in q.cells : d \in Beside(c)
<1>1. ASSUME ~Overlapping(p, q)
      PROVE  \E c \in p.cells : \E d \in q.cells : d \in Beside(c)
  <2>1. PICK x : x \in Edges(p.cells) /\ x \in Edges(q.cells)
    BY <1>1 DEF Linked, SharedEdges
  <2>2. PICK c \in p.cells : \E d \in Beside(c) : d \notin p.cells /\ x = {c, d}
    BY <2>1, EdgeOf
  <2>3. PICK d \in Beside(c) : d \notin p.cells /\ x = {c, d}
    BY <2>2
  <2>4. PICK g \in q.cells : \E h \in Beside(g) : h \notin q.cells /\ x = {g, h}
    BY <2>1, EdgeOf
  <2>5. g \notin p.cells
    BY <1>1 DEF Overlapping
  <2>6. g = d
    BY <2>3, <2>4, <2>5
  <2> QED BY <2>3, <2>6
<1> QED BY <1>1

LEMMA BesideAreLinked ==
    ASSUME NEW p, NEW q, p.cells \subseteq Int \X Int, q.cells \subseteq Int \X Int,
           NEW c \in p.cells, NEW d \in q.cells, d \in Beside(c)
    PROVE  Linked(p, q) /\ Linked(q, p)
<1>1. Overlapping(p, q) => Overlapping(q, p)
  BY DEF Overlapping
<1>2. ASSUME ~Overlapping(p, q), ~Overlapping(q, p)
      PROVE  SharedEdges(p, q) # {} /\ SharedEdges(q, p) # {}
  <2>1. c \notin q.cells /\ d \notin p.cells
    BY <1>2 DEF Overlapping
  <2>2. {c, d} \in Edges(p.cells)
    BY <2>1, OnEdge
  <2>3. c \in Beside(d)
    BY BesideIsMutual
  <2>4. {d, c} \in Edges(q.cells)
    BY <2>1, <2>3, OnEdge
  <2>5. {d, c} = {c, d}
    OBVIOUS
  <2> QED BY <1>2, <2>2, <2>4, <2>5 DEF SharedEdges
<1> QED BY <1>1, <1>2 DEF Linked, Overlapping

\* Plots with squares, the members of a site.
Plots == {p \in [cells : SUBSET (Int \X Int), recorded : Nat, oids : SUBSET Nat, repaired : BOOLEAN] :
             p.cells # {} /\ IsFiniteSet(p.cells)}

LEMMA LinksAre ==
    ASSUME NEW ps, NEW i \in DOMAIN ps, NEW j \in DOMAIN ps
    PROVE  <<i, j>> \in Links(ps) <=> Linked(ps[i], ps[j])
BY DEF Links

\* Plots that are each one piece and that the search visits all together are one piece.
LEMMA ConnectedIsOnePiece ==
    ASSUME NEW ps \in Seq(Plots), ps # <<>>, Whole(ps), Connected(ps, Links(ps))
    PROVE  OnePiece(Union(ps))
<1> SUFFICES ASSUME NEW part \in (SUBSET Union(ps)) \ {{}, Union(ps)},
                    \A c \in part : Beside(c) \cap (Union(ps) \ part) = {}
             PROVE  FALSE
  BY DEF OnePiece
<1>1. /\ \A i \in DOMAIN ps : ps[i] \in Plots
      /\ 1 \in DOMAIN ps
  BY Elements
<1>2. \A i \in DOMAIN ps : ps[i].cells \subseteq Union(ps) /\ ps[i].cells # {} /\ ps[i].cells \subseteq Int \X Int
  BY <1>1 DEF Union, Plots
\* No plot lies on both sides.
<1>3. ASSUME NEW i \in DOMAIN ps
      PROVE  ps[i].cells \subseteq part \/ ps[i].cells \cap part = {}
  <2>1. PICK own : own = ps[i].cells \cap part
    OBVIOUS
  <2>2. ASSUME own # {}, own # ps[i].cells
        PROVE  FALSE
    <3>1. own \in (SUBSET ps[i].cells) \ {{}, ps[i].cells}
      BY <2>1, <2>2
    <3>2. PICK c \in own : Beside(c) \cap (ps[i].cells \ own) # {}
      BY <3>1 DEF Whole, OnePiece
    <3>3. PICK d : d \in Beside(c) /\ d \in ps[i].cells /\ d \notin own
      BY <3>2
    <3>4. c \in part /\ d \in Union(ps) /\ d \notin part
      BY <1>2, <2>1, <3>3
    <3> QED BY <3>3, <3>4
  <2> QED BY <2>1, <2>2
\* Linked plots lie on the same side.
<1>4. ASSUME NEW i \in DOMAIN ps, NEW j \in DOMAIN ps, Linked(ps[i], ps[j])
      PROVE  ps[i].cells \subseteq part <=> ps[j].cells \subseteq part
  <2>1. CASE Overlapping(ps[i], ps[j])
    BY <1>2, <1>3, <2>1 DEF Overlapping
  <2>2. CASE \E c \in ps[i].cells : \E d \in ps[j].cells : d \in Beside(c)
    <3>1. PICK c \in ps[i].cells : \E d \in ps[j].cells : d \in Beside(c)
      BY <2>2
    <3>2. PICK d \in ps[j].cells : d \in Beside(c)
      BY <3>1
    <3>3. c \in Int \X Int /\ c \in Union(ps) /\ d \in Union(ps)
      BY <1>2
    <3>4. c \in Beside(d)
      BY <3>2, <3>3, BesideIsMutual
    <3>5. c \in part <=> d \in part
      BY <3>2, <3>3, <3>4
    <3> QED BY <1>3, <3>5
  <2> QED BY <1>2, <1>4, <2>1, <2>2, LinkedMeans
<1>5. PICK S : S = {i \in DOMAIN ps : ps[i].cells \subseteq part}
  OBVIOUS
<1>6. PICK T : T = (DOMAIN ps) \ S
  OBVIOUS
<1>7. S \in SUBSET (DOMAIN ps) /\ T \in SUBSET (DOMAIN ps)
  BY <1>5, <1>6
<1>8. Closed(DOMAIN ps, Links(ps), S)
  BY <1>4, <1>5, LinksAre DEF Closed
<1>9. Closed(DOMAIN ps, Links(ps), T)
  BY <1>4, <1>5, <1>6, LinksAre DEF Closed
<1>10. CASE 1 \in S
  <2>1. S = DOMAIN ps
    BY <1>7, <1>8, <1>10, ConnectedIsClosed
  <2>2. Union(ps) \subseteq part
    BY <1>5, <2>1 DEF Union
  <2> QED BY <2>2
<1>11. CASE 1 \notin S
  <2>1. 1 \in T
    BY <1>1, <1>6, <1>11
  <2>2. T = DOMAIN ps
    BY <1>7, <1>9, <2>1, ConnectedIsClosed
  <2>3. \A i \in DOMAIN ps : ps[i].cells \cap part = {}
    BY <1>3, <1>5, <1>6, <2>2
  <2>4. part \cap Union(ps) = {}
    BY <2>3 DEF Union
  <2> QED BY <2>4
<1> QED BY <1>10, <1>11

\* Plots whose union is one piece are all visited by the search.
LEMMA OnePieceIsConnected ==
    ASSUME NEW ps \in Seq(Plots), ps # <<>>, OnePiece(Union(ps))
    PROVE  Connected(ps, Links(ps))
<1> SUFFICES ASSUME NEW S \in SUBSET (DOMAIN ps), 1 \in S, Closed(DOMAIN ps, Links(ps), S),
                    NEW i \in DOMAIN ps, i \notin S
             PROVE  FALSE
  BY ConnectedIsClosed
<1>1. \A k \in DOMAIN ps : ps[k] \in Plots
  BY Elements
<1>2. \A k \in DOMAIN ps : ps[k].cells \subseteq Union(ps) /\ ps[k].cells # {} /\ ps[k].cells \subseteq Int \X Int
  BY <1>1 DEF Union, Plots
<1>3. ASSUME NEW k \in DOMAIN ps, k \notin S, NEW j \in S
      PROVE  ~Linked(ps[k], ps[j])
  BY <1>3, LinksAre DEF Closed
<1>4. PICK part : part = UNION {ps[j].cells : j \in S}
  OBVIOUS
<1>5. \A k \in DOMAIN ps : k \notin S => ps[k].cells \cap part = {}
  BY <1>3, <1>4 DEF Linked, Overlapping
<1>6. part \in (SUBSET Union(ps)) \ {{}, Union(ps)}
  <2>1. part \subseteq Union(ps)
    BY <1>2, <1>4
  <2>2. part # {}
    BY <1>2, <1>4
  <2>3. part # Union(ps)
    BY <1>2, <1>5
  <2> QED BY <2>1, <2>2, <2>3
<1>7. PICK c \in part : Beside(c) \cap (Union(ps) \ part) # {}
  BY <1>6 DEF OnePiece
<1>8. PICK d : d \in Beside(c) /\ d \in Union(ps) /\ d \notin part
  BY <1>7
<1>9. PICK j \in S : c \in ps[j].cells
  BY <1>4
<1>10. PICK k \in DOMAIN ps : d \in ps[k].cells
  BY <1>8 DEF Union
<1>11. k \notin S
  BY <1>4, <1>8, <1>10
<1>12. Linked(ps[k], ps[j])
  BY <1>2, <1>8, <1>9, <1>10, BesideAreLinked
<1> QED BY <1>3, <1>11, <1>12

-------------------------------------------------------------------------------
(* Measures. *)

\* Finitely many finite sets are finite together, and so are they told apart by their index.
LEMMA TaggedIsFinite ==
    ASSUME NEW D, IsFiniteSet(D), NEW f, \A i \in D : IsFiniteSet(f[i]),
           NEW U, \A x : x \in U <=> \E i \in D : x \in f[i],
           NEW T, \A x : x \in T <=> \E i \in D : x \in {i} \X f[i]
    PROVE  IsFiniteSet(U) /\ IsFiniteSet(T)
<1>1. PICK F, G : F = {f[i] : i \in D} /\ G = [i \in D |-> f[i]]
  OBVIOUS
<1>2. G \in Surjection(D, F)
  BY <1>1 DEF Surjection
<1>3. IsFiniteSet(F)
  BY <1>2, FS_Surjection
<1>4. U = UNION F
  <2>1. UNION F \subseteq U
    BY <1>1
  <2>2. U \subseteq UNION F
    BY <1>1
  <2> QED BY <2>1, <2>2
<1>5. IsFiniteSet(U)
  BY <1>1, <1>3, <1>4, FS_UNION
<1>6. IsFiniteSet(D \X U)
  BY <1>5, FS_Product
<1>8. T \in SUBSET (D \X U)
  BY <1>1
<1>9. IsFiniteSet(T)
  BY <1>6, <1>8, FS_Subset
<1> QED BY <1>5, <1>9

LEMMA EdgesAreFinite ==
    ASSUME NEW cells, IsFiniteSet(cells)
    PROVE  IsFiniteSet(Edges(cells))
<1>1. ASSUME NEW c
      PROVE  IsFiniteSet({{c, d} : d \in Beside(c) \ cells})
  <2>1. PICK B : B = Beside(c) \ cells
    OBVIOUS
  <2>2. IsFiniteSet(Beside(c))
    <3>1. IsFiniteSet({<<c[1] + 1, c[2]>>})
      BY FS_Singleton
    <3>2. IsFiniteSet({<<c[1] + 1, c[2]>>} \cup {<<c[1] - 1, c[2]>>})
      BY <3>1, FS_AddElement
    <3>3. IsFiniteSet({<<c[1] + 1, c[2]>>} \cup {<<c[1] - 1, c[2]>>} \cup {<<c[1], c[2] + 1>>})
      BY <3>2, FS_AddElement
    <3>4. IsFiniteSet({<<c[1] + 1, c[2]>>} \cup {<<c[1] - 1, c[2]>>} \cup {<<c[1], c[2] + 1>>}
                         \cup {<<c[1], c[2] - 1>>})
      BY <3>3, FS_AddElement
    <3>5. Beside(c) = {<<c[1] + 1, c[2]>>} \cup {<<c[1] - 1, c[2]>>} \cup {<<c[1], c[2] + 1>>}
                         \cup {<<c[1], c[2] - 1>>}
      BY DEF Beside
    <3> QED BY <3>4, <3>5
  <2>3. B \in SUBSET Beside(c)
    BY <2>1
  <2>4. IsFiniteSet(B)
    BY <2>2, <2>3, FS_Subset
  <2>5. PICK X, g : X = {{c, d} : d \in B} /\ g = [d \in B |-> {c, d}]
    OBVIOUS
  <2>6. g \in Surjection(B, X)
    BY <2>5 DEF Surjection
  <2>7. IsFiniteSet(X)
    BY <2>4, <2>6, FS_Surjection
  <2> QED BY <2>1, <2>5, <2>7
<1>2. PICK f : f = [c \in cells |-> {{c, d} : d \in Beside(c) \ cells}]
  OBVIOUS
<1>3. PICK T : T = UNION {{c} \X f[c] : c \in cells}
  OBVIOUS
<1>4. \A x : x \in Edges(cells) <=> \E c \in cells : x \in f[c]
  BY <1>2 DEF Edges
<1>5. \A x : x \in T <=> \E c \in cells : x \in {c} \X f[c]
  BY <1>3
<1>6. \A c \in cells : IsFiniteSet(f[c])
  BY <1>1, <1>2
<1> QED BY <1>4, <1>5, <1>6, TaggedIsFinite

\* A set and its image have one size when no two of its elements have one image.
LEMMA SameSize ==
    ASSUME NEW S, NEW T, IsFiniteSet(S), NEW f, f \in [S -> T],
           \A y \in T : \E x \in S : f[x] = y,
           \A x, y \in S : f[x] = f[y] => x = y
    PROVE  Cardinality(T) = Cardinality(S)
<1>1. f \in Injection(S, T) /\ f \in Surjection(S, T)
  BY DEF Surjection, Injection, IsInjective
<1> QED BY <1>1, FS_Surjection

LEMMA SizeOfImage ==
    ASSUME NEW S, NEW T, IsFiniteSet(T), NEW f, f \in [S -> T],
           \A y \in T : \E x \in S : f[x] = y,
           \A x, y \in S : f[x] = f[y] => x = y
    PROVE  Cardinality(T) = Cardinality(S)
<1>1. f \in Injection(S, T) /\ f \in Surjection(S, T)
  BY DEF Surjection, Injection, IsInjective
<1> QED BY <1>1, FS_Injection

LEMMA PairsAre ==
    ASSUME NEW ps, NEW i \in DOMAIN ps, NEW j \in DOMAIN ps
    PROVE  <<i, j>> \in Pairs(ps) <=> i < j
BY DEF Pairs

\* Two different plots of a disjoint selection have no square in common.
LEMMA DisjointMeans ==
    ASSUME NEW ps \in Seq(Plots)
    PROVE  Disjoint(ps) <=> \A i, j \in DOMAIN ps : i # j => ps[i].cells \cap ps[j].cells = {}
<1>1. \A i \in DOMAIN ps : i \in Int
  BY Elements
<1>2. ASSUME Disjoint(ps), NEW i \in DOMAIN ps, NEW j \in DOMAIN ps, i # j
      PROVE  ps[i].cells \cap ps[j].cells = {}
  <2>1. ASSUME NEW k \in DOMAIN ps, NEW l \in DOMAIN ps, k < l
        PROVE  ps[k].cells \cap ps[l].cells = {}
    <3>1. PICK e : e = <<k, l>>
      OBVIOUS
    <3>2. e \in Pairs(ps) /\ e[1] = k /\ e[2] = l
      BY <2>1, <3>1, PairsAre
    <3> QED BY <1>2, <3>2 DEF Disjoint
  <2>2. i < j \/ j < i
    BY <1>1, <1>2
  <2> QED BY <2>1, <2>2
<1>3. ASSUME \A i, j \in DOMAIN ps : i # j => ps[i].cells \cap ps[j].cells = {}
      PROVE  Disjoint(ps)
  <2>1. ASSUME NEW e \in Pairs(ps)
        PROVE  ps[e[1]].cells \cap ps[e[2]].cells = {}
    <3>1. e[1] \in DOMAIN ps /\ e[2] \in DOMAIN ps /\ e[1] < e[2]
      BY <2>1 DEF Pairs
    <3> QED BY <1>1, <1>3, <3>1
  <2> QED BY <2>1 DEF Disjoint
<1> QED BY <1>2, <1>3

\* Area is lost exactly where plots overlap.
LEMMA AreasAddUp ==
    ASSUME NEW ps \in Seq(Plots)
    PROVE  /\ InputArea(ps) \in Nat /\ CombinedArea(ps) \in Nat
           /\ Disjoint(ps) <=> InputArea(ps) = CombinedArea(ps)
<1>1. IsFiniteSet(DOMAIN ps) /\ \A i \in DOMAIN ps : ps[i] \in Plots
  BY Elements
<1>2. \A i \in DOMAIN ps : IsFiniteSet(ps[i].cells)
  BY <1>1 DEF Plots
<1>3. PICK f : f = [i \in DOMAIN ps |-> ps[i].cells]
  OBVIOUS
<1>4. PICK T : T = UNION {{i} \X f[i] : i \in DOMAIN ps}
  OBVIOUS
<1>5. PICK U : U = UNION {f[i] : i \in DOMAIN ps}
  OBVIOUS
<1>6. IsFiniteSet(T) /\ IsFiniteSet(U)
  <2>1. \A x : x \in U <=> \E i \in DOMAIN ps : x \in f[i]
    BY <1>5
  <2>2. \A x : x \in T <=> \E i \in DOMAIN ps : x \in {i} \X f[i]
    BY <1>4
  <2>3. \A i \in DOMAIN ps : IsFiniteSet(f[i])
    BY <1>2, <1>3
  <2> QED BY <1>1, <2>1, <2>2, <2>3, TaggedIsFinite
<1>7. InputArea(ps) = Cardinality(T) /\ CombinedArea(ps) = Cardinality(U)
  BY <1>3, <1>4, <1>5 DEF InputArea, CombinedArea, Union
<1>8. PICK g : g = [t \in T |-> t[2]]
  OBVIOUS
<1>9. g \in Surjection(T, U)
  <2>1. ASSUME NEW t \in T
        PROVE  g[t] \in U
    BY <1>4, <1>5, <1>8
  <2>2. ASSUME NEW c \in U
        PROVE  \E t \in T : g[t] = c
    <3>1. PICK i \in DOMAIN ps : c \in f[i]
      BY <1>5
    <3>2. <<i, c>> \in T
      BY <1>4, <3>1
    <3>3. g[<<i, c>>] = c
      BY <1>8, <3>2
    <3> QED BY <3>2, <3>3
  <2> QED BY <1>8, <2>1, <2>2 DEF Surjection
<1>10. Cardinality(U) = Cardinality(T) <=> g \in Injection(T, U)
  BY <1>6, <1>9, FS_Surjection
<1>11. ASSUME Disjoint(ps)
       PROVE  g \in Injection(T, U)
  <2>1. ASSUME NEW s \in T, NEW t \in T, g[s] = g[t]
        PROVE  s = t
    <3>1. PICK i \in DOMAIN ps : s \in {i} \X f[i]
      BY <1>4
    <3>2. PICK j \in DOMAIN ps : t \in {j} \X f[j]
      BY <1>4
    <3>3. s = <<i, s[2]>> /\ t = <<j, t[2]>> /\ s[2] = t[2] /\ s[2] \in ps[i].cells /\ t[2] \in ps[j].cells
      BY <1>3, <1>8, <2>1, <3>1, <3>2
    <3>4. i = j
      BY <1>11, <3>3, DisjointMeans
    <3> QED BY <3>3, <3>4
  <2> QED BY <1>9, <2>1 DEF Surjection, Injection, IsInjective
<1>12. ASSUME g \in Injection(T, U)
       PROVE  Disjoint(ps)
  <2>1. ASSUME NEW i \in DOMAIN ps, NEW j \in DOMAIN ps, i # j, NEW c \in ps[i].cells \cap ps[j].cells
        PROVE  FALSE
    <3>1. PICK s, t : s = <<i, c>> /\ t = <<j, c>>
      OBVIOUS
    <3>2. s \in T /\ t \in T /\ s # t
      BY <1>3, <1>4, <2>1, <3>1
    <3>3. g[s] = g[t]
      BY <1>8, <3>1, <3>2
    <3> QED BY <1>12, <3>2, <3>3 DEF Injection, IsInjective
  <2> QED BY <2>1, DisjointMeans
<1>13. Cardinality(T) \in Nat /\ Cardinality(U) \in Nat
  BY <1>6, FS_CardinalityType
<1> QED BY <1>7, <1>10, <1>11, <1>12, <1>13

\* An edge of a plot is one of the site, or it is shared with exactly one other plot.
LEMMA EdgeIsOuterOrShared ==
    ASSUME NEW ps \in Seq(Plots), Disjoint(ps), NEW i \in DOMAIN ps, NEW x \in Edges(ps[i].cells)
    PROVE  /\ x \in Edges(Union(ps)) => \A j \in DOMAIN ps : x \in Edges(ps[j].cells) => j = i
           /\ x \notin Edges(Union(ps)) =>
                \E j \in DOMAIN ps : /\ j # i /\ x \in Edges(ps[j].cells)
                                     /\ \A k \in DOMAIN ps : x \in Edges(ps[k].cells) => k \in {i, j}
<1>1. \A k, l \in DOMAIN ps : k # l => ps[k].cells \cap ps[l].cells = {}
  BY DisjointMeans
<1>2. \A k \in DOMAIN ps : ps[k].cells \subseteq Union(ps) /\ ps[k].cells \subseteq Int \X Int
  BY Elements DEF Union, Plots
<1>3. PICK c \in ps[i].cells : \E d \in Beside(c) : d \notin ps[i].cells /\ x = {c, d}
  BY EdgeOf
<1>4. PICK d \in Beside(c) : d \notin ps[i].cells /\ x = {c, d}
  BY <1>3
<1>5. c \in Int \X Int /\ c \in Union(ps)
  BY <1>2, <1>3
<1>6. c \in Beside(d)
  BY <1>5, BesideIsMutual
\* Another plot has the edge from the other side.
<1>7. ASSUME NEW k \in DOMAIN ps, k # i, x \in Edges(ps[k].cells)
      PROVE  d \in ps[k].cells
  <2>1. PICK g \in ps[k].cells : \E h \in Beside(g) : h \notin ps[k].cells /\ x = {g, h}
    BY <1>7, EdgeOf
  <2>2. g \in {c, d}
    BY <1>4, <2>1
  <2>3. c \notin ps[k].cells
    BY <1>1, <1>7
  <2> QED BY <2>1, <2>2, <2>3
<1>8. ASSUME d \notin Union(ps)
      PROVE  x \in Edges(Union(ps)) /\ \A k \in DOMAIN ps : x \in Edges(ps[k].cells) => k = i
  <2>1. x \in Edges(Union(ps))
    BY <1>4, <1>5, <1>8, OnEdge
  <2> QED BY <1>2, <1>7, <1>8, <2>1
<1>9. ASSUME d \in Union(ps)
      PROVE  /\ x \notin Edges(Union(ps))
             /\ \E j \in DOMAIN ps : /\ j # i /\ x \in Edges(ps[j].cells)
                                     /\ \A k \in DOMAIN ps : x \in Edges(ps[k].cells) => k \in {i, j}
  <2>1. x \notin Edges(Union(ps))
    <3>1. ASSUME x \in Edges(Union(ps))
          PROVE  FALSE
      <4>1. PICK g \in Union(ps) : \E h \in Beside(g) : h \notin Union(ps) /\ x = {g, h}
        BY <3>1, EdgeOf
      <4> QED BY <1>4, <1>5, <1>9, <4>1
    <3> QED BY <3>1
  <2>2. PICK j \in DOMAIN ps : d \in ps[j].cells
    BY <1>9 DEF Union
  <2>3. j # i /\ c \notin ps[j].cells
    BY <1>1, <1>4, <2>2
  <2>4. {d, c} \in Edges(ps[j].cells)
    BY <1>6, <2>2, <2>3, OnEdge
  <2>5. x = {d, c}
    BY <1>4
  <2>6. ASSUME NEW k \in DOMAIN ps, x \in Edges(ps[k].cells)
        PROVE  k \in {i, j}
    BY <1>1, <1>7, <2>2, <2>6
  <2> QED BY <2>1, <2>3, <2>4, <2>5, <2>6
<1> QED BY <1>8, <1>9

LEMMA OuterIsAnEdge ==
    ASSUME NEW ps \in Seq(Plots), NEW x \in Edges(Union(ps))
    PROVE  \E i \in DOMAIN ps : x \in Edges(ps[i].cells)
<1>1. PICK c \in Union(ps) : \E d \in Beside(c) : d \notin Union(ps) /\ x = {c, d}
  BY EdgeOf
<1>2. PICK d \in Beside(c) : d \notin Union(ps) /\ x = {c, d}
  BY <1>1
<1>3. PICK i \in DOMAIN ps : c \in ps[i].cells
  BY DEF Union
<1>4. d \notin ps[i].cells
  BY <1>2 DEF Union
<1>5. x \in Edges(ps[i].cells)
  BY <1>2, <1>3, <1>4, OnEdge
<1> QED BY <1>5

\* The places of all the boundaries, told apart by the plot.
LEMMA BoundariesAreFinite ==
    ASSUME NEW ps \in Seq(Plots), NEW E, E = UNION {{i} \X Edges(ps[i].cells) : i \in DOMAIN ps}
    PROVE  IsFiniteSet(E)
<1>1. IsFiniteSet(DOMAIN ps) /\ \A i \in DOMAIN ps : IsFiniteSet(ps[i].cells)
  BY Elements DEF Plots
<1>2. PICK f : f = [i \in DOMAIN ps |-> Edges(ps[i].cells)]
  OBVIOUS
<1>3. \A i \in DOMAIN ps : IsFiniteSet(f[i])
  BY <1>1, <1>2, EdgesAreFinite
<1>4. PICK U : U = UNION {f[i] : i \in DOMAIN ps}
  OBVIOUS
<1>5. \A x : x \in U <=> \E i \in DOMAIN ps : x \in f[i]
  BY <1>4
<1>6. \A x : x \in E <=> \E i \in DOMAIN ps : x \in {i} \X f[i]
  BY <1>2
<1> QED BY <1>1, <1>3, <1>5, <1>6, TaggedIsFinite

\* Without overlaps, uniting the plots takes every shared edge from two perimeters.
LEMMA PerimetersAddUp ==
    ASSUME NEW ps \in Seq(Plots), Disjoint(ps)
    PROVE  Cardinality(Edges(Union(ps))) + 2 * RemovedLength(ps)
              = Cardinality(UNION {{i} \X Edges(ps[i].cells) : i \in DOMAIN ps})
<1>1. PICK E : E = UNION {{i} \X Edges(ps[i].cells) : i \in DOMAIN ps}
  OBVIOUS
<1>2. PICK R : R = UNION {{e} \X SharedEdges(ps[e[1]], ps[e[2]]) : e \in Pairs(ps)}
  OBVIOUS
<1>3. PICK O : O = Edges(Union(ps))
  OBVIOUS
<1>4. PICK E0 : E0 = {t \in E : t[2] \in O}
  OBVIOUS
<1>5. PICK E1 : E1 = {t \in E : \E j \in DOMAIN ps : t[1] < j /\ t[2] \in Edges(ps[j].cells)}
  OBVIOUS
<1>6. PICK E2 : E2 = {t \in E : \E j \in DOMAIN ps : j < t[1] /\ t[2] \in Edges(ps[j].cells)}
  OBVIOUS
<1>7. IsFiniteSet(E)
  BY <1>1, BoundariesAreFinite
<1>8. \A i \in DOMAIN ps : i \in Int
  BY Elements
<1>9. ASSUME NEW t \in E
      PROVE  \E i \in DOMAIN ps : \E x \in Edges(ps[i].cells) : t = <<i, x>>
  BY <1>1
<1>10. ASSUME NEW i \in DOMAIN ps, NEW x \in Edges(ps[i].cells)
       PROVE  <<i, x>> \in E
  BY <1>1
\* The three kinds of places.
<1>11. ASSUME NEW t \in E
       PROVE  /\ t \in E0 \/ t \in E1 \/ t \in E2
              /\ ~(t \in E0 /\ (t \in E1 \/ t \in E2)) /\ ~(t \in E1 /\ t \in E2)
  <2>1. PICK i \in DOMAIN ps : \E x \in Edges(ps[i].cells) : t = <<i, x>>
    BY <1>9
  <2>2. PICK x \in Edges(ps[i].cells) : t = <<i, x>>
    BY <2>1
  <2>3. t[1] = i /\ t[2] = x /\ i \in Int
    BY <1>8, <2>2
  <2>4. CASE x \in O
    <3>1. \A j \in DOMAIN ps : x \in Edges(ps[j].cells) => j = i
      BY <1>3, <2>4, EdgeIsOuterOrShared
    <3> QED BY <1>4, <1>5, <1>6, <2>3, <2>4, <3>1
  <2>5. CASE x \notin O
    <3>1. PICK j \in DOMAIN ps : /\ j # i /\ x \in Edges(ps[j].cells)
                                 /\ \A k \in DOMAIN ps : x \in Edges(ps[k].cells) => k \in {i, j}
      BY <1>3, <2>5, EdgeIsOuterOrShared
    <3>2. j \in Int /\ (i < j \/ j < i) /\ ~(i < j /\ j < i)
      BY <1>8, <2>3, <3>1
    <3> QED BY <1>4, <1>5, <1>6, <1>8, <2>3, <2>5, <3>1, <3>2
  <2> QED BY <2>4, <2>5
<1>12. /\ IsFiniteSet(E0) /\ IsFiniteSet(E1) /\ IsFiniteSet(E2)
       /\ E0 \in SUBSET E /\ E1 \in SUBSET E /\ E2 \in SUBSET E
  <2>1. E0 \in SUBSET E /\ E1 \in SUBSET E /\ E2 \in SUBSET E
    BY <1>4, <1>5, <1>6
  <2> QED BY <1>7, <2>1, FS_Subset
<1>13. E = E0 \cup (E1 \cup E2) /\ E1 \cap E2 = {} /\ E0 \cap (E1 \cup E2) = {}
  BY <1>11, <1>12
<1>14. Cardinality(E) = Cardinality(E0) + Cardinality(E1) + Cardinality(E2)
  <2>1. /\ IsFiniteSet(E1 \cup E2)
        /\ Cardinality(E1 \cup E2) = Cardinality(E1) + Cardinality(E2) - Cardinality({})
    BY <1>12, <1>13, FS_Union
  <2>2. Cardinality(E) = Cardinality(E0) + Cardinality(E1 \cup E2) - Cardinality({})
    BY <1>12, <1>13, <2>1, FS_Union
  <2>3. Cardinality({}) = 0
    BY FS_EmptySet
  <2>4. PICK a, b, c : a = Cardinality(E0) /\ b = Cardinality(E1) /\ c = Cardinality(E2)
    OBVIOUS
  <2>5. a \in Nat /\ b \in Nat /\ c \in Nat
    BY <1>12, <2>4, FS_CardinalityType
  <2> QED BY <2>1, <2>2, <2>3, <2>4, <2>5
\* Each edge of the site is in one place.
<1>15. Cardinality(O) = Cardinality(E0)
  <2>1. PICK f : f = [t \in E0 |-> t[2]]
    OBVIOUS
  <2>2. f \in [E0 -> O]
    BY <1>4, <2>1
  <2>3. ASSUME NEW x \in O
        PROVE  \E t \in E0 : f[t] = x
    <3>1. PICK i \in DOMAIN ps : x \in Edges(ps[i].cells)
      BY <1>3, OuterIsAnEdge
    <3>2. PICK t : t = <<i, x>>
      OBVIOUS
    <3>3. t \in E0 /\ t[2] = x
      BY <1>4, <1>10, <3>1, <3>2
    <3> QED BY <2>1, <3>3
  <2>4. ASSUME NEW s \in E0, NEW t \in E0, f[s] = f[t]
        PROVE  s = t
    <3>1. PICK i \in DOMAIN ps : \E x \in Edges(ps[i].cells) : s = <<i, x>>
      BY <1>9, <1>12
    <3>2. PICK j \in DOMAIN ps : \E x \in Edges(ps[j].cells) : t = <<j, x>>
      BY <1>9, <1>12
    <3>3. s = <<i, s[2]>> /\ t = <<j, t[2]>> /\ s[2] = t[2] /\ s[2] \in Edges(ps[i].cells) /\ s[2] \in Edges(ps[j].cells)
      BY <2>1, <2>4, <3>1, <3>2
    <3>4. s[2] \in Edges(Union(ps))
      BY <1>3, <1>4
    <3>5. i = j
      BY <3>3, <3>4, EdgeIsOuterOrShared
    <3> QED BY <3>3, <3>5
  <2> QED BY <1>12, <2>2, <2>3, <2>4, SameSize
\* What is removed.
<1>16. ASSUME NEW r \in R
       PROVE  \E i, j \in DOMAIN ps : \E x \in Edges(ps[i].cells) :
                 i < j /\ x \in Edges(ps[j].cells) /\ r = <<<<i, j>>, x>>
  <2>1. PICK e \in Pairs(ps) : r \in {e} \X SharedEdges(ps[e[1]], ps[e[2]])
    BY <1>2
  <2>2. PICK x \in SharedEdges(ps[e[1]], ps[e[2]]) : r = <<e, x>>
    BY <2>1
  <2>3. e[1] \in DOMAIN ps /\ e[2] \in DOMAIN ps /\ e[1] < e[2] /\ e = <<e[1], e[2]>>
    BY <2>1 DEF Pairs
  <2>4. x \in Edges(ps[e[1]].cells) /\ x \in Edges(ps[e[2]].cells)
    BY <2>2 DEF SharedEdges
  <2> QED BY <2>2, <2>3, <2>4
<1>17. ASSUME NEW i \in DOMAIN ps, NEW j \in DOMAIN ps, i < j,
              NEW x \in Edges(ps[i].cells), x \in Edges(ps[j].cells)
       PROVE  <<<<i, j>>, x>> \in R
  <2>1. PICK e : e = <<i, j>>
    OBVIOUS
  <2>2. e \in Pairs(ps) /\ e[1] = i /\ e[2] = j
    BY <1>17, <2>1, PairsAre
  <2>3. ~Overlapping(ps[i], ps[j])
    BY <1>8, <1>17, DisjointMeans DEF Overlapping
  <2>4. x \in SharedEdges(ps[i], ps[j])
    BY <1>17, <2>3 DEF SharedEdges
  <2> QED BY <1>2, <2>1, <2>2, <2>4
\* An edge has only two sides.
<1>18. ASSUME NEW i \in DOMAIN ps, NEW j \in DOMAIN ps, NEW k \in DOMAIN ps, i # j, i # k,
              NEW x \in Edges(ps[i].cells), x \in Edges(ps[j].cells), x \in Edges(ps[k].cells)
       PROVE  j = k
  <2>1. x \notin Edges(Union(ps))
    BY <1>18, EdgeIsOuterOrShared
  <2>2. PICK o \in DOMAIN ps : \A m \in DOMAIN ps : x \in Edges(ps[m].cells) => m \in {i, o}
    BY <2>1, EdgeIsOuterOrShared
  <2> QED BY <1>18, <2>2
<1>19. Cardinality(R) = Cardinality(E1)
  <2>1. PICK f : f = [r \in R |-> <<r[1][1], r[2]>>]
    OBVIOUS
  <2>2. ASSUME NEW r \in R
        PROVE  f[r] \in E1
    <3>1. PICK i, j \in DOMAIN ps : \E x \in Edges(ps[i].cells) :
                 i < j /\ x \in Edges(ps[j].cells) /\ r = <<<<i, j>>, x>>
      BY <1>16
    <3>2. PICK x \in Edges(ps[i].cells) : i < j /\ x \in Edges(ps[j].cells) /\ r = <<<<i, j>>, x>>
      BY <3>1
    <3>3. f[r] = <<i, x>>
      BY <2>1, <3>2
    <3> QED BY <1>5, <1>10, <3>2, <3>3
  <2>3. ASSUME NEW t \in E1
        PROVE  \E r \in R : f[r] = t
    <3>1. PICK i \in DOMAIN ps : \E x \in Edges(ps[i].cells) : t = <<i, x>>
      BY <1>9, <1>12
    <3>2. PICK x \in Edges(ps[i].cells) : t = <<i, x>>
      BY <3>1
    <3>3. PICK j \in DOMAIN ps : i < j /\ x \in Edges(ps[j].cells)
      BY <1>5, <3>2
    <3>4. PICK r : r = <<<<i, j>>, x>>
      OBVIOUS
    <3>5. r \in R
      BY <1>17, <3>3, <3>4
    <3>6. f[r] = <<i, x>>
      BY <2>1, <3>4, <3>5
    <3> QED BY <3>2, <3>5, <3>6
  <2>4. ASSUME NEW r \in R, NEW s \in R, f[r] = f[s]
        PROVE  r = s
    <3>1. PICK i, j \in DOMAIN ps : \E x \in Edges(ps[i].cells) :
                 i < j /\ x \in Edges(ps[j].cells) /\ r = <<<<i, j>>, x>>
      BY <1>16
    <3>2. PICK x \in Edges(ps[i].cells) : i < j /\ x \in Edges(ps[j].cells) /\ r = <<<<i, j>>, x>>
      BY <3>1
    <3>3. PICK k, l \in DOMAIN ps : \E y \in Edges(ps[k].cells) :
                 k < l /\ y \in Edges(ps[l].cells) /\ s = <<<<k, l>>, y>>
      BY <1>16
    <3>4. PICK y \in Edges(ps[k].cells) : k < l /\ y \in Edges(ps[l].cells) /\ s = <<<<k, l>>, y>>
      BY <3>3
    <3>5. f[r] = <<i, x>> /\ f[s] = <<k, y>>
      BY <2>1, <3>2, <3>4
    <3>9. <<i, x>> = <<k, y>>
      BY <2>4, <3>5
    <3>6. i = k /\ x = y
      BY <3>9
    <3>7. i # j /\ i # l
      BY <1>8, <3>2, <3>4, <3>6
    <3>8. j = l
      BY <1>18, <3>2, <3>4, <3>6, <3>7
    <3> QED BY <3>2, <3>4, <3>6, <3>8
  <2>5. f \in [R -> E1]
    BY <2>1, <2>2
  <2>6. /\ \A t \in E1 : \E r \in R : f[r] = t
        /\ \A r, s \in R : f[r] = f[s] => r = s
    BY <2>3, <2>4
  <2>7. IsFiniteSet(E1)
    BY <1>12
  <2>8. Cardinality(E1) = Cardinality(R)
    BY <2>5, <2>6, <2>7, SizeOfImage
  <2> QED BY <2>8
<1>20. Cardinality(R) = Cardinality(E2)
  <2>1. PICK f : f = [r \in R |-> <<r[1][2], r[2]>>]
    OBVIOUS
  <2>2. ASSUME NEW r \in R
        PROVE  f[r] \in E2
    <3>1. PICK i, j \in DOMAIN ps : \E x \in Edges(ps[i].cells) :
                 i < j /\ x \in Edges(ps[j].cells) /\ r = <<<<i, j>>, x>>
      BY <1>16
    <3>2. PICK x \in Edges(ps[i].cells) : i < j /\ x \in Edges(ps[j].cells) /\ r = <<<<i, j>>, x>>
      BY <3>1
    <3>3. f[r] = <<j, x>>
      BY <2>1, <3>2
    <3> QED BY <1>6, <1>10, <3>2, <3>3
  <2>3. ASSUME NEW t \in E2
        PROVE  \E r \in R : f[r] = t
    <3>1. PICK j \in DOMAIN ps : \E x \in Edges(ps[j].cells) : t = <<j, x>>
      BY <1>9, <1>12
    <3>2. PICK x \in Edges(ps[j].cells) : t = <<j, x>>
      BY <3>1
    <3>3. PICK i \in DOMAIN ps : i < j /\ x \in Edges(ps[i].cells)
      BY <1>6, <3>2
    <3>4. PICK r : r = <<<<i, j>>, x>>
      OBVIOUS
    <3>5. r \in R
      BY <1>17, <3>3, <3>4
    <3>6. f[r] = <<j, x>>
      BY <2>1, <3>4, <3>5
    <3> QED BY <3>2, <3>5, <3>6
  <2>4. ASSUME NEW r \in R, NEW s \in R, f[r] = f[s]
        PROVE  r = s
    <3>1. PICK i, j \in DOMAIN ps : \E x \in Edges(ps[i].cells) :
                 i < j /\ x \in Edges(ps[j].cells) /\ r = <<<<i, j>>, x>>
      BY <1>16
    <3>2. PICK x \in Edges(ps[i].cells) : i < j /\ x \in Edges(ps[j].cells) /\ r = <<<<i, j>>, x>>
      BY <3>1
    <3>3. PICK k, l \in DOMAIN ps : \E y \in Edges(ps[k].cells) :
                 k < l /\ y \in Edges(ps[l].cells) /\ s = <<<<k, l>>, y>>
      BY <1>16
    <3>4. PICK y \in Edges(ps[k].cells) : k < l /\ y \in Edges(ps[l].cells) /\ s = <<<<k, l>>, y>>
      BY <3>3
    <3>5. f[r] = <<j, x>> /\ f[s] = <<l, y>>
      BY <2>1, <3>2, <3>4
    <3>9. <<j, x>> = <<l, y>>
      BY <2>4, <3>5
    <3>6. j = l /\ x = y
      BY <3>9
    <3>7. j # i /\ j # k
      BY <1>8, <3>2, <3>4, <3>6
    <3>8. i = k
      BY <1>18, <3>2, <3>4, <3>6, <3>7
    <3> QED BY <3>2, <3>4, <3>6, <3>8
  <2>5. f \in [R -> E2]
    BY <2>1, <2>2
  <2>6. /\ \A t \in E2 : \E r \in R : f[r] = t
        /\ \A r, s \in R : f[r] = f[s] => r = s
    BY <2>3, <2>4
  <2>7. IsFiniteSet(E2)
    BY <1>12
  <2>8. Cardinality(E2) = Cardinality(R)
    BY <2>5, <2>6, <2>7, SizeOfImage
  <2> QED BY <2>8
<1>21. RemovedLength(ps) = Cardinality(R)
  BY <1>2 DEF RemovedLength
<1>22. PICK a, b : a = Cardinality(E0) /\ b = Cardinality(R)
  OBVIOUS
<1>23. a \in Nat /\ b \in Nat /\ Cardinality(E) = a + b + b /\ Cardinality(O) = a
  BY <1>12, <1>14, <1>15, <1>19, <1>20, <1>22, FS_CardinalityType
<1> QED BY <1>1, <1>3, <1>21, <1>22, <1>23

-------------------------------------------------------------------------------
(* The command. *)

Files == {"geojson", "members", "kml", "dxf", "json"}

LEMMA OutputFiles ==
    /\ ToSet(Outputs) = Files /\ Len(Outputs) = 5
    /\ \A k \in 1 .. 5 : Outputs[k] \in Files /\ (Outputs[k] = "json" <=> k = 5) /\ (Outputs[k] = "geojson" <=> k = 1)
    /\ \A f \in Files : \E k \in 1 .. 5 : Outputs[k] = f
    /\ \A k, l \in 1 .. 5 : Outputs[k] = Outputs[l] => k = l
    /\ \A k \in 1 .. 5 : Outputs[k] = "members" => k = 2
<1>1. /\ Outputs[1] = "geojson" /\ Outputs[2] = "members" /\ Outputs[3] = "kml" /\ Outputs[4] = "dxf"
      /\ Outputs[5] = "json" /\ DOMAIN Outputs = 1 .. 5 /\ Len(Outputs) = 5
  BY DEF Outputs
<1>2. \A k \in 1 .. 5 : k = 1 \/ k = 2 \/ k = 3 \/ k = 4 \/ k = 5
  OBVIOUS
<1>3. ToSet(Outputs) = Files
  BY <1>1, <1>2 DEF ToSet, Files
<1> QED BY <1>1, <1>2, <1>3 DEF Files

Over == {"done", "failed"}
Steps == {"start", "read", "plan", "write", "refused"} \cup Over
Studies == [step : Steps, asked : Seq(Identities), tolerance : Nat, snapshot : Snapshots \cup {Nowhere},
            members : Seq(Plots), planned : BOOLEAN, next : 1 .. 5]

\* The members that were read are the plots that were asked for, of one snapshot.
Reading ==
    /\ land \in Lands /\ current \in Snapshots \cup {Nowhere}
    /\ study \in Studies
    /\ study.step = "start" => study.members = <<>>
    /\ study.step \notin {"start", "refused"} => study.snapshot \in Snapshots /\ Len(study.asked) >= 2
    /\ study.step \notin {"start", "read", "refused"} => Len(study.members) = Len(study.asked)
    /\ Len(study.members) <= Len(study.asked)
    /\ \A i \in DOMAIN study.members : study.members[i] = land[study.snapshot][study.asked[i]]

\* What the analysis of a selection says, whatever the tolerance.
Analysed(s, ps) ==
    /\ {"status", "contiguous", "input", "combined", "perimeter", "removed", "excess"} \subseteq DOMAIN s
    /\ s.input = InputArea(ps) /\ s.combined = CombinedArea(ps) /\ s.excess = InputArea(ps) - CombinedArea(ps)
    /\ s.perimeter = Cardinality(Edges(Union(ps))) /\ s.removed = RemovedLength(ps)
    /\ s.contiguous <=> Connected(ps, Links(ps))
    /\ s.status = "ready" => Connected(ps, Links(ps)) /\ ~AnyOverlap(ps) /\ ~AnyRepaired(ps)

Sited ==
    IF study.step \in {"start", "read", "refused"} THEN site = NoSite ELSE Analysed(site, study.members)

\* The analysis is the last of the files of this screening.
Written ==
    /\ bundle \in [Files -> {"none", "earlier", "this"}]
    /\ study.step \notin {"write", "done", "failed"} => study.next = 1
    /\ study.step = "write" => \A k \in 1 .. (study.next - 1) : bundle[Outputs[k]] = "this"
    /\ IF study.step = "done" THEN \A f \in Files : bundle[f] = "this" ELSE bundle["json"] # "this"

AssemblyInv == Reading /\ Sited /\ Written

LEMMA PlotOfLand ==
    ASSUME land \in Lands, NEW s \in Snapshots, NEW i \in Identities, land[s][i].cells # {}
    PROVE  land[s][i] \in Plots
BY AssemblySets DEF Plots

LEMMA AnalysisIsOne ==
    ASSUME NEW ps
    PROVE  Analysed(Analysis(ps), ps)
<1>1. Status(ps) = "ready" => Connected(ps, Links(ps)) /\ ~AnyOverlap(ps) /\ ~AnyRepaired(ps)
  BY DEF Status
<1>2. Analysis(ps).contiguous <=> Connected(ps, Links(ps))
  BY DEF Analysis
<1> QED BY <1>1, <1>2 DEF Analysed, Analysis

LEMMA NoteKeepsAnalysis ==
    ASSUME NEW s, NEW ps, Analysed(s, ps), NEW w
    PROVE  Analysed([s EXCEPT !.warnings = w], ps)
BY DEF Analysed

LEMMA AssemblyStarts == AssemblyInit => AssemblyInv
<1> SUFFICES ASSUME AssemblyInit
             PROVE  AssemblyInv
  OBVIOUS
<1>1. PICK asked \in Selections, tolerance \in Tolerances :
          study = [step |-> "start", asked |-> asked, tolerance |-> tolerance,
                   snapshot |-> Nowhere, members |-> <<>>, planned |-> FALSE, next |-> 1]
  BY DEF AssemblyInit
<1>2. PICK of \in {"none", "earlier"} : bundle = [f \in ToSet(Outputs) |-> of]
  BY DEF AssemblyInit
<1>3. /\ study.step = "start" /\ study.asked = asked /\ study.members = <<>> /\ study.next = 1
      /\ study.snapshot = Nowhere /\ asked \in Seq(Identities) /\ tolerance \in Nat /\ <<>> \in Seq(Plots)
      /\ Len(<<>>) = 0 /\ DOMAIN <<>> = {} /\ Len(asked) \in Nat
  BY <1>1, AssemblySets
<1>4. study \in Studies
  BY <1>1, <1>3 DEF Studies, Steps
<1>5. Reading
  BY <1>3, <1>4 DEF Reading, AssemblyInit
<1>6. Sited
  BY <1>3 DEF Sited, AssemblyInit
<1>7. bundle = [f \in Files |-> of]
  BY <1>2, OutputFiles
<1>8. Written
  BY <1>3, <1>7 DEF Written, Files
<1> QED BY <1>5, <1>6, <1>8 DEF AssemblyInv

\* What is known of a command before a step.
LEMMA StudyFields ==
    ASSUME AssemblyInv
    PROVE  /\ study \in Studies /\ study.step \in Steps /\ study.next \in 1 .. 5
           /\ study.asked \in Seq(Identities) /\ study.members \in Seq(Plots)
           /\ Len(study.asked) \in Nat /\ Len(study.members) \in Nat
BY DEF AssemblyInv, Reading, Studies

LEMMA RefuseKeeps ==
    ASSUME AssemblyInv, study.step \in {"start", "read"}, Refuse
    PROVE  AssemblyInv'
<1>1. PICK s : s = study'
  OBVIOUS
<1>2. s = [study EXCEPT !.step = "refused"]
  BY <1>1 DEF Refuse
<1>3. /\ s \in Studies /\ s.step = "refused" /\ s.asked = study.asked /\ s.members = study.members
      /\ s.next = study.next /\ s.snapshot = study.snapshot
  BY <1>2, StudyFields DEF Studies, Steps
<1>4. Reading'
  BY <1>1, <1>3 DEF AssemblyInv, Reading, Refuse
<1>5. Sited' /\ Written'
  BY <1>1, <1>3 DEF AssemblyInv, Sited, Written, Refuse
<1> QED BY <1>4, <1>5 DEF AssemblyInv

LEMMA StartStudyKeeps == ASSUME AssemblyInv, StartStudy PROVE AssemblyInv'
<1>1. PICK s : s = study'
  OBVIOUS
<1>2. s = [study EXCEPT !.step = "read", !.snapshot = current] /\ current \in Snapshots
  BY <1>1 DEF StartStudy, AssemblyInv, Reading
<1>3. /\ s \in Studies /\ s.step = "read" /\ s.asked = study.asked /\ s.members = study.members
      /\ s.next = study.next /\ s.snapshot \in Snapshots
  BY <1>2, StudyFields DEF Studies, Steps
<1>4. study.step = "start" /\ study.members = <<>> /\ DOMAIN <<>> = {}
  BY DEF StartStudy, AssemblyInv, Reading
<1>5. Reading'
  BY <1>1, <1>3, <1>4 DEF AssemblyInv, Reading, StartStudy
<1>6. Sited' /\ Written'
  BY <1>1, <1>3, <1>4 DEF AssemblyInv, Sited, Written, StartStudy
<1> QED BY <1>5, <1>6 DEF AssemblyInv

LEMMA ReadMemberKeeps == ASSUME AssemblyInv, ReadMember PROVE AssemblyInv'
<1>1. PICK s : s = study'
  OBVIOUS
<1>2. PICK m : m = Member
  OBVIOUS
<1>3. s = [study EXCEPT !.members = Append(study.members, m)]
  BY <1>1, <1>2 DEF ReadMember
<1>4. PICK n : n = Len(study.members)
  OBVIOUS
<1>5. /\ study.step = "read" /\ study.snapshot \in Snapshots /\ n \in Nat /\ n < Len(study.asked)
      /\ Len(study.asked) \in Nat
  BY <1>4, StudyFields DEF ReadMember, AssemblyInv, Reading
<1>6. n + 1 \in DOMAIN study.asked /\ study.asked[n + 1] \in Identities
  BY <1>5, StudyFields, Elements
<1>7. m = land[study.snapshot][study.asked[n + 1]] /\ m \in Plots
  BY <1>2, <1>4, <1>5, <1>6, PlotOfLand DEF Member, ReadMember, AssemblyInv, Reading
<1>8. PICK q : q = Append(study.members, m)
  OBVIOUS
<1>9. /\ q \in Seq(Plots) /\ Len(q) = n + 1 /\ q[n + 1] = m
      /\ DOMAIN q = 1 .. (n + 1) /\ \A k \in 1 .. n : q[k] = study.members[k]
  BY <1>4, <1>7, <1>8, StudyFields
<1>10. /\ s \in Studies /\ s.step = "read" /\ s.asked = study.asked /\ s.members = q
       /\ s.next = study.next /\ s.snapshot = study.snapshot
  BY <1>3, <1>5, <1>8, <1>9, StudyFields DEF Studies
<1>11. \A k \in DOMAIN q : q[k] = land[study.snapshot][study.asked[k]]
  <2>1. ASSUME NEW k \in DOMAIN q
        PROVE  q[k] = land[study.snapshot][study.asked[k]]
    <3>1. CASE k = n + 1
      BY <1>7, <1>9, <3>1
    <3>2. CASE k # n + 1
      <4>1. k \in 1 .. n /\ k \in DOMAIN study.members
        BY <1>4, <1>5, <1>9, <2>1, <3>2, StudyFields, Elements
      <4> QED BY <1>9, <4>1 DEF AssemblyInv, Reading
    <3> QED BY <3>1, <3>2
  <2> QED BY <2>1
<1>12. UNCHANGED <<land, current, site, bundle>>
  BY DEF ReadMember
<1>13. Reading'
  BY <1>1, <1>5, <1>9, <1>10, <1>11, <1>12 DEF AssemblyInv, Reading
<1>14. Sited' /\ Written'
  BY <1>1, <1>5, <1>10, <1>12 DEF AssemblyInv, Sited, Written
<1> QED BY <1>13, <1>14 DEF AssemblyInv

LEMMA AnalyseKeeps == ASSUME AssemblyInv, Analyse PROVE AssemblyInv'
<1>1. PICK s, r : s = study' /\ r = site'
  OBVIOUS
<1>2. s = [study EXCEPT !.step = "plan"] /\ r = Analysis(study.members)
  BY <1>1 DEF Analyse
<1>3. /\ s \in Studies /\ s.step = "plan" /\ s.asked = study.asked /\ s.members = study.members
      /\ s.next = study.next /\ s.snapshot = study.snapshot
  BY <1>2, StudyFields DEF Studies, Steps
<1>4. Analysed(r, s.members)
  BY <1>2, <1>3, AnalysisIsOne
<1>5. study.step = "read" /\ Len(study.members) = Len(study.asked) /\ UNCHANGED <<land, current, bundle>>
  BY DEF Analyse
<1>6. Reading'
  BY <1>1, <1>3, <1>5 DEF AssemblyInv, Reading
<1>7. Sited'
  BY <1>1, <1>3, <1>4 DEF Sited
<1>8. Written'
  BY <1>1, <1>3, <1>5 DEF AssemblyInv, Written
<1> QED BY <1>6, <1>7, <1>8 DEF AssemblyInv

LEMMA AskPlanningKeeps == ASSUME AssemblyInv, AskPlanning PROVE AssemblyInv'
<1>1. PICK s, r : s = study' /\ r = site'
  OBVIOUS
<1>2. /\ s = [study EXCEPT !.step = "write", !.planned = TRUE] \/ s = [study EXCEPT !.step = "write"]
      /\ r = site \/ r = [site EXCEPT !.warnings = site.warnings \cup {"planning_unavailable"}]
  BY <1>1 DEF AskPlanning
<1>3. /\ s \in Studies /\ s.step = "write" /\ s.asked = study.asked /\ s.members = study.members
      /\ s.next = study.next /\ s.snapshot = study.snapshot
  BY <1>2, StudyFields DEF Studies, Steps
<1>4. study.step = "plan" /\ UNCHANGED <<land, current, bundle>>
  BY DEF AskPlanning
<1>5. Analysed(site, study.members)
  BY <1>4 DEF AssemblyInv, Sited
<1>6. Analysed(r, s.members)
  BY <1>2, <1>3, <1>5, NoteKeepsAnalysis
<1>7. study.next = 1 /\ bundle["json"] # "this" /\ bundle \in [Files -> {"none", "earlier", "this"}]
  BY <1>4 DEF AssemblyInv, Written
<1>8. Reading'
  BY <1>1, <1>3, <1>4 DEF AssemblyInv, Reading
<1>9. Sited'
  BY <1>1, <1>3, <1>6 DEF Sited
<1>10. Written'
  BY <1>1, <1>3, <1>4, <1>7 DEF Written
<1> QED BY <1>8, <1>9, <1>10 DEF AssemblyInv

LEMMA WriteOutputKeeps == ASSUME AssemblyInv, WriteOutput PROVE AssemblyInv'
<1>1. PICK s, n : s = study' /\ n = study.next
  OBVIOUS
<1>2. PICK file : file = Outputs[n]
  OBVIOUS
<1>3. PICK kept : kept = IF file = "geojson" THEN [bundle EXCEPT !["members"] = "none"] ELSE bundle
  OBVIOUS
<1>4. PICK b : b = bundle'
  OBVIOUS
<1>5. b = [kept EXCEPT ![file] = "this"]
  BY <1>1, <1>2, <1>3, <1>4 DEF WriteOutput
<1>6. /\ study.step = "write" /\ UNCHANGED <<land, current, site>>
      /\ s = IF n = 5 THEN [study EXCEPT !.step = "done"] ELSE [study EXCEPT !.next = n + 1]
  BY <1>1, OutputFiles DEF WriteOutput
<1>7. n \in 1 .. 5 /\ (n # 5 => n + 1 \in 1 .. 5)
  BY <1>1, StudyFields
<1>8. /\ s \in Studies /\ s.asked = study.asked /\ s.members = study.members /\ s.snapshot = study.snapshot
      /\ n = 5 => s.step = "done"
      /\ n # 5 => s.step = "write" /\ s.next = n + 1
  BY <1>1, <1>6, <1>7, StudyFields DEF Studies, Steps, Over
<1>9. Reading'
  BY <1>1, <1>6, <1>8 DEF AssemblyInv, Reading
<1>10. Sited'
  <2>1. Analysed(site, study.members)
    BY <1>6 DEF AssemblyInv, Sited
  <2>2. s.step \notin {"start", "read", "refused"} /\ s.members = study.members
    BY <1>8
  <2>3. Analysed(site', study'.members)
    BY <1>1, <1>6, <2>1, <2>2
  <2> QED BY <1>1, <2>2, <2>3 DEF Sited
<1>11. /\ bundle \in [Files -> {"none", "earlier", "this"}] /\ bundle["json"] # "this"
       /\ \A k \in 1 .. (n - 1) : bundle[Outputs[k]] = "this"
  BY <1>1, <1>6 DEF AssemblyInv, Written
<1>12. file \in Files /\ (file = "geojson" <=> n = 1) /\ (file = "json" <=> n = 5)
  BY <1>2, <1>7, OutputFiles
<1>13. /\ kept \in [Files -> {"none", "earlier", "this"}] /\ kept["json"] # "this"
       /\ \A k \in 1 .. (n - 1) : kept[Outputs[k]] = "this"
  <2>1. CASE file = "geojson"
    BY <1>3, <1>11, <1>12, <2>1 DEF Files
  <2>2. CASE file # "geojson"
    BY <1>3, <1>11, <2>2
  <2> QED BY <2>1, <2>2
<1>14. /\ b \in [Files -> {"none", "earlier", "this"}]
       /\ b[file] = "this" /\ \A f \in Files : f # file => b[f] = kept[f]
  BY <1>5, <1>12, <1>13
<1>15. \A k \in 1 .. n : b[Outputs[k]] = "this"
  <2>1. ASSUME NEW k \in 1 .. n
        PROVE  b[Outputs[k]] = "this"
    <3>1. k \in 1 .. 5 /\ (k = n \/ k \in 1 .. (n - 1))
      BY <1>7
    <3>2. Outputs[k] \in Files
      BY <3>1, OutputFiles
    <3> QED BY <1>2, <1>13, <1>14, <3>1, <3>2
  <2> QED BY <2>1
<1>16. CASE n = 5
  <2>1. \A f \in Files : b[f] = "this"
    BY <1>15, <1>16, OutputFiles
  <2> QED BY <1>1, <1>4, <1>8, <1>9, <1>10, <1>14, <1>16, <2>1 DEF AssemblyInv, Written
<1>17. CASE n # 5
  <2>1. b["json"] # "this"
    BY <1>12, <1>13, <1>14, <1>17 DEF Files
  <2>2. s.next - 1 = n
    BY <1>7, <1>8, <1>17
  <2>3. Written'
    BY <1>1, <1>4, <1>8, <1>14, <1>15, <1>17, <2>1, <2>2 DEF Written
  <2> QED BY <1>9, <1>10, <2>3 DEF AssemblyInv
<1> QED BY <1>16, <1>17

LEMMA WriteStopsKeeps == ASSUME AssemblyInv, WriteStops PROVE AssemblyInv'
<1>1. PICK s : s = study'
  OBVIOUS
<1>2. s = [study EXCEPT !.step = "failed"] /\ study.step = "write" /\ UNCHANGED <<land, current, site, bundle>>
  BY <1>1 DEF WriteStops
<1>3. /\ s \in Studies /\ s.step = "failed" /\ s.asked = study.asked /\ s.members = study.members
      /\ s.next = study.next /\ s.snapshot = study.snapshot
  BY <1>2, StudyFields DEF Studies, Steps, Over
<1>4. Reading'
  BY <1>1, <1>2, <1>3 DEF AssemblyInv, Reading
<1>5. Sited'
  BY <1>1, <1>2, <1>3 DEF AssemblyInv, Sited
<1>6. Written'
  BY <1>1, <1>2, <1>3 DEF AssemblyInv, Written
<1> QED BY <1>4, <1>5, <1>6 DEF AssemblyInv

LEMMA SwitchLandKeeps == ASSUME AssemblyInv, SwitchLand PROVE AssemblyInv'
BY DEF AssemblyInv, Reading, Sited, Written, SwitchLand

LEMMA AssemblyHolds == AssemblySpec => []AssemblyInv
<1>1. ASSUME AssemblyInv, [AssemblyNext]_assemblyVars
      PROVE  AssemblyInv'
  <2>1. CASE UNCHANGED assemblyVars
    BY <1>1, <2>1 DEF AssemblyInv, Reading, Sited, Written, assemblyVars
  <2>2. CASE RefuseStudy
    BY <1>1, <2>2, RefuseKeeps DEF RefuseStudy
  <2>3. CASE MemberMissing
    BY <1>1, <2>3, RefuseKeeps DEF MemberMissing
  <2>4. CASE RefuseSelection
    BY <1>1, <2>4, RefuseKeeps DEF RefuseSelection
  <2> QED BY <1>1, <2>1, <2>2, <2>3, <2>4, StartStudyKeeps, ReadMemberKeeps, AnalyseKeeps, AskPlanningKeeps,
             WriteOutputKeeps, WriteStopsKeeps, SwitchLandKeeps DEF AssemblyNext
<1> QED BY <1>1, AssemblyStarts, PTL DEF AssemblySpec

\* A site that was analysed is of plots that are there.
LEMMA SiteIsAnalysed ==
    ASSUME AssemblyInv, site # NoSite
    PROVE  /\ Analysed(site, study.members) /\ study.members \in Seq(Plots) /\ study.members # <<>>
           /\ study.snapshot \in Snapshots /\ Len(study.members) = Len(study.asked)
<1>1. study.step \notin {"start", "read", "refused"} /\ Analysed(site, study.members)
  BY DEF AssemblyInv, Sited
<1>2. Len(study.members) >= 2 /\ Len(study.members) = Len(study.asked) /\ study.snapshot \in Snapshots
  BY <1>1 DEF AssemblyInv, Reading
<1>3. study.members # <<>>
  BY <1>2
<1> QED BY <1>1, <1>2, <1>3, StudyFields

\* The analysis of a screening is written after its drawings, so a failed writer or an
\* earlier screening never leaves an analysis beside drawings that are not its own
\* (application/assembly_services.py).
THEOREM BundlesAreWhole == AssemblySpec => []BundleIsWhole
<1>1. AssemblyInv => BundleIsWhole
  BY OutputFiles DEF AssemblyInv, Written, BundleIsWhole
<1> QED BY <1>1, AssemblyHolds, PTL

\* The areas and lengths of a site agree with those of its plots
\* (experimental/assemblies/service.py).
THEOREM MeasuresAgree == AssemblySpec => []MeasuresAddUp
<1>1. ASSUME AssemblyInv, site # NoSite
      PROVE  LET ps == study.members
             IN  /\ site.combined + site.excess = site.input
                 /\ Disjoint(ps) <=> site.excess = 0
                 /\ Disjoint(ps) =>
                       site.perimeter + 2 * site.removed
                           = Cardinality(UNION {{i} \X Edges(ps[i].cells) : i \in DOMAIN ps})
  <2>1. PICK ps : ps = study.members
    OBVIOUS
  <2>2. ps \in Seq(Plots) /\ Analysed(site, ps)
    BY <1>1, <2>1, SiteIsAnalysed
  <2>3. PICK a, b : a = InputArea(ps) /\ b = CombinedArea(ps)
    OBVIOUS
  <2>4. a \in Nat /\ b \in Nat /\ (Disjoint(ps) <=> a = b)
    BY <2>2, <2>3, AreasAddUp
  <2>5. site.input = a /\ site.combined = b /\ site.excess = a - b
    BY <2>2, <2>3 DEF Analysed
  <2>6. site.combined + site.excess = site.input /\ (Disjoint(ps) <=> site.excess = 0)
    BY <2>4, <2>5
  <2>7. site.perimeter = Cardinality(Edges(Union(ps))) /\ site.removed = RemovedLength(ps)
    BY <2>2 DEF Analysed
  <2>8. Disjoint(ps) => site.perimeter + 2 * site.removed
                           = Cardinality(UNION {{i} \X Edges(ps[i].cells) : i \in DOMAIN ps})
    BY <2>2, <2>7, PerimetersAddUp
  <2> QED BY <2>1, <2>6, <2>8
<1>2. AssemblyInv => MeasuresAddUp
  BY <1>1 DEF MeasuresAddUp
<1> QED BY <1>2, AssemblyHolds, PTL

\* Plots that are each one piece are contiguous exactly when their union is one; a ready
\* site has neither overlaps nor repaired boundaries, and is read from one snapshot
\* although another may be activated meanwhile (experimental/assemblies/service.py).
THEOREM ReadyIsReady == AssemblySpec => []ReadyIsOneSite
<1>1. ASSUME AssemblyInv, site # NoSite
      PROVE  /\ \E s \in Snapshots : \A i \in DOMAIN study.asked : study.members[i] = land[s][study.asked[i]]
             /\ Whole(study.members) => (site.contiguous <=> OnePiece(Union(study.members)))
             /\ site.status = "ready" => site.contiguous /\ Disjoint(study.members) /\ ~AnyRepaired(study.members)
  <2>1. PICK ps : ps = study.members
    OBVIOUS
  <2>2. ps \in Seq(Plots) /\ ps # <<>> /\ Analysed(site, ps) /\ Len(ps) = Len(study.asked)
    BY <1>1, <2>1, SiteIsAnalysed
  <2>3. \E s \in Snapshots : \A i \in DOMAIN study.asked : study.members[i] = land[s][study.asked[i]]
    <3>1. DOMAIN study.asked = DOMAIN study.members /\ study.snapshot \in Snapshots
      BY <1>1, <2>1, <2>2, StudyFields, SiteIsAnalysed, Elements
    <3> QED BY <1>1, <3>1 DEF AssemblyInv, Reading
  <2>4. site.contiguous <=> Connected(ps, Links(ps))
    BY <2>2 DEF Analysed
  <2>5. Whole(ps) => (Connected(ps, Links(ps)) <=> OnePiece(Union(ps)))
    BY <2>2, ConnectedIsOnePiece, OnePieceIsConnected
  <2>6. site.status = "ready" => Connected(ps, Links(ps)) /\ ~AnyOverlap(ps) /\ ~AnyRepaired(ps)
    BY <2>2 DEF Analysed
  <2>7. ~AnyOverlap(ps) => Disjoint(ps)
    BY DEF AnyOverlap, Overlapping, Disjoint
  <2> QED BY <2>1, <2>3, <2>4, <2>5, <2>6, <2>7
<1>2. AssemblyInv => ReadyIsOneSite
  BY <1>1 DEF ReadyIsOneSite
<1> QED BY <1>2, AssemblyHolds, PTL

===============================================================================
