--------------------------- MODULE DocumentProofs ---------------------------
(***************************************************************************)
(* Proofs about the module ModelDocument: through any sequence of builders,*)
(* derivations, drops, compactions and readings that succeed or fail, of   *)
(* any size, the model stays well formed and every lineage complete, what  *)
(* a handle means is well defined and lasts, and what is written, trimmed  *)
(* or read keeps it.                                                       *)
(***************************************************************************)
EXTENDS ModelDocument, FiniteSetTheorems, WellFoundedInduction, TLAPS

-----------------------------------------------------------------------------
(* Walks.  What a walk reaches is closed, and lies in every closed set     *)
(* around where it starts.                                                 *)
LEMMA ReachIsLeast ==
    ASSUME NEW from, NEW next, from \subseteq DOMAIN next,
           \A x \in DOMAIN next : next[x] \subseteq DOMAIN next
    PROVE  /\ Reach(from, next) \in Closures(from, next)
           /\ \A T \in Closures(from, next) : Reach(from, next) \subseteq T
<1> DEFINE least == {x \in DOMAIN next : \A T \in Closures(from, next) : x \in T}
<1>1. least \in SUBSET DOMAIN next /\ from \subseteq least
  BY DEF Closures
<1>2. ASSUME NEW x \in least PROVE next[x] \subseteq least
  BY DEF Closures
<1>3. least \in Closures(from, next)
  BY <1>1, <1>2 DEF Closures
<1>4. \A T \in Closures(from, next) : least \subseteq T
  OBVIOUS
<1> HIDE DEF least
<1> QED BY <1>3, <1>4 DEF Reach

(* Numbering.  The ranks of a finite set of handles are 1, 2, ..., one for *)
(* each of them.                                                           *)
LEMMA RankStrict ==
    ASSUME NEW S \in SUBSET Nat, IsFiniteSet(S), NEW x \in S, NEW y \in Nat, x < y
    PROVE  Rank(S, x) \in Nat /\ Rank(S, y) \in Nat /\ Rank(S, x) < Rank(S, y)
<1> DEFINE A == {z \in S : z < x}
           B == {z \in S : z < y}
<1>1. A \in SUBSET S /\ B \in SUBSET S /\ x \in B /\ x \notin A
  OBVIOUS
<1>5. ASSUME NEW z \in A PROVE z \in B
  <2>1. z \in Nat /\ x \in Nat /\ z < x
    OBVIOUS
  <2>2. z < y
    BY <2>1
  <2> QED BY <2>2
<1>6. A \in SUBSET B
  BY <1>5
<1>2. IsFiniteSet(A) /\ IsFiniteSet(B)
  BY <1>1, FS_Subset
<1>3. /\ Cardinality(A) \in Nat /\ Cardinality(B) \in Nat
      /\ Cardinality(A) <= Cardinality(B)
      /\ Cardinality(B) = Cardinality(A) => B = A
  BY <1>6, <1>2, FS_Subset, FS_CardinalityType
<1>4. Rank(S, x) = Cardinality(A) + 1 /\ Rank(S, y) = Cardinality(B) + 1
  BY DEF Rank
<1> HIDE DEF A, B
<1> QED BY <1>1, <1>3, <1>4

LEMMA RankPositive ==
    ASSUME NEW S, IsFiniteSet(S), NEW x
    PROVE  Rank(S, x) \in Nat \ {0}
<1> DEFINE A == {z \in S : z < x}
<1>1. IsFiniteSet(A)
  BY FS_Subset
<1>2. Cardinality(A) \in Nat
  BY <1>1, FS_CardinalityType
<1>3. Rank(S, x) = Cardinality(A) + 1
  BY DEF Rank
<1> HIDE DEF A
<1> QED BY <1>2, <1>3

LEMMA RankAtMost ==
    ASSUME NEW S \in SUBSET Nat, IsFiniteSet(S), NEW x \in S
    PROVE  Rank(S, x) \in Ranks(S)
<1> DEFINE A == {z \in S : z < x}
<1>1. A \in SUBSET S /\ x \in S /\ x \notin A
  OBVIOUS
<1>2. IsFiniteSet(A)
  BY <1>1, FS_Subset
<1>3. /\ Cardinality(A) \in Nat /\ Cardinality(S) \in Nat
      /\ Cardinality(A) <= Cardinality(S)
      /\ Cardinality(S) = Cardinality(A) => S = A
  BY <1>1, <1>2, FS_Subset, FS_CardinalityType
<1>4. Rank(S, x) = Cardinality(A) + 1
  BY DEF Rank
<1> HIDE DEF A
<1> QED BY <1>1, <1>3, <1>4 DEF Ranks

LEMMA AtIsThere ==
    ASSUME NEW S \in SUBSET Nat, IsFiniteSet(S), NEW k \in Ranks(S)
    PROVE  At(S, k) \in S /\ Rank(S, At(S, k)) = k
<1> DEFINE rank == [x \in S |-> Rank(S, x)]
<1>1. rank \in [S -> Ranks(S)]
  BY RankAtMost
<1>2. \A x, y \in S : rank[x] = rank[y] => x = y
  <2>1. SUFFICES ASSUME NEW x \in S, NEW y \in S, x # y PROVE rank[x] # rank[y]
    OBVIOUS
  <2>2. x \in Nat /\ y \in Nat
    OBVIOUS
  <2>3. CASE x < y
    BY <2>2, <2>3, RankStrict
  <2>4. CASE y < x
    BY <2>2, <2>4, RankStrict
  <2> QED BY <2>1, <2>2, <2>3, <2>4
<1>3. rank \in Injection(S, Ranks(S))
  BY <1>1, <1>2 DEF Injection, IsInjective
<1>4. /\ Cardinality(S) \in Nat
      /\ IsFiniteSet(Ranks(S)) /\ Cardinality(Ranks(S)) = Cardinality(S)
  <2>1. Cardinality(S) \in Nat
    BY FS_CardinalityType
  <2> QED BY <2>1, FS_Interval DEF Ranks
<1>5. rank \in Surjection(S, Ranks(S))
  BY <1>3, <1>4, FS_Injection
<1>6. PICK x \in S : rank[x] = k
  BY <1>5 DEF Surjection
<1>7. Rank(S, x) = k
  BY <1>6
<1> QED BY <1>7 DEF At

-----------------------------------------------------------------------------
(* The inductive invariant.                                                *)
IInv == TypeOK /\ LineageComplete /\ DerivedFromEarlier

(* A file that can be made sense of: what a reader rebuilds.               *)
FileOK(file) ==
    /\ \E n \in Nat : file.nodes \in [1..n -> Node]
    /\ \E n \in Nat : file.curves \in [1..n -> Geometry]
    /\ DOMAIN file.entries \subseteq Ids
    /\ file.entries \in [DOMAIN file.entries -> SUBSET Ids]
    /\ file.identity \in [DOMAIN file.identity -> Ids]

(* What an identity table holds lies before its length.                    *)
LEMMA TableCovers ==
    ASSUME NEW file, FileOK(file)
    PROVE  /\ LastId(file) \in 0..MaxIssued
           /\ DOMAIN file.entries \subseteq 1..LastId(file)
<1> DEFINE below == {a \in Ids : \E b \in DOMAIN file.entries : a <= b}
<1>1. MaxIssued \in Nat
  BY BoundsAssumption
<1>2. IsFiniteSet(Ids) /\ Cardinality(Ids) = MaxIssued
  BY <1>1, FS_Interval DEF Ids
<1>3. IsFiniteSet(below) /\ Cardinality(below) <= MaxIssued
  BY <1>2, FS_Subset
<1>4. Cardinality(below) \in Nat
  BY <1>3, FS_CardinalityType
<1>5. LastId(file) = Cardinality(below)
  BY DEF LastId
<1>6. ASSUME NEW b \in DOMAIN file.entries PROVE b \in 1..Cardinality(below)
  <2>1. b \in Ids
    BY DEF FileOK
  <2>2. b \in Nat \ {0} /\ b <= MaxIssued
    BY <1>1, <2>1 DEF Ids
  <2>3. 1..b \in SUBSET below
    BY <2>2, <1>1 DEF Ids
  <2>4. Cardinality(1..b) = b
    BY <2>2, FS_Interval
  <2>5. b <= Cardinality(below)
    <3> HIDE DEF below
    <3>1. Cardinality(1..b) <= Cardinality(below)
      BY <2>3, <1>3, FS_Subset
    <3> QED BY <3>1, <2>4
  <2> HIDE DEF below
  <2> QED BY <2>2, <2>5, <1>4
<1> HIDE DEF below
<1> QED BY <1>1, <1>3, <1>4, <1>5, <1>6

(* The handles a model has numbered are finitely many.                     *)
LEMMA SlotsAreFinite ==
    ASSUME TypeOK, NEW S
    PROVE  /\ S \subseteq DOMAIN nodes =>
                 /\ S \in SUBSET Nat /\ IsFiniteSet(S)
                 /\ Cardinality(S) \in 0..slots
           /\ S \subseteq DOMAIN curves =>
                 /\ S \in SUBSET Nat /\ IsFiniteSet(S)
                 /\ Cardinality(S) \in 0..curve_slots
<1>1. slots \in Nat /\ curve_slots \in Nat
  BY BoundsAssumption DEF TypeOK
<1>2. /\ IsFiniteSet(1..slots) /\ Cardinality(1..slots) = slots
      /\ IsFiniteSet(1..curve_slots) /\ Cardinality(1..curve_slots) = curve_slots
  BY <1>1, FS_Interval
<1>5. ASSUME NEW T, IsFiniteSet(T), S \in SUBSET T
      PROVE  IsFiniteSet(S) /\ Cardinality(S) <= Cardinality(T)
  BY <1>5, FS_Subset
<1>3. ASSUME S \subseteq DOMAIN nodes
      PROVE  S \in SUBSET Nat /\ IsFiniteSet(S) /\ Cardinality(S) \in 0..slots
  <2>1. S \in SUBSET (1..slots)
    BY <1>3 DEF TypeOK
  <2>2. IsFiniteSet(S) /\ Cardinality(S) <= slots
    <3>1. IsFiniteSet(S) /\ Cardinality(S) <= Cardinality(1..slots)
      BY <1>2, <1>5, <2>1
    <3> QED BY <1>2, <3>1
  <2>3. Cardinality(S) \in Nat
    BY <2>2, FS_CardinalityType
  <2> QED BY <1>1, <2>1, <2>2, <2>3
<1>4. ASSUME S \subseteq DOMAIN curves
      PROVE  S \in SUBSET Nat /\ IsFiniteSet(S) /\ Cardinality(S) \in 0..curve_slots
  <2>1. S \in SUBSET (1..curve_slots)
    BY <1>4 DEF TypeOK
  <2>2. IsFiniteSet(S) /\ Cardinality(S) <= curve_slots
    <3>1. IsFiniteSet(S) /\ Cardinality(S) <= Cardinality(1..curve_slots)
      BY <1>2, <1>5, <2>1
    <3> QED BY <1>2, <3>1
  <2>3. Cardinality(S) \in Nat
    BY <2>2, FS_CardinalityType
  <2> QED BY <1>1, <2>1, <2>2, <2>3
<1> QED BY <1>3, <1>4

(* What the roots reach is in the model.                                   *)
LEMMA BelowIsLive ==
    ASSUME TypeOK, NEW roots, roots \subseteq DOMAIN nodes
    PROVE  Below(roots) \subseteq DOMAIN nodes /\ roots \subseteq Below(roots)
<1> DEFINE next == Children(nodes)
<1>1. DOMAIN next = DOMAIN nodes /\ \A x \in DOMAIN next : next[x] \subseteq DOMAIN next
  BY DEF Children
<1> HIDE DEF next
<1>2. Reach(roots, next) \in Closures(roots, next)
  BY <1>1, ReachIsLeast
<1> QED BY <1>1, <1>2 DEF Below, Closures, next

LEMMA AncestryIsClosed ==
    ASSUME IInv, NEW ids, ids \subseteq DOMAIN sources
    PROVE  /\ ids \subseteq Ancestry(ids)
           /\ Ancestry(ids) \subseteq DOMAIN sources
           /\ \A a \in Ancestry(ids) : sources[a] \subseteq Ancestry(ids)
<1> DEFINE next == Parents(sources)
<1>1. /\ DOMAIN next = DOMAIN sources
      /\ \A x \in DOMAIN next : next[x] \subseteq DOMAIN next
      /\ \A x \in DOMAIN sources : next[x] = sources[x]
  BY DEF Parents, IInv, LineageComplete
<1>2. ids \cap DOMAIN sources = ids
  OBVIOUS
<1> HIDE DEF next
<1>3. Reach(ids, next) \in Closures(ids, next)
  BY <1>1, ReachIsLeast
<1>4. Ancestry(ids) = Reach(ids, next)
  BY <1>2 DEF Ancestry, next
<1> QED BY <1>1, <1>3, <1>4 DEF Closures

(* What is written is a file.                                              *)
LEMMA WrittenIsFile ==
    ASSUME IInv, NEW roots, roots \subseteq DOMAIN nodes, Writes(roots)
    PROVE  /\ FileOK(Written(roots))
           /\ Cardinality(DOMAIN Written(roots).nodes) \in 0..slots
           /\ Cardinality(DOMAIN Written(roots).curves) \in 0..curve_slots
<1> DEFINE S == Chosen(roots)
           C == ChosenCurves(roots)
           file == Written(roots)
<1>1. S \subseteq DOMAIN nodes
  BY BelowIsLive DEF Chosen, IInv
<1>2. C \subseteq DOMAIN curves
  BY DEF Writes, Chosen, ChosenCurves
<1>3. /\ S \in SUBSET Nat /\ IsFiniteSet(S) /\ Cardinality(S) \in 0..slots
      /\ C \in SUBSET Nat /\ IsFiniteSet(C) /\ Cardinality(C) \in 0..curve_slots
  BY <1>1, <1>2, SlotsAreFinite DEF IInv
<1>4. /\ slots \in Nat /\ curve_slots \in Nat
      /\ nodes \in [DOMAIN nodes -> Node]
      /\ curves \in [DOMAIN curves -> Geometry]
      /\ DOMAIN sources \subseteq Ids
      /\ sources \in [DOMAIN sources -> SUBSET Ids]
      /\ identity \in [DOMAIN identity -> Ids]
  BY BoundsAssumption DEF IInv, TypeOK, Ids
<1>5. /\ file.nodes = [k \in Ranks(S) |-> Respelled(nodes[At(S, k)], S, C)]
      /\ file.curves = [k \in Ranks(C) |-> curves[At(C, k)]]
      /\ file.entries = Restrict(sources, ChosenIds(roots))
      /\ file.identity = [k \in {j \in Ranks(S) : At(S, j) \in DOMAIN identity}
                                |-> identity[At(S, k)]]
  BY DEF Written
<1> HIDE DEF S, C, file
<1>6. \A k \in Ranks(S) : At(S, k) \in DOMAIN nodes
  BY <1>1, <1>3, AtIsThere
<1>7. \A k \in Ranks(C) : At(C, k) \in DOMAIN curves
  BY <1>2, <1>3, AtIsThere
<1>8. ASSUME NEW node \in Node PROVE Respelled(node, S, C) \in Node
  <2>1. \A c \in node.children : Rank(S, c) \in Nat \ {0}
    BY <1>3, RankPositive
  <2>2. Rank(C, node.curve) \in Nat
    BY <1>3, RankPositive
  <2>3. {Rank(S, c) : c \in node.children} \in SUBSET (Nat \ {0})
    BY <2>1
  <2>4. (IF node.curve = None THEN None ELSE Rank(C, node.curve)) \in Nat
    BY <2>2 DEF None
  <2> QED BY <2>3, <2>4 DEF Respelled, Node
<1>9. file.nodes \in [1..Cardinality(S) -> Node]
  BY <1>4, <1>5, <1>6, <1>8 DEF Ranks
<1>10. file.curves \in [1..Cardinality(C) -> Geometry]
  BY <1>4, <1>5, <1>7 DEF Ranks
<1>11. ChosenIds(roots) \subseteq DOMAIN sources
  <2>1. IdentitiesOf(Below(roots)) \subseteq DOMAIN sources
    BY DEF IdentitiesOf, IInv, LineageComplete
  <2> QED BY <2>1, AncestryIsClosed DEF ChosenIds
<1>12. /\ DOMAIN file.entries \subseteq Ids
       /\ file.entries \in [DOMAIN file.entries -> SUBSET Ids]
  BY <1>4, <1>5, <1>11 DEF Restrict
<1>13. file.identity \in [DOMAIN file.identity -> Ids]
  BY <1>4, <1>5
<1>14. FileOK(file)
  <2>1. Cardinality(S) \in Nat /\ Cardinality(C) \in Nat
    BY <1>3, <1>4
  <2> QED BY <1>9, <1>10, <1>12, <1>13, <2>1 DEF FileOK
<1>15. /\ DOMAIN file.nodes = 1..Cardinality(S)
       /\ DOMAIN file.curves = 1..Cardinality(C)
  BY <1>9, <1>10
<1>16. /\ Cardinality(1..Cardinality(S)) = Cardinality(S)
       /\ Cardinality(1..Cardinality(C)) = Cardinality(C)
  <2>1. \A n \in Nat : Cardinality(1..n) = n
    BY FS_Interval
  <2>2. Cardinality(S) \in Nat /\ Cardinality(C) \in Nat
    BY <1>3, <1>4
  <2> QED BY <2>1, <2>2
<1> QED BY <1>3, <1>14, <1>15, <1>16 DEF file

-----------------------------------------------------------------------------
(* Tables that grow by a block past their last place.                      *)
LEMMA BeyondIsFunction ==
    ASSUME NEW last \in Nat, NEW f, NEW g, NEW T,
           DOMAIN f \subseteq 1..last, f \in [DOMAIN f -> T],
           DOMAIN g \subseteq Nat \ {0}, g \in [DOMAIN g -> T],
           NEW B, B = Beyond(f, last, g)
    PROVE  /\ DOMAIN B = DOMAIN f \cup {last + k : k \in DOMAIN g}
           /\ B \in [DOMAIN B -> T]
           /\ \A x \in DOMAIN f : B[x] = f[x]
           /\ \A k \in DOMAIN g : B[last + k] = g[k]
<1>1. DOMAIN B = DOMAIN f \cup {last + k : k \in DOMAIN g}
  BY DEF Beyond
<1>2. \A x \in DOMAIN f : B[x] = f[x]
  BY DEF Beyond
<1>3. ASSUME NEW k \in DOMAIN g PROVE B[last + k] = g[k]
  <2>1. k \in Nat \ {0} /\ last + k \notin 1..last /\ (last + k) - last = k
    OBVIOUS
  <2>2. last + k \notin DOMAIN f
    BY <2>1
  <2> QED BY <2>1, <2>2 DEF Beyond
<1>4. \A x \in DOMAIN B : B[x] \in T
  BY <1>1, <1>2, <1>3
<1>5. B = [x \in DOMAIN B |-> B[x]]
  BY DEF Beyond
<1>6. B \in [DOMAIN B -> T]
  BY <1>4, <1>5
<1> QED BY <1>1, <1>2, <1>3, <1>6

-----------------------------------------------------------------------------
(* One lemma for each part of a step.                                      *)
LEMMA InsertKeeps ==
    ASSUME IInv, NEW node \in Node, Insert(node)
    PROVE  /\ slots' \in 0..MaxSlots
           /\ DOMAIN nodes' = DOMAIN nodes \cup {NextSlot}
           /\ DOMAIN nodes' \subseteq 1..slots'
           /\ nodes' \in [DOMAIN nodes' -> Node]
           /\ litter' = litter
<1>1. slots \in Nat /\ slots + 1 \in 1..MaxSlots /\ slots' = slots + 1
  BY BoundsAssumption DEF IInv, TypeOK, Insert, NextSlot, Slots
<1>2. /\ DOMAIN nodes' = DOMAIN nodes \cup {NextSlot}
      /\ nodes' \in [DOMAIN nodes' -> Node]
  <2>1. nodes' = Extended(nodes, NextSlot, node)
    BY DEF Insert
  <2>2. nodes \in [DOMAIN nodes -> Node]
    BY DEF IInv, TypeOK
  <2> QED BY <2>1, <2>2 DEF Extended
<1>3. DOMAIN nodes \subseteq 1..slots
  BY DEF IInv, TypeOK
<1>4. 1..slots \subseteq 1..(slots + 1) /\ NextSlot \in 1..(slots + 1)
  BY <1>1 DEF NextSlot
<1>5. slots' \in 0..MaxSlots
  BY <1>1, BoundsAssumption
<1> QED BY <1>1, <1>2, <1>3, <1>4, <1>5 DEF Insert

LEMMA RecordKeeps ==
    ASSUME IInv, NEW from \in SUBSET DOMAIN sources, NEW i, Record(from, i)
    PROVE  /\ issued' \in 0..MaxIssued
           /\ DOMAIN sources' \subseteq 1..issued'
           /\ sources' \in [DOMAIN sources' -> SUBSET Ids]
           /\ DOMAIN identity' = DOMAIN identity \cup {i}
           /\ identity' \in [DOMAIN identity' -> Ids]
           /\ LineageComplete' /\ DerivedFromEarlier'
<1>1. /\ issued \in Nat /\ issued < MaxIssued /\ MaxIssued \in Nat
      /\ issued' = NextId /\ NextId = issued + 1 /\ NextId \in Ids
  BY BoundsAssumption DEF IInv, TypeOK, Record, NextId, Ids
<1>2. /\ DOMAIN sources \subseteq 1..issued
      /\ \A s \in DOMAIN sources : s \in Nat /\ s < NextId /\ s \in 1..NextId /\ s \in Ids
  BY <1>1 DEF IInv, TypeOK, Ids
<1>3. /\ sources \in [DOMAIN sources -> SUBSET Ids] /\ from \in SUBSET Ids
      /\ identity \in [DOMAIN identity -> Ids]
  BY <1>2 DEF IInv, TypeOK
<1>4. /\ DOMAIN sources' = DOMAIN sources \cup {NextId}
      /\ sources' \in [DOMAIN sources' -> SUBSET Ids]
      /\ sources'[NextId] = from
      /\ \A a \in DOMAIN sources \ {NextId} : sources'[a] = sources[a]
  <2>1. sources' = Extended(sources, NextId, from)
    BY DEF Record
  <2> QED BY <1>3, <2>1 DEF Extended
<1>5. /\ DOMAIN identity' = DOMAIN identity \cup {i}
      /\ identity' \in [DOMAIN identity' -> Ids]
      /\ identity'[i] = NextId
      /\ \A j \in DOMAIN identity \ {i} : identity'[j] = identity[j]
  <2>1. identity' = Extended(identity, i, NextId)
    BY DEF Record
  <2> QED BY <1>1, <1>3, <2>1 DEF Extended
<1>6. LineageComplete'
  BY <1>4, <1>5 DEF IInv, LineageComplete
<1>7. DerivedFromEarlier'
  BY <1>2, <1>4 DEF IInv, DerivedFromEarlier
<1>8. issued' \in 0..MaxIssued /\ NextId \in 1..issued'
  BY <1>1
<1>9. DOMAIN sources' \subseteq 1..issued'
  BY <1>1, <1>2, <1>4, <1>8
<1> QED BY <1>4, <1>5, <1>6, <1>7, <1>8, <1>9

(* Builders and derivations.                                               *)
LEMMA BuildKeeps ==
    ASSUME IInv
    PROVE  /\ \A g \in Geometry : AddCurve(g) => IInv'
           /\ \A p \in Points : AddVertex(p) => IInv'
           /\ \A c \in DOMAIN curves \cup {None}, ends \in Named : AddEdge(c, ends) => IInv'
           /\ \A shapes \in Named : AddCompound(shapes) => IInv'
           /\ \A i \in Usable, from \in Named : SetDerived(i, from) => IInv'
<1>1. \A S \in Named : S \subseteq DOMAIN nodes /\ S \in SUBSET (Nat \ {0})
  BY DEF Named, Usable, IInv, TypeOK
<1>2. \A c \in DOMAIN curves \cup {None} : c \in Nat
  BY DEF None, IInv, TypeOK
<1>3. ASSUME NEW g \in Geometry, AddCurve(g) PROVE IInv'
  <2>1. /\ curve_slots \in Nat /\ curve_slots' = curve_slots + 1
        /\ curve_slots' \in 0..MaxCurves
    BY <1>3, BoundsAssumption DEF IInv, TypeOK, AddCurve
  <2>2. /\ DOMAIN curves' = DOMAIN curves \cup {curve_slots + 1}
        /\ curves' \in [DOMAIN curves' -> Geometry]
    <3>1. curves' = Extended(curves, curve_slots + 1, g)
      BY <1>3 DEF AddCurve
    <3>2. curves \in [DOMAIN curves -> Geometry]
      BY DEF IInv, TypeOK
    <3> QED BY <3>1, <3>2 DEF Extended
  <2>3. DOMAIN curves' \subseteq 1..curve_slots'
    <3>1. 1..curve_slots \subseteq 1..(curve_slots + 1) /\ curve_slots + 1 \in 1..(curve_slots + 1)
      BY <2>1
    <3>2. DOMAIN curves \subseteq 1..curve_slots
      BY DEF IInv, TypeOK
    <3> QED BY <2>1, <2>2, <3>1, <3>2
  <2> QED BY <1>3, <2>1, <2>2, <2>3
        DEF IInv, TypeOK, LineageComplete, DerivedFromEarlier, AddCurve, provenance
<1>4. ASSUME NEW p \in Points, AddVertex(p) PROVE IInv'
  <2> DEFINE node == [kind |-> "vertex", value |-> p, curve |-> None, children |-> {}]
  <2>1. node \in Node
    BY DEF Node, Kinds, None
  <2>2. Insert(node) /\ UNCHANGED <<geometry, provenance, identity>>
    BY <1>4 DEF AddVertex
  <2> HIDE DEF node
  <2> QED BY <2>1, <2>2, InsertKeeps
        DEF IInv, TypeOK, LineageComplete, DerivedFromEarlier, geometry, provenance
<1>5. ASSUME NEW c \in DOMAIN curves \cup {None}, NEW ends \in Named, AddEdge(c, ends)
      PROVE  IInv'
  <2> DEFINE node == [kind |-> "edge", value |-> None, curve |-> c, children |-> ends]
  <2>1. node \in Node
    BY <1>1, <1>2 DEF Node, Kinds, None
  <2>2. Insert(node) /\ Record({}, NextSlot) /\ UNCHANGED geometry
    BY <1>5 DEF AddEdge
  <2> HIDE DEF node
  <2>3. {} \in SUBSET DOMAIN sources
    OBVIOUS
  <2> QED BY <2>1, <2>2, <2>3, InsertKeeps, RecordKeeps DEF IInv, TypeOK, geometry
<1>6. ASSUME NEW shapes \in Named, AddCompound(shapes) PROVE IInv'
  <2> DEFINE node == [kind |-> "compound", value |-> None, curve |-> None, children |-> shapes]
  <2>1. node \in Node
    BY <1>1 DEF Node, Kinds, None
  <2>2. Insert(node) /\ UNCHANGED <<geometry, provenance, identity>>
    BY <1>6 DEF AddCompound
  <2> HIDE DEF node
  <2> QED BY <2>1, <2>2, InsertKeeps
        DEF IInv, TypeOK, LineageComplete, DerivedFromEarlier, geometry, provenance
<1>7. ASSUME NEW i \in Usable, NEW from \in Named, SetDerived(i, from) PROVE IInv'
  <2>1. IdentitiesOf(from) \in SUBSET DOMAIN sources
    BY DEF IdentitiesOf, IInv, LineageComplete
  <2>2. Record(IdentitiesOf(from), i) /\ UNCHANGED <<nodes, slots, geometry, litter>>
    BY <1>7 DEF SetDerived
  <2>3. i \in DOMAIN nodes
    BY DEF Usable
  <2> QED BY <2>1, <2>2, <2>3, RecordKeeps DEF IInv, TypeOK, geometry
<1> QED BY <1>3, <1>4, <1>5, <1>6, <1>7

(* Trimming.                                                               *)
LEMMA RetainKeeps ==
    ASSUME IInv, NEW roots \in Named, RetainReachable(roots)
    PROVE  IInv'
<1> DEFINE kept == Below(roots)
           ids == IdentitiesOf(kept)
           known == Ancestry(ids)
<1>1. kept \subseteq DOMAIN nodes
  BY BelowIsLive DEF Named, Usable, IInv
<1>2. ids \subseteq DOMAIN sources
  BY DEF IdentitiesOf, IInv, LineageComplete
<1>3. /\ ids \subseteq known /\ known \subseteq DOMAIN sources
      /\ \A a \in known : sources[a] \subseteq known
  BY <1>2, AncestryIsClosed
<1>4. \A i \in kept \cap DOMAIN identity : identity[i] \in ids
  BY DEF IdentitiesOf
<1>5. /\ nodes' = [i \in kept |-> nodes[i]]
      /\ \E C \in SUBSET DOMAIN curves : curves' = [c \in C |-> curves[c]]
      /\ sources' = [a \in known |-> sources[a]]
      /\ identity' = [i \in kept \cap DOMAIN identity |-> identity[i]]
      /\ litter' = litter \cap kept
      /\ UNCHANGED <<slots, curve_slots, issued>>
  BY DEF RetainReachable, Restrict
<1> HIDE DEF kept, ids, known
<1>6. TypeOK'
  <2>1. DOMAIN nodes' \subseteq 1..slots' /\ nodes' \in [DOMAIN nodes' -> Node]
    BY <1>1, <1>5 DEF IInv, TypeOK
  <2>2. DOMAIN curves' \subseteq 1..curve_slots' /\ curves' \in [DOMAIN curves' -> Geometry]
    BY <1>5 DEF IInv, TypeOK
  <2>3. DOMAIN sources' \subseteq 1..issued' /\ sources' \in [DOMAIN sources' -> SUBSET Ids]
    BY <1>3, <1>5 DEF IInv, TypeOK
  <2>4. /\ DOMAIN identity' \subseteq DOMAIN nodes' /\ identity' \in [DOMAIN identity' -> Ids]
        /\ litter' \subseteq DOMAIN nodes'
    BY <1>5 DEF IInv, TypeOK
  <2>5. slots' \in 0..MaxSlots /\ curve_slots' \in 0..MaxCurves /\ issued' \in 0..MaxIssued
    BY <1>5 DEF IInv, TypeOK
  <2> QED BY <2>1, <2>2, <2>3, <2>4, <2>5 DEF TypeOK
<1>7. LineageComplete'
  BY <1>3, <1>4, <1>5 DEF LineageComplete
<1>8. DerivedFromEarlier'
  BY <1>3, <1>5 DEF IInv, DerivedFromEarlier
<1> QED BY <1>6, <1>7, <1>8 DEF IInv

(* A damaged file can still be read as far as it is.                       *)
LEMMA DamagedIsFile ==
    ASSUME NEW ns, NEW cs, NEW es, NEW ids, NEW rs, NEW file,
           file = [nodes |-> ns, curves |-> cs, entries |-> es, identity |-> ids, roots |-> rs],
           FileOK(file), NEW damage \in Damages, NEW read \in Damaged(file, damage)
    PROVE  FileOK(read)
<1>1. PICK n \in Nat : ns \in [1..n -> Node]
  BY DEF FileOK
<1>2. DOMAIN ns = 1..n /\ Cardinality(1..n) = n
  BY <1>1, FS_Interval
<1> DEFINE missing == Cardinality(DOMAIN file.nodes) + 1
<1>3. missing \in Nat \ {0}
  BY <1>2
<1> HIDE DEF missing
<1>4. CASE damage = "none"
  BY <1>4 DEF Damaged
<1>5. CASE damage = "root"
  <2>1. read = [file EXCEPT !.roots = {missing}]
    BY <1>5 DEF Damaged, missing
  <2>2. /\ read.nodes = file.nodes /\ read.curves = file.curves
        /\ read.entries = file.entries /\ read.identity = file.identity
    BY <2>1
  <2> QED BY <2>2 DEF FileOK
<1>6. CASE damage = "child"
  <2>1. PICK i \in DOMAIN file.nodes :
           read = [file EXCEPT !.nodes[i].children = @ \cup {missing}]
    BY <1>6 DEF Damaged, missing
  <2>2. /\ read.nodes = [ns EXCEPT ![i].children = @ \cup {missing}]
        /\ read.curves = file.curves
        /\ read.entries = file.entries /\ read.identity = file.identity
    BY <2>1
  <2>3. read.nodes \in [1..n -> Node]
    <3>1. ns[i] \in Node /\ i \in 1..n
      BY <1>1, <1>2, <2>1
    <3>2. [ns[i] EXCEPT !.children = @ \cup {missing}] \in Node
      BY <1>3, <3>1 DEF Node
    <3> QED BY <1>1, <2>2, <3>1, <3>2
  <2> QED BY <2>2, <2>3 DEF FileOK
<1> QED BY <1>4, <1>5, <1>6, DamagesAssumption

(* Reading.  The identity table as it stands after a file's entries, and a *)
(* primitive for each identity the file skips, have been recorded.         *)
LEMMA RecordedIsTable ==
    ASSUME IInv, NEW file, FileOK(file), Recordable(file), issued + LastId(file) <= MaxIssued
    PROVE  /\ DOMAIN Recorded(file) =
                 DOMAIN sources \cup {issued + a : a \in 1..LastId(file)}
           /\ Recorded(file) \in [DOMAIN Recorded(file) -> SUBSET Ids]
           /\ \A a \in DOMAIN sources : Recorded(file)[a] = sources[a]
           /\ \A a \in DOMAIN file.entries :
                 /\ a \in 1..LastId(file)
                 /\ file.entries[a] \subseteq DOMAIN file.entries
                 /\ Recorded(file)[issued + a] = {issued + s : s \in file.entries[a]}
           /\ \A a \in Gaps(file) : a \in 1..LastId(file) /\ Recorded(file)[issued + a] = {}
<1> DEFINE L == LastId(file)
           tab == [a \in 1..L |-> ShiftedSources(Table(file)[a])]
<1>1. L \in Nat /\ DOMAIN file.entries \subseteq 1..L
  BY TableCovers, BoundsAssumption
<1>2. issued \in Nat /\ DOMAIN sources \subseteq 1..issued /\ MaxIssued \in Nat
      /\ sources \in [DOMAIN sources -> SUBSET Ids]
  BY BoundsAssumption DEF IInv, TypeOK
<1>3. Gaps(file) \subseteq 1..L /\ 1..L = Gaps(file) \cup DOMAIN file.entries
      /\ Gaps(file) \cap DOMAIN file.entries = {}
  BY <1>1 DEF Gaps
<1>4. ASSUME NEW a \in DOMAIN file.entries
      PROVE  /\ a \in 1..L
             /\ file.entries[a] \subseteq DOMAIN file.entries
             /\ tab[a] = {issued + s : s \in file.entries[a]}
  <2>1. a \in 1..L
    BY <1>1
  <2>2. ASSUME NEW s \in file.entries[a] PROVE s \in DOMAIN file.entries
    <3>1. s \in Nat \ {0} /\ s < a /\ s \notin Gaps(file)
      BY DEF FileOK, Ids, Recordable
    <3>2. s \in 1..L
      BY <1>1, <2>1, <3>1
    <3> QED BY <1>3, <3>1, <3>2
  <2>3. tab[a] = {issued + s : s \in file.entries[a]}
    BY <1>3, <2>1 DEF Table, ShiftedSources, IdOffset
  <2> QED BY <2>1, <2>2, <2>3
<1>5. ASSUME NEW a \in Gaps(file) PROVE a \in 1..L /\ tab[a] = {}
  BY <1>3 DEF Table, ShiftedSources
<1>6. tab \in [1..L -> SUBSET Ids]
  <2>1. ASSUME NEW s \in 1..L PROVE issued + s \in Ids
    <3>1. issued + L <= MaxIssued
      OBVIOUS
    <3> HIDE DEF L
    <3>2. issued + s >= 1 /\ issued + s <= issued + L /\ issued + s \in Nat
      BY <1>1, <1>2
    <3> QED BY <1>1, <1>2, <3>1, <3>2 DEF Ids
  <2>2. \A a \in 1..L : tab[a] \in SUBSET Ids
    <3> HIDE DEF tab, L
    <3> QED BY <1>1, <1>3, <1>4, <1>5, <2>1
  <2> HIDE DEF L
  <2> QED BY <2>2
<1>7. Recorded(file) = Beyond(sources, issued, tab)
  BY DEF Recorded, IdOffset
<1> HIDE DEF tab, L
<1>8. DOMAIN tab = 1..L /\ 1..L \subseteq Nat \ {0} /\ tab \in [DOMAIN tab -> SUBSET Ids]
  BY <1>1, <1>6
<1>9. /\ DOMAIN Recorded(file) = DOMAIN sources \cup {issued + k : k \in DOMAIN tab}
      /\ Recorded(file) \in [DOMAIN Recorded(file) -> SUBSET Ids]
      /\ \A x \in DOMAIN sources : Recorded(file)[x] = sources[x]
      /\ \A k \in DOMAIN tab : Recorded(file)[issued + k] = tab[k]
  <2> DEFINE T == SUBSET Ids
  <2>1. sources \in [DOMAIN sources -> T] /\ tab \in [DOMAIN tab -> T]
    BY <1>2, <1>8
  <2> HIDE DEF T
  <2>2. /\ DOMAIN Recorded(file) = DOMAIN sources \cup {issued + k : k \in DOMAIN tab}
        /\ Recorded(file) \in [DOMAIN Recorded(file) -> T]
        /\ \A x \in DOMAIN sources : Recorded(file)[x] = sources[x]
        /\ \A k \in DOMAIN tab : Recorded(file)[issued + k] = tab[k]
    <3>1. DOMAIN tab \subseteq Nat \ {0} /\ DOMAIN sources \subseteq 1..issued /\ issued \in Nat
      BY <1>2, <1>8
    <3> QED BY <1>7, <2>1, <3>1, BeyondIsFunction
  <2> QED BY <2>2 DEF T
<1> QED BY <1>4, <1>5, <1>8, <1>9 DEF L

(* A reading, whether it is taken in or fails half way.                    *)
LEMMA ReadKeeps ==
    ASSUME IInv, NEW file, FileOK(file), ReadInto(file)
    PROVE  IInv'
<1> DEFINE L == LastId(file)
           R == Recorded(file)
           taken == Restorable(file) /\ RootsThere(file)
           gone == {IdOffset + a : a \in Gaps(file)}
           K == IF taken THEN DOMAIN R \ gone ELSE DOMAIN R
           read == [k \in DOMAIN file.nodes |-> Shifted(file.nodes[k])]
           named == [i \in DOMAIN file.identity |-> IdOffset + file.identity[i]]
<1>1. PICK n \in Nat, m \in Nat :
         file.nodes \in [1..n -> Node] /\ file.curves \in [1..m -> Geometry]
  BY DEF FileOK
<1>2. /\ DOMAIN file.nodes = 1..n /\ Cardinality(DOMAIN file.nodes) = n
      /\ DOMAIN file.curves = 1..m /\ Cardinality(DOMAIN file.curves) = m
  <2>1. DOMAIN file.nodes = 1..n /\ DOMAIN file.curves = 1..m
    BY <1>1
  <2>2. Cardinality(1..n) = n /\ Cardinality(1..m) = m
    BY FS_Interval
  <2> QED BY <2>1, <2>2
<1>3. /\ slots \in Nat /\ curve_slots \in Nat /\ issued \in Nat
      /\ MaxSlots \in Nat /\ MaxCurves \in Nat /\ MaxIssued \in Nat
  BY BoundsAssumption DEF IInv, TypeOK
<1>4. /\ Recordable(file) /\ issued + L <= MaxIssued
      /\ slots + n <= MaxSlots /\ slots' = slots + n
      /\ curve_slots + m <= MaxCurves /\ curve_slots' = curve_slots + m
      /\ nodes' = Beyond(nodes, slots, read)
      /\ curves' = Beyond(curves, curve_slots, file.curves)
      /\ issued' = issued + L
      /\ sources' = IF taken THEN Restrict(R, DOMAIN R \ gone) ELSE R
      /\ identity' = IF Restorable(file) THEN Beyond(identity, slots, named) ELSE identity
      /\ litter' = IF taken THEN litter ELSE litter \cup {slots + i : i \in DOMAIN file.nodes}
  BY <1>2 DEF ReadInto
<1>5. L \in Nat
  BY <1>3, TableCovers
<1>6. /\ DOMAIN R = DOMAIN sources \cup {issued + a : a \in 1..L}
      /\ R \in [DOMAIN R -> SUBSET Ids]
      /\ \A a \in DOMAIN sources : R[a] = sources[a]
      /\ \A a \in DOMAIN file.entries :
            /\ a \in 1..L /\ file.entries[a] \subseteq DOMAIN file.entries
            /\ R[issued + a] = {issued + s : s \in file.entries[a]}
      /\ \A a \in Gaps(file) : a \in 1..L /\ R[issued + a] = {}
  BY <1>4, RecordedIsTable
<1>7. 1..L = DOMAIN file.entries \cup Gaps(file) /\ DOMAIN file.entries \cap Gaps(file) = {}
  BY <1>6 DEF Gaps
<1>8. gone = {issued + a : a \in Gaps(file)}
  BY DEF IdOffset
<1>9. /\ DOMAIN file.identity = DOMAIN named
      /\ \A i \in DOMAIN file.identity : named[i] = issued + file.identity[i]
  BY DEF IdOffset
<1>10. read \in [1..n -> Node]
  <2>1. ASSUME NEW node \in Node PROVE Shifted(node) \in Node
    <3>1. {slots + c : c \in node.children} \in SUBSET (Nat \ {0})
      BY <1>3 DEF Node
    <3>2. (IF node.curve = None THEN None ELSE curve_slots + node.curve) \in Nat
      BY <1>3 DEF Node, None
    <3> QED BY <3>1, <3>2 DEF Shifted, Node
  <2> QED BY <1>1, <1>2, <2>1
<1>11. K = DOMAIN sources'
       /\ sources' = [a \in K |-> R[a]]
       /\ K \subseteq DOMAIN R
  BY <1>4, <1>6 DEF Restrict
<1>12. DOMAIN sources \subseteq K /\ \A a \in DOMAIN sources : a \in 1..issued
  <2>1. \A a \in DOMAIN sources : a \in 1..issued
    BY DEF IInv, TypeOK
  <2>2. \A a \in Gaps(file) : issued + a \notin 1..issued
    BY <1>3, <1>5, <1>6
  <2>3. \A x \in gone : x \notin 1..issued
    BY <1>8, <2>2
  <2> HIDE DEF gone, R, taken
  <2> QED BY <1>6, <2>1, <2>3
<1>13. \A a \in DOMAIN file.entries : issued + a \in K
  <2>1. ASSUME NEW a \in DOMAIN file.entries PROVE issued + a \notin gone
    <3>1. \A g \in Gaps(file) : g # a /\ g \in Nat /\ a \in Nat
      BY <1>5, <1>6, <1>7
    <3>2. \A g \in Gaps(file) : issued + g # issued + a
      BY <1>3, <3>1
    <3> QED BY <1>8, <3>2
  <2> HIDE DEF gone, R, taken
  <2> QED BY <1>6, <2>1
<1>14. \A i \in DOMAIN file.identity : Restorable(file) =>
          file.identity[i] \in 1..L /\ file.identity[i] \in DOMAIN file.entries
  <2>1. \A i \in DOMAIN file.identity : file.identity[i] \in Nat \ {0}
    BY <1>3 DEF FileOK, Ids
  <2>2. \A i \in DOMAIN file.identity : file.identity[i] \notin Gaps(file)
    BY <1>4 DEF Recordable
  <2>3. \A i \in DOMAIN file.identity : Restorable(file) => file.identity[i] <= L
    BY DEF Restorable
  <2> QED BY <1>5, <1>7, <2>1, <2>2, <2>3
<1> HIDE DEF L, R, gone, taken, K, read, named
<1>20. DOMAIN nodes' \subseteq 1..slots' /\ nodes' \in [DOMAIN nodes' -> Node]
       /\ DOMAIN nodes' = DOMAIN nodes \cup {slots + k : k \in 1..n}
  <2>1. /\ DOMAIN read = 1..n /\ DOMAIN read \subseteq Nat \ {0} /\ read \in [DOMAIN read -> Node]
        /\ DOMAIN nodes \subseteq 1..slots /\ nodes \in [DOMAIN nodes -> Node]
    BY <1>1, <1>10 DEF IInv, TypeOK
  <2>2. /\ DOMAIN nodes' = DOMAIN nodes \cup {slots + k : k \in DOMAIN read}
        /\ nodes' \in [DOMAIN nodes' -> Node]
    <3>1. nodes' = Beyond(nodes, slots, read)
      BY <1>4
    <3>2. slots \in Nat
      BY <1>3
    <3> QED BY <2>1, <3>1, <3>2, BeyondIsFunction
  <2>3. 1..slots \subseteq 1..(slots + n) /\ \A k \in 1..n : slots + k \in 1..(slots + n)
    BY <1>1, <1>3
  <2> QED BY <1>4, <2>1, <2>2, <2>3
<1>21. DOMAIN curves' \subseteq 1..curve_slots' /\ curves' \in [DOMAIN curves' -> Geometry]
  <2>1. /\ DOMAIN file.curves \subseteq Nat \ {0} /\ file.curves \in [DOMAIN file.curves -> Geometry]
        /\ DOMAIN curves \subseteq 1..curve_slots /\ curves \in [DOMAIN curves -> Geometry]
    BY <1>1, <1>2 DEF IInv, TypeOK
  <2>2. /\ DOMAIN curves' = DOMAIN curves \cup {curve_slots + k : k \in DOMAIN file.curves}
        /\ curves' \in [DOMAIN curves' -> Geometry]
    <3>1. curves' = Beyond(curves, curve_slots, file.curves)
      BY <1>4
    <3>2. /\ DOMAIN curves' = DOMAIN curves \cup {curve_slots + k : k \in DOMAIN file.curves}
          /\ curves' = [x \in DOMAIN curves' |->
                           IF x \in DOMAIN curves THEN curves[x] ELSE file.curves[x - curve_slots]]
      BY <3>1 DEF Beyond
    <3>3. \A k \in DOMAIN file.curves : (curve_slots + k) - curve_slots = k
      BY <1>2, <1>3
    <3>4. \A x \in DOMAIN curves' : curves'[x] \in Geometry
      BY <2>1, <3>2, <3>3
    <3> QED BY <3>2, <3>4
  <2>3. 1..curve_slots \subseteq 1..(curve_slots + m)
        /\ \A k \in 1..m : curve_slots + k \in 1..(curve_slots + m)
    BY <1>1, <1>3
  <2> QED BY <1>2, <1>4, <2>1, <2>2, <2>3
<1>22. DOMAIN sources' \subseteq 1..issued' /\ sources' \in [DOMAIN sources' -> SUBSET Ids]
  <2>1. 1..issued \subseteq 1..(issued + L) /\ \A a \in 1..L : issued + a \in 1..(issued + L)
    BY <1>3, <1>5
  <2>2. DOMAIN R \subseteq 1..(issued + L)
    BY <1>6, <1>12, <2>1
  <2>3. \A a \in K : R[a] \in SUBSET Ids
    BY <1>6, <1>11
  <2> QED BY <1>4, <1>11, <2>2, <2>3
<1>23. /\ DOMAIN identity' \subseteq DOMAIN nodes'
       /\ identity' \in [DOMAIN identity' -> Ids]
       /\ \A i \in DOMAIN identity' : identity'[i] \in K
  <2>1. /\ DOMAIN identity \subseteq DOMAIN nodes /\ identity \in [DOMAIN identity -> Ids]
        /\ \A i \in DOMAIN identity : identity[i] \in K
    BY <1>12 DEF IInv, TypeOK, LineageComplete
  <2>2. CASE ~Restorable(file)
    BY <1>4, <1>20, <2>1, <2>2
  <2>3. CASE Restorable(file)
    <3>1. /\ DOMAIN named \subseteq 1..n /\ 1..n \subseteq Nat \ {0}
      BY <1>1, <1>2, <1>9, <2>3 DEF Restorable
    <3>2. \A i \in DOMAIN named : named[i] \in K
      BY <1>9, <1>13, <1>14, <2>3
    <3>3. \A x \in K : x \in Ids
      <4>1. \A x \in K : x \in 1..(issued + L)
        BY <1>4, <1>11, <1>22
      <4> QED BY <1>3, <1>4, <1>5, <4>1 DEF Ids
    <3>4. named \in [DOMAIN named -> K] /\ identity \in [DOMAIN identity -> K]
      <4>1. named = [i \in DOMAIN named |-> named[i]]
        BY DEF named
      <4> QED BY <2>1, <3>2, <4>1
    <3>5. /\ DOMAIN identity \subseteq 1..slots /\ DOMAIN named \subseteq Nat \ {0}
      BY <2>1, <3>1 DEF IInv, TypeOK
    <3>6. /\ DOMAIN identity' = DOMAIN identity \cup {slots + k : k \in DOMAIN named}
          /\ identity' \in [DOMAIN identity' -> K]
      <4>1. identity' = Beyond(identity, slots, named)
        BY <1>4, <2>3
      <4>2. slots \in Nat
        BY <1>3
      <4> QED BY <3>4, <3>5, <4>1, <4>2, BeyondIsFunction
    <3>7. DOMAIN identity' \subseteq DOMAIN nodes'
      BY <1>20, <2>1, <3>1, <3>6
    <3> QED BY <3>3, <3>6, <3>7
  <2> QED BY <2>2, <2>3
<1>24. litter' \subseteq DOMAIN nodes'
  <2>1. litter \subseteq DOMAIN nodes
    BY DEF IInv, TypeOK
  <2> QED BY <1>2, <1>4, <1>20, <2>1
<1>25. slots' \in 0..MaxSlots /\ curve_slots' \in 0..MaxCurves /\ issued' \in 0..MaxIssued
  BY <1>1, <1>3, <1>4, <1>5
<1>26. TypeOK'
  BY <1>20, <1>21, <1>22, <1>23, <1>24, <1>25 DEF TypeOK
<1>27. ASSUME NEW a \in K
       PROVE  sources'[a] \subseteq K /\ \A s \in sources'[a] : s < a
  <2>1. a \in DOMAIN sources \/ \E b \in 1..L : a = issued + b
    BY <1>6, <1>11
  <2>2. CASE a \in DOMAIN sources
    BY <1>6, <1>11, <1>12, <2>2 DEF IInv, LineageComplete, DerivedFromEarlier
  <2>3. ASSUME NEW b \in DOMAIN file.entries, a = issued + b
        PROVE  sources'[a] \subseteq K /\ \A s \in sources'[a] : s < a
    <3>1. sources'[a] = {issued + s : s \in file.entries[b]}
      BY <1>6, <1>11, <2>3
    <3>2. ASSUME NEW s \in file.entries[b] PROVE issued + s \in K /\ issued + s < a
      <4>1. s \in DOMAIN file.entries /\ s < b
        BY <1>4, <1>6 DEF Recordable
      <4>2. s \in Nat /\ b \in Nat
        BY <1>5, <1>6, <4>1
      <4>3. issued + s < issued + b
        BY <1>3, <4>1, <4>2
      <4> QED BY <1>13, <2>3, <4>1, <4>3
    <3> QED BY <3>1, <3>2
  <2>4. ASSUME NEW b \in Gaps(file), a = issued + b PROVE sources'[a] = {}
    BY <1>6, <1>11, <2>4
  <2> QED BY <1>7, <2>1, <2>2, <2>3, <2>4
<1>28. LineageComplete'
  BY <1>11, <1>23, <1>27 DEF LineageComplete
<1>29. DerivedFromEarlier'
  BY <1>11, <1>27 DEF DerivedFromEarlier
<1> QED BY <1>26, <1>28, <1>29 DEF IInv

(* A compaction starts over from what the roots reach.                     *)
LEMMA CompactKeeps ==
    ASSUME IInv, NEW roots \in Named, Compact(roots)
    PROVE  IInv'
<1> DEFINE file == Written(roots)
<1>1. roots \subseteq DOMAIN nodes
  BY DEF Named, Usable
<1>2. /\ FileOK(file)
      /\ Cardinality(DOMAIN file.nodes) \in 0..slots
      /\ Cardinality(DOMAIN file.curves) \in 0..curve_slots
  BY <1>1, WrittenIsFile DEF Compact
<1>3. /\ slots \in Nat /\ curve_slots \in Nat /\ slots <= MaxSlots /\ curve_slots <= MaxCurves
      /\ MaxSlots \in Nat /\ MaxCurves \in Nat /\ MaxIssued \in Nat
  BY BoundsAssumption DEF IInv, TypeOK
<1>4. LastId(file) \in 0..MaxIssued /\ DOMAIN file.entries \subseteq 1..LastId(file)
  BY <1>2, TableCovers
<1>5. Recordable(file) /\ Restorable(file)
  BY DEF Compact, Reads
<1>6. /\ nodes' = file.nodes /\ slots' = Cardinality(DOMAIN file.nodes)
      /\ curves' = file.curves /\ curve_slots' = Cardinality(DOMAIN file.curves)
      /\ sources' = file.entries /\ issued' = LastId(file)
      /\ identity' = file.identity /\ litter' = {}
  BY DEF Compact
<1> HIDE DEF file
<1>7. PICK n \in Nat, m \in Nat :
         file.nodes \in [1..n -> Node] /\ file.curves \in [1..m -> Geometry]
  BY <1>2 DEF FileOK
<1>8. /\ DOMAIN file.nodes = 1..n /\ Cardinality(DOMAIN file.nodes) = n
      /\ DOMAIN file.curves = 1..m /\ Cardinality(DOMAIN file.curves) = m
  <2>1. DOMAIN file.nodes = 1..n /\ DOMAIN file.curves = 1..m
    BY <1>7
  <2>2. Cardinality(1..n) = n /\ Cardinality(1..m) = m
    BY FS_Interval
  <2> QED BY <2>1, <2>2
<1>9. /\ slots' \in 0..MaxSlots /\ DOMAIN nodes' \subseteq 1..slots'
      /\ nodes' \in [DOMAIN nodes' -> Node]
      /\ curve_slots' \in 0..MaxCurves /\ DOMAIN curves' \subseteq 1..curve_slots'
      /\ curves' \in [DOMAIN curves' -> Geometry]
  BY <1>2, <1>3, <1>6, <1>7, <1>8
<1>10. /\ issued' \in 0..MaxIssued /\ DOMAIN sources' \subseteq 1..issued'
       /\ sources' \in [DOMAIN sources' -> SUBSET Ids]
       /\ DOMAIN identity' \subseteq DOMAIN nodes' /\ identity' \in [DOMAIN identity' -> Ids]
       /\ litter' \subseteq DOMAIN nodes'
  BY <1>2, <1>4, <1>5, <1>6 DEF FileOK, Restorable
<1>11. TypeOK'
  BY <1>9, <1>10 DEF TypeOK
<1>12. \A a \in 1..LastId(file) : a \notin Gaps(file) => a \in DOMAIN file.entries
  BY DEF Gaps
<1>13. ASSUME NEW i \in DOMAIN file.identity PROVE file.identity[i] \in DOMAIN file.entries
  <2>1. file.identity[i] \in Nat \ {0} /\ file.identity[i] <= LastId(file)
    BY <1>2, <1>3, <1>5 DEF FileOK, Restorable, Ids
  <2>2. file.identity[i] \notin Gaps(file)
    BY <1>5 DEF Recordable
  <2> QED BY <1>3, <1>4, <1>12, <2>1, <2>2
<1>14. ASSUME NEW a \in DOMAIN file.entries
       PROVE  file.entries[a] \subseteq DOMAIN file.entries /\ \A s \in file.entries[a] : s < a
  <2>1. ASSUME NEW s \in file.entries[a] PROVE s \in DOMAIN file.entries /\ s < a
    <3>1. s \in Nat \ {0} /\ s < a /\ s \notin Gaps(file)
      BY <1>2, <1>3, <1>5 DEF FileOK, Recordable, Ids
    <3>2. a \in 1..LastId(file) /\ LastId(file) \in Nat
      BY <1>3, <1>4
    <3>3. s \in 1..LastId(file)
      BY <3>1, <3>2
    <3> QED BY <1>12, <3>1, <3>3
  <2> QED BY <2>1
<1>15. LineageComplete'
  BY <1>6, <1>13, <1>14 DEF LineageComplete
<1>16. DerivedFromEarlier'
  BY <1>6, <1>14 DEF DerivedFromEarlier
<1> QED BY <1>11, <1>15, <1>16 DEF IInv

(* A document taken in from this one, as written or damaged.               *)
LEMMA TakeInKeeps ==
    ASSUME IInv, NEW root \in Usable, NEW damage \in Damages, Writes({root}),
           NEW read \in Damaged(Written({root}), damage), ReadInto(read)
    PROVE  IInv'
<1> DEFINE file == Written({root})
<1>1. FileOK(file)
  BY WrittenIsFile DEF Usable
<1>2. file = [nodes |-> file.nodes, curves |-> file.curves, entries |-> file.entries,
              identity |-> file.identity, roots |-> file.roots]
  BY DEF Written
<1>3. read \in Damaged(file, damage)
  OBVIOUS
<1> HIDE DEF file
<1>4. FileOK(read)
  BY <1>1, <1>2, <1>3, DamagedIsFile
<1> QED BY <1>4, ReadKeeps

-----------------------------------------------------------------------------
(* The invariant is inductive.                                             *)
THEOREM Inductive == Spec => []IInv
<1>1. Init => IInv
  BY BoundsAssumption
     DEF Init, IInv, TypeOK, LineageComplete, DerivedFromEarlier
<1>2. IInv /\ [Next]_vars => IInv'
  <2>1. SUFFICES ASSUME IInv, [Next]_vars PROVE IInv'
    OBVIOUS
  <2>2. ASSUME NEW g \in Geometry, AddCurve(g) PROVE IInv'
    BY <2>1, <2>2, BuildKeeps
  <2>10. ASSUME NEW p \in Points, AddVertex(p) PROVE IInv'
    BY <2>1, <2>10, BuildKeeps
  <2>3. ASSUME NEW c \in DOMAIN curves \cup {None}, NEW ends \in Named, AddEdge(c, ends)
        PROVE  IInv'
    BY <2>1, <2>3, BuildKeeps
  <2>4. ASSUME NEW shapes \in Named, AddCompound(shapes) PROVE IInv'
    BY <2>1, <2>4, BuildKeeps
  <2>5. ASSUME NEW i \in Usable, NEW from \in Named, SetDerived(i, from) PROVE IInv'
    BY <2>1, <2>5, BuildKeeps
  <2>6. ASSUME NEW roots \in Named, RetainReachable(roots) PROVE IInv'
    BY <2>1, <2>6, RetainKeeps
  <2>7. ASSUME NEW root \in Usable, NEW damage \in Damages, Writes({root}),
               NEW file \in Damaged(Written({root}), damage), ReadInto(file)
        PROVE  IInv'
    BY <2>1, <2>7, TakeInKeeps
  <2>8. ASSUME NEW roots \in Named, Compact(roots) PROVE IInv'
    BY <2>1, <2>8, CompactKeeps
  <2>9. CASE UNCHANGED vars
    BY <2>1, <2>9
       DEF IInv, TypeOK, LineageComplete, DerivedFromEarlier, vars, geometry, provenance
  <2> QED BY <2>1, <2>2, <2>3, <2>4, <2>5, <2>6, <2>7, <2>8, <2>9, <2>10 DEF Next
<1> QED BY <1>1, <1>2, PTL DEF Spec

(* The model's tables agree with one another through every operation: a    *)
(* node that is gone has no identity, and every identity was issued.       *)
THEOREM TypeCorrect == Spec => []TypeOK
<1>1. IInv => TypeOK
  BY DEF IInv
<1> QED BY <1>1, Inductive, PTL

(* Every identity a node carries has an entry, and so has everything it    *)
(* derives from, however often documents of any size are trimmed, written, *)
(* compacted and taken in, and whichever of the readings fail.             *)
THEOREM LineageIsComplete == Spec => []LineageComplete
<1>1. IInv => LineageComplete
  BY DEF IInv
<1> QED BY <1>1, Inductive, PTL

(* Whatever offsets documents are taken in at, an entity derives only from *)
(* entities issued before it, so a lineage never comes back to itself.     *)
THEOREM DerivesFromEarlier == Spec => []DerivedFromEarlier
<1>1. IInv => DerivedFromEarlier
  BY DEF IInv
<1> QED BY <1>1, Inductive, PTL

-----------------------------------------------------------------------------
(* A set of naturals that has a member has a least one.                    *)
LEMMA HasLeast ==
    ASSUME NEW T \in SUBSET Nat, T # {}
    PROVE  \E x \in T : \A y \in T : ~(y < x)
<1>1. \E x \in T : \A y \in T : ~(<<y, x>> \in OpToRel(<, Nat))
  BY NatLessThanWellFounded, WFMin
<1> QED BY <1>1 DEF OpToRel

-----------------------------------------------------------------------------
(* Meanings.  Nodes are ranked when each is above its children; what a     *)
(* node means is then well defined.                                        *)
Parts(ns, i) == ns[i].children \cap DOMAIN ns

Ranked(ns, m, top) ==
    /\ m \in [DOMAIN ns -> 0..top]
    /\ \A i \in DOMAIN ns : \A c \in Parts(ns, i) : m[c] < m[i]

Acyclic(ns) == \E top \in Nat : \E m : Ranked(ns, m, top)

(* The geometry a node names.                                              *)
Shown(ns, cs, i) == IF ns[i].curve \in DOMAIN cs THEN cs[ns[i].curve] ELSE None

Meaning(ns, cs, f, i) ==
    [kind |-> ns[i].kind, value |-> ns[i].value, curve |-> Shown(ns, cs, i),
     parts |-> {f[c] : c \in Parts(ns, i)}]

MeansAlong(f, ns, cs) == f = [i \in DOMAIN ns |-> Meaning(ns, cs, f, i)]

(* The nodes ranked below n have their meanings, by induction on n.        *)
LEMMA MeaningsExist ==
    ASSUME NEW ns, NEW cs, Acyclic(ns)
    PROVE  \E f : MeansAlong(f, ns, cs)
<1>1. PICK top \in Nat : \E m : Ranked(ns, m, top)
  BY DEF Acyclic
<1>2. PICK m : Ranked(ns, m, top)
  BY <1>1
<1>3. /\ m \in [DOMAIN ns -> 0..top]
      /\ \A i \in DOMAIN ns : \A c \in Parts(ns, i) : c \in DOMAIN ns /\ m[c] < m[i]
  BY <1>2 DEF Ranked, Parts
<1> DEFINE Low(n) == {i \in DOMAIN ns : m[i] < n}
           On(f, n) == f = [i \in Low(n) |-> Meaning(ns, cs, f, i)]
           T == {n \in 0..(top + 1) : ~\E f : On(f, n)}
<1>4. T = {}
  <2> SUFFICES ASSUME T # {} PROVE FALSE
    OBVIOUS
  <2>1. PICK n \in T : \A k \in T : ~(k < n)
    <3>1. T \in SUBSET Nat
      OBVIOUS
    <3> HIDE DEF T
    <3> QED BY <3>1, HasLeast
  <2>2. n \in 0..(top + 1) /\ ~\E f : On(f, n)
    OBVIOUS
  <2>3. CASE n = 0
    <3>1. Low(0) = {}
      BY <1>3
    <3>2. On([i \in {} |-> 0], 0)
      BY <3>1, Zenon
    <3> QED BY <2>2, <2>3, <3>2
  <2>4. CASE n # 0
    <3>1. n - 1 \in 0..(top + 1) /\ n - 1 < n
      BY <2>2, <2>4
    <3>2. PICK g : On(g, n - 1)
      BY <2>1, <3>1
    <3>3. \A i \in Low(n) : \A c \in Parts(ns, i) : c \in Low(n - 1) /\ c \in Low(n)
      BY <1>3, <2>2
    <3>4. \A i \in Low(n - 1) : i \in Low(n) /\ g[i] = Meaning(ns, cs, g, i)
      <4>1. \A i \in Low(n - 1) : i \in Low(n)
        BY <1>3, <2>2
      <4>2. \A i \in Low(n - 1) : g[i] = Meaning(ns, cs, g, i)
        BY <3>2, Zenon
      <4> QED BY <4>1, <4>2
    <3> DEFINE f == [i \in Low(n) |-> Meaning(ns, cs, g, i)]
    <3>5. \A i \in Low(n - 1) : f[i] = g[i]
      BY <3>4
    <3> HIDE DEF Low, On, T
    <3>6. ASSUME NEW i \in Low(n) PROVE Meaning(ns, cs, f, i) = Meaning(ns, cs, g, i)
      <4>1. \A c \in Parts(ns, i) : f[c] = g[c]
        BY <3>3, <3>5
      <4> HIDE DEF f
      <4>2. {f[c] : c \in Parts(ns, i)} = {g[c] : c \in Parts(ns, i)}
        BY <4>1
      <4> QED BY <4>2 DEF Meaning
    <3>7. f = [i \in Low(n) |-> Meaning(ns, cs, f, i)]
      <4>1. \A i \in Low(n) : f[i] = Meaning(ns, cs, g, i)
        OBVIOUS
      <4>2. f = [i \in Low(n) |-> f[i]]
        OBVIOUS
      <4> HIDE DEF f
      <4> QED BY <3>6, <4>1, <4>2
    <3>8. On(f, n)
      BY <3>7 DEF On
    <3> QED BY <2>2, <3>8
  <2> QED BY <2>3, <2>4
<1>5. PICK f : On(f, top + 1)
  <2>1. top + 1 \in 0..(top + 1)
    OBVIOUS
  <2> QED BY <1>4, <2>1
<1>6. Low(top + 1) = DOMAIN ns
  BY <1>3
<1> QED BY <1>5, <1>6 DEF MeansAlong

LEMMA MeaningsAre ==
    ASSUME NEW ns, NEW cs, Acyclic(ns)
    PROVE  \A i \in DOMAIN ns :
              Meanings(ns, cs)[i] = Meaning(ns, cs, Meanings(ns, cs), i)
<1> DEFINE f == CHOOSE f : MeansAlong(f, ns, cs)
<1>1. MeansAlong(f, ns, cs)
  BY MeaningsExist
<1>2. Meanings(ns, cs) = f
  BY Zenon DEF Meanings, MeansAlong, Meaning, Parts, Shown
<1> HIDE DEF f
<1>3. \A i \in DOMAIN ns : f[i] = Meaning(ns, cs, f, i)
  BY <1>1, Zenon DEF MeansAlong
<1> QED BY <1>2, <1>3

(* Spelled otherwise in another model, shapes mean the same: where s takes *)
(* each node of a set that holds what is below its own to one that looks   *)
(* alike and holds the same parts.                                         *)
Respells(ns, cs, S, s, ms, ds) ==
    /\ S \subseteq DOMAIN ns
    /\ \A i \in S : Parts(ns, i) \subseteq S
    /\ \A i \in S : s[i] \in DOMAIN ms
    /\ \A i \in S : /\ ms[s[i]].kind = ns[i].kind
                    /\ ms[s[i]].value = ns[i].value
                    /\ Shown(ms, ds, s[i]) = Shown(ns, cs, i)
                    /\ Parts(ms, s[i]) = {s[c] : c \in Parts(ns, i)}

LEMMA SameMeaning ==
    ASSUME NEW ns, NEW cs, NEW ms, NEW ds, NEW S, NEW s,
           Acyclic(ns), Acyclic(ms), Respells(ns, cs, S, s, ms, ds)
    PROVE  \A i \in S : Meanings(ms, ds)[s[i]] = Meanings(ns, cs)[i]
<1> DEFINE f == Meanings(ns, cs)
           g == Meanings(ms, ds)
<1>1. \A i \in DOMAIN ns : f[i] = Meaning(ns, cs, f, i)
  BY MeaningsAre
<1>2. \A i \in DOMAIN ms : g[i] = Meaning(ms, ds, g, i)
  BY MeaningsAre
<1> HIDE DEF f, g
<1>3. PICK top \in Nat : \E m : Ranked(ns, m, top)
  BY DEF Acyclic
<1>4. PICK m : Ranked(ns, m, top)
  BY <1>3
<1>5. /\ \A i \in DOMAIN ns : m[i] \in Nat
      /\ \A i \in DOMAIN ns : \A c \in Parts(ns, i) : m[c] < m[i]
  BY <1>4 DEF Ranked
<1> DEFINE W == {i \in S : g[s[i]] # f[i]}
           T == {m[i] : i \in W}
<1> SUFFICES ASSUME W # {} PROVE FALSE
  BY DEF f, g
<1>6. PICK n \in T : \A k \in T : ~(k < n)
  <2>1. T \in SUBSET Nat /\ T # {}
    BY <1>5 DEF Respells
  <2> HIDE DEF T
  <2> QED BY <2>1, HasLeast
<1>7. PICK i \in W : n = m[i]
  OBVIOUS
<1>8. i \in S /\ i \in DOMAIN ns /\ s[i] \in DOMAIN ms /\ Parts(ns, i) \subseteq S
  BY DEF Respells
<1>9. \A c \in Parts(ns, i) : g[s[c]] = f[c]
  <2> SUFFICES ASSUME NEW c \in Parts(ns, i), c \in W PROVE FALSE
    BY <1>8
  <2>1. m[c] \in T /\ m[c] < n
    BY <1>5, <1>7, <1>8
  <2> QED BY <1>6, <2>1
<1>10. {g[c] : c \in Parts(ms, s[i])} = {f[c] : c \in Parts(ns, i)}
  <2>1. Parts(ms, s[i]) = {s[c] : c \in Parts(ns, i)}
    BY <1>8 DEF Respells
  <2>2. {g[c] : c \in {s[c] : c \in Parts(ns, i)}} = {g[s[c]] : c \in Parts(ns, i)}
    OBVIOUS
  <2> QED BY <1>9, <2>1, <2>2
<1>11. Meaning(ms, ds, g, s[i]) = Meaning(ns, cs, f, i)
  BY <1>8, <1>10 DEF Meaning, Respells
<1>12. g[s[i]] = f[i]
  BY <1>1, <1>2, <1>8, <1>11
<1> QED BY <1>12

-----------------------------------------------------------------------------
(* What a walk reaches in a graph is what it reaches in an image of it.    *)
Follows(next, S, s, onto) ==
    /\ S \subseteq DOMAIN next
    /\ \A x \in S : next[x] \subseteq S /\ s[x] \in DOMAIN onto
    /\ \A x \in S : onto[s[x]] = {s[y] : y \in next[x]}

Inside(next) == \A x \in DOMAIN next : next[x] \subseteq DOMAIN next

LEMMA ReachFollows ==
    ASSUME NEW next, NEW onto, Inside(next), Inside(onto),
           NEW S, NEW s, Follows(next, S, s, onto), NEW from, from \subseteq S
    PROVE  /\ Reach(from, next) \subseteq S
           /\ Reach({s[x] : x \in from}, onto) = {s[x] : x \in Reach(from, next)}
<1> DEFINE R == Reach(from, next)
           image == {s[x] : x \in from}
           Q == Reach(image, onto)
           I == {s[x] : x \in R}
           P == {x \in R : s[x] \in Q}
<1>1. S \in Closures(from, next)
  BY DEF Follows, Closures
<1>2. from \subseteq DOMAIN next /\ image \subseteq DOMAIN onto
  BY DEF Follows
<1>3. R \in Closures(from, next) /\ \A T \in Closures(from, next) : R \subseteq T
  BY <1>2, ReachIsLeast DEF Inside
<1>4. Q \in Closures(image, onto) /\ \A T \in Closures(image, onto) : Q \subseteq T
  <2> HIDE DEF image
  <2> QED BY <1>2, ReachIsLeast DEF Inside
<1> HIDE DEF R, Q
<1>5. R \subseteq S
  BY <1>1, <1>3
<1>6. R \subseteq DOMAIN next /\ from \subseteq R /\ \A x \in R : next[x] \subseteq R
  BY <1>3 DEF Closures
<1>7. Q \subseteq DOMAIN onto /\ image \subseteq Q /\ \A x \in Q : onto[x] \subseteq Q
  BY <1>4 DEF Closures
<1>8. I \in Closures(image, onto)
  <2>1. I \in SUBSET DOMAIN onto
    BY <1>5 DEF Follows
  <2>2. image \subseteq I
    BY <1>6
  <2>3. \A x \in R : onto[s[x]] \subseteq I
    BY <1>5, <1>6 DEF Follows
  <2> QED BY <2>1, <2>2, <2>3 DEF Closures
<1>9. P \in Closures(from, next)
  <2>1. P \in SUBSET DOMAIN next /\ from \subseteq P
    BY <1>6, <1>7
  <2>2. ASSUME NEW x \in P, NEW y \in next[x] PROVE y \in P
    <3>1. x \in S /\ x \in R /\ s[x] \in Q /\ y \in R
      BY <1>5, <1>6, <2>2
    <3>2. s[y] \in onto[s[x]]
      BY <2>2, <3>1 DEF Follows
    <3> QED BY <1>7, <3>1, <3>2
  <2> QED BY <2>1, <2>2 DEF Closures
<1>10. Q \subseteq I
  BY <1>4, <1>8
<1>11. R \subseteq P
  BY <1>3, <1>9
<1>12. I \subseteq Q
  BY <1>11
<1> QED BY <1>5, <1>10, <1>12 DEF R, Q

(* A node's lineage is the same in a table that holds, d further on, what  *)
(* its own holds of a set around its identity.                             *)
Recounts(src, S, d, trc) ==
    /\ S \subseteq DOMAIN src
    /\ \A a \in S : src[a] \subseteq S
    /\ \A a \in S : d + a \in DOMAIN trc /\ trc[d + a] = {d + b : b \in src[a]}

Complete(src) == DOMAIN src \subseteq Nat /\ \A a \in DOMAIN src : src[a] \subseteq DOMAIN src

LEMMA SameLineage ==
    ASSUME NEW i, NEW ids, NEW src, NEW j, NEW jds, NEW trc, NEW d \in Nat, NEW S,
           Complete(src), Complete(trc), Recounts(src, S, d, trc),
           i \in DOMAIN ids <=> j \in DOMAIN jds,
           i \in DOMAIN ids => ids[i] \in S /\ jds[j] = d + ids[i]
    PROVE  LineageOf(j, jds, trc, 0) = LineageOf(i, ids, src, d)
<1>1. CASE i \notin DOMAIN ids
  BY <1>1 DEF LineageOf
<1>2. CASE i \in DOMAIN ids
  <2> DEFINE next == Parents(src)
             onto == Parents(trc)
             s == [a \in S |-> d + a]
             R == Reach({ids[i]}, next)
             Q == Reach({d + ids[i]}, onto)
  <2>1. /\ DOMAIN next = DOMAIN src /\ DOMAIN onto = DOMAIN trc
        /\ Inside(next) /\ Inside(onto)
        /\ \A a \in DOMAIN src : next[a] = src[a]
        /\ \A a \in DOMAIN trc : onto[a] = trc[a]
    BY DEF Parents, Inside, Complete
  <2> HIDE DEF next, onto
  <2>2. Follows(next, S, s, onto)
    <3>1. S \subseteq DOMAIN next /\ \A a \in S : next[a] \subseteq S /\ s[a] \in DOMAIN onto
      BY <2>1 DEF Recounts
    <3>2. ASSUME NEW a \in S PROVE onto[s[a]] = {s[b] : b \in next[a]}
      <4>1. \A b \in src[a] : s[b] = d + b
        BY DEF Recounts
      <4>2. next[a] = src[a] /\ onto[s[a]] = {d + b : b \in src[a]}
        BY <2>1 DEF Recounts
      <4> HIDE DEF s
      <4> QED BY <4>1, <4>2
    <3> QED BY <3>1, <3>2 DEF Follows
  <2>3. ids[i] \in S /\ {s[x] : x \in {ids[i]}} = {d + ids[i]}
    BY <1>2
  <2>4. /\ R \subseteq S
        /\ Q = {s[x] : x \in R}
    <3> DEFINE from == {ids[i]}
    <3>1. from \subseteq S /\ {s[x] : x \in from} = {d + ids[i]}
      BY <2>3
    <3> HIDE DEF from, s
    <3>2. /\ Reach(from, next) \subseteq S
          /\ Reach({s[x] : x \in from}, onto) = {s[x] : x \in Reach(from, next)}
      BY <2>1, <2>2, <3>1, ReachFollows
    <3> QED BY <3>1, <3>2 DEF from
  <2>5. /\ {ids[i]} \cap DOMAIN src = {ids[i]}
        /\ {jds[j]} \cap DOMAIN trc = {d + ids[i]}
    BY <1>2 DEF Recounts
  <2>6. LineageOf(i, ids, src, d) = {<<d + a, {d + b : b \in src[a]}>> : a \in R}
    BY <1>2, <2>5 DEF LineageOf, next
  <2>7. LineageOf(j, jds, trc, 0) = {<<0 + a, {0 + b : b \in trc[a]}>> : a \in Q}
    BY <1>2, <2>5 DEF LineageOf, onto
  <2> HIDE DEF R, Q
  <2>8. \A a \in R : /\ 0 + s[a] = d + a
                     /\ {0 + b : b \in trc[s[a]]} = {d + b : b \in src[a]}
    <3> SUFFICES ASSUME NEW a \in R
                 PROVE  /\ 0 + s[a] = d + a
                        /\ {0 + b : b \in trc[s[a]]} = {d + b : b \in src[a]}
      OBVIOUS
    <3>1. a \in S /\ s[a] = d + a /\ a \in Nat
      BY <2>4 DEF Recounts, Complete
    <3>2. trc[d + a] = {d + b : b \in src[a]} /\ \A b \in src[a] : b \in Nat
      BY <3>1 DEF Recounts, Complete
    <3>3. 0 + s[a] = d + a
      BY <3>1
    <3>4. \A b \in src[a] : 0 + (d + b) = d + b
      BY <3>2
    <3>5. {0 + b : b \in {d + c : c \in src[a]}} = {d + b : b \in src[a]}
      BY <3>4
    <3> QED BY <3>1, <3>2, <3>3, <3>5
  <2>9. LineageOf(j, jds, trc, 0) = {<<0 + s[a], {0 + b : b \in trc[s[a]]}>> : a \in R}
    BY <2>4, <2>7
  <2> HIDE DEF s
  <2> DEFINE there == [a \in R |-> <<0 + s[a], {0 + b : b \in trc[s[a]]}>>]
             here == [a \in R |-> <<d + a, {d + b : b \in src[a]}>>]
  <2>10. \A a \in R : there[a] = here[a]
    BY <2>8
  <2>11. /\ LineageOf(j, jds, trc, 0) = {there[a] : a \in R}
         /\ LineageOf(i, ids, src, d) = {here[a] : a \in R}
    BY <2>6, <2>9
  <2> HIDE DEF there, here
  <2> QED BY <2>10, <2>11
<1> QED BY <1>1, <1>2

-----------------------------------------------------------------------------
(* Every shape callers can name is made of such shapes, each of them older *)
(* than what it is a part of, and of geometry that is there.               *)
ShapesStand ==
    \A i \in Usable :
        /\ nodes[i].children \subseteq Usable
        /\ \A c \in nodes[i].children : c < i
        /\ nodes[i].curve \in DOMAIN curves \cup {None}
        /\ nodes[i].kind = "edge" => \A c \in nodes[i].children : nodes[c].kind = "vertex"

(* Nodes are ranked by their handles, but for the litter, whose damaged    *)
(* links a node made later may come to resolve: it ranks above them all.   *)
RankedByHandle(m) ==
    /\ \A i \in Usable : m[i] = i
    /\ \A i \in litter : m[i] > slots

LitterLast == \E top \in Nat : \E m : Ranked(nodes, m, top) /\ RankedByHandle(m)

WellMade == ShapesStand /\ LitterLast

LEMMA NodesAreAcyclic ==
    ASSUME LitterLast
    PROVE  Acyclic(nodes)
BY DEF LitterLast, Acyclic

LEMMA UsableHandles ==
    ASSUME IInv
    PROVE  /\ slots \in Nat /\ curve_slots \in Nat
           /\ DOMAIN nodes \subseteq 1..slots
           /\ Usable \subseteq DOMAIN nodes
           /\ \A i \in DOMAIN nodes : i \in Nat \ {0} /\ i <= slots /\ nodes[i] \in Node
           /\ litter \subseteq DOMAIN nodes
           /\ \A i \in DOMAIN nodes : i \in litter \/ i \in Usable
<1>1. slots \in Nat /\ curve_slots \in Nat /\ DOMAIN nodes \subseteq 1..slots
  BY BoundsAssumption DEF IInv, TypeOK
<1>2. \A i \in DOMAIN nodes : i \in Nat \ {0} /\ i <= slots /\ nodes[i] \in Node
  BY <1>1 DEF IInv, TypeOK
<1> QED BY <1>1, <1>2 DEF IInv, TypeOK, Usable

(* A node built over usable ones.                                          *)
LEMMA InsertStands ==
    ASSUME IInv, WellMade, NEW node \in Node, Insert(node),
           node.children \subseteq Usable, node.curve \in DOMAIN curves \cup {None},
           node.kind = "edge" => \A c \in node.children : nodes[c].kind = "vertex",
           curves' = curves
    PROVE  WellMade'
<1>1. PICK new : new = NextSlot
  OBVIOUS
<1>2. /\ nodes' = Extended(nodes, new, node) /\ slots' = slots + 1 /\ litter' = litter
      /\ new = slots + 1
  BY <1>1 DEF Insert, NextSlot
<1>3. /\ slots \in Nat /\ new \in Nat /\ slots < new /\ new \notin DOMAIN nodes
      /\ \A i \in DOMAIN nodes : i \in Nat /\ i < new /\ i # new
  BY <1>2, UsableHandles
<1>4. /\ DOMAIN nodes' = DOMAIN nodes \cup {new}
      /\ nodes'[new] = node
      /\ \A i \in DOMAIN nodes : nodes'[i] = nodes[i]
  BY <1>2, <1>3 DEF Extended
<1>5. Usable' = Usable \cup {new}
  BY <1>2, <1>3, <1>4, UsableHandles DEF Usable
<1>6. ShapesStand'
  <2>1. ASSUME NEW i \in Usable
        PROVE  /\ nodes'[i].children \subseteq Usable'
               /\ \A c \in nodes'[i].children : c < i
               /\ nodes'[i].curve \in DOMAIN curves' \cup {None}
               /\ nodes'[i].kind = "edge" => \A c \in nodes'[i].children : nodes'[c].kind = "vertex"
    <3>1. nodes'[i] = nodes[i] /\ i # new
      BY <1>3, <1>4, UsableHandles
    <3>2. \A c \in nodes[i].children : c \in Usable /\ nodes'[c] = nodes[c]
      BY <1>4, UsableHandles DEF WellMade, ShapesStand
    <3> QED BY <1>5, <3>1, <3>2 DEF WellMade, ShapesStand
  <2>2. /\ nodes'[new].children \subseteq Usable'
        /\ \A c \in nodes'[new].children : c < new
        /\ nodes'[new].curve \in DOMAIN curves' \cup {None}
        /\ nodes'[new].kind = "edge" => \A c \in nodes'[new].children : nodes'[c].kind = "vertex"
    <3>1. \A c \in node.children : c \in DOMAIN nodes /\ c < new /\ nodes'[c] = nodes[c]
      BY <1>3, <1>4, UsableHandles
    <3> QED BY <1>4, <1>5, <3>1
  <2> QED BY <1>5, <2>1, <2>2 DEF ShapesStand
<1>7. LitterLast'
  <2>0. PICK top \in Nat : \E m : Ranked(nodes, m, top) /\ RankedByHandle(m)
    BY DEF WellMade, LitterLast
  <2>1. PICK m : Ranked(nodes, m, top) /\ RankedByHandle(m)
    BY <2>0
  <2>2. /\ \A i \in DOMAIN nodes : m[i] \in Nat /\ m[i] <= top
        /\ \A i \in DOMAIN nodes : \A c \in Parts(nodes, i) : c \in DOMAIN nodes /\ m[c] < m[i]
        /\ \A i \in Usable : m[i] = i
        /\ \A i \in litter : m[i] > slots
    BY <2>1 DEF Ranked, RankedByHandle, Parts
  <2> DEFINE M == [i \in DOMAIN nodes' |->
                     IF i = new THEN new ELSE IF i \in litter THEN m[i] + 1 ELSE i]
  <2>3. /\ M[new] = new
        /\ \A i \in DOMAIN nodes : M[i] = IF i \in litter THEN m[i] + 1 ELSE i
        /\ DOMAIN M = DOMAIN nodes'
    BY <1>3, <1>4
  <2>4. M = [i \in DOMAIN nodes' |-> M[i]]
    OBVIOUS
  <2> HIDE DEF M
  <2>5. \A i \in DOMAIN nodes' : M[i] \in 0..(top + new)
    <3>1. \A i \in DOMAIN nodes : M[i] \in 0..(top + new)
      BY <1>3, <2>2, <2>3
    <3>2. M[new] \in 0..(top + new)
      BY <1>3, <2>3
    <3> QED BY <1>4, <3>1, <3>2
  <2>6. M \in [DOMAIN nodes' -> 0..(top + new)]
    BY <2>4, <2>5
  <2>7. ASSUME NEW i \in DOMAIN nodes', NEW c \in Parts(nodes', i) PROVE M[c] < M[i]
    <3>1. CASE i = new
      <4>1. c \in Usable /\ c \in DOMAIN nodes /\ c \notin litter
        BY <1>4, <2>7, <3>1, UsableHandles DEF Parts, Usable
      <4> QED BY <1>3, <2>3, <3>1, <4>1
    <3>2. CASE i # new /\ i \in Usable
      <4>1. i \in DOMAIN nodes /\ i \notin litter
        BY <3>2, UsableHandles DEF Usable
      <4>2. c \in nodes[i].children
        BY <1>4, <2>7, <4>1 DEF Parts
      <4>3. c \in Usable /\ c < i /\ c \in DOMAIN nodes /\ c \notin litter
        BY <3>2, <4>2 DEF WellMade, ShapesStand, Usable
      <4> QED BY <2>3, <4>1, <4>3
    <3>3. CASE i # new /\ i \in litter
      <4>1. i \in DOMAIN nodes /\ M[i] = m[i] + 1 /\ m[i] \in Nat /\ m[i] > slots
        BY <2>2, <2>3, <3>3, UsableHandles
      <4>2. CASE c = new
        BY <1>2, <1>3, <2>3, <4>1, <4>2
      <4>3. CASE c # new
        <5>1. c \in Parts(nodes, i)
          BY <1>4, <2>7, <4>1, <4>3 DEF Parts
        <5>2. c \in DOMAIN nodes /\ m[c] \in Nat /\ m[c] < m[i]
          BY <2>2, <4>1, <5>1
        <5>3. c \in litter \/ m[c] = c
          BY <2>2, <5>2, UsableHandles
        <5>4. c \in Nat
          BY <1>3, <5>2
        <5> QED BY <2>3, <4>1, <5>2, <5>3, <5>4
      <4> QED BY <4>2, <4>3
    <3> QED BY <1>4, <3>1, <3>2, <3>3, UsableHandles
  <2>8. Ranked(nodes', M, top + new)
    BY <2>6, <2>7 DEF Ranked
  <2>9. /\ \A i \in Usable' : M[i] = i
        /\ \A i \in litter' : M[i] > slots'
    <3>1. \A i \in Usable : M[i] = i
      BY <2>3 DEF Usable
    <3>2. \A i \in litter : M[i] > slots + 1
      BY <1>3, <2>2, <2>3, UsableHandles
    <3> QED BY <1>2, <1>5, <2>3, <3>1, <3>2
  <2>10. top + new \in Nat
    BY <1>3
  <2> QED BY <2>8, <2>9, <2>10 DEF LitterLast, RankedByHandle
<1> QED BY <1>6, <1>7 DEF WellMade

(* What usable roots reach is usable, and holds the parts of each.         *)
LEMMA BelowStands ==
    ASSUME IInv, ShapesStand, NEW roots, roots \subseteq Usable
    PROVE  /\ roots \subseteq Below(roots) /\ Below(roots) \subseteq Usable
           /\ \A i \in Below(roots) : nodes[i].children \subseteq Below(roots)
<1> DEFINE next == Children(nodes)
<1>1. DOMAIN next = DOMAIN nodes /\ \A x \in DOMAIN next : next[x] \subseteq DOMAIN next
  BY DEF Children
<1>2. \A i \in Usable : next[i] = nodes[i].children /\ next[i] \subseteq Usable
  BY DEF ShapesStand, Children, Usable
<1> HIDE DEF next
<1>3. roots \subseteq DOMAIN next /\ Usable \subseteq DOMAIN next
  BY <1>1 DEF Usable
<1>4. /\ Reach(roots, next) \in Closures(roots, next)
      /\ \A T \in Closures(roots, next) : Reach(roots, next) \subseteq T
  BY <1>1, <1>3, ReachIsLeast
<1>5. Usable \in Closures(roots, next)
  BY <1>2, <1>3 DEF Closures
<1> QED BY <1>2, <1>4, <1>5 DEF Below, Closures, next

(* Dropping what usable roots do not reach.                                *)
LEMMA RetainStands ==
    ASSUME IInv, WellMade, NEW roots \in SUBSET Usable, RetainReachable(roots)
    PROVE  WellMade'
<1> DEFINE kept == Below(roots)
<1>1. /\ kept \subseteq Usable /\ \A i \in kept : nodes[i].children \subseteq kept
  BY BelowStands DEF WellMade
<1>2. /\ nodes' = Restrict(nodes, kept)
      /\ curves' = Restrict(curves, DOMAIN curves \cap CurvesOf(kept))
      /\ litter' = litter \cap kept /\ slots' = slots
  BY DEF RetainReachable
<1> HIDE DEF kept
<1>3. DOMAIN nodes' = kept /\ \A i \in kept : nodes'[i] = nodes[i] /\ i \in DOMAIN nodes
  BY <1>1, <1>2 DEF Restrict, Usable
<1>4. litter' = {} /\ Usable' = kept
  BY <1>1, <1>2, <1>3 DEF Usable
<1>5. DOMAIN curves' = DOMAIN curves \cap CurvesOf(kept)
  BY <1>2 DEF Restrict
<1>6. ShapesStand'
  <2> SUFFICES ASSUME NEW i \in kept
               PROVE  /\ nodes'[i].children \subseteq kept
                      /\ \A c \in nodes'[i].children : c < i
                      /\ nodes'[i].curve \in DOMAIN curves' \cup {None}
                      /\ nodes'[i].kind = "edge" =>
                            \A c \in nodes'[i].children : nodes'[c].kind = "vertex"
    BY <1>4 DEF ShapesStand
  <2>1. i \in Usable /\ nodes'[i] = nodes[i] /\ nodes[i].children \subseteq kept
    BY <1>1, <1>3
  <2>2. \A c \in nodes[i].children : nodes'[c] = nodes[c]
    BY <1>3, <2>1
  <2>3. nodes[i].curve \in DOMAIN curves' \cup {None}
    BY <1>5, <2>1 DEF WellMade, ShapesStand, CurvesOf
  <2> QED BY <2>1, <2>2, <2>3 DEF WellMade, ShapesStand
<1>7. LitterLast'
  <2>0. PICK top \in Nat : \E m : Ranked(nodes, m, top) /\ RankedByHandle(m)
    BY DEF WellMade, LitterLast
  <2>1. PICK m : Ranked(nodes, m, top) /\ RankedByHandle(m)
    BY <2>0
  <2> DEFINE M == [i \in kept |-> m[i]]
  <2>2. \A i \in kept : M[i] = m[i]
    OBVIOUS
  <2>3. /\ \A i \in kept : m[i] \in 0..top /\ m[i] = i
        /\ \A i \in kept : \A c \in Parts(nodes', i) : c \in kept /\ m[c] < m[i]
    BY <1>1, <1>3, <2>1 DEF Ranked, RankedByHandle, Parts
  <2>4. Ranked(nodes', M, top)
    BY <1>3, <2>3 DEF Ranked
  <2>5. \A i \in Usable' : M[i] = i
    BY <1>4, <2>3
  <2> QED BY <1>4, <2>4, <2>5 DEF LitterLast, RankedByHandle
<1> QED BY <1>6, <1>7 DEF WellMade

-----------------------------------------------------------------------------
(* An element of a finite set is the one at its own rank.                  *)
LEMMA AtOfRank ==
    ASSUME NEW S \in SUBSET Nat, IsFiniteSet(S), NEW x \in S
    PROVE  Rank(S, x) \in Ranks(S) /\ At(S, Rank(S, x)) = x
<1>1. Rank(S, x) \in Ranks(S)
  BY RankAtMost
<1>2. PICK y : y = At(S, Rank(S, x))
  OBVIOUS
<1>3. y \in S /\ Rank(S, y) = Rank(S, x)
  BY <1>1, <1>2, AtIsThere
<1>4. x \in Nat /\ y \in Nat
  BY <1>3
<1>5. ~(x < y) /\ ~(y < x)
  <2>1. ASSUME x < y PROVE FALSE
    <3>1. Rank(S, x) \in Nat /\ Rank(S, x) < Rank(S, y)
      BY <1>4, <2>1, RankStrict
    <3> QED BY <1>3, <3>1
  <2>2. ASSUME y < x PROVE FALSE
    <3>1. Rank(S, x) \in Nat /\ Rank(S, y) \in Nat /\ Rank(S, y) < Rank(S, x)
      BY <1>3, <1>4, <2>2, RankStrict
    <3> QED BY <1>3, <3>1
  <2> QED BY <2>1, <2>2
<1> QED BY <1>1, <1>2, <1>4, <1>5

(* A file that holds the nodes S, the geometry C and the entries A of this *)
(* model, each handle replaced by its rank.                                *)
Spells(file, S, C, A) ==
    /\ S \in SUBSET Nat /\ IsFiniteSet(S) /\ S \subseteq Usable
    /\ C \in SUBSET Nat /\ IsFiniteSet(C) /\ C \subseteq DOMAIN curves
    /\ A \subseteq DOMAIN sources
    /\ DOMAIN file.nodes = Ranks(S)
    /\ DOMAIN file.identity \subseteq Ranks(S)
    /\ \A i \in S :
          /\ nodes[i].children \subseteq S
          /\ nodes[i].curve \in C \cup {None}
          /\ file.nodes[Rank(S, i)] = Respelled(nodes[i], S, C)
          /\ Rank(S, i) \in DOMAIN file.identity <=> i \in DOMAIN identity
          /\ i \in DOMAIN identity => /\ file.identity[Rank(S, i)] = identity[i]
                                      /\ identity[i] \in A
    /\ DOMAIN file.curves = Ranks(C)
    /\ \A c \in C : file.curves[Rank(C, c)] = curves[c]
    /\ DOMAIN file.entries = A
    /\ \A a \in A : file.entries[a] = sources[a] /\ sources[a] \subseteq A

LEMMA WrittenSpells ==
    ASSUME IInv, WellMade, NEW roots \in SUBSET Usable, roots # {}
    PROVE  /\ Spells(Written(roots), Below(roots), CurvesOf(Below(roots)),
                     Ancestry(IdentitiesOf(Below(roots))))
           /\ Writes(roots)
           /\ roots \subseteq Below(roots)
           /\ Written(roots).roots = {Rank(Below(roots), r) : r \in roots}
<1> DEFINE S == Below(roots)
           C == CurvesOf(S)
           A == Ancestry(IdentitiesOf(S))
           file == Written(roots)
<1>1. /\ roots \subseteq S /\ S \subseteq Usable
      /\ \A i \in S : nodes[i].children \subseteq S
  BY BelowStands DEF WellMade
<1>2. \A i \in S : nodes[i].curve \in C \cup {None}
  BY DEF CurvesOf
<1>3. C \subseteq DOMAIN curves
  BY <1>1 DEF CurvesOf, WellMade, ShapesStand
<1>4. /\ IdentitiesOf(S) \subseteq DOMAIN sources
      /\ \A i \in S : i \in DOMAIN identity => identity[i] \in IdentitiesOf(S)
  BY DEF IdentitiesOf, IInv, LineageComplete
<1>5. /\ \A i \in S : i \in DOMAIN identity => identity[i] \in A
      /\ A \subseteq DOMAIN sources
      /\ \A a \in A : sources[a] \subseteq A
  BY <1>4, AncestryIsClosed
<1>6. /\ file.nodes = [k \in Ranks(S) |-> Respelled(nodes[At(S, k)], S, C)]
      /\ file.curves = [k \in Ranks(C) |-> curves[At(C, k)]]
      /\ file.entries = Restrict(sources, A)
      /\ file.identity = [k \in {j \in Ranks(S) : At(S, j) \in DOMAIN identity}
                                |-> identity[At(S, k)]]
      /\ file.roots = {Rank(S, r) : r \in roots}
  BY DEF Written, Chosen, ChosenCurves, ChosenIds
<1>7. Writes(roots)
  BY <1>1, <1>3 DEF Writes, Chosen
<1>8. /\ S \in SUBSET Nat /\ IsFiniteSet(S)
      /\ C \in SUBSET Nat /\ IsFiniteSet(C)
  <2>1. S \subseteq DOMAIN nodes
    BY <1>1, UsableHandles
  <2> QED BY <1>3, <2>1, SlotsAreFinite DEF IInv
<1> HIDE DEF S, C, A, file
<1>9. \A i \in S : Rank(S, i) \in Ranks(S) /\ At(S, Rank(S, i)) = i
  BY <1>8, AtOfRank
<1>10. \A c \in C : Rank(C, c) \in Ranks(C) /\ At(C, Rank(C, c)) = c
  BY <1>8, AtOfRank
<1>11. \A i \in S :
          /\ file.nodes[Rank(S, i)] = Respelled(nodes[i], S, C)
          /\ Rank(S, i) \in DOMAIN file.identity <=> i \in DOMAIN identity
          /\ i \in DOMAIN identity => file.identity[Rank(S, i)] = identity[i]
  BY <1>6, <1>9
<1>12. \A c \in C : file.curves[Rank(C, c)] = curves[c]
  BY <1>6, <1>10
<1>13. /\ DOMAIN file.nodes = Ranks(S) /\ DOMAIN file.identity \subseteq Ranks(S)
       /\ DOMAIN file.curves = Ranks(C)
       /\ DOMAIN file.entries = A
       /\ \A a \in A : file.entries[a] = sources[a]
  BY <1>6 DEF Restrict
<1>14. Spells(file, S, C, A)
  BY <1>1, <1>2, <1>3, <1>5, <1>8, <1>11, <1>12, <1>13 DEF Spells
<1> QED BY <1>1, <1>6, <1>7, <1>14 DEF S, C, A, file

(* What such a file holds: nodes over older ones, geometry and entries     *)
(* that are in it, edges over vertices.                                    *)
LEMMA SpelledStands ==
    ASSUME IInv, WellMade, NEW file, NEW S, NEW C, NEW A, Spells(file, S, C, A)
    PROVE  /\ \A k \in DOMAIN file.nodes :
                 LET node == file.nodes[k]
                 IN  /\ node.children \subseteq DOMAIN file.nodes
                     /\ \A c \in node.children : c < k
                     /\ node.curve \in DOMAIN file.curves \cup {None}
                     /\ node.kind = "edge" =>
                           \A c \in node.children : file.nodes[c].kind = "vertex"
           /\ \A k \in DOMAIN file.identity : file.identity[k] \in A
<1>1. /\ S \in SUBSET Nat /\ IsFiniteSet(S) /\ S \subseteq Usable
      /\ C \in SUBSET Nat /\ IsFiniteSet(C)
      /\ DOMAIN file.nodes = Ranks(S) /\ DOMAIN file.curves = Ranks(C)
      /\ DOMAIN file.identity \subseteq Ranks(S)
      /\ \A i \in S :
            /\ nodes[i].children \subseteq S
            /\ nodes[i].curve \in C \cup {None}
            /\ file.nodes[Rank(S, i)] = Respelled(nodes[i], S, C)
            /\ Rank(S, i) \in DOMAIN file.identity <=> i \in DOMAIN identity
            /\ i \in DOMAIN identity => /\ file.identity[Rank(S, i)] = identity[i]
                                        /\ identity[i] \in A
  BY DEF Spells
<1>2. \A k \in Ranks(S) : At(S, k) \in S /\ Rank(S, At(S, k)) = k
  BY <1>1, AtIsThere
<1>3. ASSUME NEW k \in Ranks(S)
      PROVE  LET node == file.nodes[k]
             IN  /\ node.children \subseteq DOMAIN file.nodes
                 /\ \A c \in node.children : c < k
                 /\ node.curve \in DOMAIN file.curves \cup {None}
                 /\ node.kind = "edge" => \A c \in node.children : file.nodes[c].kind = "vertex"
  <2>1. PICK i \in S : k = Rank(S, i)
    BY <1>2
  <2>2. /\ i \in Usable /\ i \in Nat
        /\ nodes[i].children \subseteq S
        /\ \A c \in nodes[i].children : c \in Nat /\ c < i
        /\ nodes[i].kind = "edge" => \A c \in nodes[i].children : nodes[c].kind = "vertex"
    BY <1>1 DEF WellMade, ShapesStand
  <2>3. \A c \in nodes[i].children : Rank(S, c) \in Ranks(S) /\ Rank(S, c) < k
    <3> SUFFICES ASSUME NEW c \in nodes[i].children
                 PROVE  Rank(S, c) \in Ranks(S) /\ Rank(S, c) < k
      OBVIOUS
    <3>1. c \in S /\ c < i
      BY <2>2
    <3>2. Rank(S, c) < Rank(S, i)
      BY <1>1, <2>2, <3>1, RankStrict
    <3> QED BY <1>1, <2>1, <3>1, <3>2, RankAtMost
  <2>4. /\ file.nodes[k].children = {Rank(S, c) : c \in nodes[i].children}
        /\ file.nodes[k].kind = nodes[i].kind
        /\ file.nodes[k].curve = IF nodes[i].curve = None THEN None ELSE Rank(C, nodes[i].curve)
    <3>1. nodes[i] \in Node
      BY <2>2, UsableHandles
    <3>2. file.nodes[k] = Respelled(nodes[i], S, C)
      BY <1>1, <2>1
    <3> QED BY <3>1, <3>2 DEF Respelled, Node
  <2>5. file.nodes[k].curve \in DOMAIN file.curves \cup {None}
    <3>1. nodes[i].curve # None => Rank(C, nodes[i].curve) \in Ranks(C)
      BY <1>1, RankAtMost
    <3> QED BY <1>1, <2>4, <3>1
  <2>6. \A c \in nodes[i].children : file.nodes[Rank(S, c)].kind = nodes[c].kind
    <3> SUFFICES ASSUME NEW c \in nodes[i].children
                 PROVE  file.nodes[Rank(S, c)].kind = nodes[c].kind
      OBVIOUS
    <3>1. c \in S /\ nodes[c] \in Node
      BY <1>1, <2>2, UsableHandles
    <3>2. file.nodes[Rank(S, c)] = Respelled(nodes[c], S, C)
      BY <1>1, <3>1
    <3> QED BY <3>1, <3>2 DEF Respelled, Node
  <2> QED BY <1>1, <2>2, <2>3, <2>4, <2>5, <2>6
<1>4. \A k \in DOMAIN file.identity : file.identity[k] \in A
  BY <1>1, <1>2
<1> QED BY <1>1, <1>3, <1>4

(* Such a file can be read.                                                *)
LEMMA SpelledReads ==
    ASSUME IInv, WellMade, NEW file, NEW S, NEW C, NEW A, Spells(file, S, C, A),
           FileOK(file), file.roots \subseteq DOMAIN file.nodes
    PROVE  Reads(file)
<1>1. DOMAIN file.entries = A /\ A \subseteq 1..LastId(file) /\ LastId(file) \in Nat
  BY TableCovers, BoundsAssumption DEF Spells
<1>2. Gaps(file) = (1..LastId(file)) \ A
  BY <1>1 DEF Gaps
<1>3. Recordable(file)
  <2>1. \A a \in A : /\ file.entries[a] \subseteq A
                     /\ \A s \in file.entries[a] : s < a
    BY DEF Spells, IInv, DerivedFromEarlier
  <2>2. \A i \in DOMAIN file.identity : file.identity[i] \in A
    BY SpelledStands
  <2> QED BY <1>1, <1>2, <2>1, <2>2 DEF Recordable
<1>4. Restorable(file)
  <2>1. \A i \in DOMAIN file.identity : file.identity[i] <= LastId(file)
    <3>1. \A i \in DOMAIN file.identity : file.identity[i] \in A
      BY SpelledStands
    <3>2. \A a \in A : a <= LastId(file)
      BY <1>1
    <3> QED BY <3>1, <3>2
  <2>2. DOMAIN file.identity \subseteq DOMAIN file.nodes
    BY DEF Spells
  <2> QED BY <2>1, <2>2, SpelledStands DEF Restorable
<1> QED BY <1>3, <1>4 DEF Reads, RootsThere

(* Ranked by their own numbers.                                            *)
LEMMA SpelledIsAcyclic ==
    ASSUME IInv, WellMade, NEW file, NEW S, NEW C, NEW A, Spells(file, S, C, A)
    PROVE  Acyclic(file.nodes)
<1>1. DOMAIN file.nodes = 1..Cardinality(S) /\ Cardinality(S) \in Nat
  BY FS_CardinalityType DEF Spells, Ranks
<1> DEFINE m == [k \in DOMAIN file.nodes |-> k]
<1>2. m \in [DOMAIN file.nodes -> 0..Cardinality(S)]
  BY <1>1
<1>3. \A k \in DOMAIN file.nodes : \A c \in Parts(file.nodes, k) : m[c] < m[k]
  BY SpelledStands DEF Parts
<1>4. Ranked(file.nodes, m, Cardinality(S))
  BY <1>2, <1>3 DEF Ranked
<1> QED BY <1>1, <1>4 DEF Acyclic

(* Read back, its nodes mean what they mean here.                          *)
LEMMA SpelledMeans ==
    ASSUME IInv, WellMade, NEW file, NEW S, NEW C, NEW A, Spells(file, S, C, A), NEW i \in S
    PROVE  /\ Meanings(file.nodes, file.curves)[Rank(S, i)] = Meanings(nodes, curves)[i]
           /\ LineageOf(Rank(S, i), file.identity, file.entries, 0)
                 = LineageOf(i, identity, sources, 0)
<1> DEFINE s == [j \in S |-> Rank(S, j)]
<1>1. /\ S \in SUBSET Nat /\ IsFiniteSet(S) /\ S \subseteq Usable
      /\ C \in SUBSET Nat /\ IsFiniteSet(C) /\ C \subseteq DOMAIN curves
      /\ DOMAIN file.nodes = Ranks(S) /\ DOMAIN file.curves = Ranks(C)
      /\ \A j \in S :
            /\ nodes[j].children \subseteq S
            /\ nodes[j].curve \in C \cup {None}
            /\ file.nodes[Rank(S, j)] = Respelled(nodes[j], S, C)
      /\ \A c \in C : file.curves[Rank(C, c)] = curves[c]
  BY DEF Spells
<1>2. \A j \in S : s[j] \in DOMAIN file.nodes
  BY <1>1, RankAtMost
<1>3. ASSUME NEW j \in S
      PROVE  /\ file.nodes[s[j]].kind = nodes[j].kind
             /\ file.nodes[s[j]].value = nodes[j].value
             /\ Shown(file.nodes, file.curves, s[j]) = Shown(nodes, curves, j)
             /\ Parts(file.nodes, s[j]) = {s[c] : c \in Parts(nodes, j)}
             /\ Parts(nodes, j) \subseteq S
  <2>1. /\ nodes[j] \in Node /\ file.nodes[s[j]] = Respelled(nodes[j], S, C)
        /\ S \subseteq DOMAIN nodes
    BY <1>1, UsableHandles
  <2>2. /\ file.nodes[s[j]].kind = nodes[j].kind
        /\ file.nodes[s[j]].value = nodes[j].value
        /\ file.nodes[s[j]].children = {Rank(S, c) : c \in nodes[j].children}
        /\ file.nodes[s[j]].curve = IF nodes[j].curve = None THEN None ELSE Rank(C, nodes[j].curve)
    BY <2>1 DEF Respelled, Node
  <2>3. Parts(nodes, j) = nodes[j].children /\ nodes[j].children \subseteq S
    BY <1>1, <2>1 DEF Parts
  <2>4. Parts(file.nodes, s[j]) = {s[c] : c \in Parts(nodes, j)}
    <3>1. \A c \in nodes[j].children : s[c] = Rank(S, c) /\ Rank(S, c) \in DOMAIN file.nodes
      BY <1>2, <2>3
    <3> QED BY <2>2, <2>3, <3>1 DEF Parts
  <2>5. Shown(file.nodes, file.curves, s[j]) = Shown(nodes, curves, j)
    <3>1. CASE nodes[j].curve = None
      <4>1. 0 \notin Ranks(C) /\ 0 \notin DOMAIN curves
        <5>1. DOMAIN curves \subseteq 1..curve_slots
          BY DEF IInv, TypeOK
        <5> QED BY <5>1, UsableHandles, FS_CardinalityType DEF Ranks
      <4> QED BY <1>1, <2>2, <3>1, <4>1 DEF Shown, None
    <3>2. CASE nodes[j].curve # None
      <4>1. nodes[j].curve \in C
        BY <1>1, <3>2
      <4>2. Rank(C, nodes[j].curve) \in DOMAIN file.curves
        BY <1>1, <4>1, RankAtMost
      <4> QED BY <1>1, <2>2, <3>2, <4>1, <4>2 DEF Shown
    <3> QED BY <3>1, <3>2
  <2> HIDE DEF s
  <2> QED BY <2>2, <2>3, <2>4, <2>5
<1>4. Respells(nodes, curves, S, s, file.nodes, file.curves)
  <2>1. S \subseteq DOMAIN nodes
    BY <1>1, UsableHandles
  <2> HIDE DEF s
  <2> QED BY <1>2, <1>3, <2>1 DEF Respells
<1>5. Meanings(file.nodes, file.curves)[s[i]] = Meanings(nodes, curves)[i]
  <2>1. Acyclic(nodes) /\ Acyclic(file.nodes)
    BY NodesAreAcyclic, SpelledIsAcyclic DEF WellMade
  <2> HIDE DEF s
  <2> QED BY <1>4, <2>1, SameMeaning
<1>6. LineageOf(Rank(S, i), file.identity, file.entries, 0) = LineageOf(i, identity, sources, 0)
  <2> DEFINE k == Rank(S, i)
  <2>1. /\ A \subseteq DOMAIN sources /\ DOMAIN file.entries = A
        /\ \A a \in A : file.entries[a] = sources[a] /\ sources[a] \subseteq A
        /\ k \in DOMAIN file.identity <=> i \in DOMAIN identity
        /\ i \in DOMAIN identity => file.identity[k] = identity[i] /\ identity[i] \in A
    BY DEF Spells
  <2>2. DOMAIN sources \subseteq Nat /\ \A a \in DOMAIN sources : sources[a] \subseteq DOMAIN sources
    <3>1. DOMAIN sources \subseteq 1..issued /\ issued \in Nat
      BY BoundsAssumption DEF IInv, TypeOK
    <3> QED BY <3>1 DEF IInv, LineageComplete
  <2>3. Complete(sources) /\ Complete(file.entries)
    BY <2>1, <2>2 DEF Complete
  <2>4. \A a \in A : 0 + a = a /\ {0 + b : b \in sources[a]} = sources[a]
    <3>1. \A a \in A : a \in Nat /\ \A b \in sources[a] : b \in Nat
      BY <2>1, <2>2
    <3>2. \A a \in A : 0 + a = a /\ \A b \in sources[a] : 0 + b = b
      BY <3>1
    <3> QED BY <3>2
  <2>5. Recounts(sources, A, 0, file.entries)
    BY <2>1, <2>4 DEF Recounts
  <2>6. i \in DOMAIN identity => identity[i] \in A /\ file.identity[k] = 0 + identity[i]
    BY <2>1, <2>4
  <2>7. k \in DOMAIN file.identity <=> i \in DOMAIN identity
    BY <2>1
  <2> HIDE DEF k
  <2>8. LineageOf(k, file.identity, file.entries, 0) = LineageOf(i, identity, sources, 0)
    BY <2>3, <2>5, <2>6, <2>7, SameLineage
  <2> QED BY <2>8 DEF k
<1> QED BY <1>5, <1>6

-----------------------------------------------------------------------------
(* A file whose nodes hold older ones, or what the file does not hold.     *)
GoesDown(ns) == \A k \in DOMAIN ns : \A c \in ns[k].children : c < k \/ c \notin DOMAIN ns

LEMMA DamagedGoesDown ==
    ASSUME NEW ns, NEW cs, NEW es, NEW ids, NEW rs, NEW file,
           file = [nodes |-> ns, curves |-> cs, entries |-> es, identity |-> ids, roots |-> rs],
           FileOK(file), GoesDown(ns), NEW damage \in Damages, NEW read \in Damaged(file, damage)
    PROVE  GoesDown(read.nodes)
<1>1. PICK n \in Nat : ns \in [1..n -> Node]
  BY DEF FileOK
<1>2. DOMAIN ns = 1..n /\ Cardinality(1..n) = n
  BY <1>1, FS_Interval
<1> DEFINE missing == Cardinality(DOMAIN file.nodes) + 1
<1>3. missing \notin DOMAIN ns
  BY <1>2
<1> HIDE DEF missing
<1>4. CASE damage = "none"
  BY <1>4 DEF Damaged
<1>5. CASE damage = "root"
  <2>1. read = [file EXCEPT !.roots = {missing}]
    BY <1>5 DEF Damaged, missing
  <2>2. read.nodes = ns
    BY <2>1
  <2> QED BY <2>2
<1>6. CASE damage = "child"
  <2>1. PICK i \in DOMAIN file.nodes :
           read = [file EXCEPT !.nodes[i].children = @ \cup {missing}]
    BY <1>6 DEF Damaged, missing
  <2>2. read.nodes = [ns EXCEPT ![i].children = @ \cup {missing}]
    BY <2>1
  <2>3. DOMAIN read.nodes = DOMAIN ns
    BY <2>2
  <2>4. ASSUME NEW k \in DOMAIN ns PROVE read.nodes[k].children \subseteq ns[k].children \cup {missing}
    <3>1. ns[k] \in Node
      BY <1>1, <1>2
    <3>2. CASE k = i
      <4>1. read.nodes[k] = [ns[k] EXCEPT !.children = @ \cup {missing}]
        BY <2>2, <3>2
      <4> QED BY <3>1, <4>1 DEF Node
    <3>3. CASE k # i
      BY <2>2, <3>3
    <3> QED BY <3>2, <3>3
  <2> QED BY <1>3, <2>3, <2>4 DEF GoesDown
<1> QED BY <1>4, <1>5, <1>6, DamagesAssumption

(* What is read stands past what was there: taken in it is usable, and     *)
(* otherwise litter.                                                       *)
LEMMA ReadStands ==
    ASSUME IInv, WellMade, NEW file, FileOK(file), GoesDown(file.nodes), ReadInto(file)
    PROVE  WellMade'
<1>1. PICK n \in Nat : file.nodes \in [1..n -> Node]
  BY DEF FileOK
<1>2. PICK d \in Nat : file.curves \in [1..d -> Geometry]
  BY DEF FileOK
<1>3. /\ DOMAIN file.nodes = 1..n /\ Cardinality(DOMAIN file.nodes) = n
      /\ DOMAIN file.curves = 1..d /\ Cardinality(DOMAIN file.curves) = d
  <2>1. DOMAIN file.nodes = 1..n /\ DOMAIN file.curves = 1..d
    BY <1>1, <1>2
  <2>2. Cardinality(1..n) = n /\ Cardinality(1..d) = d
    BY FS_Interval
  <2> QED BY <2>1, <2>2
<1> DEFINE taken == Restorable(file) /\ RootsThere(file)
           read == [k \in DOMAIN file.nodes |-> Shifted(file.nodes[k])]
           new == {slots + k : k \in 1..n}
<1>4. /\ nodes' = Beyond(nodes, slots, read)
      /\ slots' = slots + n
      /\ curves' = Beyond(curves, curve_slots, file.curves)
      /\ litter' = IF taken THEN litter ELSE litter \cup new
  BY <1>3 DEF ReadInto
<1>5. /\ slots \in Nat /\ curve_slots \in Nat
      /\ \A i \in DOMAIN nodes : i \in Nat \ {0} /\ i <= slots
      /\ DOMAIN nodes \subseteq 1..slots
  BY UsableHandles
<1>6. ASSUME NEW k \in 1..n
      PROVE  /\ read[k].kind = file.nodes[k].kind
             /\ read[k].children = {slots + c : c \in file.nodes[k].children}
             /\ read[k].curve = IF file.nodes[k].curve = None THEN None
                                ELSE curve_slots + file.nodes[k].curve
             /\ file.nodes[k].children \subseteq Nat \ {0}
             /\ read[k] \in Node
  <2>1. file.nodes[k] \in Node
    BY <1>1
  <2>2. read[k] = Shifted(file.nodes[k])
    BY <1>3
  <2>3. {slots + c : c \in file.nodes[k].children} \in SUBSET (Nat \ {0})
    BY <1>5, <2>1 DEF Node
  <2>4. (IF file.nodes[k].curve = None THEN None ELSE curve_slots + file.nodes[k].curve) \in Nat
    BY <1>5, <2>1 DEF Node, None
  <2> QED BY <2>1, <2>2, <2>3, <2>4 DEF Shifted, Node
<1>7. DOMAIN read = 1..n
  BY <1>3
<1> HIDE DEF read, taken
<1>8. /\ DOMAIN nodes' = DOMAIN nodes \cup new
      /\ \A i \in DOMAIN nodes : nodes'[i] = nodes[i]
      /\ \A k \in 1..n : nodes'[slots + k] = read[k]
  <2>1. /\ DOMAIN nodes' = DOMAIN nodes \cup {slots + k : k \in DOMAIN read}
        /\ \A x \in DOMAIN nodes' :
              nodes'[x] = IF x \in DOMAIN nodes THEN nodes[x] ELSE read[x - slots]
    BY <1>4 DEF Beyond
  <2>2. \A k \in 1..n : slots + k \notin DOMAIN nodes /\ (slots + k) - slots = k
    BY <1>5
  <2> QED BY <1>7, <2>1, <2>2
<1>9. \A k \in 1..n : /\ slots + k \in new /\ slots + k \notin DOMAIN nodes
                      /\ slots + k \in Nat /\ slots + k > slots /\ slots + k <= slots + n
  BY <1>5
<1>10. \A i \in new : \E k \in 1..n : i = slots + k
  OBVIOUS
<1>11. DOMAIN curves' = DOMAIN curves \cup {curve_slots + k : k \in 1..d}
  BY <1>3, <1>4 DEF Beyond
<1>12. Usable' = IF taken THEN Usable \cup new ELSE Usable
  <2>1. litter \cap new = {}
    BY <1>9, UsableHandles
  <2> HIDE DEF new
  <2>2. CASE taken
    BY <1>4, <1>8, <2>1, <2>2 DEF Usable
  <2>3. CASE ~taken
    <3>1. Usable \cap new = {}
      BY <1>9, <1>10, UsableHandles
    <3> QED BY <1>4, <1>8, <2>3, <3>1 DEF Usable
  <2> QED BY <2>2, <2>3
<1> HIDE DEF new
<1>13. ASSUME NEW i \in Usable
       PROVE  /\ nodes'[i].children \subseteq Usable'
              /\ \A c \in nodes'[i].children : c < i
              /\ nodes'[i].curve \in DOMAIN curves' \cup {None}
              /\ nodes'[i].kind = "edge" => \A c \in nodes'[i].children : nodes'[c].kind = "vertex"
  <2>1. nodes'[i] = nodes[i] /\ Usable \subseteq Usable'
    BY <1>8, <1>12, UsableHandles
  <2>2. \A c \in nodes[i].children : c \in Usable /\ nodes'[c] = nodes[c]
    BY <1>8, UsableHandles DEF WellMade, ShapesStand
  <2> QED BY <1>11, <2>1, <2>2 DEF WellMade, ShapesStand
<1>14. ASSUME taken, NEW k \in 1..n
       PROVE  /\ nodes'[slots + k].children \subseteq new
              /\ \A c \in nodes'[slots + k].children : c < slots + k
              /\ nodes'[slots + k].curve \in DOMAIN curves' \cup {None}
              /\ nodes'[slots + k].kind = "edge" =>
                    \A c \in nodes'[slots + k].children : nodes'[c].kind = "vertex"
  <2>1. /\ file.nodes[k].children \subseteq 1..n
        /\ file.nodes[k].kind = "edge" =>
              \A c \in file.nodes[k].children : file.nodes[c].kind = "vertex"
        /\ file.nodes[k].curve \in 1..d \cup {None}
    BY <1>3, <1>14 DEF taken, Restorable
  <2>2. \A c \in file.nodes[k].children : c \in Nat /\ k \in Nat /\ c < k
    BY <1>3, <1>6, <2>1 DEF GoesDown
  <2>3. /\ nodes'[slots + k].children = {slots + c : c \in file.nodes[k].children}
        /\ nodes'[slots + k].kind = file.nodes[k].kind
        /\ nodes'[slots + k].curve = IF file.nodes[k].curve = None THEN None
                                     ELSE curve_slots + file.nodes[k].curve
    BY <1>6, <1>8
  <2>4. \A c \in file.nodes[k].children :
           slots + c \in new /\ slots + c < slots + k /\ nodes'[slots + c].kind = file.nodes[c].kind
    <3> SUFFICES ASSUME NEW c \in file.nodes[k].children
                 PROVE  /\ slots + c \in new /\ slots + c < slots + k
                        /\ nodes'[slots + c].kind = file.nodes[c].kind
      OBVIOUS
    <3>1. c \in 1..n
      BY <2>1
    <3>2. nodes'[slots + c] = read[c] /\ read[c].kind = file.nodes[c].kind
      BY <1>6, <1>8, <3>1
    <3>3. slots + c < slots + k
      BY <1>5, <2>2
    <3> QED BY <1>9, <3>1, <3>2, <3>3
  <2> QED BY <1>11, <2>1, <2>3, <2>4
<1>15. ShapesStand'
  <2>1. ASSUME taken, NEW i \in new
        PROVE  /\ nodes'[i].children \subseteq Usable'
               /\ \A c \in nodes'[i].children : c < i
               /\ nodes'[i].curve \in DOMAIN curves' \cup {None}
               /\ nodes'[i].kind = "edge" =>
                     \A c \in nodes'[i].children : nodes'[c].kind = "vertex"
    <3>1. PICK k \in 1..n : i = slots + k
      BY <1>10
    <3>2. new \subseteq Usable'
      BY <1>12, <2>1
    <3> QED BY <1>14, <2>1, <3>1, <3>2
  <2> QED BY <1>12, <1>13, <2>1 DEF ShapesStand
<1>16. LitterLast'
  <2>0. PICK top \in Nat : \E m : Ranked(nodes, m, top) /\ RankedByHandle(m)
    BY DEF WellMade, LitterLast
  <2>1. PICK m : Ranked(nodes, m, top) /\ RankedByHandle(m)
    BY <2>0
  <2>2. /\ \A i \in DOMAIN nodes : m[i] \in Nat /\ m[i] <= top
        /\ \A i \in DOMAIN nodes : \A c \in Parts(nodes, i) : c \in DOMAIN nodes /\ m[c] < m[i]
        /\ \A i \in Usable : m[i] = i
        /\ \A i \in litter : m[i] > slots
    BY <2>1 DEF Ranked, RankedByHandle, Parts
  (* What is new goes between what was usable and what was litter.         *)
  <2> DEFINE up == IF taken THEN 0 ELSE n
             M == [i \in DOMAIN nodes' |->
                     IF i \in new THEN i + up
                     ELSE IF i \in litter THEN m[i] + n + n ELSE i]
  <2>3. /\ \A k \in 1..n : M[slots + k] = slots + k + up
        /\ \A i \in DOMAIN nodes : M[i] = IF i \in litter THEN m[i] + n + n ELSE i
        /\ DOMAIN M = DOMAIN nodes'
    <3>1. \A i \in DOMAIN nodes : i \notin new
      BY <1>9, <1>10
    <3> QED BY <1>8, <1>9, <3>1
  <2>4. M = [i \in DOMAIN nodes' |-> M[i]]
    OBVIOUS
  <2>5. up \in Nat /\ up <= n
    OBVIOUS
  <2> HIDE DEF M, up
  <2>6. \A i \in DOMAIN nodes' : M[i] \in 0..(top + slots + n + n)
    <3>1. ASSUME NEW i \in DOMAIN nodes PROVE M[i] \in 0..(top + slots + n + n)
      <4>1. i \in Nat /\ i <= slots /\ m[i] \in Nat /\ m[i] <= top
        BY <1>5, <2>2
      <4> QED BY <1>5, <2>3, <4>1
    <3>2. ASSUME NEW k \in 1..n PROVE M[slots + k] \in 0..(top + slots + n + n)
      BY <1>5, <2>3, <2>5
    <3> QED BY <1>8, <1>10, <3>1, <3>2
  <2>7. M \in [DOMAIN nodes' -> 0..(top + slots + n + n)]
    BY <2>4, <2>6
  <2>8. ASSUME NEW i \in DOMAIN nodes', NEW c \in Parts(nodes', i) PROVE M[c] < M[i]
    <3>0. c \in DOMAIN nodes' /\ c \in nodes'[i].children
      BY <2>8 DEF Parts
    <3>1. ASSUME NEW k \in 1..n, i = slots + k PROVE M[c] < M[i]
      <4>1. PICK b \in file.nodes[k].children : c = slots + b
        BY <1>6, <1>8, <3>0, <3>1
      <4>2. b \in Nat \ {0} /\ c \notin DOMAIN nodes
        <5>1. b \in Nat \ {0}
          BY <1>6
        <5>2. c \notin 1..slots
          BY <1>5, <4>1, <5>1
        <5> QED BY <1>5, <5>1, <5>2
      <4>3. b \in 1..n
        <5>1. PICK j \in 1..n : c = slots + j
          BY <1>8, <1>10, <3>0, <4>2
        <5>2. b = j
          BY <1>5, <4>1, <4>2, <5>1
        <5> QED BY <5>2
      <4>4. b < k
        BY <1>3, <4>3 DEF GoesDown
      <4>5. M[c] = slots + b + up /\ M[i] = slots + k + up
        BY <2>3, <3>1, <4>1, <4>3
      <4> QED BY <1>5, <2>5, <4>3, <4>4, <4>5
    <3>2. CASE i \in Usable
      <4>1. i \in DOMAIN nodes /\ i \notin litter /\ nodes'[i] = nodes[i]
        BY <1>8, <3>2, UsableHandles DEF Usable
      <4>2. c \in Usable /\ c < i /\ c \in DOMAIN nodes /\ c \notin litter
        BY <3>0, <3>2, <4>1 DEF WellMade, ShapesStand, Usable
      <4> QED BY <2>3, <4>1, <4>2
    <3>3. CASE i \in litter
      <4>1. /\ i \in DOMAIN nodes /\ nodes'[i] = nodes[i]
            /\ M[i] = m[i] + n + n /\ m[i] \in Nat /\ m[i] > slots
        BY <1>8, <2>2, <2>3, <3>3, UsableHandles
      <4>2. ASSUME NEW k \in 1..n, c = slots + k PROVE M[c] < M[i]
        <5>1. M[c] = slots + k + up
          BY <2>3, <4>2
        <5> QED BY <1>5, <2>5, <4>1, <5>1
      <4>3. CASE c \in DOMAIN nodes
        <5>1. c \in Parts(nodes, i)
          BY <3>0, <4>1, <4>3 DEF Parts
        <5>2. m[c] \in Nat /\ m[c] < m[i] /\ c \in Nat
          BY <1>5, <2>2, <4>1, <4>3, <5>1
        <5>3. c \in litter \/ m[c] = c
          BY <2>2, <4>3, UsableHandles
        <5> QED BY <2>3, <4>1, <4>3, <5>2, <5>3
      <4> QED BY <1>8, <1>10, <3>0, <4>2, <4>3
    <3> QED BY <1>8, <1>10, <3>1, <3>2, <3>3, UsableHandles
  <2>9. Ranked(nodes', M, top + slots + n + n)
    BY <2>7, <2>8 DEF Ranked
  <2>10. \A i \in Usable' : M[i] = i
    <3>1. \A i \in Usable : M[i] = i
      BY <2>3, UsableHandles DEF Usable
    <3>2. ASSUME taken, NEW k \in 1..n PROVE M[slots + k] = slots + k
      BY <1>5, <2>3, <3>2 DEF up
    <3> QED BY <1>10, <1>12, <3>1, <3>2
  <2>11. \A i \in litter' : M[i] > slots'
    <3>1. ASSUME NEW i \in litter PROVE M[i] > slots + n
      <4>1. i \in DOMAIN nodes /\ m[i] \in Nat /\ m[i] > slots
        BY <2>2, UsableHandles
      <4> QED BY <1>5, <2>3, <4>1
    <3>2. ASSUME ~taken, NEW k \in 1..n PROVE M[slots + k] > slots + n
      <4>1. up = n
        BY <3>2 DEF up
      <4> QED BY <1>5, <2>3, <4>1
    <3> QED BY <1>4, <1>10, <3>1, <3>2
  <2>12. top + slots + n + n \in Nat
    BY <1>5
  <2> QED BY <2>9, <2>10, <2>11, <2>12 DEF LitterLast, RankedByHandle
<1> QED BY <1>15, <1>16 DEF WellMade

(* A compacted model is what its file holds.                               *)
LEMMA CompactStands ==
    ASSUME IInv, WellMade, NEW roots \in SUBSET Usable, roots # {}, Compact(roots)
    PROVE  WellMade'
<1> DEFINE file == Written(roots)
<1>1. PICK S, C, A : Spells(file, S, C, A)
  BY WrittenSpells
<1>2. nodes' = file.nodes /\ curves' = file.curves /\ litter' = {}
  BY DEF Compact
<1> HIDE DEF file
<1>3. Usable' = DOMAIN file.nodes
  BY <1>2 DEF Usable
<1>4. ShapesStand'
  BY <1>1, <1>2, <1>3, SpelledStands DEF ShapesStand
<1>5. DOMAIN file.nodes = 1..Cardinality(S) /\ Cardinality(S) \in Nat
  BY <1>1, FS_CardinalityType DEF Spells, Ranks
<1> DEFINE m == [k \in DOMAIN file.nodes |-> k]
<1>6. Ranked(nodes', m, Cardinality(S))
  <2>1. m \in [DOMAIN file.nodes -> 0..Cardinality(S)]
    BY <1>5
  <2>2. \A k \in DOMAIN file.nodes : \A c \in Parts(file.nodes, k) : m[c] < m[k]
    BY <1>1, SpelledStands DEF Parts
  <2> QED BY <1>2, <2>1, <2>2 DEF Ranked
<1>7. \A i \in Usable' : m[i] = i
  BY <1>3
<1>8. LitterLast'
  BY <1>2, <1>5, <1>6, <1>7 DEF LitterLast, RankedByHandle
<1> QED BY <1>4, <1>8 DEF WellMade

LEMMA TakenInStands ==
    ASSUME IInv, WellMade, NEW root \in Usable, NEW damage \in Damages, Writes({root}),
           NEW read \in Damaged(Written({root}), damage), ReadInto(read)
    PROVE  WellMade'
<1> DEFINE file == Written({root})
<1>1. FileOK(file)
  BY WrittenIsFile DEF Usable
<1>2. PICK S, C, A : Spells(file, S, C, A)
  BY WrittenSpells
<1>3. GoesDown(file.nodes)
  <2> HIDE DEF file
  <2> QED BY <1>2, SpelledStands DEF GoesDown
<1>4. file = [nodes |-> file.nodes, curves |-> file.curves, entries |-> file.entries,
              identity |-> file.identity, roots |-> file.roots]
  BY DEF Written
<1>5. read \in Damaged(file, damage)
  OBVIOUS
<1> HIDE DEF file
<1>6. FileOK(read) /\ GoesDown(read.nodes)
  BY <1>1, <1>3, <1>4, <1>5, DamagedIsFile, DamagedGoesDown
<1> QED BY <1>6, ReadStands

(* Every shape stands through every operation.                             *)
LEMMA StaysWellMade == Spec => []WellMade
<1>1. Init => WellMade
  <2> SUFFICES ASSUME Init PROVE WellMade
    OBVIOUS
  <2>1. nodes = <<>> /\ litter = {} /\ Usable = {} /\ DOMAIN nodes = {}
    BY DEF Init, Usable
  <2>2. Ranked(nodes, [i \in {} |-> 0], 0)
    BY <2>1 DEF Ranked
  <2> QED BY <2>1, <2>2 DEF WellMade, ShapesStand, LitterLast, RankedByHandle
<1>2. IInv /\ WellMade /\ [Next]_vars => WellMade'
  <2> SUFFICES ASSUME IInv, WellMade, [Next]_vars PROVE WellMade'
    OBVIOUS
  <2>0. ASSUME NEW S \in Named PROVE S \in SUBSET Usable
    BY DEF Named
  <2>1. ASSUME NEW g \in Geometry, AddCurve(g) PROVE WellMade'
    <3>1. nodes' = nodes /\ litter' = litter /\ slots' = slots /\ DOMAIN curves \subseteq DOMAIN curves'
      BY <2>1 DEF AddCurve, Extended
    <3>2. Usable' = Usable
      BY <3>1 DEF Usable
    <3>3. ShapesStand'
      BY <3>1, <3>2 DEF WellMade, ShapesStand
    <3>4. LitterLast'
      BY <3>1, <3>2 DEF WellMade, LitterLast, RankedByHandle
    <3> QED BY <3>3, <3>4 DEF WellMade
  <2>2. ASSUME NEW p \in Points, AddVertex(p) PROVE WellMade'
    <3> DEFINE node == [kind |-> "vertex", value |-> p, curve |-> None, children |-> {}]
    <3>1. node \in Node /\ node.children = {} /\ node.curve = None /\ node.kind # "edge"
      BY DEF Node, Kinds, None
    <3>2. Insert(node) /\ curves' = curves
      BY <2>2 DEF AddVertex, geometry
    <3> HIDE DEF node
    <3> QED BY <3>1, <3>2, InsertStands
  <2>3. ASSUME NEW c \in DOMAIN curves \cup {None}, NEW ends \in Named, AddEdge(c, ends)
        PROVE  WellMade'
    <3> DEFINE node == [kind |-> "edge", value |-> None, curve |-> c, children |-> ends]
    <3>1. c \in Nat
      <4>1. DOMAIN curves \subseteq 1..curve_slots /\ curve_slots \in Nat
        BY UsableHandles DEF IInv, TypeOK
      <4> QED BY <4>1 DEF None
    <3>2. ends \subseteq Usable /\ ends \in SUBSET (Nat \ {0})
      BY <2>0, UsableHandles
    <3>3. node \in Node /\ node.children = ends /\ node.curve = c
      BY <3>1, <3>2 DEF Node, Kinds
    <3>4. Insert(node) /\ curves' = curves /\ \A i \in ends : nodes[i].kind = "vertex"
      BY <2>3 DEF AddEdge, geometry
    <3> HIDE DEF node
    <3> QED BY <3>2, <3>3, <3>4, InsertStands
  <2>4. ASSUME NEW shapes \in Named, AddCompound(shapes) PROVE WellMade'
    <3> DEFINE node == [kind |-> "compound", value |-> None, curve |-> None, children |-> shapes]
    <3>1. shapes \subseteq Usable /\ shapes \in SUBSET (Nat \ {0})
      BY <2>0, UsableHandles
    <3>2. node \in Node /\ node.children = shapes /\ node.curve = None /\ node.kind # "edge"
      BY <3>1 DEF Node, Kinds, None
    <3>3. Insert(node) /\ curves' = curves
      BY <2>4 DEF AddCompound, geometry
    <3> HIDE DEF node
    <3> QED BY <3>1, <3>2, <3>3, InsertStands
  <2>5. CASE UNCHANGED <<nodes, slots, curves, litter>>
    <3>1. Usable' = Usable
      BY <2>5 DEF Usable
    <3>2. ShapesStand'
      BY <2>5, <3>1 DEF WellMade, ShapesStand
    <3>3. LitterLast'
      BY <2>5, <3>1 DEF WellMade, LitterLast, RankedByHandle
    <3> QED BY <3>2, <3>3 DEF WellMade
  <2>6. ASSUME NEW i \in Usable, NEW from \in Named, SetDerived(i, from) PROVE WellMade'
    BY <2>5, <2>6 DEF SetDerived, geometry
  <2>7. ASSUME NEW roots \in Named, RetainReachable(roots) PROVE WellMade'
    BY <2>0, <2>7, RetainStands
  <2>8. ASSUME NEW root \in Usable, NEW damage \in Damages, Writes({root}),
               NEW file \in Damaged(Written({root}), damage), ReadInto(file)
        PROVE  WellMade'
    BY <2>8, TakenInStands
  <2>9. ASSUME NEW roots \in Named \ {{}}, Compact(roots) PROVE WellMade'
    BY <2>0, <2>9, CompactStands
  <2>10. CASE UNCHANGED vars
    BY <2>5, <2>10 DEF vars, geometry
  <2> QED BY <2>1, <2>2, <2>3, <2>4, <2>6, <2>7, <2>8, <2>9, <2>10 DEF Next
<1> QED BY <1>1, <1>2, Inductive, PTL DEF Spec

-----------------------------------------------------------------------------
(* A shape written as a root reads back as what it was, with the same      *)
(* identities and lineage below it, whatever the model went through.       *)
THEOREM RootsAlwaysReadBack == Spec => []RootsReadBack
<1>1. IInv /\ WellMade => RootsReadBack
  <2> SUFFICES ASSUME IInv, WellMade, NEW r \in Usable
               PROVE  Writes({r}) /\ ReadsBack(Below({r}), Written({r}))
    BY DEF RootsReadBack
  <2> DEFINE S == Below({r})
             file == Written({r})
             rs == {r}
  <2>1. rs \in SUBSET Usable /\ rs # {} /\ rs \subseteq DOMAIN nodes
    BY UsableHandles
  <2>2. /\ \E C, A : Spells(Written(rs), Below(rs), C, A)
        /\ Writes(rs) /\ rs \subseteq Below(rs)
        /\ Written(rs).roots = {Rank(Below(rs), x) : x \in rs}
    <3> HIDE DEF rs
    <3> QED BY <2>1, WrittenSpells
  <2>3. PICK C, A : Spells(file, S, C, A)
    BY <2>2
  <2>4. FileOK(file)
    <3>1. FileOK(Written(rs))
      <4> HIDE DEF rs
      <4> QED BY <2>1, <2>2, WrittenIsFile
    <3> QED BY <3>1
  <2>5. file.roots \subseteq DOMAIN file.nodes
    <3>1. file.roots = {Rank(S, r)} /\ r \in S
      BY <2>2
    <3> HIDE DEF S, file
    <3> QED BY <2>3, <3>1, RankAtMost DEF Spells
  <2>6. Reads(file)
    <3> HIDE DEF S, file
    <3> QED BY <2>3, <2>4, <2>5, SpelledReads
  <2>7. ASSUME NEW i \in S
        PROVE  /\ Meanings(file.nodes, file.curves)[Rank(S, i)] = Meanings(nodes, curves)[i]
               /\ LineageOf(Rank(S, i), file.identity, file.entries, 0)
                     = LineageOf(i, identity, sources, 0)
    <3> HIDE DEF S, file
    <3> QED BY <2>3, <2>7, SpelledMeans
  <2>8. ReadsBack(S, file)
    <3> HIDE DEF S, file
    <3> QED BY <2>6, <2>7 DEF ReadsBack
  <2> QED BY <2>2, <2>8
<1> QED BY <1>1, Inductive, StaysWellMade, PTL

(* Shapes whose nodes and geometry a step leaves in place mean the same    *)
(* after it.                                                               *)
LEMMA LeftInPlace ==
    ASSUME IInv, WellMade, IInv', WellMade', NEW K \in SUBSET Usable,
           \A i \in K : /\ nodes[i].children \subseteq K
                        /\ i \in DOMAIN nodes' /\ nodes'[i] = nodes[i]
                        /\ nodes[i].curve # None =>
                              /\ nodes[i].curve \in DOMAIN curves'
                              /\ curves'[nodes[i].curve] = curves[nodes[i].curve],
           NEW i \in K
    PROVE  Meanings(nodes', curves')[i] = Meanings(nodes, curves)[i]
<1>1. PICK ns, cs, ms, ds : ns = nodes /\ cs = curves /\ ms = nodes' /\ ds = curves'
  OBVIOUS
<1>2. Acyclic(ns) /\ Acyclic(ms)
  <2>1. Acyclic(nodes)
    BY NodesAreAcyclic DEF WellMade
  <2>2. Acyclic(nodes')
    BY DEF WellMade, LitterLast, Acyclic
  <2> QED BY <1>1, <2>1, <2>2
<1>3. 0 \notin DOMAIN curves /\ 0 \notin DOMAIN curves'
  BY BoundsAssumption DEF IInv, TypeOK
<1> DEFINE s == [j \in K |-> j]
<1>4. ASSUME NEW j \in K
      PROVE  /\ s[j] = j /\ j \in DOMAIN nodes
             /\ Parts(ns, j) \subseteq K
             /\ Parts(ms, j) = {s[c] : c \in Parts(ns, j)}
             /\ Shown(ms, ds, j) = Shown(ns, cs, j)
             /\ ms[j] = ns[j]
  <2>1. s[j] = j /\ j \in DOMAIN nodes /\ \A c \in nodes[j].children : s[c] = c
    BY UsableHandles
  <2>2. Parts(ns, j) = nodes[j].children /\ Parts(ms, j) = nodes[j].children
    BY <1>1, UsableHandles DEF Parts
  <2>3. Parts(ms, j) = {s[c] : c \in Parts(ns, j)}
    <3> HIDE DEF s
    <3> QED BY <2>1, <2>2
  <2>4. Shown(ms, ds, j) = Shown(ns, cs, j)
    <3>1. CASE nodes[j].curve = None
      BY <1>1, <1>3, <3>1 DEF Shown, None
    <3>2. CASE nodes[j].curve # None
      <4>1. nodes[j].curve \in DOMAIN curves
        BY <3>2 DEF WellMade, ShapesStand
      <4> QED BY <1>1, <3>2, <4>1 DEF Shown
    <3> QED BY <3>1, <3>2
  <2> QED BY <1>1, <2>1, <2>2, <2>3, <2>4
<1>5. Respells(ns, cs, K, s, ms, ds)
  <2>1. \A j \in K : j \in DOMAIN ms /\ j \in DOMAIN ns
    BY <1>1, <1>4
  <2> HIDE DEF s
  <2> QED BY <1>4, <2>1 DEF Respells
<1>6. Meanings(ms, ds)[s[i]] = Meanings(ns, cs)[i]
  <2> HIDE DEF s
  <2> QED BY <1>2, <1>5, SameMeaning
<1> QED BY <1>1, <1>4, <1>6

LEMMA SourcesComplete ==
    ASSUME IInv
    PROVE  Complete(sources) /\ DOMAIN sources \subseteq 1..issued /\ issued \in Nat
<1>1. DOMAIN sources \subseteq 1..issued /\ issued \in Nat
  BY BoundsAssumption DEF IInv, TypeOK
<1>2. DOMAIN sources \subseteq Nat
  BY <1>1
<1> QED BY <1>1, <1>2 DEF Complete, IInv, LineageComplete

(* Trimming a model keeps every root with all it means and its lineage,    *)
(* whatever else the model held and however large it is.                   *)
THEOREM RetainAlwaysKeepsRoots == Spec => RetainKeepsRoots
<1>1. IInv /\ WellMade /\ IInv' /\ WellMade' /\ [Next]_vars =>
        [\A roots \in Named : slots' = slots /\ RetainReachable(roots) =>
            \A r \in roots :
                /\ r \in DOMAIN nodes'
                /\ Meanings(nodes', curves')[r] = Meanings(nodes, curves)[r]
                /\ LineageOf(r, identity', sources', 0) = LineageOf(r, identity, sources, 0)]_vars
  <2> SUFFICES ASSUME IInv, WellMade, IInv', WellMade', NEW roots \in Named,
                      RetainReachable(roots), NEW r \in roots
               PROVE  /\ r \in DOMAIN nodes'
                      /\ Meanings(nodes', curves')[r] = Meanings(nodes, curves)[r]
                      /\ LineageOf(r, identity', sources', 0) = LineageOf(r, identity, sources, 0)
    OBVIOUS
  <2> DEFINE kept == Below(roots)
             A == Ancestry(IdentitiesOf(kept))
  <2>1. /\ roots \subseteq kept /\ kept \subseteq Usable
        /\ \A i \in kept : nodes[i].children \subseteq kept
    BY BelowStands DEF Named, WellMade
  <2>2. /\ nodes' = Restrict(nodes, kept)
        /\ curves' = Restrict(curves, DOMAIN curves \cap CurvesOf(kept))
        /\ sources' = Restrict(sources, A)
        /\ identity' = Restrict(identity, kept \cap DOMAIN identity)
    BY DEF RetainReachable
  <2>3. \A i \in kept : i \in DOMAIN identity => identity[i] \in IdentitiesOf(kept)
    BY DEF IdentitiesOf
  <2>4. IdentitiesOf(kept) \subseteq DOMAIN sources
    BY DEF IdentitiesOf, IInv, LineageComplete
  <2>5. /\ A \subseteq DOMAIN sources
        /\ \A a \in A : sources[a] \subseteq A
        /\ IdentitiesOf(kept) \subseteq A
    BY <2>4, AncestryIsClosed
  <2> HIDE DEF kept, A
  <2>6. ASSUME NEW i \in kept
        PROVE  /\ i \in DOMAIN nodes' /\ nodes'[i] = nodes[i]
               /\ nodes[i].curve # None =>
                     /\ nodes[i].curve \in DOMAIN curves'
                     /\ curves'[nodes[i].curve] = curves[nodes[i].curve]
    <3>1. i \in DOMAIN nodes' /\ nodes'[i] = nodes[i]
      BY <2>2 DEF Restrict
    <3>2. nodes[i].curve # None => nodes[i].curve \in DOMAIN curves \cap CurvesOf(kept)
      BY <2>1 DEF WellMade, ShapesStand, CurvesOf
    <3>3. \A x \in DOMAIN curves \cap CurvesOf(kept) : x \in DOMAIN curves' /\ curves'[x] = curves[x]
      BY <2>2 DEF Restrict
    <3> QED BY <3>1, <3>2, <3>3
  <2>7. Meanings(nodes', curves')[r] = Meanings(nodes, curves)[r]
    <3>1. kept \in SUBSET Usable /\ r \in kept
      BY <2>1
    <3> QED BY <2>1, <2>6, <3>1, LeftInPlace
  <2>8. /\ r \in DOMAIN identity' <=> r \in DOMAIN identity
        /\ r \in DOMAIN identity => /\ identity'[r] = identity[r]
                                    /\ identity[r] \in A
    BY <2>1, <2>2, <2>3, <2>5 DEF Restrict
  <2>9. LineageOf(r, identity', sources', 0) = LineageOf(r, identity, sources, 0)
    <3>1. Complete(sources) /\ \A a \in DOMAIN sources : a \in Nat /\ sources[a] \subseteq Nat
      BY SourcesComplete DEF Complete
    <3>2. DOMAIN sources' = A /\ \A a \in A : sources'[a] = sources[a]
      BY <2>2 DEF Restrict
    <3>3. Complete(sources')
      BY <2>5, <3>1, <3>2 DEF Complete
    <3>4. \A a \in A : 0 + a = a /\ \A b \in sources[a] : 0 + b = b
      BY <2>5, <3>1
    <3>5. \A a \in A : {0 + b : b \in sources[a]} = sources[a]
      BY <3>4
    <3>6. Recounts(sources, A, 0, sources')
      BY <2>5, <3>2, <3>4, <3>5 DEF Recounts
    <3>7. r \in DOMAIN identity => identity[r] \in A /\ identity'[r] = 0 + identity[r]
      BY <2>8, <3>4
    <3>8. PICK ids, jds, src, trc :
             ids = identity /\ jds = identity' /\ src = sources /\ trc = sources'
      OBVIOUS
    <3>9. LineageOf(r, jds, trc, 0) = LineageOf(r, ids, src, 0)
      BY <2>8, <3>1, <3>3, <3>6, <3>7, <3>8, SameLineage
    <3> QED BY <3>8, <3>9
  <2> QED BY <2>1, <2>6, <2>7, <2>9
<1> QED BY <1>1, Inductive, StaysWellMade, PTL DEF Spec, RetainKeepsRoots

-----------------------------------------------------------------------------
(* What a step leaves of the handles there were.                           *)
Steady ==
    \A i \in (1..slots) \ litter :
        /\ i \notin DOMAIN nodes => i \notin DOMAIN nodes'
        /\ i \in DOMAIN nodes \cap DOMAIN nodes' =>
              Meanings(nodes', curves')[i] = Meanings(nodes, curves)[i]

(* A step that only adds: to the nodes past those there are, and to the    *)
(* geometry.                                                               *)
LEMMA AddingIsSteady ==
    ASSUME IInv, WellMade, IInv', WellMade',
           DOMAIN nodes \subseteq DOMAIN nodes',
           \A i \in DOMAIN nodes : nodes'[i] = nodes[i],
           \A i \in DOMAIN nodes' : i \in DOMAIN nodes \/ i > slots,
           \A c \in DOMAIN curves : c \in DOMAIN curves' /\ curves'[c] = curves[c]
    PROVE  Steady
<1> SUFFICES ASSUME NEW i \in (1..slots) \ litter
             PROVE  /\ i \notin DOMAIN nodes => i \notin DOMAIN nodes'
                    /\ i \in DOMAIN nodes \cap DOMAIN nodes' =>
                          Meanings(nodes', curves')[i] = Meanings(nodes, curves)[i]
  BY DEF Steady
<1>1. i \notin DOMAIN nodes => i \notin DOMAIN nodes'
  BY UsableHandles
<1>2. ASSUME i \in DOMAIN nodes
      PROVE  Meanings(nodes', curves')[i] = Meanings(nodes, curves)[i]
  <2>1. i \in Usable /\ Usable \in SUBSET Usable
    BY <1>2 DEF Usable
  <2>2. \A j \in Usable :
            /\ nodes[j].children \subseteq Usable
            /\ j \in DOMAIN nodes' /\ nodes'[j] = nodes[j]
            /\ nodes[j].curve # None =>
                  /\ nodes[j].curve \in DOMAIN curves'
                  /\ curves'[nodes[j].curve] = curves[nodes[j].curve]
    BY UsableHandles DEF WellMade, ShapesStand
  <2> QED BY <2>1, <2>2, LeftInPlace
<1> QED BY <1>1, <1>2

LEMMA InsertIsSteady ==
    ASSUME IInv, WellMade, IInv', WellMade', NEW node, Insert(node), curves' = curves
    PROVE  Steady
<1>1. nodes' = Extended(nodes, slots + 1, node)
  BY DEF Insert, NextSlot
<1>2. slots \in Nat /\ slots + 1 \notin DOMAIN nodes /\ slots + 1 > slots
  BY UsableHandles
<1>3. /\ DOMAIN nodes' = DOMAIN nodes \cup {slots + 1}
      /\ \A i \in DOMAIN nodes : nodes'[i] = nodes[i]
  BY <1>1, <1>2 DEF Extended
<1>4. \A i \in DOMAIN nodes' : i \in DOMAIN nodes \/ i > slots
  BY <1>2, <1>3
<1> QED BY <1>3, <1>4, AddingIsSteady

LEMMA RetainIsSteady ==
    ASSUME IInv, WellMade, IInv', WellMade', NEW roots \in SUBSET Usable, RetainReachable(roots)
    PROVE  Steady
<1> DEFINE kept == Below(roots)
<1>1. /\ kept \subseteq Usable
      /\ \A i \in kept : nodes[i].children \subseteq kept
  BY BelowStands DEF WellMade
<1>2. /\ nodes' = Restrict(nodes, kept)
      /\ curves' = Restrict(curves, DOMAIN curves \cap CurvesOf(kept))
  BY DEF RetainReachable
<1> HIDE DEF kept
<1>3. \A i \in kept :
         /\ i \in DOMAIN nodes' /\ nodes'[i] = nodes[i]
         /\ nodes[i].curve # None =>
               /\ nodes[i].curve \in DOMAIN curves'
               /\ curves'[nodes[i].curve] = curves[nodes[i].curve]
  <2> SUFFICES ASSUME NEW i \in kept
               PROVE  /\ i \in DOMAIN nodes' /\ nodes'[i] = nodes[i]
                      /\ nodes[i].curve # None =>
                            /\ nodes[i].curve \in DOMAIN curves'
                            /\ curves'[nodes[i].curve] = curves[nodes[i].curve]
    OBVIOUS
  <2>1. i \in DOMAIN nodes' /\ nodes'[i] = nodes[i]
    BY <1>2 DEF Restrict
  <2>2. nodes[i].curve # None => nodes[i].curve \in DOMAIN curves \cap CurvesOf(kept)
    BY <1>1 DEF WellMade, ShapesStand, CurvesOf
  <2>3. \A x \in DOMAIN curves \cap CurvesOf(kept) : x \in DOMAIN curves' /\ curves'[x] = curves[x]
    BY <1>2 DEF Restrict
  <2> QED BY <2>1, <2>2, <2>3
<1>4. DOMAIN nodes' = kept
  BY <1>2 DEF Restrict
<1>5. \A i \in kept : Meanings(nodes', curves')[i] = Meanings(nodes, curves)[i]
  BY <1>1, <1>3, LeftInPlace
<1>6. kept \subseteq DOMAIN nodes
  BY <1>1, UsableHandles
<1> QED BY <1>4, <1>5, <1>6 DEF Steady

LEMMA ReadingIsSteady ==
    ASSUME IInv, WellMade, IInv', WellMade', NEW file, FileOK(file), ReadInto(file)
    PROVE  Steady
<1>1. PICK n \in Nat, d \in Nat :
         DOMAIN file.nodes = 1..n /\ DOMAIN file.curves = 1..d
  BY DEF FileOK
<1>2. /\ nodes' = Beyond(nodes, slots, [k \in DOMAIN file.nodes |-> Shifted(file.nodes[k])])
      /\ curves' = Beyond(curves, curve_slots, file.curves)
  BY DEF ReadInto
<1>3. /\ DOMAIN nodes' = DOMAIN nodes \cup {slots + k : k \in 1..n}
      /\ \A i \in DOMAIN nodes : nodes'[i] = nodes[i]
  BY <1>1, <1>2 DEF Beyond
<1>4. \A c \in DOMAIN curves : c \in DOMAIN curves' /\ curves'[c] = curves[c]
  BY <1>2 DEF Beyond
<1>5. \A k \in 1..n : slots + k > slots
  BY UsableHandles
<1>6. \A i \in DOMAIN nodes' : i \in DOMAIN nodes \/ i > slots
  BY <1>3, <1>5
<1> QED BY <1>3, <1>4, <1>6, AddingIsSteady

(* A compaction that hands out as many slots as there were drops nothing.  *)
LEMMA CompactingAllIsSteady ==
    ASSUME IInv, WellMade, NEW roots \in SUBSET Usable, roots # {}, Compact(roots),
           slots' >= slots
    PROVE  Steady
<1> DEFINE file == Written(roots)
           S == Below(roots)
<1>1. PICK C, A : Spells(file, S, C, A)
  BY WrittenSpells
<1>2. nodes' = file.nodes /\ curves' = file.curves /\ slots' = Cardinality(DOMAIN file.nodes)
  BY DEF Compact
<1> HIDE DEF file, S
<1>3. /\ S \in SUBSET Nat /\ IsFiniteSet(S) /\ S \subseteq Usable /\ DOMAIN file.nodes = Ranks(S)
  BY <1>1 DEF Spells
<1>4. Cardinality(S) \in Nat /\ slots' = Cardinality(S)
  <2>1. Cardinality(S) \in Nat
    BY <1>3, FS_CardinalityType
  <2> QED BY <1>2, <1>3, <2>1, FS_Interval DEF Ranks
<1>5. S = 1..slots
  <2>1. S \in SUBSET (1..slots) /\ slots \in Nat
    BY <1>3, UsableHandles
  <2>2. IsFiniteSet(1..slots) /\ Cardinality(1..slots) = slots
    BY <2>1, FS_Interval
  <2>3. /\ Cardinality(S) <= Cardinality(1..slots)
        /\ Cardinality(1..slots) = Cardinality(S) => 1..slots = S
    BY <2>1, <2>2, FS_Subset
  <2>4. Cardinality(S) = slots
    BY <1>4, <2>1, <2>2, <2>3
  <2> QED BY <2>2, <2>3, <2>4
<1>6. \A i \in S : Rank(S, i) = i
  <2> SUFFICES ASSUME NEW i \in S PROVE Rank(S, i) = i
    OBVIOUS
  <2>1. slots \in Nat /\ i \in Nat /\ 1 <= i /\ i <= slots
    BY <1>5, UsableHandles
  <2>2. {y \in S : y < i} = 1..(i - 1)
    <3>1. {y \in 1..slots : y < i} = 1..(i - 1)
      BY <2>1
    <3> QED BY <1>5, <3>1
  <2>3. i - 1 \in Nat /\ Cardinality(1..(i - 1)) = i - 1
    <3>1. i - 1 \in Nat
      BY <2>1
    <3>2. \A k \in Nat : Cardinality(1..k) = k
      BY FS_Interval
    <3> QED BY <3>1, <3>2
  <2>4. Rank(S, i) = Cardinality({y \in S : y < i}) + 1
    BY DEF Rank
  <2>5. Cardinality({y \in S : y < i}) = i - 1
    BY <2>2, <2>3
  <2> QED BY <2>1, <2>4, <2>5
<1>7. \A i \in S : Meanings(nodes', curves')[i] = Meanings(nodes, curves)[i]
  <2>1. \A i \in S : Meanings(file.nodes, file.curves)[Rank(S, i)] = Meanings(nodes, curves)[i]
    BY <1>1, SpelledMeans
  <2> QED BY <1>2, <1>6, <2>1
<1>8. \A i \in 1..slots : i \in DOMAIN nodes /\ i \in S
  BY <1>3, <1>5, UsableHandles
<1> QED BY <1>7, <1>8 DEF Steady

(* A handle means the same for as long as it resolves, and one that stops  *)
(* resolving never resolves again, whatever is dropped, built or taken in  *)
(* meanwhile, in documents of any size.                                    *)
THEOREM HandlesAlwaysKeepTheirMeaning == Spec => HandlesKeepTheirMeaning
<1>1. IInv /\ WellMade /\ IInv' /\ WellMade' /\ [Next]_vars =>
        [slots' >= slots =>
            \A i \in (1..slots) \ litter :
                /\ i \notin DOMAIN nodes => i \notin DOMAIN nodes'
                /\ i \in DOMAIN nodes \cap DOMAIN nodes' =>
                      Meanings(nodes', curves')[i] = Meanings(nodes, curves)[i]]_vars
  <2> SUFFICES ASSUME IInv, WellMade, IInv', WellMade', Next, slots' >= slots
               PROVE  Steady
    BY DEF Steady
  <2>0. ASSUME NEW S \in Named PROVE S \in SUBSET Usable
    BY DEF Named
  <2>1. ASSUME NEW g \in Geometry, AddCurve(g) PROVE Steady
    <3>1. nodes' = nodes /\ curves' = Extended(curves, curve_slots + 1, g)
      BY <2>1 DEF AddCurve
    <3>2. curve_slots + 1 \notin DOMAIN curves
      <4>1. DOMAIN curves \subseteq 1..curve_slots /\ curve_slots \in Nat
        BY UsableHandles DEF IInv, TypeOK
      <4> QED BY <4>1
    <3>3. \A c \in DOMAIN curves : c \in DOMAIN curves' /\ curves'[c] = curves[c]
      BY <3>1, <3>2 DEF Extended
    <3> QED BY <3>1, <3>3, AddingIsSteady
  <2>2. ASSUME NEW p \in Points, AddVertex(p) PROVE Steady
    BY <2>2, InsertIsSteady DEF AddVertex, geometry
  <2>3. ASSUME NEW c \in DOMAIN curves \cup {None}, NEW ends \in Named, AddEdge(c, ends)
        PROVE  Steady
    BY <2>3, InsertIsSteady DEF AddEdge, geometry
  <2>4. ASSUME NEW shapes \in Named, AddCompound(shapes) PROVE Steady
    BY <2>4, InsertIsSteady DEF AddCompound, geometry
  <2>5. ASSUME NEW i \in Usable, NEW from \in Named, SetDerived(i, from) PROVE Steady
    BY <2>5, AddingIsSteady DEF SetDerived, geometry
  <2>6. ASSUME NEW roots \in Named, RetainReachable(roots) PROVE Steady
    BY <2>0, <2>6, RetainIsSteady
  <2>7. ASSUME NEW root \in Usable, NEW damage \in Damages, Writes({root}),
               NEW read \in Damaged(Written({root}), damage), ReadInto(read)
        PROVE  Steady
    <3> DEFINE file == Written({root})
    <3>1. FileOK(file)
      BY <2>7, WrittenIsFile DEF Usable
    <3>2. file = [nodes |-> file.nodes, curves |-> file.curves, entries |-> file.entries,
                  identity |-> file.identity, roots |-> file.roots]
      BY DEF Written
    <3>3. read \in Damaged(file, damage)
      OBVIOUS
    <3> HIDE DEF file
    <3>4. FileOK(read)
      BY <3>1, <3>2, <3>3, DamagedIsFile
    <3> QED BY <2>7, <3>4, ReadingIsSteady
  <2>8. ASSUME NEW roots \in Named \ {{}}, Compact(roots) PROVE Steady
    BY <2>0, <2>8, CompactingAllIsSteady
  <2> QED BY <2>1, <2>2, <2>3, <2>4, <2>5, <2>6, <2>7, <2>8 DEF Next
<1> QED BY <1>1, Inductive, StaysWellMade, PTL DEF Spec, HandlesKeepTheirMeaning

-----------------------------------------------------------------------------
(* What taking in a file that can be read leaves: each thing in it a block *)
(* further on, and what was here as it was.                                *)
LEMMA ReadingAppends ==
    ASSUME IInv, NEW file, FileOK(file), Reads(file), ReadInto(file)
    PROVE  /\ \A i \in DOMAIN nodes : i \in DOMAIN nodes' /\ nodes'[i] = nodes[i]
           /\ \A k \in DOMAIN file.nodes :
                 slots + k \in DOMAIN nodes' /\ nodes'[slots + k] = Shifted(file.nodes[k])
           /\ \A c \in DOMAIN curves : c \in DOMAIN curves' /\ curves'[c] = curves[c]
           /\ \A c \in DOMAIN file.curves :
                 /\ curve_slots + c \in DOMAIN curves'
                 /\ curves'[curve_slots + c] = file.curves[c]
           /\ \A i \in DOMAIN nodes :
                 /\ i \in DOMAIN identity' <=> i \in DOMAIN identity
                 /\ i \in DOMAIN identity => identity'[i] = identity[i]
           /\ \A k \in DOMAIN file.nodes :
                 /\ slots + k \in DOMAIN identity' <=> k \in DOMAIN file.identity
                 /\ k \in DOMAIN file.identity =>
                       identity'[slots + k] = issued + file.identity[k]
           /\ \A a \in DOMAIN sources : a \in DOMAIN sources' /\ sources'[a] = sources[a]
           /\ \A a \in DOMAIN file.entries :
                 /\ issued + a \in DOMAIN sources'
                 /\ sources'[issued + a] = {issued + s : s \in file.entries[a]}
<1>1. PICK n \in Nat, d \in Nat :
         DOMAIN file.nodes = 1..n /\ DOMAIN file.curves = 1..d
  BY DEF FileOK
<1>2. /\ slots \in Nat /\ curve_slots \in Nat /\ issued \in Nat
      /\ DOMAIN nodes \subseteq 1..slots /\ DOMAIN curves \subseteq 1..curve_slots
      /\ DOMAIN sources \subseteq 1..issued /\ DOMAIN identity \subseteq DOMAIN nodes
  BY BoundsAssumption DEF IInv, TypeOK
<1>3. Recordable(file) /\ Restorable(file) /\ RootsThere(file)
  BY DEF Reads
<1> DEFINE gone == {issued + a : a \in Gaps(file)}
           R == Recorded(file)
<1>4. /\ nodes' = Beyond(nodes, slots, [k \in DOMAIN file.nodes |-> Shifted(file.nodes[k])])
      /\ curves' = Beyond(curves, curve_slots, file.curves)
      /\ sources' = Restrict(R, DOMAIN R \ gone)
      /\ identity' = Beyond(identity, slots,
                            [i \in DOMAIN file.identity |-> issued + file.identity[i]])
      /\ issued + LastId(file) <= MaxIssued
  BY <1>3 DEF ReadInto, IdOffset
<1>5. /\ \A i \in DOMAIN nodes : i \in DOMAIN nodes' /\ nodes'[i] = nodes[i]
      /\ \A k \in DOMAIN file.nodes :
            slots + k \in DOMAIN nodes' /\ nodes'[slots + k] = Shifted(file.nodes[k])
  <2>1. \A k \in 1..n : slots + k \notin DOMAIN nodes /\ (slots + k) - slots = k
    BY <1>2
  <2> HIDE DEF R, gone
  <2> QED BY <1>1, <1>4, <2>1 DEF Beyond
<1>6. /\ \A c \in DOMAIN curves : c \in DOMAIN curves' /\ curves'[c] = curves[c]
      /\ \A c \in DOMAIN file.curves :
            curve_slots + c \in DOMAIN curves' /\ curves'[curve_slots + c] = file.curves[c]
  <2>1. \A k \in 1..d : curve_slots + k \notin DOMAIN curves /\ (curve_slots + k) - curve_slots = k
    BY <1>2
  <2> HIDE DEF R, gone
  <2> QED BY <1>1, <1>4, <2>1 DEF Beyond
<1>7. /\ \A i \in DOMAIN nodes :
            /\ i \in DOMAIN identity' <=> i \in DOMAIN identity
            /\ i \in DOMAIN identity => identity'[i] = identity[i]
      /\ \A k \in DOMAIN file.nodes :
            /\ slots + k \in DOMAIN identity' <=> k \in DOMAIN file.identity
            /\ k \in DOMAIN file.identity =>
                  identity'[slots + k] = issued + file.identity[k]
  <2> DEFINE named == [i \in DOMAIN file.identity |-> issued + file.identity[i]]
  <2>1. DOMAIN file.identity \subseteq 1..n
    BY <1>1, <1>3 DEF Restorable
  <2>2. /\ DOMAIN identity' = DOMAIN identity \cup {slots + k : k \in DOMAIN file.identity}
        /\ \A x \in DOMAIN identity' :
              identity'[x] = IF x \in DOMAIN identity THEN identity[x] ELSE named[x - slots]
    BY <1>4 DEF Beyond
  <2>3. \A k \in 1..n : /\ slots + k \notin DOMAIN nodes /\ slots + k \notin DOMAIN identity
                        /\ (slots + k) - slots = k
    BY <1>2
  <2>4. ASSUME NEW i \in DOMAIN nodes, i \in DOMAIN identity' PROVE i \in DOMAIN identity
    BY <2>1, <2>2, <2>3, <2>4
  <2>5. ASSUME NEW k \in 1..n, slots + k \in DOMAIN identity' PROVE k \in DOMAIN file.identity
    <3>1. PICK j \in DOMAIN file.identity : slots + k = slots + j
      BY <2>2, <2>3, <2>5
    <3>2. k = j
      BY <1>2, <2>1, <3>1
    <3> QED BY <3>2
  <2>6. \A k \in DOMAIN file.identity : named[k] = issued + file.identity[k]
    OBVIOUS
  <2>7. \A k \in DOMAIN file.identity :
           slots + k \in DOMAIN identity' /\ identity'[slots + k] = named[k]
    <3> HIDE DEF named
    <3> QED BY <2>1, <2>2, <2>3
  <2> HIDE DEF named
  <2> QED BY <1>1, <2>2, <2>4, <2>5, <2>6, <2>7
<1>8. /\ \A a \in DOMAIN sources : a \in DOMAIN sources' /\ sources'[a] = sources[a]
      /\ \A a \in DOMAIN file.entries :
            /\ issued + a \in DOMAIN sources'
            /\ sources'[issued + a] = {issued + s : s \in file.entries[a]}
  <2>1. /\ DOMAIN R = DOMAIN sources \cup {issued + a : a \in 1..LastId(file)}
        /\ \A a \in DOMAIN sources : R[a] = sources[a]
        /\ \A a \in DOMAIN file.entries :
              a \in 1..LastId(file) /\ R[issued + a] = {issued + s : s \in file.entries[a]}
    BY <1>3, <1>4, RecordedIsTable
  <2>2. LastId(file) \in Nat
    BY TableCovers, BoundsAssumption
  <2>3. \A g \in Gaps(file) : g \in Nat \ {0} /\ g \notin DOMAIN file.entries
    BY <2>2 DEF Gaps
  <2>4. \A a \in DOMAIN sources : a \notin gone
    <3>1. \A g \in Gaps(file) : issued + g \notin 1..issued
      BY <1>2, <2>3
    <3> QED BY <1>2, <3>1
  <2>5. \A a \in DOMAIN file.entries : issued + a \notin gone
    <3> SUFFICES ASSUME NEW a \in DOMAIN file.entries, NEW g \in Gaps(file),
                        issued + a = issued + g
                 PROVE  FALSE
      OBVIOUS
    <3>1. a \in Nat /\ g \in Nat /\ g # a
      BY <2>1, <2>2, <2>3
    <3> QED BY <1>2, <3>1
  <2>6. /\ DOMAIN sources' = DOMAIN R \ gone
        /\ \A a \in DOMAIN R \ gone : sources'[a] = R[a]
    BY <1>4 DEF Restrict
  <2> HIDE DEF R, gone
  <2> QED BY <2>1, <2>4, <2>5, <2>6
<1> QED BY <1>5, <1>6, <1>7, <1>8

(* Taken in, what a file spells means what it means here, and its lineage  *)
(* is its own, moved past every identity issued.                           *)
LEMMA SpelledIsTakenIn ==
    ASSUME IInv, WellMade, IInv', WellMade', NEW file, NEW S, NEW C, NEW A,
           Spells(file, S, C, A), FileOK(file), Reads(file), ReadInto(file), NEW r \in S
    PROVE  /\ Meanings(nodes', curves')[slots + Rank(S, r)] = Meanings(nodes, curves)[r]
           /\ LineageOf(slots + Rank(S, r), identity', sources', 0)
                 = LineageOf(r, identity, sources, issued)
<1>1. /\ S \in SUBSET Nat /\ IsFiniteSet(S) /\ S \subseteq Usable
      /\ C \in SUBSET Nat /\ IsFiniteSet(C) /\ C \subseteq DOMAIN curves
      /\ DOMAIN file.nodes = Ranks(S) /\ DOMAIN file.curves = Ranks(C)
      /\ \A j \in S :
            /\ nodes[j].children \subseteq S
            /\ nodes[j].curve \in C \cup {None}
            /\ file.nodes[Rank(S, j)] = Respelled(nodes[j], S, C)
      /\ \A c \in C : file.curves[Rank(C, c)] = curves[c]
  BY DEF Spells
<1>2. \A j \in S : Rank(S, j) \in DOMAIN file.nodes
  BY <1>1, RankAtMost
<1>3. PICK ns, cs, ms, ds : ns = nodes /\ cs = curves /\ ms = nodes' /\ ds = curves'
  OBVIOUS
<1> DEFINE s == [j \in S |-> slots + Rank(S, j)]
<1>4. ASSUME NEW j \in S
      PROVE  /\ s[j] \in DOMAIN ms
             /\ ms[s[j]].kind = ns[j].kind
             /\ ms[s[j]].value = ns[j].value
             /\ Shown(ms, ds, s[j]) = Shown(ns, cs, j)
             /\ Parts(ms, s[j]) = {s[c] : c \in Parts(ns, j)}
             /\ Parts(ns, j) \subseteq S
             /\ j \in DOMAIN ns
  <2>1. nodes[j] \in Node /\ j \in DOMAIN nodes /\ S \subseteq DOMAIN nodes
    BY <1>1, UsableHandles
  <2>2. /\ slots + Rank(S, j) \in DOMAIN nodes'
        /\ nodes'[slots + Rank(S, j)] = Shifted(Respelled(nodes[j], S, C))
    BY <1>1, <1>2, ReadingAppends
  <2>3. /\ s[j] \in DOMAIN nodes'
        /\ nodes'[s[j]].kind = nodes[j].kind
        /\ nodes'[s[j]].value = nodes[j].value
        /\ nodes'[s[j]].children = {slots + c : c \in {Rank(S, c) : c \in nodes[j].children}}
        /\ nodes'[s[j]].curve =
              IF (IF nodes[j].curve = None THEN None ELSE Rank(C, nodes[j].curve)) = None
              THEN None
              ELSE curve_slots + (IF nodes[j].curve = None THEN None ELSE Rank(C, nodes[j].curve))
    BY <2>1, <2>2 DEF Shifted, Respelled, Node
  <2>4. Parts(nodes, j) = nodes[j].children /\ nodes[j].children \subseteq S
    BY <1>1, <2>1 DEF Parts
  <2>5. \A c \in nodes[j].children : s[c] = slots + Rank(S, c) /\ s[c] \in DOMAIN nodes'
    BY <1>2, <2>4, ReadingAppends
  <2>6. Parts(nodes', s[j]) = {s[c] : c \in nodes[j].children}
    <3>1. nodes'[s[j]].children = {s[c] : c \in nodes[j].children}
      <4>1. {slots + c : c \in {Rank(S, c) : c \in nodes[j].children}}
               = {slots + Rank(S, c) : c \in nodes[j].children}
        OBVIOUS
      <4> HIDE DEF s
      <4>2. {slots + Rank(S, c) : c \in nodes[j].children}
               = {s[c] : c \in nodes[j].children}
        BY <2>5
      <4> QED BY <2>3, <4>1, <4>2
    <3> HIDE DEF s
    <3> QED BY <2>5, <3>1 DEF Parts
  <2>7. Shown(nodes', curves', s[j]) = Shown(nodes, curves, j)
    <3>1. CASE nodes[j].curve = None
      <4>1. nodes'[s[j]].curve = None
        BY <2>3, <3>1
      <4>2. 0 \notin DOMAIN curves /\ 0 \notin DOMAIN curves'
        BY BoundsAssumption DEF IInv, TypeOK
      <4> QED BY <3>1, <4>1, <4>2 DEF Shown, None
    <3>2. CASE nodes[j].curve # None
      <4>1. nodes[j].curve \in C /\ nodes[j].curve \in DOMAIN curves
        BY <1>1, <3>2
      <4>2. Rank(C, nodes[j].curve) \in DOMAIN file.curves /\ Rank(C, nodes[j].curve) # None
        BY <1>1, <4>1, RankAtMost, RankPositive DEF None
      <4>3. nodes'[s[j]].curve = curve_slots + Rank(C, nodes[j].curve)
        BY <2>3, <3>2, <4>2
      <4>4. /\ curve_slots + Rank(C, nodes[j].curve) \in DOMAIN curves'
            /\ curves'[curve_slots + Rank(C, nodes[j].curve)] = curves[nodes[j].curve]
        <5>1. PICK k : k = Rank(C, nodes[j].curve)
          OBVIOUS
        <5>2. k \in DOMAIN file.curves
          BY <4>2, <5>1
        <5>3. curve_slots + k \in DOMAIN curves' /\ curves'[curve_slots + k] = file.curves[k]
          BY <5>2, ReadingAppends
        <5>4. file.curves[k] = curves[nodes[j].curve]
          BY <1>1, <4>1, <5>1
        <5> QED BY <5>1, <5>3, <5>4
      <4> QED BY <4>1, <4>3, <4>4 DEF Shown
    <3> QED BY <3>1, <3>2
  <2> HIDE DEF s
  <2> QED BY <1>3, <2>1, <2>3, <2>4, <2>6, <2>7
<1>5. Meanings(ms, ds)[s[r]] = Meanings(ns, cs)[r]
  <2>1. Acyclic(ns) /\ Acyclic(ms)
    <3>1. Acyclic(nodes)
      BY NodesAreAcyclic DEF WellMade
    <3>2. Acyclic(nodes')
      BY DEF WellMade, LitterLast, Acyclic
    <3> QED BY <1>3, <3>1, <3>2
  <2> HIDE DEF s
  <2>2. S \subseteq DOMAIN ns
    BY <1>4
  <2>3. Respells(ns, cs, S, s, ms, ds)
    BY <1>4, <2>2 DEF Respells
  <2> QED BY <2>1, <2>3, SameMeaning
<1>6. LineageOf(slots + Rank(S, r), identity', sources', 0)
         = LineageOf(r, identity, sources, issued)
  <2>1. PICK ids, jds, src, trc, d, at :
           /\ ids = identity /\ jds = identity' /\ src = sources /\ trc = sources'
           /\ d = issued /\ at = slots + Rank(S, r)
    OBVIOUS
  <2>2. Complete(src) /\ d \in Nat
    BY <2>1, SourcesComplete
  <2>3. Complete(trc)
    <3>1. DOMAIN sources' \subseteq 1..issued' /\ issued' \in Nat
      BY BoundsAssumption DEF IInv, TypeOK
    <3>2. DOMAIN sources' \subseteq Nat
      BY <3>1
    <3>3. \A a \in DOMAIN sources' : sources'[a] \subseteq DOMAIN sources'
      BY DEF IInv, LineageComplete
    <3> QED BY <2>1, <3>2, <3>3 DEF Complete
  <2>4. /\ A \subseteq DOMAIN sources /\ DOMAIN file.entries = A
        /\ \A a \in A : file.entries[a] = sources[a] /\ sources[a] \subseteq A
        /\ Rank(S, r) \in DOMAIN file.identity <=> r \in DOMAIN identity
        /\ r \in DOMAIN identity => /\ file.identity[Rank(S, r)] = identity[r]
                                    /\ identity[r] \in A
    BY DEF Spells
  <2>5. \A a \in A : /\ issued + a \in DOMAIN sources'
                     /\ sources'[issued + a] = {issued + b : b \in sources[a]}
    BY <2>4, ReadingAppends
  <2>6. Recounts(src, A, d, trc)
    BY <2>1, <2>4, <2>5 DEF Recounts
  <2>7. /\ r \in DOMAIN ids <=> at \in DOMAIN jds
        /\ r \in DOMAIN ids => ids[r] \in A /\ jds[at] = d + ids[r]
    BY <1>2, <2>1, <2>4, ReadingAppends
  <2>8. LineageOf(at, jds, trc, 0) = LineageOf(r, ids, src, d)
    BY <2>2, <2>3, <2>6, <2>7, SameLineage
  <2> QED BY <2>1, <2>8
<1> QED BY <1>3, <1>5, <1>6

(* The lineage of what was here is untouched by what is taken in.          *)
LEMMA OwnLineageStays ==
    ASSUME IInv, IInv', NEW file, FileOK(file), Reads(file), ReadInto(file), NEW i \in DOMAIN nodes
    PROVE  LineageOf(i, identity', sources', 0) = LineageOf(i, identity, sources, 0)
<1>1. PICK ids, jds, src, trc :
         ids = identity /\ jds = identity' /\ src = sources /\ trc = sources'
  OBVIOUS
<1>2. Complete(src) /\ \A a \in DOMAIN src : a \in Nat /\ src[a] \subseteq Nat
  BY <1>1, SourcesComplete DEF Complete
<1>3. Complete(trc)
  <2>1. DOMAIN sources' \subseteq 1..issued' /\ issued' \in Nat
    BY BoundsAssumption DEF IInv, TypeOK
  <2>2. DOMAIN sources' \subseteq Nat
    BY <2>1
  <2>3. \A a \in DOMAIN sources' : sources'[a] \subseteq DOMAIN sources'
    BY DEF IInv, LineageComplete
  <2> QED BY <1>1, <2>2, <2>3 DEF Complete
<1>4. \A a \in DOMAIN src : 0 + a = a /\ \A b \in src[a] : 0 + b = b
  BY <1>2
<1>5. \A a \in DOMAIN src : {0 + b : b \in src[a]} = src[a]
  BY <1>4
<1>6. \A a \in DOMAIN src : a \in DOMAIN trc /\ trc[a] = src[a]
  BY <1>1, ReadingAppends
<1>7. Recounts(src, DOMAIN src, 0, trc)
  BY <1>2, <1>4, <1>5, <1>6 DEF Recounts, Complete
<1>8. /\ i \in DOMAIN ids <=> i \in DOMAIN jds
      /\ i \in DOMAIN ids => ids[i] \in DOMAIN src /\ jds[i] = ids[i]
  BY <1>1, ReadingAppends DEF IInv, LineageComplete
<1>9. i \in DOMAIN ids => ids[i] \in DOMAIN src /\ jds[i] = 0 + ids[i]
  BY <1>4, <1>8
<1>10. LineageOf(i, jds, trc, 0) = LineageOf(i, ids, src, 0)
  BY <1>2, <1>3, <1>7, <1>8, <1>9, SameLineage
<1> QED BY <1>1, <1>10

(* A shape taken in from a file is what it was in the file, its identities *)
(* moved past every identity this model has issued, and the lineage of     *)
(* what was here before is untouched, for documents of any size.           *)
THEOREM AlwaysTakenInAsWritten == Spec => TakenInAsWritten
<1>1. IInv /\ WellMade /\ IInv' /\ WellMade' /\ [Next]_vars =>
        [\A r \in Usable : slots' > slots /\ ReadInto(Written({r})) =>
            LET at == slots + Rank(Below({r}), r)
            IN  /\ Meanings(nodes', curves')[at] = Meanings(nodes, curves)[r]
                /\ LineageOf(at, identity', sources', 0) = LineageOf(r, identity, sources, issued)
                /\ \A i \in DOMAIN nodes :
                      LineageOf(i, identity', sources', 0) = LineageOf(i, identity, sources, 0)]_vars
  <2> SUFFICES ASSUME IInv, WellMade, IInv', WellMade', NEW r \in Usable, ReadInto(Written({r}))
               PROVE  LET at == slots + Rank(Below({r}), r)
                      IN  /\ Meanings(nodes', curves')[at] = Meanings(nodes, curves)[r]
                          /\ LineageOf(at, identity', sources', 0)
                                = LineageOf(r, identity, sources, issued)
                          /\ \A i \in DOMAIN nodes :
                                LineageOf(i, identity', sources', 0)
                                   = LineageOf(i, identity, sources, 0)
    OBVIOUS
  <2>1. PICK rs : rs = {r}
    OBVIOUS
  <2>2. rs \in SUBSET Usable /\ rs # {} /\ rs \subseteq DOMAIN nodes
    BY <2>1, UsableHandles
  <2>3. PICK file : file = Written(rs)
    OBVIOUS
  <2>4. PICK S : S = Below(rs)
    OBVIOUS
  <2>5. /\ \E C, A : Spells(file, S, C, A)
        /\ Writes(rs) /\ rs \subseteq S
        /\ file.roots = {Rank(S, x) : x \in rs}
    BY <2>2, <2>3, <2>4, WrittenSpells
  <2>6. PICK C, A : Spells(file, S, C, A)
    BY <2>5
  <2>7. FileOK(file)
    BY <2>2, <2>3, <2>5, WrittenIsFile
  <2>8. file.roots \subseteq DOMAIN file.nodes /\ r \in S
    <3>1. file.roots = {Rank(S, r)} /\ r \in S
      BY <2>1, <2>5
    <3> QED BY <2>6, <3>1, RankAtMost DEF Spells
  <2>9. Reads(file)
    BY <2>6, <2>7, <2>8, SpelledReads
  <2>10. ReadInto(file)
    BY <2>1, <2>3
  <2>11. /\ Meanings(nodes', curves')[slots + Rank(S, r)] = Meanings(nodes, curves)[r]
         /\ LineageOf(slots + Rank(S, r), identity', sources', 0)
               = LineageOf(r, identity, sources, issued)
    BY <2>6, <2>7, <2>8, <2>9, <2>10, SpelledIsTakenIn
  <2>12. \A i \in DOMAIN nodes :
            LineageOf(i, identity', sources', 0) = LineageOf(i, identity, sources, 0)
    BY <2>7, <2>9, <2>10, OwnLineageStays
  <2> QED BY <2>1, <2>4, <2>11, <2>12
<1> QED BY <1>1, Inductive, StaysWellMade, PTL DEF Spec, TakenInAsWritten
=============================================================================
