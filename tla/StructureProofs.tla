-------------------------- MODULE StructureProofs --------------------------
(***************************************************************************)
(* Proofs about the modules ProductStructure and Occurrences: for any      *)
(* number of products, instances and states kept, every state undo or redo *)
(* may bring back can be walked, undo and redo move along a line of        *)
(* states, and flattening an assembly finds every way down to a part and   *)
(* the place that way puts it.                                             *)
(***************************************************************************)
EXTENDS Occurrences, SequenceTheorems, FiniteSetTheorems, TLAPS

-----------------------------------------------------------------------------
(* Walks down a table of products.                                         *)

(* What a product contains is closed, holds it, and lies in every closed   *)
(* set around it.                                                          *)
LEMMA ContainedIsLeast ==
    ASSUME NEW ps, NEW id \in DOMAIN ps,
           \A p \in DOMAIN ps : Places(ps, p) \subseteq DOMAIN ps
    PROVE  /\ id \in Contained(ps, id)
           /\ Contained(ps, id) \subseteq DOMAIN ps
           /\ Closed(ps, Contained(ps, id))
           /\ \A S \in SUBSET DOMAIN ps :
                id \in S /\ Closed(ps, S) => Contained(ps, id) \subseteq S
<1> DEFINE C == Contained(ps, id)
<1>1. id \in C /\ C \subseteq DOMAIN ps
  BY DEF Contained
<1>2. ASSUME NEW S \in SUBSET DOMAIN ps, id \in S, Closed(ps, S) PROVE C \subseteq S
  BY <1>2 DEF Contained
<1>3. ASSUME NEW p \in C, NEW r \in Places(ps, p) PROVE r \in C
  <2>1. r \in DOMAIN ps
    BY <1>1, <1>3
  <2>2. ASSUME NEW S \in SUBSET (DOMAIN ps \cup {id}), id \in S, Closed(ps, S) PROVE r \in S
    <3>1. p \in S
      BY <2>2 DEF Contained
    <3> QED BY <3>1, <2>2, <1>3 DEF Closed
  <2> QED BY <2>1, <2>2 DEF Contained
<1>4. Closed(ps, C)
  BY <1>3 DEF Closed
<1> QED BY <1>1, <1>2, <1>4

(* A closed set around a child that leaves the product out shows that the  *)
(* product is not below the child.                                         *)
LEMMA WitnessKeepsApart ==
    ASSUME NEW ps, NEW child \in DOMAIN ps, NEW id, NEW S \in SUBSET DOMAIN ps,
           child \in S, id \notin S, Closed(ps, S)
    PROVE  id \notin Contained(ps, child)
  BY DEF Contained

(* A table stands alone where another does that places the same below the  *)
(* same products, and nothing below those it has beside them.              *)
LEMMA SamePlacesStandAlone ==
    ASSUME NEW ps, NEW qs, StandsAlone(ps), DOMAIN ps \subseteq DOMAIN qs,
           \A id \in DOMAIN ps : Places(qs, id) = Places(ps, id),
           \A id \in DOMAIN qs \ DOMAIN ps : Places(qs, id) = {}
    PROVE  StandsAlone(qs)
<1>1. \A p \in DOMAIN ps : Places(ps, p) \subseteq DOMAIN ps
  BY DEF StandsAlone
<1>2. \A id \in DOMAIN qs : Places(qs, id) \subseteq DOMAIN qs
  BY <1>1
<1>3. ASSUME NEW id \in DOMAIN qs, NEW child \in Places(qs, id)
      PROVE  id \notin Contained(qs, child)
  <2>1. id \in DOMAIN ps /\ child \in Places(ps, id) /\ child \in DOMAIN ps
    BY <1>1, <1>3
  <2>2. id \notin Contained(ps, child)
    BY <2>1 DEF StandsAlone
  <2>3. /\ child \in Contained(ps, child)
        /\ Contained(ps, child) \subseteq DOMAIN ps
        /\ Closed(ps, Contained(ps, child))
    BY <2>1, <1>1, ContainedIsLeast
  <2>4. Closed(qs, Contained(ps, child))
    BY <2>3 DEF Closed
  <2> QED BY <2>1, <2>2, <2>3, <2>4, WitnessKeepsApart
<1> QED BY <1>2, <1>3 DEF StandsAlone

(* Placing one more product below an assembly it does not contain.         *)
LEMMA PlacingStandsAlone ==
    ASSUME NEW ps, NEW qs, NEW a \in DOMAIN ps, NEW p \in DOMAIN ps,
           StandsAlone(ps), DOMAIN qs = DOMAIN ps,
           \A id \in DOMAIN ps \ {a} : Places(qs, id) = Places(ps, id),
           Places(qs, a) = Places(ps, a) \cup {p},
           a \notin Contained(ps, p)
    PROVE  StandsAlone(qs)
<1> DEFINE Under(id) == Contained(ps, id)
<1>1. \A id \in DOMAIN ps : Places(ps, id) \subseteq DOMAIN ps
  BY DEF StandsAlone
<1>2. \A id \in DOMAIN qs : Places(qs, id) \subseteq DOMAIN qs
  BY <1>1
<1>3. \A id \in DOMAIN ps :
        /\ id \in Under(id)
        /\ Under(id) \subseteq DOMAIN ps
        /\ Closed(ps, Under(id))
        /\ \A S \in SUBSET DOMAIN ps : id \in S /\ Closed(ps, S) => Under(id) \subseteq S
  BY <1>1, ContainedIsLeast
<1>4. \A id, child \in DOMAIN ps : child \in Places(ps, id) => id \notin Under(child)
  BY DEF StandsAlone
<1> HIDE DEF Under
<1>5. ASSUME NEW S \in SUBSET DOMAIN ps, Closed(ps, S), a \notin S PROVE Closed(qs, S)
  BY <1>5 DEF Closed
<1>6. a \notin Under(p) /\ Closed(qs, Under(p))
  BY <1>3, <1>5 DEF Under
<1>7. ASSUME NEW id \in DOMAIN qs, NEW child \in Places(qs, id)
      PROVE  id \notin Contained(qs, child)
  <2>1. child \in DOMAIN ps /\ id \in DOMAIN ps
    BY <1>2, <1>7
  <2>2. CASE id = a /\ child = p
    BY <2>1, <2>2, <1>3, <1>6, WitnessKeepsApart
  <2>3. CASE child \in Places(ps, id) /\ a \notin Under(child)
    <3>1. Closed(qs, Under(child)) /\ child \in Under(child) /\ Under(child) \subseteq DOMAIN qs
      BY <2>1, <2>3, <1>3, <1>5
    <3>2. id \notin Under(child)
      BY <2>1, <2>3, <1>4
    <3> QED BY <2>1, <3>1, <3>2, WitnessKeepsApart
  <2>4. CASE child \in Places(ps, id) /\ a \in Under(child)
    <3> DEFINE S == Under(child) \cup Under(p)
    <3>1. S \subseteq DOMAIN qs /\ child \in S
      BY <2>1, <1>3
    <3>2. Closed(qs, S)
      <4>1. ASSUME NEW q \in S PROVE Places(qs, q) \subseteq S
        <5>1. Places(ps, q) \subseteq S
          BY <2>1, <4>1, <1>3 DEF Closed
        <5>2. p \in S
          BY <1>3
        <5> QED BY <5>1, <5>2, <4>1, <3>1
      <4> QED BY <4>1 DEF Closed
    <3>3. id \notin Under(child)
      BY <2>1, <2>4, <1>4
    <3>4. id \notin Under(p)
      <4>1. SUFFICES ASSUME id \in Under(p) PROVE FALSE
        OBVIOUS
      <4>2. child \in Under(p)
        BY <4>1, <2>4, <1>3 DEF Closed
      <4>3. Under(child) \subseteq Under(p)
        BY <4>2, <2>1, <1>3
      <4> QED BY <4>3, <2>4, <1>6
    <3> QED BY <2>1, <3>1, <3>2, <3>3, <3>4, WitnessKeepsApart
  <2>5. child \in Places(ps, id) \/ (id = a /\ child = p)
    BY <2>1, <1>7
  <2> QED BY <2>2, <2>3, <2>4, <2>5
<1> QED BY <1>2, <1>7 DEF StandsAlone

-----------------------------------------------------------------------------
(* Types.                                                                  *)
LEMMA PowersHoldOne == 1 \in Powers /\ Powers \subseteq Int
  BY LocationsAssumption DEF Powers, LowestPower

LEMMA FilesPlaceSomewhere ==
    ASSUME TypeOK PROVE FileLocations \subseteq AnyLocation
<1>1. ASSUME NEW d \in DOMAIN datums, NEW p \in FilePowers
      PROVE  <<[datum |-> d, power |-> p]>> \in AnyLocation
  <2>1. d \in Nat /\ p \in Powers
    BY StructureAssumption DEF TypeOK
  <2> QED BY <2>1 DEF AnyLocation
<1>2. Identity \in AnyLocation
  BY DEF Identity, AnyLocation
<1> QED BY <1>1, <1>2 DEF FileLocations

LEMMA DatumIsALocation ==
    ASSUME NEW d \in Nat PROVE Of(d) \in AnyLocation
  BY PowersHoldOne DEF Of, AnyLocation

LEMMA PartIsAProduct ==
    ASSUME NEW node \in Nodes, NEW at \in AnyLocation PROVE Part(node, at) \in AnyPart
  BY DEF Part, AnyPart

LEMMA EmptyIsAProduct == EmptyAssembly \in AnyAssembly
  BY DEF EmptyAssembly, AnyAssembly

(* An instance more in an assembly.                                        *)
LEMMA WithInstanceIsATable ==
    ASSUME TypeOK, NEW a, TakesInstances(a), NEW p \in ProductIds, NEW at \in AnyLocation
    PROVE  WithInstance(a, Instance(p, at)) \in AnyTable
<1>1. a \in DOMAIN products /\ products[a] \in AnyAssembly
  <2>1. a \in DOMAIN products /\ products[a] \in AnyPart \cup AnyAssembly
    BY DEF TakesInstances, InDocument, TypeOK, AnyTable
  <2>2. products[a].kind # "part"
    BY DEF TakesInstances, IsPart
  <2> QED BY <2>1, <2>2 DEF AnyPart
<1>2. Instance(p, at) \in AnyInstance
  BY DEF Instance, AnyInstance
<1>3. [products[a] EXCEPT !.children = Append(@, Instance(p, at))] \in AnyAssembly
  BY <1>1, <1>2 DEF AnyAssembly
<1> DEFINE more == [products[a] EXCEPT !.children = Append(@, Instance(p, at))]
<1>4. WithInstance(a, Instance(p, at)) = [products EXCEPT ![a] = more]
  BY DEF WithInstance
<1>5. products \in Seq(AnyPart \cup AnyAssembly) /\ more \in AnyPart \cup AnyAssembly
  BY <1>3 DEF TypeOK, AnyTable
<1> HIDE DEF more
<1> QED BY <1>1, <1>4, <1>5 DEF AnyTable

(* What is left of the states kept.                                        *)
LEMMA KeptIsATail ==
    ASSUME NEW T, NEW h \in Seq(T), NEW ahead \in 0..Len(h), NEW n \in Nat \ {0}
    PROVE  /\ KeptTo(h, ahead, n) \in Seq(T)
           /\ ahead <= Len(KeptTo(h, ahead, n))
           /\ Len(KeptTo(h, ahead, n)) <= Len(h)
           /\ \A i \in 1..Len(KeptTo(h, ahead, n)) :
                KeptTo(h, ahead, n)[i] = h[i + (Len(h) - Len(KeptTo(h, ahead, n)))]
<1>1. CASE Len(h) - ahead > n
  <2> DEFINE from == Len(h) - ahead - n + 1
  <2>1. from \in 1..(Len(h) + 1) /\ Len(h) \in Nat
    BY <1>1
  <2>2. /\ SubSeq(h, from, Len(h)) \in Seq(T)
        /\ Len(SubSeq(h, from, Len(h))) = Len(h) - from + 1
        /\ \A i \in 1..(Len(h) - from + 1) : SubSeq(h, from, Len(h))[i] = h[from + i - 1]
    BY <2>1, SubSeqProperties
  <2>3. KeptTo(h, ahead, n) = SubSeq(h, from, Len(h))
    BY <1>1 DEF KeptTo
  <2> DEFINE kept == KeptTo(h, ahead, n)
  <2>4. kept \in Seq(T) /\ Len(kept) = n + ahead
    BY <2>2, <2>3
  <2>5. ASSUME NEW i \in 1..Len(kept) PROVE kept[i] = h[i + (Len(h) - Len(kept))]
    <3>1. i \in 1..(Len(h) - from + 1)
      BY <2>4, <2>5
    <3>2. kept[i] = h[from + i - 1]
      BY <3>1, <2>2, <2>3
    <3>3. from + i - 1 = i + (Len(h) - Len(kept))
      BY <2>1, <2>4, <2>5
    <3> QED BY <3>2, <3>3
  <2> HIDE DEF kept
  <2>6. ahead <= Len(kept) /\ Len(kept) <= Len(h)
    BY <2>4, <1>1
  <2> QED BY <2>4, <2>5, <2>6 DEF kept
<1>2. CASE ~(Len(h) - ahead > n)
  BY <1>2 DEF KeptTo
<1> QED BY <1>1, <1>2

(* A product more, or one in the place of another, leaves a table.         *)
LEMMA PushTypes ==
    ASSUME TypeOK, NEW product \in AnyPart \cup AnyAssembly, Push(product)
    PROVE  TypeOK'
  BY DEF TypeOK, Push, undoing, AnyTable

LEMMA AddInstanceTypes ==
    ASSUME TypeOK, NEW a \in ProductIds, NEW p \in ProductIds, AddInstance(a, p)
    PROVE  TypeOK'
<1>1. PICK t \in Placed \cup {IDENTITY} :
        /\ datums' = IF t = IDENTITY THEN datums ELSE Append(datums, t)
        /\ products' =
            IF TakesInstances(a)
            THEN WithInstance(a,
                    Instance(p, IF t = IDENTITY THEN Identity ELSE Of(Len(datums'))))
            ELSE products
  BY DEF AddInstance
<1>2. datums' \in Seq(Placed) /\ Len(datums') \in Nat
  BY <1>1 DEF TypeOK
<1>5. Identity \in AnyLocation
  BY DEF Identity, AnyLocation
<1>6. Of(Len(datums')) \in AnyLocation
  BY <1>2, DatumIsALocation
<1>3. (IF t = IDENTITY THEN Identity ELSE Of(Len(datums'))) \in AnyLocation
  BY <1>5, <1>6
<1>4. products' \in AnyTable
  BY <1>1, <1>3, WithInstanceIsATable DEF TypeOK
<1> QED BY <1>2, <1>4 DEF TypeOK, AddInstance, undoing

LEMMA AddInstanceAtTypes ==
    ASSUME TypeOK, NEW a \in ProductIds, NEW p \in ProductIds, AddInstanceAt(a, p)
    PROVE  TypeOK'
<1>1. PICK at \in FileLocations : products' = WithInstance(a, Instance(p, at))
  BY DEF AddInstanceAt
<1>2. products' \in AnyTable
  BY <1>1, FilesPlaceSomewhere, WithInstanceIsATable DEF AddInstanceAt
<1> QED BY <1>2 DEF TypeOK, AddInstanceAt, undoing

LEMMA ReplaceTypes ==
    ASSUME TypeOK, NEW p \in ProductIds, NEW node \in Nodes, NEW at \in FileLocations,
           ReplacePartShape(p, node, at)
    PROVE  TypeOK'
<1> DEFINE other == [products[p] EXCEPT !.shape = [node |-> node, at |-> at]]
<1>1. p \in DOMAIN products /\ products[p] \in AnyPart \cup AnyAssembly
  BY DEF ReplacePartShape, InDocument, TypeOK, AnyTable
<1>2. products[p] \in AnyPart
  BY <1>1 DEF ReplacePartShape, IsPart, AnyAssembly
<1>3. other \in AnyPart
  BY <1>2, FilesPlaceSomewhere DEF AnyPart
<1>4. products' = [products EXCEPT ![p] = other]
  BY DEF ReplacePartShape
<1> HIDE DEF other
<1>5. products' \in AnyTable
  BY <1>1, <1>3, <1>4 DEF TypeOK, AnyTable
<1> QED BY <1>5 DEF TypeOK, ReplacePartShape, undoing

LEMMA CheckpointTypes ==
    ASSUME TypeOK, Checkpoint
    PROVE  TypeOK'
<1> DEFINE behind == SubSeq(history, 1, Len(history) - undone)
<1>1. behind \in Seq(AnyTable)
  BY SubSeqProperties DEF TypeOK
<1>2. Append(behind, products) \in Seq(AnyTable) /\ Len(Append(behind, products)) \in Nat
  BY <1>1 DEF TypeOK
<1> DEFINE more == Append(behind, products)
<1>4. 0 \in 0..Len(more) /\ undo_limit \in Nat \ {0}
  BY <1>2 DEF TypeOK
<1> HIDE DEF more
<1>3. KeptTo(more, 0, undo_limit) \in Seq(AnyTable)
  BY <1>2, <1>4, KeptIsATail DEF more
<1> QED BY <1>3 DEF TypeOK, Checkpoint, structure, more

LEMMA SetUndoLimitTypes ==
    ASSUME TypeOK, NEW n \in Limits, SetUndoLimit(n)
    PROVE  TypeOK'
<1>1. undo_limit' \in Nat \ {0}
  BY StructureAssumption DEF SetUndoLimit
<1>2. history' \in Seq(AnyTable) /\ undone <= Len(history')
  BY <1>1, KeptIsATail DEF TypeOK, SetUndoLimit
<1> QED BY <1>1, <1>2 DEF TypeOK, SetUndoLimit, structure

LEMMA SwapTypes ==
    ASSUME TypeOK, NEW i \in 1..Len(history), Swap(i)
    PROVE  products' \in AnyTable /\ history' \in Seq(AnyTable) /\ Len(history') = Len(history)
  BY DEF TypeOK, Swap

LEMMA UndoRedoTypes ==
    ASSUME TypeOK, Undo \/ Redo
    PROVE  TypeOK'
<1>1. CASE Undo
  <2>1. Len(history) - undone \in 1..Len(history)
    BY <1>1 DEF Undo, TypeOK
  <2> QED BY <1>1, <2>1, SwapTypes DEF Undo, Swap, TypeOK
<1>2. CASE Redo
  <2>1. Len(history) - undone + 1 \in 1..Len(history)
    BY <1>2 DEF Redo, TypeOK
  <2> QED BY <1>2, <2>1, SwapTypes DEF Redo, Swap, TypeOK
<1> QED BY <1>1, <1>2

LEMMA InitTypes == Init => TypeOK
  BY StructureAssumption DEF Init, TypeOK, AnyTable

LEMMA NextTypes == TypeOK /\ [Next]_vars => TypeOK'
<1> SUFFICES ASSUME TypeOK, [Next]_vars PROVE TypeOK'
  OBVIOUS
<1>1. CASE AddPart
  <2>1. PICK node \in Nodes, at \in FileLocations : Push(Part(node, at))
    BY <1>1 DEF AddPart
  <2> QED BY <2>1, FilesPlaceSomewhere, PartIsAProduct, PushTypes
<1>2. CASE AddAssembly
  BY <1>2, EmptyIsAProduct, PushTypes DEF AddAssembly
<1>3. CASE Checkpoint
  BY <1>3, CheckpointTypes
<1>4. CASE Undo \/ Redo
  BY <1>4, UndoRedoTypes
<1>5. CASE \E a, p \in ProductIds : AddInstance(a, p) \/ AddInstanceAt(a, p)
  BY <1>5, AddInstanceTypes, AddInstanceAtTypes
<1>6. CASE \E p \in ProductIds, node \in Nodes, at \in FileLocations :
            ReplacePartShape(p, node, at)
  BY <1>6, ReplaceTypes
<1>7. CASE \E n \in Limits : SetUndoLimit(n)
  BY <1>7, SetUndoLimitTypes
<1>8. CASE UNCHANGED vars
  BY <1>8 DEF vars, structure, undoing, TypeOK
<1> QED BY <1>1, <1>2, <1>3, <1>4, <1>5, <1>6, <1>7, <1>8 DEF Next, Operation

(* Products, the states kept and the place among them stay well formed,    *)
(* however they are built, kept, undone and redone.                        *)
THEOREM TypeCorrect == Spec => []TypeOK
  BY InitTypes, NextTypes, PTL DEF Spec

-----------------------------------------------------------------------------
(* Every state stands alone.                                               *)
LEMMA PushStands ==
    ASSUME TypeOK, StandsAlone(products), NEW product \in AnyPart \cup {EmptyAssembly},
           Push(product)
    PROVE  StandsAlone(products')
<1>1. products' = Append(products, product) /\ products \in Seq(AnyPart \cup AnyAssembly)
  BY DEF Push, TypeOK, AnyTable
<1>2. /\ DOMAIN products' = DOMAIN products \cup {Len(products) + 1}
      /\ \A i \in DOMAIN products : products'[i] = products[i]
      /\ products'[Len(products) + 1] = product
  BY <1>1
<1>3. \A id \in DOMAIN products : Places(products', id) = Places(products, id)
  BY <1>2 DEF Places, Children, InDocument
<1>4. Children(products', Len(products) + 1) = <<>>
  BY <1>2 DEF Children, IsPart, AnyPart, EmptyAssembly
<1>5. Places(products', Len(products) + 1) = {}
  BY <1>4 DEF Places
<1>6. \A id \in DOMAIN products' \ DOMAIN products : Places(products', id) = {}
  BY <1>2, <1>5
<1>7. DOMAIN products \subseteq DOMAIN products'
  BY <1>2
<1> QED BY <1>3, <1>6, <1>7, SamePlacesStandAlone

LEMMA ReplaceStands ==
    ASSUME TypeOK, StandsAlone(products),
           NEW p \in ProductIds, NEW node \in Nodes, NEW at \in FileLocations,
           ReplacePartShape(p, node, at)
    PROVE  StandsAlone(products')
<1>1. /\ p \in DOMAIN products /\ IsPart(products[p])
      /\ products' = [products EXCEPT ![p].shape = [node |-> node, at |-> at]]
  BY DEF ReplacePartShape, InDocument
<1>2. /\ DOMAIN products' = DOMAIN products
      /\ \A i \in DOMAIN products \ {p} : products'[i] = products[i]
      /\ products'[p] = [products[p] EXCEPT !.shape = [node |-> node, at |-> at]]
  BY <1>1 DEF TypeOK, AnyTable
<1>3. products[p] \in AnyPart
  BY <1>1 DEF TypeOK, AnyTable, IsPart, AnyAssembly
<1>4. IsPart(products'[p])
  BY <1>1, <1>2, <1>3 DEF IsPart, AnyPart
<1>5. \A id \in DOMAIN products : Places(products', id) = Places(products, id)
  BY <1>1, <1>2, <1>4 DEF Places, Children, InDocument
<1> QED BY <1>2, <1>5, SamePlacesStandAlone

(* One instance more, of what does not contain the assembly.               *)
LEMMA InstanceStands ==
    ASSUME TypeOK, StandsAlone(products), NEW a, NEW p, NEW at,
           TakesInstances(a), Placeable(a, p),
           products' = WithInstance(a, Instance(p, at))
    PROVE  StandsAlone(products')
<1>1. a \in DOMAIN products /\ p \in DOMAIN products /\ a \notin Contained(products, p)
  BY DEF TakesInstances, Placeable, InDocument, contains_product
<1>2. products[a] \in AnyAssembly
  BY <1>1 DEF TypeOK, AnyTable, TakesInstances, IsPart, AnyPart
<1> DEFINE was == products[a].children
           is == Append(was, Instance(p, at))
<1>3. products' = [products EXCEPT ![a].children = is]
  BY DEF WithInstance
<1>4. /\ DOMAIN products' = DOMAIN products
      /\ \A i \in DOMAIN products \ {a} : products'[i] = products[i]
      /\ products'[a] = [products[a] EXCEPT !.children = is]
  BY <1>1, <1>3 DEF TypeOK, AnyTable
<1>5. Children(products, a) = was
  BY <1>1 DEF TakesInstances, Children
<1>6. Children(products', a) = is
  <2>1. products'[a].kind = "assembly" /\ products'[a].children = is
    BY <1>2, <1>4 DEF AnyAssembly
  <2> QED BY <1>1, <1>4, <2>1 DEF Children, InDocument, IsPart
<1>7. was \in Seq(AnyInstance)
  BY <1>2 DEF AnyAssembly
<1> HIDE DEF was
<1>8. /\ DOMAIN is = DOMAIN was \cup {Len(was) + 1}
      /\ \A i \in DOMAIN was : is[i] = was[i]
      /\ is[Len(was) + 1] = Instance(p, at)
  BY <1>7
<1> HIDE DEF is
<1>9. Places(products', a) = Places(products, a) \cup {p}
  BY <1>5, <1>6, <1>8 DEF Places, Instance
<1>10. \A id \in DOMAIN products \ {a} : Places(products', id) = Places(products, id)
  BY <1>4 DEF Places, Children, InDocument
<1> QED BY <1>1, <1>4, <1>9, <1>10, PlacingStandsAlone

LEMMA KeptStands ==
    ASSUME NEW h \in Seq(AnyTable), NEW ahead \in 0..Len(h), NEW n \in Nat \ {0},
           \A i \in DOMAIN h : StandsAlone(h[i])
    PROVE  \A i \in DOMAIN KeptTo(h, ahead, n) : StandsAlone(KeptTo(h, ahead, n)[i])
<1> DEFINE kept == KeptTo(h, ahead, n)
<1>1. /\ kept \in Seq(AnyTable) /\ Len(kept) <= Len(h)
      /\ \A i \in 1..Len(kept) : kept[i] = h[i + (Len(h) - Len(kept))]
  BY KeptIsATail
<1> HIDE DEF kept
<1>2. ASSUME NEW i \in DOMAIN kept PROVE StandsAlone(kept[i])
  <2>1. i \in 1..Len(kept) /\ i + (Len(h) - Len(kept)) \in 1..Len(h)
    BY <1>1
  <2> QED BY <2>1, <1>1
<1> QED BY <1>2 DEF kept

LEMMA CheckpointStands ==
    ASSUME TypeOK, EveryStateStandsAlone, Checkpoint
    PROVE  EveryStateStandsAlone'
<1> DEFINE behind == SubSeq(history, 1, Len(history) - undone)
           more == Append(behind, products)
<1>1. /\ behind \in Seq(AnyTable)
      /\ \A i \in DOMAIN behind : i \in DOMAIN history /\ behind[i] = history[i]
  BY SubSeqProperties DEF TypeOK
<1> HIDE DEF behind
<1>2. /\ more \in Seq(AnyTable) /\ 0 \in 0..Len(more)
      /\ \A i \in DOMAIN more : more[i] = products \/ (i \in DOMAIN behind /\ more[i] = behind[i])
  BY <1>1 DEF TypeOK
<1> HIDE DEF more
<1>3. \A i \in DOMAIN more : StandsAlone(more[i])
  BY <1>1, <1>2 DEF EveryStateStandsAlone
<1>4. history' = KeptTo(more, 0, undo_limit) /\ products' = products
  BY DEF Checkpoint, structure, more, behind
<1>5. undo_limit \in Nat \ {0}
  BY DEF TypeOK
<1>6. \A i \in DOMAIN KeptTo(more, 0, undo_limit) : StandsAlone(KeptTo(more, 0, undo_limit)[i])
  BY <1>2, <1>3, <1>5, KeptStands
<1> QED BY <1>4, <1>6 DEF EveryStateStandsAlone

LEMMA SwapStands ==
    ASSUME TypeOK, EveryStateStandsAlone, NEW i \in 1..Len(history), Swap(i)
    PROVE  EveryStateStandsAlone'
  BY DEF EveryStateStandsAlone, Swap, TypeOK

LEMMA NextStands == TypeOK /\ EveryStateStandsAlone /\ [Next]_vars => EveryStateStandsAlone'
<1> SUFFICES ASSUME TypeOK, EveryStateStandsAlone, [Next]_vars PROVE EveryStateStandsAlone'
  OBVIOUS
<1>0. StandsAlone(products)
  BY DEF EveryStateStandsAlone
<1>1. CASE AddPart
  <2>1. PICK node \in Nodes, at \in FileLocations : Push(Part(node, at))
    BY <1>1 DEF AddPart
  <2>2. StandsAlone(products') /\ history' = history
    BY <2>1, <1>0, FilesPlaceSomewhere, PartIsAProduct, PushStands DEF Push, undoing
  <2> QED BY <2>2 DEF EveryStateStandsAlone
<1>2. CASE AddAssembly
  <2>1. StandsAlone(products') /\ history' = history
    BY <1>2, <1>0, PushStands DEF AddAssembly, Push, undoing
  <2> QED BY <2>1 DEF EveryStateStandsAlone
<1>3. CASE Checkpoint
  BY <1>3, CheckpointStands
<1>4. CASE Undo
  <2>1. Len(history) - undone \in 1..Len(history)
    BY <1>4 DEF Undo, TypeOK
  <2> QED BY <1>4, <2>1, SwapStands DEF Undo
<1>5. CASE Redo
  <2>1. Len(history) - undone + 1 \in 1..Len(history)
    BY <1>5 DEF Redo, TypeOK
  <2> QED BY <1>5, <2>1, SwapStands DEF Redo
<1>6. ASSUME NEW a \in ProductIds, NEW p \in ProductIds, AddInstance(a, p)
      PROVE  EveryStateStandsAlone'
  <2>1. CASE TakesInstances(a)
    <3>1. PICK at : products' = WithInstance(a, Instance(p, at))
      BY <1>6, <2>1 DEF AddInstance
    <3>2. StandsAlone(products') /\ history' = history
      BY <1>0, <1>6, <2>1, <3>1, InstanceStands DEF AddInstance, undoing
    <3> QED BY <3>2 DEF EveryStateStandsAlone
  <2>2. CASE ~TakesInstances(a)
    <3>1. products' = products /\ history' = history
      BY <1>6, <2>2 DEF AddInstance, undoing
    <3> QED BY <3>1 DEF EveryStateStandsAlone
  <2> QED BY <2>1, <2>2
<1>7. ASSUME NEW a \in ProductIds, NEW p \in ProductIds, AddInstanceAt(a, p)
      PROVE  EveryStateStandsAlone'
  <2>1. PICK at \in FileLocations : products' = WithInstance(a, Instance(p, at))
    BY <1>7 DEF AddInstanceAt
  <2>2. StandsAlone(products') /\ history' = history
    BY <1>0, <1>7, <2>1, InstanceStands DEF AddInstanceAt, undoing
  <2> QED BY <2>2 DEF EveryStateStandsAlone
<1>8. ASSUME NEW p \in ProductIds, NEW node \in Nodes, NEW at \in FileLocations,
             ReplacePartShape(p, node, at)
      PROVE  EveryStateStandsAlone'
  <2>1. StandsAlone(products') /\ history' = history
    BY <1>0, <1>8, ReplaceStands DEF ReplacePartShape, undoing
  <2> QED BY <2>1 DEF EveryStateStandsAlone
<1>9. ASSUME NEW n \in Limits, SetUndoLimit(n) PROVE EveryStateStandsAlone'
  <2>1. undo_limit' \in Nat \ {0}
    BY <1>9, StructureAssumption DEF SetUndoLimit
  <2>2. /\ history' = KeptTo(history, undone, undo_limit') /\ products' = products
        /\ history \in Seq(AnyTable) /\ undone \in 0..Len(history)
    BY <1>9 DEF SetUndoLimit, structure, TypeOK
  <2>3. \A i \in DOMAIN history : StandsAlone(history[i])
    BY DEF EveryStateStandsAlone
  <2>4. \A i \in DOMAIN history' : StandsAlone(history'[i])
    BY <2>1, <2>2, <2>3, KeptStands
  <2> QED BY <2>2, <2>4, <1>0 DEF EveryStateStandsAlone
<1>10. CASE UNCHANGED vars
  BY <1>10 DEF vars, structure, undoing, EveryStateStandsAlone
<1> QED BY <1>1, <1>2, <1>3, <1>4, <1>5, <1>6, <1>7, <1>8, <1>9, <1>10 DEF Next, Operation

LEMMA InitStands == Init => EveryStateStandsAlone
  BY DEF Init, EveryStateStandsAlone, StandsAlone

(* Whatever ids callers kept over undone states, however many products and *)
(* states there are: nothing is ever placed below itself, in the present   *)
(* state or one that undo or redo may bring back.                          *)
THEOREM StatesStandAlone == Spec => []EveryStateStandsAlone
<1>1. TypeOK /\ EveryStateStandsAlone /\ [Next]_vars => EveryStateStandsAlone'
  BY NextStands
<1> QED BY <1>1, InitStands, TypeCorrect, PTL DEF Spec

-----------------------------------------------------------------------------
(* Undo and redo as a line of states.                                      *)

(* The states behind and ahead are the two parts of those kept.            *)
LEMMA TwoParts ==
    ASSUME NEW T, NEW h \in Seq(T), NEW n \in 0..Len(h)
    PROVE  /\ SubSeq(h, 1, Len(h) - n) \in Seq(T)
           /\ Len(SubSeq(h, 1, Len(h) - n)) = Len(h) - n
           /\ \A i \in 1..(Len(h) - n) : SubSeq(h, 1, Len(h) - n)[i] = h[i]
           /\ SubSeq(h, Len(h) - n + 1, Len(h)) \in Seq(T)
           /\ Len(SubSeq(h, Len(h) - n + 1, Len(h))) = n
           /\ \A i \in 1..n : SubSeq(h, Len(h) - n + 1, Len(h))[i] = h[Len(h) - n + i]
<1>1. /\ \A i \in 1..(Len(h) - n) : h[i] \in T
      /\ \A i \in (Len(h) - n + 1)..Len(h) : h[i] \in T
  OBVIOUS
<1>2. /\ SubSeq(h, 1, Len(h) - n) \in Seq(T)
      /\ Len(SubSeq(h, 1, Len(h) - n)) = IF 1 <= Len(h) - n THEN Len(h) - n - 1 + 1 ELSE 0
      /\ \A i \in 1..(Len(h) - n - 1 + 1) : SubSeq(h, 1, Len(h) - n)[i] = h[1 + i - 1]
  BY <1>1, SubSeqProperties
<1>3. /\ SubSeq(h, Len(h) - n + 1, Len(h)) \in Seq(T)
      /\ Len(SubSeq(h, Len(h) - n + 1, Len(h))) =
            IF Len(h) - n + 1 <= Len(h) THEN Len(h) - (Len(h) - n + 1) + 1 ELSE 0
      /\ \A i \in 1..(Len(h) - (Len(h) - n + 1) + 1) :
            SubSeq(h, Len(h) - n + 1, Len(h))[i] = h[Len(h) - n + 1 + i - 1]
  BY <1>1, SubSeqProperties
<1>4. Len(SubSeq(h, 1, Len(h) - n)) = Len(h) - n
  BY <1>2
<1>5. ASSUME NEW i \in 1..(Len(h) - n) PROVE SubSeq(h, 1, Len(h) - n)[i] = h[i]
  BY <1>2
<1>6. Len(SubSeq(h, Len(h) - n + 1, Len(h))) = n
  BY <1>3
<1>7. ASSUME NEW i \in 1..n
      PROVE  SubSeq(h, Len(h) - n + 1, Len(h))[i] = h[Len(h) - n + i]
  <2>1. i \in 1..(Len(h) - (Len(h) - n + 1) + 1) /\ Len(h) - n + 1 + i - 1 = Len(h) - n + i
    OBVIOUS
  <2> QED BY <2>1, <1>3
<1> QED BY <1>2, <1>3, <1>4, <1>5, <1>6, <1>7

LEMMA LineOf ==
    ASSUME TypeOK
    PROVE  /\ Behind \in Seq(AnyTable) /\ Len(Behind) = Len(history) - undone
           /\ \A i \in 1..(Len(history) - undone) : Behind[i] = history[i]
           /\ Ahead \in Seq(AnyTable) /\ Len(Ahead) = undone
           /\ \A i \in 1..undone : Ahead[i] = history[Len(history) - undone + i]
  BY TwoParts DEF TypeOK, Behind, Ahead

LEMMA SameSeq ==
    ASSUME NEW T, NEW s \in Seq(T), NEW t \in Seq(T), Len(s) = Len(t),
           \A i \in 1..Len(s) : s[i] = t[i]
    PROVE  s = t
  BY SeqEqual

(* The newest n of a sequence.                                             *)
LEMMA NewestIs ==
    ASSUME NEW T, NEW s \in Seq(T), NEW n \in Nat \ {0}
    PROVE  /\ TimelineOf!Newest(n, s) \in Seq(T)
           /\ Len(TimelineOf!Newest(n, s)) = IF Len(s) > n THEN n ELSE Len(s)
           /\ \A i \in 1..Len(TimelineOf!Newest(n, s)) :
                TimelineOf!Newest(n, s)[i] = s[i + (Len(s) - Len(TimelineOf!Newest(n, s)))]
<1>1. CASE Len(s) > n
  <2> DEFINE k == Len(s) - n
             new == TimelineOf!Newest(n, s)
  <2>1. new = SubSeq(s, k + 1, Len(s)) /\ n \in 0..Len(s)
    BY <1>1 DEF TimelineOf!Newest
  <2>4. /\ SubSeq(s, Len(s) - n + 1, Len(s)) \in Seq(T)
        /\ Len(SubSeq(s, Len(s) - n + 1, Len(s))) = n
        /\ \A i \in 1..n : SubSeq(s, Len(s) - n + 1, Len(s))[i] = s[Len(s) - n + i]
    BY <2>1, TwoParts
  <2> HIDE DEF new
  <2>2. new \in Seq(T) /\ Len(new) = n /\ \A i \in 1..n : new[i] = s[k + i]
    BY <2>1, <2>4
  <2>3. ASSUME NEW i \in 1..n PROVE k + i = i + (Len(s) - n)
    OBVIOUS
  <2> QED BY <1>1, <2>2, <2>3 DEF new
<1>2. CASE ~(Len(s) > n)
  BY <1>2 DEF TimelineOf!Newest
<1> QED BY <1>1, <1>2

LEMMA CheckpointMarks ==
    ASSUME TypeOK, TypeOK', Checkpoint
    PROVE  TimelineOf!Mark
<1> DEFINE more == Append(Behind, products)
<1>1. /\ history' = KeptTo(more, 0, undo_limit)
      /\ undone' = 0 /\ products' = products /\ undo_limit' = undo_limit
  BY DEF Checkpoint, structure, Behind
<1>2. more \in Seq(AnyTable) /\ Len(more) \in Nat
  BY LineOf DEF TypeOK
<1>3. undo_limit \in Nat \ {0} /\ history' \in Seq(AnyTable)
  BY DEF TypeOK
<1> HIDE DEF more
<1>4. KeptTo(more, 0, undo_limit) = TimelineOf!Newest(undo_limit, more)
  BY <1>2, <1>3 DEF KeptTo, TimelineOf!Newest
<1>5. Behind' = history' /\ Ahead' = <<>>
  <2>1. /\ Behind' \in Seq(AnyTable) /\ Len(Behind') = Len(history')
        /\ \A i \in 1..Len(history') : Behind'[i] = history'[i]
        /\ Ahead' \in Seq(AnyTable) /\ Len(Ahead') = 0
    <3>1. /\ Behind' = SubSeq(history', 1, Len(history') - 0)
          /\ Ahead' = SubSeq(history', Len(history') - 0 + 1, Len(history'))
      BY <1>1 DEF Behind, Ahead
    <3>2. 0 \in 0..Len(history') /\ Len(history') - 0 = Len(history')
      BY <1>3
    <3> QED BY <1>3, <3>1, <3>2, TwoParts
  <2>2. Behind' = history'
    BY <1>3, <2>1, SameSeq
  <2> QED BY <2>1, <2>2
<1> QED BY <1>1, <1>4, <1>5 DEF TimelineOf!Mark, more

LEMMA UndoGoesBack ==
    ASSUME TypeOK, TypeOK', Undo
    PROVE  TimelineOf!Back
<1> DEFINE at == Len(history) - undone
<1>1. /\ at \in 1..Len(history) /\ undone' = undone + 1 /\ undo_limit' = undo_limit
      /\ products' = history[at] /\ history' = [history EXCEPT ![at] = products]
  BY DEF Undo, Swap, TypeOK
<1>2. /\ Len(history') = Len(history) /\ history'[at] = products
      /\ \A i \in 1..Len(history) : i # at => history'[i] = history[i]
  BY <1>1 DEF TypeOK
<1>3. /\ Behind \in Seq(AnyTable) /\ Len(Behind) = at
      /\ \A i \in 1..at : Behind[i] = history[i]
      /\ Ahead \in Seq(AnyTable) /\ Len(Ahead) = undone
      /\ \A i \in 1..undone : Ahead[i] = history[at + i]
  BY LineOf
<1>4. /\ Behind' \in Seq(AnyTable) /\ Len(Behind') = Len(history') - undone'
      /\ \A i \in 1..(Len(history') - undone') : Behind'[i] = history'[i]
      /\ Ahead' \in Seq(AnyTable) /\ Len(Ahead') = undone'
      /\ \A i \in 1..undone' : Ahead'[i] = history'[Len(history') - undone' + i]
  <2>1. history' \in Seq(AnyTable) /\ undone' \in 0..Len(history')
    BY DEF TypeOK
  <2>2. /\ Behind' = SubSeq(history', 1, Len(history') - undone')
        /\ Ahead' = SubSeq(history', Len(history') - undone' + 1, Len(history'))
    BY DEF Behind, Ahead
  <2> QED BY <2>1, <2>2, TwoParts
<1>5. Len(history) \in Nat /\ undone \in Nat /\ at + undone = Len(history)
  BY DEF TypeOK
<1>9. Len(history') - undone' = at - 1
  <2>1. Len(history') = Len(history) /\ undone' = undone + 1
    BY <1>1, <1>2
  <2>2. Len(history) \in Nat /\ undone \in Nat
    BY <1>5
  <2> QED BY <2>1, <2>2
<1> HIDE DEF at
<1>6. Behind # <<>> /\ products' = Last(Behind)
  BY <1>1, <1>3, <1>5 DEF Last
<1>7. Behind' = Front(Behind)
  <2>1. Front(Behind) \in Seq(AnyTable) /\ Len(Front(Behind)) = at - 1
        /\ \A i \in 1..(at - 1) : Front(Behind)[i] = Behind[i]
    <3>1. Front(Behind) = SubSeq(Behind, 1, at - 1) /\ 1 \in 0..Len(Behind)
      BY <1>1, <1>3, <1>5 DEF Front
    <3> QED BY <1>3, <3>1, TwoParts
  <2>2. Len(Behind') = at - 1 /\ \A i \in 1..(at - 1) : Behind'[i] = history[i]
    <3>1. Len(Behind') = at - 1 /\ \A i \in 1..(at - 1) : Behind'[i] = history'[i]
      BY <1>4, <1>9
    <3>2. \A i \in 1..(at - 1) : i \in 1..Len(history) /\ i # at
      BY <1>1, <1>5
    <3> QED BY <3>1, <3>2, <1>2
  <2>3. \A i \in 1..(at - 1) : Front(Behind)[i] = history[i]
    <3>1. at \in Nat /\ \A i \in 1..(at - 1) : i \in 1..at
      BY <1>1, <1>5
    <3>2. \A i \in 1..at : Behind[i] = history[i]
      BY <1>3
    <3> QED BY <2>1, <3>1, <3>2
  <2> QED BY <1>4, <2>1, <2>2, <2>3, SameSeq
<1>8. Ahead' = <<products>> \o Ahead
  <2> DEFINE joined == <<products>> \o Ahead
  <2>1. /\ joined \in Seq(AnyTable) /\ Len(joined) = undone + 1 /\ joined[1] = products
        /\ \A i \in 2..(undone + 1) : joined[i] = Ahead[i - 1]
    <3>1. products \in AnyTable /\ <<products>> \in Seq(AnyTable)
      BY DEF TypeOK
    <3> QED BY <3>1, <1>3, <1>5, ConcatProperties
  <2>2. Len(history') - undone' = at - 1
    BY <1>9
  <2>3. ASSUME NEW i \in 1..(undone + 1) PROVE Ahead'[i] = joined[i]
    <3>1. Ahead'[i] = history'[at - 1 + i]
      BY <2>2, <1>1, <1>4
    <3>2. CASE i = 1
      BY <3>1, <3>2, <2>1, <1>1, <1>2
    <3>3. CASE i # 1
      <4>1. /\ i - 1 \in 1..undone /\ at - 1 + i \in 1..Len(history) /\ at - 1 + i # at
            /\ at - 1 + i = at + (i - 1) /\ i \in 2..(undone + 1)
        BY <3>3, <1>1, <1>5
      <4>2. history'[at - 1 + i] = Ahead[i - 1]
        BY <4>1, <1>2, <1>3
      <4> QED BY <3>1, <4>1, <4>2, <2>1
    <3> QED BY <3>2, <3>3
  <2> HIDE DEF joined
  <2>4. Len(Ahead') = Len(joined)
    BY <1>1, <1>4, <2>1
  <2>5. Ahead' = joined
    BY <1>4, <1>1, <2>1, <2>3, <2>4, SameSeq
  <2> QED BY <2>5 DEF joined
<1> QED BY <1>1, <1>6, <1>7, <1>8
        DEF TimelineOf!Back, TimelineOf!Last, TimelineOf!Front, Last, Front

LEMMA RedoGoesForward ==
    ASSUME TypeOK, TypeOK', Redo
    PROVE  TimelineOf!Forward
<1> DEFINE at == Len(history) - undone + 1
<1>1. /\ at \in 1..Len(history) /\ undone' = undone - 1 /\ undo_limit' = undo_limit
      /\ products' = history[at] /\ history' = [history EXCEPT ![at] = products]
      /\ undone # 0
  BY DEF Redo, Swap, TypeOK
<1>2. /\ Len(history') = Len(history) /\ history'[at] = products
      /\ \A i \in 1..Len(history) : i # at => history'[i] = history[i]
  BY <1>1 DEF TypeOK
<1>3. /\ Behind \in Seq(AnyTable) /\ Len(Behind) = at - 1
      /\ \A i \in 1..(at - 1) : Behind[i] = history[i]
      /\ Ahead \in Seq(AnyTable) /\ Len(Ahead) = undone
      /\ \A i \in 1..undone : Ahead[i] = history[at - 1 + i]
  <2>1. Len(history) - undone = at - 1
    BY DEF TypeOK
  <2> HIDE DEF at
  <2> QED BY <2>1, LineOf
<1>4. /\ Behind' \in Seq(AnyTable) /\ Len(Behind') = Len(history') - undone'
      /\ \A i \in 1..(Len(history') - undone') : Behind'[i] = history'[i]
      /\ Ahead' \in Seq(AnyTable) /\ Len(Ahead') = undone'
      /\ \A i \in 1..undone' : Ahead'[i] = history'[Len(history') - undone' + i]
  <2>1. history' \in Seq(AnyTable) /\ undone' \in 0..Len(history')
    BY DEF TypeOK
  <2>2. /\ Behind' = SubSeq(history', 1, Len(history') - undone')
        /\ Ahead' = SubSeq(history', Len(history') - undone' + 1, Len(history'))
    BY DEF Behind, Ahead
  <2> QED BY <2>1, <2>2, TwoParts
<1>5. /\ Len(history) \in Nat /\ undone \in Nat \ {0} /\ at + undone = Len(history) + 1
      /\ products \in AnyTable
  <2>1. Len(history) \in Nat /\ undone \in Nat /\ products \in AnyTable
    BY DEF TypeOK
  <2>2. undone # 0
    BY <1>1
  <2> QED BY <2>1, <2>2
<1>6. Len(history') - undone' = at
  <2>1. Len(history') = Len(history) /\ undone' = undone - 1
    BY <1>1, <1>2
  <2>2. Len(history) \in Nat /\ undone \in Nat
    BY <1>5
  <2> QED BY <2>1, <2>2
<1> HIDE DEF at
<1>7. Ahead # <<>> /\ products' = Head(Ahead)
  <2>1. Ahead # <<>> /\ Head(Ahead) = Ahead[1]
    BY <1>3, <1>5
  <2>2. Ahead[1] = history[at]
    BY <1>1, <1>3, <1>5
  <2> QED BY <1>1, <2>1, <2>2
<1>8. Behind' = Append(Behind, products)
  <2> DEFINE more == Append(Behind, products)
  <2>1. /\ more \in Seq(AnyTable) /\ Len(more) = at /\ more[at] = products
        /\ \A i \in 1..(at - 1) : more[i] = Behind[i]
    <3>1. Len(Behind) + 1 = at
      BY <1>1, <1>3
    <3> QED BY <3>1, <1>3, <1>5, AppendProperties
  <2> HIDE DEF more
  <2>2. Len(Behind') = at /\ \A i \in 1..at : Behind'[i] = history'[i]
    BY <1>4, <1>6
  <2>3. ASSUME NEW i \in 1..at PROVE Behind'[i] = more[i]
    <3>1. CASE i = at
      BY <3>1, <2>1, <2>2, <1>2
    <3>2. CASE i # at
      <4>1. i \in 1..(at - 1) /\ i \in 1..Len(history)
        BY <3>2, <1>1, <1>5
      <4> QED BY <4>1, <3>2, <2>1, <2>2, <1>2, <1>3
    <3> QED BY <3>1, <3>2
  <2>4. Behind' = more
    BY <1>4, <2>1, <2>2, <2>3, SameSeq
  <2> QED BY <2>4 DEF more
<1>9. Ahead' = Tail(Ahead)
  <2> DEFINE rest == Tail(Ahead)
  <2>1. /\ rest \in Seq(AnyTable) /\ Len(rest) = undone - 1
        /\ \A i \in 1..(undone - 1) : rest[i] = Ahead[i + 1]
    BY <1>3, <1>7, HeadTailProperties
  <2> HIDE DEF rest
  <2>2. ASSUME NEW i \in 1..(undone - 1) PROVE Ahead'[i] = rest[i]
    <3>1. /\ i + 1 \in 1..undone /\ at + i \in 1..Len(history) /\ at + i # at
          /\ at - 1 + (i + 1) = at + i
      BY <1>1, <1>5
    <3>2. Ahead'[i] = history'[at + i]
      BY <1>1, <1>4, <1>6
    <3> QED BY <3>1, <3>2, <2>1, <1>2, <1>3
  <2>3. Ahead' = rest
    BY <1>1, <1>4, <2>1, <2>2, SameSeq
  <2> QED BY <2>3 DEF rest
<1> QED BY <1>1, <1>7, <1>8, <1>9 DEF TimelineOf!Forward

(* A limit set drops the oldest of what is behind.                         *)
LEMMA LimitIsSet ==
    ASSUME TypeOK, TypeOK', NEW n \in Limits, SetUndoLimit(n)
    PROVE  TimelineOf!SetLimit
<1> DEFINE m == undo_limit'
           cut == Len(history) - Len(history')
<1>1. /\ m \in Nat \ {0} /\ undone \in 0..Len(history) /\ history \in Seq(AnyTable)
      /\ history' = KeptTo(history, undone, m) /\ undone' = undone /\ products' = products
      /\ history' \in Seq(AnyTable) /\ undone' \in 0..Len(history')
  BY DEF SetUndoLimit, structure, TypeOK
<1> HIDE DEF m
<1>2. /\ cut \in 0..Len(history)
      /\ \A i \in 1..Len(history') : history'[i] = history[i + cut]
  BY <1>1, KeptIsATail, SMTT(30)
<1>3. Len(history') = IF Len(history) - undone > m THEN undone + m ELSE Len(history)
  <2>1. CASE Len(history) - undone > m
    <3> DEFINE from == Len(history) - undone - m + 1
    <3>1. from \in Int /\ \A i \in from..Len(history) : history[i] \in AnyTable
      BY <1>1, <2>1
    <3>2. Len(SubSeq(history, from, Len(history))) =
            IF from <= Len(history) THEN Len(history) - from + 1 ELSE 0
      BY <1>1, <3>1, SubSeqProperties
    <3>3. history' = SubSeq(history, from, Len(history))
      BY <1>1, <2>1 DEF KeptTo
    <3> QED BY <1>1, <2>1, <3>2, <3>3
  <2>2. CASE ~(Len(history) - undone > m)
    BY <1>1, <2>2 DEF KeptTo
  <2> QED BY <2>1, <2>2
<1>4. /\ Behind \in Seq(AnyTable) /\ Len(Behind) = Len(history) - undone
      /\ \A i \in 1..(Len(history) - undone) : Behind[i] = history[i]
      /\ Ahead \in Seq(AnyTable) /\ Len(Ahead) = undone
      /\ \A i \in 1..undone : Ahead[i] = history[Len(history) - undone + i]
  BY LineOf
<1>5. /\ Behind' \in Seq(AnyTable) /\ Len(Behind') = Len(history') - undone
      /\ \A i \in 1..(Len(history') - undone) : Behind'[i] = history'[i]
      /\ Ahead' \in Seq(AnyTable) /\ Len(Ahead') = undone
      /\ \A i \in 1..undone : Ahead'[i] = history'[Len(history') - undone + i]
  <2>1. /\ Behind' = SubSeq(history', 1, Len(history') - undone)
        /\ Ahead' = SubSeq(history', Len(history') - undone + 1, Len(history'))
    BY <1>1 DEF Behind, Ahead
  <2>2. history' \in Seq(AnyTable) /\ undone \in 0..Len(history')
    BY <1>1
  <2> QED BY <2>1, <2>2, TwoParts
<1>6. Ahead' = Ahead
  <2>1. ASSUME NEW i \in 1..undone PROVE Ahead'[i] = Ahead[i]
    <3>1. /\ Len(history') - undone + i \in 1..Len(history')
          /\ Len(history') - undone + i + cut = Len(history) - undone + i
      <4>1. /\ Len(history) \in Nat /\ Len(history') \in Nat /\ undone \in Nat
            /\ undone <= Len(history')
        BY <1>1
      <4> QED BY <4>1
    <3> QED BY <3>1, <1>2, <1>4, <1>5
  <2> QED BY <2>1, <1>4, <1>5, SameSeq
<1>7. Behind' = TimelineOf!Newest(m, Behind)
  <2> DEFINE new == TimelineOf!Newest(m, Behind)
  <2>1. /\ new \in Seq(AnyTable)
        /\ Len(new) = IF Len(Behind) > m THEN m ELSE Len(Behind)
        /\ \A i \in 1..Len(new) : new[i] = Behind[i + (Len(Behind) - Len(new))]
    BY <1>1, <1>4, NewestIs
  <2> HIDE DEF new
  <2>2. Len(new) = Len(Behind')
    BY <1>1, <1>3, <1>4, <1>5, <2>1
  <2>3. ASSUME NEW i \in 1..Len(Behind') PROVE Behind'[i] = new[i]
    <3>1. /\ i \in 1..Len(history') /\ i \in 1..(Len(history') - undone)
          /\ i + (Len(Behind) - Len(new)) = i + cut
          /\ i + cut \in 1..(Len(history) - undone)
      BY <1>1, <1>2, <1>4, <1>5, <2>2
    <3>2. Behind'[i] = history'[i] /\ history'[i] = history[i + cut]
      BY <3>1, <1>2, <1>5
    <3>3. new[i] = Behind[i + (Len(Behind) - Len(new))]
      BY <2>1, <2>2
    <3>4. Behind[i + cut] = history[i + cut]
      BY <3>1, <1>4
    <3> QED BY <3>1, <3>2, <3>3, <3>4
  <2>4. Behind' = new
    BY <1>5, <2>1, <2>2, <2>3, SameSeq
  <2> QED BY <2>4 DEF new
<1> QED BY <1>1, <1>6, <1>7 DEF TimelineOf!SetLimit, m

LEMMA InitIsStart ==
    ASSUME Init PROVE TimelineOf!Init
<1>1. TypeOK
  BY InitTypes
<1>2. Len(Behind) = 0 /\ Behind \in Seq(AnyTable) /\ Len(Ahead) = 0 /\ Ahead \in Seq(AnyTable)
  BY <1>1, LineOf DEF Init
<1>3. Behind = <<>> /\ Ahead = <<>>
  BY <1>2
<1> QED BY <1>1, <1>3 DEF TimelineOf!Init, TypeOK

(* Steps that leave what is kept alone.                                    *)
LEMMA EditStays ==
    ASSUME TypeOK', UNCHANGED undoing
    PROVE  TimelineOf!Edit
<1>1. Behind' = Behind /\ Ahead' = Ahead /\ undo_limit' = undo_limit
  BY DEF undoing, Behind, Ahead
<1>2. products' \in AnyTable
  BY DEF TypeOK
<1> QED BY <1>1, <1>2 DEF TimelineOf!Edit

LEMMA NextFollowsLine ==
    ASSUME TypeOK, TypeOK', [Next]_vars
    PROVE  [TimelineOf!Next]_(TimelineOf!line)
<1>1. CASE Checkpoint
  BY <1>1, CheckpointMarks DEF TimelineOf!Next
<1>2. CASE Undo
  BY <1>2, UndoGoesBack DEF TimelineOf!Next
<1>3. CASE Redo
  BY <1>3, RedoGoesForward DEF TimelineOf!Next
<1>4. CASE \E n \in Limits : SetUndoLimit(n)
  BY <1>4, LimitIsSet DEF TimelineOf!Next
<1>5. CASE UNCHANGED undoing
  BY <1>5, EditStays DEF TimelineOf!Next
<1>6. CASE \/ AddPart \/ AddAssembly
           \/ \E a, p \in ProductIds : AddInstance(a, p) \/ AddInstanceAt(a, p)
           \/ \E p \in ProductIds, node \in Nodes, at \in FileLocations :
                ReplacePartShape(p, node, at)
  <2>1. UNCHANGED undoing
    BY <1>6 DEF AddPart, AddAssembly, Push, AddInstance, AddInstanceAt, ReplacePartShape
  <2> QED BY <2>1, <1>5
<1>7. CASE UNCHANGED vars
  BY <1>5, <1>7 DEF vars
<1> QED BY <1>1, <1>2, <1>3, <1>4, <1>6, <1>7 DEF Next, Operation

(* For any number of states kept: undo and redo move along one line of     *)
(* states and change none of them, a checkpoint drops only what lies       *)
(* ahead, and room is made only of the oldest.                             *)
THEOREM Refinement == Spec => ImplementsTimeline
<1>1. Init => TimelineOf!Init
  BY InitIsStart
<1>2. TypeOK /\ TypeOK' /\ [Next]_vars => [TimelineOf!Next]_(TimelineOf!line)
  BY NextFollowsLine
<1> QED BY <1>1, <1>2, TypeCorrect, PTL DEF Spec, ImplementsTimeline, TimelineOf!Spec

-----------------------------------------------------------------------------
(* Powers of a rearrangement by squaring (raised).                         *)
LEMMA HasLeast ==
    ASSUME NEW T \in SUBSET Nat, T # {}
    PROVE  \E x \in T : \A y \in T : ~(y < x)
<1>1. \E x \in T : \A y \in T : ~(<<y, x>> \in OpToRel(<, Nat))
  BY NatLessThanWellFounded, WFMin
<1> QED BY <1>1 DEF OpToRel

(* Rearrangements compose, and a bijection is undone by its opposite.      *)
Rearranged == [Points -> Points]

LEMMA TimesIs ==
    /\ IDENTITY \in Rearranged
    /\ \A t, u \in Rearranged : Times(t, u) \in Rearranged
    /\ \A t \in Rearranged : Times(t, IDENTITY) = t /\ Times(IDENTITY, t) = t
  BY DEF IDENTITY, Times, Rearranged

LEMMA TimesAssociates ==
    ASSUME NEW t \in Rearranged, NEW u \in Rearranged, NEW v \in Rearranged
    PROVE  Times(Times(t, u), v) = Times(t, Times(u, v))
  BY DEF Times, Rearranged

Undoes(t, u) ==
    t \in Rearranged /\ u \in Rearranged /\ Times(t, u) = IDENTITY /\ Times(u, t) = IDENTITY

LEMMA OppositeUndoes ==
    ASSUME NEW t \in Transforms
    PROVE  Undoes(t, Opposite(t))
<1>1. /\ t \in [Points -> Points]
      /\ \A x, y \in Points : t[x] = t[y] => x = y
      /\ \A y \in Points : \E x \in Points : t[x] = y
  BY DEF Transforms, Bijection, Injection, Surjection, IsInjective
<1> DEFINE u == Opposite(t)
<1>2. ASSUME NEW x \in Points PROVE u[x] \in Points /\ t[u[x]] = x
  BY <1>1 DEF Opposite
<1>3. u = [x \in Points |-> u[x]]
  BY DEF Opposite
<1> HIDE DEF u
<1>4. u \in Rearranged /\ t \in Rearranged
  BY <1>1, <1>2, <1>3 DEF Rearranged
<1>5. ASSUME NEW x \in Points PROVE u[t[x]] = x
  <2>1. t[x] \in Points
    BY <1>1
  <2>2. u[t[x]] \in Points /\ t[u[t[x]]] = t[x]
    BY <2>1, <1>2
  <2> QED BY <1>1, <2>2
<1>6. Times(t, u) = IDENTITY
  BY <1>2 DEF Times, IDENTITY
<1>7. Times(u, t) = IDENTITY
  BY <1>5 DEF Times, IDENTITY
<1> QED BY <1>4, <1>6, <1>7 DEF Undoes, u

(* Powers by squaring.                                                     *)
Squares(f, t, n) ==
    f = [k \in 0..n |->
            IF k = 0 THEN IDENTITY
            ELSE IF k % 2 = 1 THEN Times(t, Times(f[k \div 2], f[k \div 2]))
                 ELSE Times(f[k \div 2], f[k \div 2])]

LEMMA Halves ==
    ASSUME NEW k \in Nat, k # 0
    PROVE  /\ k \div 2 \in Nat /\ k \div 2 < k
           /\ k % 2 \in {0, 1} /\ k = 2 * (k \div 2) + (k % 2)
  OBVIOUS

LEMMA SquaresExist ==
    ASSUME NEW t, NEW n \in Nat
    PROVE  \E f : Squares(f, t, n)
<1> DEFINE T == {k \in Nat : ~ \E f : Squares(f, t, k)}
<1> SUFFICES ASSUME T # {} PROVE FALSE
  OBVIOUS
<1>1. PICK k \in T : \A j \in T : ~(j < k)
  <2> T \in SUBSET Nat
    OBVIOUS
  <2> HIDE DEF T
  <2> QED BY HasLeast
<1>2. k # 0
  <2> DEFINE g == [j \in 0..0 |-> IDENTITY]
  <2>1. Squares(g, t, 0)
    BY DEF Squares
  <2> QED BY <1>1, <2>1
<1>3. PICK f : Squares(f, t, k - 1)
  BY <1>1, <1>2
<1> DEFINE Sq(h, j) == IF j % 2 = 1 THEN Times(t, Times(h[j \div 2], h[j \div 2]))
                       ELSE Times(h[j \div 2], h[j \div 2])
           g == [j \in 0..k |-> IF j = k THEN Sq(f, k) ELSE f[j]]
<1>4. ASSUME NEW j \in 0..k
      PROVE  g[j] = IF j = 0 THEN IDENTITY ELSE Sq(g, j)
  <2>1. j # 0 => j \div 2 \in 0..k /\ j \div 2 # k
    BY <1>1, <1>2, Halves
  <2>2. j # 0 => g[j \div 2] = f[j \div 2]
    BY <2>1
  <2>3. CASE j = k
    <3>1. g[j] = Sq(f, j)
      BY <2>3
    <3> QED BY <1>2, <2>2, <2>3, <3>1
  <2>4. CASE j # k
    <3>1. j \in 0..(k - 1) /\ g[j] = f[j]
      BY <1>1, <1>2, <2>4
    <3>2. f[j] = IF j = 0 THEN IDENTITY ELSE Sq(f, j)
      BY <1>3, <3>1 DEF Squares
    <3> QED BY <2>2, <3>1, <3>2
  <2> QED BY <2>3, <2>4
<1>5. Squares(g, t, k)
  <2>1. g = [j \in 0..k |-> g[j]]
    OBVIOUS
  <2> HIDE DEF g
  <2> QED BY <1>4, <2>1 DEF Squares
<1> QED BY <1>1, <1>5

LEMMA SquaresAgree ==
    ASSUME NEW t, NEW m \in Nat, NEW n \in Nat, m <= n,
           NEW f, Squares(f, t, m), NEW g, Squares(g, t, n)
    PROVE  f[m] = g[m]
<1> DEFINE T == {k \in 0..m : f[k] # g[k]}
<1>1. ASSUME T # {} PROVE FALSE
  <2>1. PICK k \in T : \A j \in T : ~(j < k)
    <3> T \in SUBSET Nat
      OBVIOUS
    <3> HIDE DEF T
    <3> QED BY <1>1, HasLeast
  <2>2. k \in 0..m /\ k \in 0..n
    OBVIOUS
  <2>3. k # 0 => k \div 2 \in 0..m /\ k \div 2 < k
    BY <2>2, Halves
  <2>4. k # 0 => f[k \div 2] = g[k \div 2]
    BY <2>1, <2>3
  <2>5. f[k] = IF k = 0 THEN IDENTITY
               ELSE IF k % 2 = 1 THEN Times(t, Times(f[k \div 2], f[k \div 2]))
                    ELSE Times(f[k \div 2], f[k \div 2])
    BY <2>2 DEF Squares
  <2>6. g[k] = IF k = 0 THEN IDENTITY
               ELSE IF k % 2 = 1 THEN Times(t, Times(g[k \div 2], g[k \div 2]))
                    ELSE Times(g[k \div 2], g[k \div 2])
    BY <2>2 DEF Squares
  <2> QED BY <2>1, <2>4, <2>5, <2>6
<1> QED BY <1>1

LEMMA RaisedIs ==
    ASSUME NEW t, NEW n \in Nat
    PROVE  \E f : Squares(f, t, n) /\ Raised(t, n) = f[n]
<1>1. Raised(t, n) = (CHOOSE f : Squares(f, t, n))[n]
  BY Zenon DEF Raised, Squares
<1> QED BY <1>1, SquaresExist

LEMMA RaisedHalves ==
    ASSUME NEW t, NEW n \in Nat
    PROVE  /\ n = 0 => Raised(t, n) = IDENTITY
           /\ n # 0 /\ n % 2 = 1 =>
                Raised(t, n) = Times(t, Times(Raised(t, n \div 2), Raised(t, n \div 2)))
           /\ n # 0 /\ n % 2 = 0 =>
                Raised(t, n) = Times(Raised(t, n \div 2), Raised(t, n \div 2))
<1>1. PICK f : Squares(f, t, n) /\ Raised(t, n) = f[n]
  BY RaisedIs
<1>2. n \in 0..n
  OBVIOUS
<1>3. f[n] = IF n = 0 THEN IDENTITY
             ELSE IF n % 2 = 1 THEN Times(t, Times(f[n \div 2], f[n \div 2]))
                  ELSE Times(f[n \div 2], f[n \div 2])
  BY <1>1, <1>2 DEF Squares
<1>4. ASSUME n # 0 PROVE f[n \div 2] = Raised(t, n \div 2)
  <2>1. n \div 2 \in Nat /\ n \div 2 <= n
    BY <1>4, Halves
  <2>2. PICK m : m = n \div 2
    OBVIOUS
  <2>3. PICK g : Squares(g, t, m) /\ Raised(t, m) = g[m]
    BY <2>1, <2>2, RaisedIs
  <2>4. g[m] = f[m]
    BY <1>1, <2>1, <2>2, <2>3, SquaresAgree
  <2> QED BY <2>2, <2>3, <2>4
<1>5. n # 0 => n % 2 \in {0, 1}
  BY Halves
<1> QED BY <1>1, <1>3, <1>4, <1>5

-----------------------------------------------------------------------------
(* Powers of either sign add up.                                           *)

(* The powers of a rearrangement commute with it, and the next is one more *)
(* of it.                                                                  *)
LEMMA RaisedCommutes ==
    ASSUME NEW t \in Rearranged, NEW n \in Nat
    PROVE  Raised(t, n) \in Rearranged /\ Times(Raised(t, n), t) = Times(t, Raised(t, n))
<1> DEFINE T == {k \in Nat : ~(/\ Raised(t, k) \in Rearranged
                               /\ Times(Raised(t, k), t) = Times(t, Raised(t, k)))}
<1> SUFFICES ASSUME T # {} PROVE FALSE
  OBVIOUS
<1>1. PICK k \in T : \A j \in T : ~(j < k)
  <2> T \in SUBSET Nat
    OBVIOUS
  <2> HIDE DEF T
  <2> QED BY HasLeast
<1>2. CASE k = 0
  <2>1. Raised(t, k) = IDENTITY
    BY <1>2, RaisedHalves
  <2> QED BY <1>1, <2>1, TimesIs
<1>3. CASE k # 0
  <2>1. k \div 2 \in Nat /\ k \div 2 < k /\ k % 2 \in {0, 1}
    BY <1>3, Halves
  <2>2. PICK h : h = Raised(t, k \div 2)
    OBVIOUS
  <2>3. h \in Rearranged /\ Times(h, t) = Times(t, h)
    BY <1>1, <2>1, <2>2
  <2>4. PICK hh : hh = Times(h, h)
    OBVIOUS
  <2>5. hh \in Rearranged
    BY <2>3, <2>4, TimesIs
  <2>6. Times(hh, t) = Times(t, hh)
    <3>1. Times(hh, t) = Times(h, Times(h, t))
      BY <2>3, <2>4, TimesAssociates
    <3>2. Times(h, Times(t, h)) = Times(Times(h, t), h)
      BY <2>3, TimesAssociates
    <3>3. Times(Times(t, h), h) = Times(t, hh)
      BY <2>3, <2>4, TimesAssociates
    <3> QED BY <2>3, <3>1, <3>2, <3>3
  <2>7. CASE k % 2 = 0
    <3>1. Raised(t, k) = hh
      BY <1>3, <2>2, <2>4, <2>7, RaisedHalves
    <3> QED BY <1>1, <2>5, <2>6, <3>1
  <2>8. CASE k % 2 = 1
    <3>1. Raised(t, k) = Times(t, hh)
      BY <1>3, <2>2, <2>4, <2>8, RaisedHalves
    <3>2. Times(t, hh) \in Rearranged
      BY <2>5, TimesIs
    <3>3. Times(Times(t, hh), t) = Times(t, Times(hh, t))
      BY <2>5, TimesAssociates
    <3> QED BY <1>1, <2>6, <3>1, <3>2, <3>3
  <2> QED BY <2>1, <2>7, <2>8
<1> QED BY <1>2, <1>3

LEMMA RaisedNext ==
    ASSUME NEW t \in Rearranged, NEW n \in Nat
    PROVE  Raised(t, n + 1) = Times(t, Raised(t, n))
<1> DEFINE T == {k \in Nat : Raised(t, k + 1) # Times(t, Raised(t, k))}
<1> SUFFICES ASSUME T # {} PROVE FALSE
  OBVIOUS
<1>1. PICK k \in T : \A j \in T : ~(j < k)
  <2> T \in SUBSET Nat
    OBVIOUS
  <2> HIDE DEF T
  <2> QED BY HasLeast
<1>2. PICK m : m = k \div 2
  OBVIOUS
<1>3. PICK h : h = Raised(t, m)
  OBVIOUS
<1>4. m \in Nat /\ (k % 2 = 0 \/ k % 2 = 1)
  BY <1>2
<1>5. h \in Rearranged /\ Times(h, t) = Times(t, h)
  BY <1>3, <1>4, RaisedCommutes
<1>6. Times(h, h) \in Rearranged
  BY <1>5, TimesIs
<1>7. CASE k % 2 = 0
  <2>1. k + 1 \in Nat /\ k + 1 # 0 /\ (k + 1) % 2 = 1 /\ (k + 1) \div 2 = m
    BY <1>2, <1>7
  <2>2. Raised(t, k + 1) = Times(t, Times(h, h))
    BY <1>3, <2>1, RaisedHalves
  <2>3. Raised(t, k) = Times(h, h)
    <3>1. CASE k = 0
      <4>1. m = 0 /\ h = IDENTITY /\ Raised(t, k) = IDENTITY
        <5>1. m = 0
          BY <1>2, <3>1
        <5> QED BY <1>3, <5>1, <3>1, RaisedHalves
      <4> QED BY <4>1, TimesIs
    <3>2. CASE k # 0
      BY <1>2, <1>3, <1>7, <3>2, RaisedHalves
    <3> QED BY <3>1, <3>2
  <2> QED BY <1>1, <2>2, <2>3
<1>8. CASE k % 2 = 1
  <2>1. k + 1 \in Nat /\ k + 1 # 0 /\ (k + 1) % 2 = 0 /\ (k + 1) \div 2 = m + 1 /\ m < k /\ k # 0
    BY <1>2, <1>8
  <2>2. Raised(t, m + 1) = Times(t, h)
    BY <1>1, <1>3, <1>4, <2>1
  <2>3. Raised(t, k + 1) = Times(Times(t, h), Times(t, h))
    BY <2>1, <2>2, RaisedHalves
  <2>4. Raised(t, k) = Times(t, Times(h, h))
    BY <1>2, <1>3, <1>8, <2>1, RaisedHalves
  <2>5. Times(t, h) \in Rearranged
    BY <1>5, TimesIs
  <2>6. Times(Times(t, h), Times(t, h)) = Times(t, Times(h, Times(t, h)))
    BY <1>5, <2>5, TimesAssociates
  <2>7. Times(h, Times(t, h)) = Times(Times(h, t), h)
    BY <1>5, TimesAssociates
  <2>8. Times(Times(t, h), h) = Times(t, Times(h, h))
    BY <1>5, TimesAssociates
  <2> QED BY <1>1, <1>5, <2>3, <2>4, <2>6, <2>7, <2>8
<1> QED BY <1>4, <1>7, <1>8

(* Powers of a rearrangement add up.                                       *)
LEMMA RaisedAdds ==
    ASSUME NEW t \in Rearranged, NEW m \in Nat, NEW n \in Nat
    PROVE  Raised(t, m + n) = Times(Raised(t, m), Raised(t, n))
<1> DEFINE T == {k \in Nat : Raised(t, k + n) # Times(Raised(t, k), Raised(t, n))}
<1> SUFFICES ASSUME T # {} PROVE FALSE
  OBVIOUS
<1>1. PICK k \in T : \A j \in T : ~(j < k)
  <2> T \in SUBSET Nat
    OBVIOUS
  <2> HIDE DEF T
  <2> QED BY HasLeast
<1>2. \A j \in Nat : Raised(t, j) \in Rearranged
  BY RaisedCommutes
<1>3. CASE k = 0
  <2>1. Raised(t, k) = IDENTITY /\ k + n = n
    BY <1>3, RaisedHalves
  <2> QED BY <1>1, <1>2, <2>1, TimesIs
<1>4. CASE k # 0
  <2>1. PICK j \in Nat : k = j + 1
    <3>1. k - 1 \in Nat /\ k = (k - 1) + 1
      BY <1>4
    <3> QED BY <3>1
  <2>2. Raised(t, j + n) = Times(Raised(t, j), Raised(t, n))
    BY <1>1, <2>1
  <2>3. k + n = (j + n) + 1 /\ j + n \in Nat
    BY <2>1
  <2>4. Raised(t, k + n) = Times(t, Raised(t, j + n))
    BY <2>3, RaisedNext
  <2>5. Raised(t, k) = Times(t, Raised(t, j))
    BY <2>1, RaisedNext
  <2>6. Times(Times(t, Raised(t, j)), Raised(t, n)) = Times(t, Times(Raised(t, j), Raised(t, n)))
    BY <1>2, TimesAssociates
  <2> QED BY <1>1, <2>2, <2>4, <2>5, <2>6
<1> QED BY <1>3, <1>4

LEMMA RaisedUndoes ==
    ASSUME NEW t, NEW u, Undoes(t, u), NEW n \in Nat
    PROVE  Times(Raised(t, n), Raised(u, n)) = IDENTITY
<1> t \in Rearranged /\ u \in Rearranged
  BY DEF Undoes
<1> DEFINE T == {k \in Nat : Times(Raised(t, k), Raised(u, k)) # IDENTITY}
<1> SUFFICES ASSUME T # {} PROVE FALSE
  OBVIOUS
<1>1. PICK k \in T : \A j \in T : ~(j < k)
  <2> T \in SUBSET Nat
    OBVIOUS
  <2> HIDE DEF T
  <2> QED BY HasLeast
<1>2. CASE k = 0
  <2>1. Raised(t, k) = IDENTITY /\ Raised(u, k) = IDENTITY
    BY <1>2, RaisedHalves
  <2> QED BY <1>1, <2>1, TimesIs
<1>3. CASE k # 0
  <2>1. PICK j \in Nat : k = j + 1
    <3>1. k - 1 \in Nat /\ k = (k - 1) + 1
      BY <1>3
    <3> QED BY <3>1
  <2>2. PICK a, b : a = Raised(t, j) /\ b = Raised(u, j)
    OBVIOUS
  <2>3. a \in Rearranged /\ b \in Rearranged /\ Times(a, t) = Times(t, a)
    BY <2>2, RaisedCommutes
  <2>4. Times(a, b) = IDENTITY
    BY <1>1, <2>1, <2>2
  <2>5. Raised(t, k) = Times(a, t) /\ Raised(u, k) = Times(u, b)
    BY <2>1, <2>2, <2>3, RaisedNext
  <2>6. Times(u, b) \in Rearranged
    BY <2>3, TimesIs
  <2>7. Times(Times(a, t), Times(u, b)) = Times(a, Times(t, Times(u, b)))
    BY <2>3, <2>6, TimesAssociates
  <2>8. Times(t, Times(u, b)) = Times(Times(t, u), b)
    BY <2>3, TimesAssociates
  <2>9. Times(Times(t, u), b) = b
    BY <2>3, TimesIs DEF Undoes
  <2> QED BY <1>1, <2>4, <2>5, <2>7, <2>8, <2>9
<1> QED BY <1>2, <1>3

(* So do powers of either sign, those below zero being of the opposite.    *)
Power(t, u, p) == IF p >= 0 THEN Raised(t, p) ELSE Raised(u, -p)

LEMMA PowersOfBothSigns ==
    ASSUME NEW t, NEW u, Undoes(t, u), NEW p \in Nat, NEW q \in Int, q < 0
    PROVE  Times(Raised(t, p), Raised(u, -q)) = Power(t, u, p + q)
<1> t \in Rearranged /\ u \in Rearranged
  BY DEF Undoes
<1>1. PICK n \in Nat : n = -q
  OBVIOUS
<1>2. \A j \in Nat : Raised(t, j) \in Rearranged /\ Raised(u, j) \in Rearranged
  BY RaisedCommutes
<1>3. CASE p + q >= 0
  <2>1. PICK m \in Nat : m = p + q /\ p = m + n
    BY <1>1, <1>3
  <2>2. Raised(t, p) = Times(Raised(t, m), Raised(t, n))
    BY <2>1, RaisedAdds
  <2>3. Times(Times(Raised(t, m), Raised(t, n)), Raised(u, n))
            = Times(Raised(t, m), Times(Raised(t, n), Raised(u, n)))
    BY <1>2, TimesAssociates
  <2>4. Times(Raised(t, n), Raised(u, n)) = IDENTITY
    BY RaisedUndoes
  <2>5. Times(Raised(t, m), IDENTITY) = Raised(t, m)
    BY <1>2, TimesIs
  <2>6. Power(t, u, p + q) = Raised(t, m)
    BY <2>1, <1>3 DEF Power
  <2> QED BY <1>1, <2>2, <2>3, <2>4, <2>5, <2>6
<1>4. CASE ~(p + q >= 0)
  <2>1. PICK m \in Nat : m = -(p + q) /\ n = p + m
    <3>1. -(p + q) \in Nat /\ n = p + (-(p + q))
      BY <1>1, <1>4
    <3> QED BY <3>1
  <2>2. Raised(u, n) = Times(Raised(u, p), Raised(u, m))
    BY <2>1, RaisedAdds
  <2>3. Times(Times(Raised(t, p), Raised(u, p)), Raised(u, m))
            = Times(Raised(t, p), Times(Raised(u, p), Raised(u, m)))
    BY <1>2, TimesAssociates
  <2>4. Times(Raised(t, p), Raised(u, p)) = IDENTITY
    BY RaisedUndoes
  <2>5. Times(IDENTITY, Raised(u, m)) = Raised(u, m)
    BY <1>2, TimesIs
  <2>6. Power(t, u, p + q) = Raised(u, m)
    BY <2>1, <1>4 DEF Power
  <2> QED BY <1>1, <2>2, <2>3, <2>4, <2>5, <2>6
<1> QED BY <1>3, <1>4

LEMMA PowersAdd ==
    ASSUME NEW t, NEW u, Undoes(t, u), NEW p \in Int, NEW q \in Int
    PROVE  /\ Power(t, u, p) \in Rearranged
           /\ Times(Power(t, u, p), Power(t, u, q)) = Power(t, u, p + q)
<1> t \in Rearranged /\ u \in Rearranged
  BY DEF Undoes
<1>1. Power(t, u, p) \in Rearranged
  <2>1. CASE p >= 0
    BY <2>1, RaisedCommutes DEF Power
  <2>2. CASE ~(p >= 0)
    <3>1. -p \in Nat
      BY <2>2
    <3> QED BY <2>2, <3>1, RaisedCommutes DEF Power
  <2> QED BY <2>1, <2>2
<1>2. CASE p >= 0 /\ q >= 0
  <2>1. p + q >= 0 /\ p \in Nat /\ q \in Nat
    BY <1>2
  <2>2. Raised(t, p + q) = Times(Raised(t, p), Raised(t, q))
    BY <2>1, RaisedAdds
  <2> QED BY <1>1, <1>2, <2>1, <2>2 DEF Power
<1>3. CASE p >= 0 /\ q < 0
  <2>1. p \in Nat /\ ~(q >= 0)
    BY <1>3
  <2>2. Times(Raised(t, p), Raised(u, -q)) = Power(t, u, p + q)
    BY <1>3, <2>1, PowersOfBothSigns
  <2> QED BY <1>1, <1>3, <2>1, <2>2 DEF Power
<1>4. CASE p < 0 /\ q >= 0
  <2>1. PICK a, b : a = -p /\ b = -q
    OBVIOUS
  <2>2. /\ ~(p >= 0) /\ q \in Nat /\ a \in Nat /\ b \in Int /\ q = -b /\ a + b = -(p + q)
        /\ -a = p
    BY <1>4, <2>1
  <2>3. Undoes(u, t)
    BY DEF Undoes
  <2>4. Times(Raised(u, a), Raised(t, q)) = Power(u, t, a + b)
    <3>1. CASE q = 0
      <4>1. Raised(t, q) = IDENTITY /\ a + b = a /\ a >= 0
        BY <2>1, <2>2, <3>1, RaisedHalves
      <4>2. Raised(u, a) \in Rearranged
        BY <2>2, RaisedCommutes
      <4> QED BY <4>1, <4>2, TimesIs DEF Power
    <3>2. CASE q # 0
      <4>1. b < 0
        BY <2>2, <3>2
      <4>2. Times(Raised(u, a), Raised(t, -b)) = Power(u, t, a + b)
        BY <2>2, <2>3, <4>1, PowersOfBothSigns
      <4> QED BY <2>2, <4>2
    <3> QED BY <3>1, <3>2
  <2>5. Power(u, t, a + b) = Power(t, u, p + q)
    <3>1. CASE p + q = 0
      <4>1. a + b = 0 /\ a + b >= 0 /\ p + q >= 0
        BY <2>2, <3>1
      <4>2. Raised(u, 0) = IDENTITY /\ Raised(t, 0) = IDENTITY
        BY RaisedHalves
      <4> QED BY <3>1, <4>1, <4>2 DEF Power
    <3>2. CASE p + q > 0
      <4>1. ~(a + b >= 0) /\ p + q >= 0 /\ -(a + b) = p + q
        BY <2>2, <3>2
      <4> QED BY <4>1 DEF Power
    <3>3. CASE p + q < 0
      <4>1. a + b >= 0 /\ ~(p + q >= 0) /\ a + b = -(p + q)
        BY <2>2, <3>3
      <4> QED BY <4>1 DEF Power
    <3> QED BY <3>1, <3>2, <3>3
  <2>6. Power(t, u, p) = Raised(u, a) /\ Power(t, u, q) = Raised(t, q)
    BY <1>4, <2>1, <2>2 DEF Power
  <2> QED BY <1>1, <2>4, <2>5, <2>6
<1>5. CASE p < 0 /\ q < 0
  <2>1. PICK a, b : a = -p /\ b = -q
    OBVIOUS
  <2>2. /\ a \in Nat /\ b \in Nat /\ a + b = -(p + q)
        /\ ~(p >= 0) /\ ~(q >= 0) /\ ~(p + q >= 0)
    BY <1>5, <2>1
  <2>3. Raised(u, a + b) = Times(Raised(u, a), Raised(u, b))
    BY <2>2, RaisedAdds
  <2> QED BY <1>1, <2>1, <2>2, <2>3 DEF Power
<1> QED BY <1>2, <1>3, <1>4, <1>5

-----------------------------------------------------------------------------
(* Folds as functions of how much was folded.                              *)

(* Taking the last element off a sequence and putting it back.             *)
LEMMA FrontIs ==
    ASSUME NEW S, NEW l \in Seq(S), l # <<>>
    PROVE  /\ Front(l) \in Seq(S) /\ Last(l) \in S /\ l = Append(Front(l), Last(l))
           /\ Len(Front(l)) = Len(l) - 1
           /\ \A i \in 1..(Len(l) - 1) : Front(l)[i] = l[i]
<1>1. PICK n \in Nat \ {0} : n = Len(l)
  BY EmptySeq
<1>2. /\ Front(l) \in Seq(S) /\ Len(Front(l)) = n - 1
      /\ \A i \in 1..(n - 1) : Front(l)[i] = l[i]
  <2>1. \A i \in 1..(n - 1) : l[i] \in S
    BY <1>1
  <2>2. /\ SubSeq(l, 1, n - 1) \in Seq(S)
        /\ Len(SubSeq(l, 1, n - 1)) = IF 1 <= n - 1 THEN n - 1 - 1 + 1 ELSE 0
        /\ \A i \in 1..(n - 1 - 1 + 1) : SubSeq(l, 1, n - 1)[i] = l[1 + i - 1]
    BY <2>1, SubSeqProperties
  <2>3. Len(SubSeq(l, 1, n - 1)) = n - 1
    BY <2>2
  <2>4. \A i \in 1..(n - 1) : SubSeq(l, 1, n - 1)[i] = l[i]
    BY <2>2
  <2> QED BY <1>1, <2>2, <2>3, <2>4 DEF Front
<1>3. Last(l) = l[n] /\ l[n] \in S
  BY <1>1 DEF Last
<1>4. PICK m : m = Append(Front(l), Last(l))
  OBVIOUS
<1>5. /\ m \in Seq(S) /\ Len(m) = n /\ m[n] = l[n]
      /\ \A i \in 1..(n - 1) : m[i] = l[i]
  <2>1. Len(Front(l)) + 1 = n
    BY <1>1, <1>2
  <2> QED BY <2>1, <1>2, <1>3, <1>4, AppendProperties
<1>6. \A i \in 1..n : m[i] = l[i]
  BY <1>5
<1>7. m = l
  BY <1>1, <1>5, <1>6, SeqEqual
<1> QED BY <1>1, <1>2, <1>3, <1>4, <1>7

LEMMA AppendIs ==
    ASSUME NEW S, NEW l \in Seq(S), NEW e \in S
    PROVE  /\ Append(l, e) \in Seq(S) /\ Append(l, e) # <<>>
           /\ Front(Append(l, e)) = l /\ Last(Append(l, e)) = e
           /\ Len(Append(l, e)) = Len(l) + 1
           /\ \A i \in 1..Len(l) : Append(l, e)[i] = l[i]
           /\ Append(l, e)[Len(l) + 1] = e
<1>1. PICK m : m = Append(l, e)
  OBVIOUS
<1>2. PICK n \in Nat : n = Len(l)
  OBVIOUS
<1>3. /\ m \in Seq(S) /\ Len(m) = n + 1 /\ m[n + 1] = e
      /\ \A i \in 1..n : m[i] = l[i]
  BY <1>1, <1>2, AppendProperties
<1>4. m # <<>>
  BY <1>2, <1>3
<1>5. /\ Front(m) \in Seq(S) /\ Len(Front(m)) = n
      /\ \A i \in 1..n : Front(m)[i] = m[i]
  <2>1. /\ Front(m) \in Seq(S) /\ Len(Front(m)) = Len(m) - 1
        /\ \A i \in 1..(Len(m) - 1) : Front(m)[i] = m[i]
    BY <1>3, <1>4, FrontIs
  <2>2. Len(m) - 1 = n
    BY <1>3
  <2> QED BY <2>1, <2>2
<1>6. \A i \in 1..n : Front(m)[i] = l[i]
  BY <1>3, <1>5
<1>7. Front(m) = l
  BY <1>2, <1>5, <1>6, SeqEqual
<1>8. Last(m) = e
  BY <1>3 DEF Last
<1> QED BY <1>1, <1>2, <1>3, <1>4, <1>7, <1>8

LEMMA LastOfRun ==
    ASSUME NEW k \in Nat \ {0}, NEW s \in SUBSET (1..k), k \in s
    PROVE  Max(s) = k /\ s \ {k} \in SUBSET (1..(k - 1))
<1>1. k \in s /\ \A y \in s : k >= y
  OBVIOUS
<1>2. \A x \in s : (\A y \in s : x >= y) => x = k
  OBVIOUS
<1>3. Max(s) \in s /\ \A y \in s : Max(s) >= y
  BY <1>1 DEF Max
<1>4. Max(s) = k
  BY <1>2, <1>3
<1>5. s \ {k} \in SUBSET (1..(k - 1))
  OBVIOUS
<1> QED BY <1>4, <1>5

(* Chains over the first n datums.                                         *)
Entries(n) == [datum : 1..n, power : Powers \ {0}]
Chains(n) == Seq(Entries(n))

(* A chain joined on entry by entry, as a function of the entries joined.  *)
Joined(f, n, outer, l) ==
    f = [s \in SUBSET (1..n) |->
            IF s = {} THEN outer ELSE JoinedOn(f[s \ {Max(s)}], l[Max(s)])]

LEMMA JoinedExist ==
    ASSUME NEW outer, NEW l, NEW n \in Nat
    PROVE  \E f : Joined(f, n, outer, l)
<1> DEFINE T == {k \in Nat : ~ \E f : Joined(f, k, outer, l)}
<1> SUFFICES ASSUME T # {} PROVE FALSE
  OBVIOUS
<1>1. PICK k \in T : \A j \in T : ~(j < k)
  <2> T \in SUBSET Nat
    OBVIOUS
  <2> HIDE DEF T
  <2> QED BY HasLeast
<1>2. k # 0
  <2> DEFINE g == [s \in SUBSET (1..0) |-> outer]
  <2>1. \A s \in SUBSET (1..0) : s = {}
    OBVIOUS
  <2>2. g = [s \in SUBSET (1..0) |->
                IF s = {} THEN outer ELSE JoinedOn(g[s \ {Max(s)}], l[Max(s)])]
    BY <2>1
  <2>3. Joined(g, 0, outer, l)
    BY <2>2 DEF Joined
  <2> QED BY <1>1, <2>3
<1>3. PICK f : Joined(f, k - 1, outer, l)
  BY <1>1, <1>2
<1> DEFINE g == [s \in SUBSET (1..k) |->
                    IF k \in s THEN JoinedOn(f[s \ {k}], l[k]) ELSE f[s]]
<1>4. ASSUME NEW s \in SUBSET (1..k)
      PROVE  g[s] = IF s = {} THEN outer ELSE JoinedOn(g[s \ {Max(s)}], l[Max(s)])
  <2>1. CASE k \in s
    <3>1. Max(s) = k /\ s \ {k} \in SUBSET (1..(k - 1)) /\ k \notin s \ {k}
      BY <1>1, <1>2, <2>1, LastOfRun
    <3>2. s \ {k} \in SUBSET (1..k)
      OBVIOUS
    <3>3. g[s \ {k}] = f[s \ {k}]
      BY <3>1, <3>2
    <3> QED BY <2>1, <3>1, <3>3
  <2>2. CASE k \notin s
    <3>1. s \in SUBSET (1..(k - 1))
      BY <1>1, <1>2, <2>2
    <3>2. f[s] = IF s = {} THEN outer ELSE JoinedOn(f[s \ {Max(s)}], l[Max(s)])
      BY <1>3, <3>1 DEF Joined
    <3>3. s \ {Max(s)} \in SUBSET (1..k) /\ k \notin s \ {Max(s)}
      BY <2>2
    <3>4. g[s \ {Max(s)}] = f[s \ {Max(s)}]
      BY <3>3
    <3> QED BY <2>2, <3>2, <3>4
  <2> QED BY <2>1, <2>2
<1>5. Joined(g, k, outer, l)
  BY <1>4 DEF Joined
<1> QED BY <1>1, <1>5

(* What a run of a fold comes to after each entry.                         *)
Joins(g, outer, l) ==
    g[0] = outer /\ \A i \in 1..Len(l) : g[i] = JoinedOn(g[i - 1], l[i])

LEMMA FoldJoins ==
    ASSUME NEW outer, NEW S, NEW l \in Seq(S)
    PROVE  \E g : Joins(g, outer, l) /\ FoldLeft(JoinedOn, outer, l) = g[Len(l)]
<1>1. PICK n : n = Len(l) /\ n \in Nat /\ DOMAIN l = 1..n
  OBVIOUS
<1>2. FoldLeft(JoinedOn, outer, l) = (CHOOSE f : Joined(f, n, outer, l))[1..n]
  <2>1. FoldLeft(JoinedOn, outer, l) =
           (CHOOSE f : f = [s \in SUBSET DOMAIN l |->
                               IF s = {} THEN outer
                               ELSE JoinedOn(f[s \ {Max(s)}], l[Max(s)])])[DOMAIN l]
    BY Zenon DEF FoldLeft, MapThenFoldSet
  <2> QED BY Zenon, <1>1, <2>1 DEF Joined
<1>3. PICK f : Joined(f, n, outer, l) /\ FoldLeft(JoinedOn, outer, l) = f[1..n]
  BY <1>1, <1>2, JoinedExist
<1> DEFINE g == [i \in 0..n |-> f[1..i]]
<1>4. g[0] = outer
  <2>1. 1..0 = {} /\ 1..0 \in SUBSET (1..n) /\ 0 \in 0..n
    BY <1>1
  <2>2. f[1..0] = outer
    BY <1>3, <2>1 DEF Joined
  <2> QED BY <1>1, <2>1, <2>2
<1>5. ASSUME NEW i \in 1..n PROVE g[i] = JoinedOn(g[i - 1], l[i])
  <2>5. i \in Nat \ {0} /\ i <= n /\ n \in Nat
    BY <1>1
  <2>6. i \in 0..n /\ i - 1 \in 0..n /\ i \in 1..i
    BY <2>5
  <2>7. \A j \in 1..i : j \in 1..n
    BY <2>5
  <2>1. 1..i \in SUBSET (1..n) /\ 1..i # {} /\ i \in 0..n /\ i - 1 \in 0..n /\ i \in 1..i
    BY <2>6, <2>7
  <2>2. f[1..i] = JoinedOn(f[(1..i) \ {Max(1..i)}], l[Max(1..i)])
    BY <1>3, <2>1 DEF Joined
  <2>3. Max(1..i) = i
    BY <1>1, <2>1, LastOfRun
  <2>4. (1..i) \ {i} = 1..(i - 1)
    BY <1>1
  <2> QED BY <2>1, <2>2, <2>3, <2>4
<1>6. Joins(g, outer, l)
  BY <1>1, <1>4, <1>5 DEF Joins
<1>7. g[Len(l)] = f[1..n]
  BY <1>1
<1> QED BY <1>3, <1>6, <1>7

(* The transforms of a chain composed.                                     *)
Composing(f, n, l, ds) ==
    f = [s \in SUBSET (1..n) |->
            IF s = {} THEN IDENTITY ELSE Times(f[s \ {Max(s)}], Step(l[Max(s)], ds))]

LEMMA ComposingExist ==
    ASSUME NEW l, NEW ds, NEW n \in Nat
    PROVE  \E f : Composing(f, n, l, ds)
<1> DEFINE T == {k \in Nat : ~ \E f : Composing(f, k, l, ds)}
<1> SUFFICES ASSUME T # {} PROVE FALSE
  OBVIOUS
<1>1. PICK k \in T : \A j \in T : ~(j < k)
  <2> T \in SUBSET Nat
    OBVIOUS
  <2> HIDE DEF T
  <2> QED BY HasLeast
<1>2. k # 0
  <2> DEFINE g == [s \in SUBSET (1..0) |-> IDENTITY]
  <2>1. \A s \in SUBSET (1..0) : s = {}
    OBVIOUS
  <2>2. g = [s \in SUBSET (1..0) |->
                IF s = {} THEN IDENTITY ELSE Times(g[s \ {Max(s)}], Step(l[Max(s)], ds))]
    BY <2>1
  <2>3. Composing(g, 0, l, ds)
    BY <2>2 DEF Composing
  <2> QED BY <1>1, <2>3
<1>3. PICK f : Composing(f, k - 1, l, ds)
  BY <1>1, <1>2
<1> DEFINE g == [s \in SUBSET (1..k) |->
                    IF k \in s THEN Times(f[s \ {k}], Step(l[k], ds)) ELSE f[s]]
<1>4. ASSUME NEW s \in SUBSET (1..k)
      PROVE  g[s] = IF s = {} THEN IDENTITY ELSE Times(g[s \ {Max(s)}], Step(l[Max(s)], ds))
  <2>1. CASE k \in s
    <3>1. Max(s) = k /\ s \ {k} \in SUBSET (1..(k - 1)) /\ k \notin s \ {k}
      BY <1>1, <1>2, <2>1, LastOfRun
    <3>2. s \ {k} \in SUBSET (1..k)
      OBVIOUS
    <3>3. g[s \ {k}] = f[s \ {k}]
      BY <3>1, <3>2
    <3> QED BY <2>1, <3>1, <3>3
  <2>2. CASE k \notin s
    <3>1. s \in SUBSET (1..(k - 1))
      BY <1>1, <1>2, <2>2
    <3>2. f[s] = IF s = {} THEN IDENTITY ELSE Times(f[s \ {Max(s)}], Step(l[Max(s)], ds))
      BY <1>3, <3>1 DEF Composing
    <3>3. s \ {Max(s)} \in SUBSET (1..k) /\ k \notin s \ {Max(s)}
      BY <2>2
    <3>4. g[s \ {Max(s)}] = f[s \ {Max(s)}]
      BY <3>3
    <3> QED BY <2>2, <3>2, <3>4
  <2> QED BY <2>1, <2>2
<1>5. Composing(g, k, l, ds)
  BY <1>4 DEF Composing
<1> QED BY <1>1, <1>5

Composes(g, l, ds) ==
    g[0] = IDENTITY /\ \A i \in 1..Len(l) : g[i] = Times(g[i - 1], Step(l[i], ds))

LEMMA FoldComposes ==
    ASSUME NEW ds, NEW S, NEW l \in Seq(S)
    PROVE  \E g : Composes(g, l, ds) /\ Composed(l, ds) = g[Len(l)]
<1>1. PICK n : n = Len(l) /\ n \in Nat /\ DOMAIN l = 1..n
  OBVIOUS
<1>2. Composed(l, ds) = (CHOOSE f : Composing(f, n, l, ds))[1..n]
  <2>1. Composed(l, ds) =
           (CHOOSE f : f = [s \in SUBSET DOMAIN l |->
                               IF s = {} THEN IDENTITY
                               ELSE Times(f[s \ {Max(s)}], Step(l[Max(s)], ds))])[DOMAIN l]
    BY Zenon DEF Composed, FoldLeft, MapThenFoldSet
  <2> QED BY Zenon, <1>1, <2>1 DEF Composing
<1>3. PICK f : Composing(f, n, l, ds) /\ Composed(l, ds) = f[1..n]
  BY <1>1, <1>2, ComposingExist
<1> DEFINE g == [i \in 0..n |-> f[1..i]]
<1>4. g[0] = IDENTITY
  <2>1. 1..0 = {} /\ 1..0 \in SUBSET (1..n) /\ 0 \in 0..n
    BY <1>1
  <2>2. f[1..0] = IDENTITY
    BY <1>3, <2>1 DEF Composing
  <2> QED BY <1>1, <2>1, <2>2
<1>5. ASSUME NEW i \in 1..n PROVE g[i] = Times(g[i - 1], Step(l[i], ds))
  <2>5. i \in Nat \ {0} /\ i <= n /\ n \in Nat
    BY <1>1
  <2>6. i \in 0..n /\ i - 1 \in 0..n /\ i \in 1..i
    BY <2>5
  <2>7. \A j \in 1..i : j \in 1..n
    BY <2>5
  <2>1. 1..i \in SUBSET (1..n) /\ 1..i # {} /\ i \in 0..n /\ i - 1 \in 0..n /\ i \in 1..i
    BY <2>6, <2>7
  <2>2. f[1..i] = Times(f[(1..i) \ {Max(1..i)}], Step(l[Max(1..i)], ds))
    BY <1>3, <2>1 DEF Composing
  <2>3. Max(1..i) = i
    BY <1>1, <2>1, LastOfRun
  <2>4. (1..i) \ {i} = 1..(i - 1)
    BY <1>1
  <2> QED BY <2>1, <2>2, <2>3, <2>4
<1>6. Composes(g, l, ds)
  BY <1>1, <1>4, <1>5 DEF Composes
<1>7. g[Len(l)] = f[1..n]
  BY <1>1
<1> QED BY <1>3, <1>6, <1>7

-----------------------------------------------------------------------------
(* Joining chains composes what they come to.                              *)
LEMMA PowersAre == Powers \subseteq Int /\ 1 \in Powers
  BY LocationsAssumption DEF Powers, LowestPower

LEMMA EntriesAre ==
    ASSUME NEW n \in Nat
    PROVE  /\ \A d \in 1..n, p \in Powers \ {0} : [datum |-> d, power |-> p] \in Entries(n)
           /\ \A e \in Entries(n) : /\ e.datum \in 1..n /\ e.power \in Powers \ {0}
                                    /\ e = [datum |-> e.datum, power |-> e.power]
           /\ Chains(n) \subseteq AnyLocation
<1>1. Entries(n) \subseteq [datum : Nat, power : Powers]
  BY DEF Entries
<1>2. Chains(n) \subseteq AnyLocation
  BY <1>1, SeqMonotonic DEF Chains, AnyLocation
<1> QED BY <1>2 DEF Entries

LEMMA StepIs ==
    ASSUME NEW ds \in Seq(Placed), NEW e \in Entries(Len(ds))
    PROVE  /\ Undoes(ds[e.datum], Opposite(ds[e.datum]))
           /\ Step(e, ds) = Power(ds[e.datum], Opposite(ds[e.datum]), e.power)
           /\ Step(e, ds) \in Rearranged
<1>1. e.datum \in 1..Len(ds) /\ e.power \in Int
  BY PowersAre DEF Entries
<1>2. ds[e.datum] \in Transforms
  BY <1>1, StructureAssumption
<1>3. Undoes(ds[e.datum], Opposite(ds[e.datum]))
  BY <1>2, OppositeUndoes
<1>4. Step(e, ds) = Power(ds[e.datum], Opposite(ds[e.datum]), e.power)
  BY DEF Step, Power
<1> QED BY <1>1, <1>3, <1>4, PowersAdd

LEMMA NoneComposed ==
    ASSUME NEW ds
    PROVE  Composed(<<>>, ds) = IDENTITY
<1>1. <<>> \in Seq({}) /\ Len(<<>>) = 0
  OBVIOUS
<1>2. PICK h : Composes(h, <<>>, ds) /\ Composed(<<>>, ds) = h[Len(<<>>)]
  BY <1>1, FoldComposes
<1> QED BY <1>1, <1>2 DEF Composes

(* A run of a fold over a chain with an entry more goes as the run over    *)
(* the chain, and then takes the entry.                                    *)
LEMMA ComposedAppends ==
    ASSUME NEW ds, NEW S, NEW l \in Seq(S), NEW e \in S
    PROVE  Composed(Append(l, e), ds) = Times(Composed(l, ds), Step(e, ds))
<1>1. PICK m, n : m = Append(l, e) /\ n = Len(l)
  OBVIOUS
<1>2. /\ m \in Seq(S) /\ n \in Nat /\ Len(m) = n + 1 /\ m[n + 1] = e
      /\ \A i \in 1..n : m[i] = l[i]
  BY <1>1, AppendIs
<1>3. PICK f : Composes(f, l, ds) /\ Composed(l, ds) = f[Len(l)]
  BY FoldComposes
<1>4. PICK g : Composes(g, m, ds) /\ Composed(m, ds) = g[Len(m)]
  BY <1>2, FoldComposes
<1> DEFINE T == {k \in 0..n : f[k] # g[k]}
<1>5. ASSUME T # {} PROVE FALSE
  <2>1. PICK k \in T : \A j \in T : ~(j < k)
    <3> T \in SUBSET Nat
      BY <1>2
    <3> HIDE DEF T
    <3> QED BY <1>5, HasLeast
  <2>2. CASE k = 0
    BY <1>3, <1>4, <2>1, <2>2 DEF Composes
  <2>3. CASE k # 0
    <3>1. k \in 1..n /\ k \in 1..(n + 1) /\ k - 1 \in 0..n /\ k - 1 < k
      BY <1>2, <2>3
    <3>2. f[k - 1] = g[k - 1]
      BY <2>1, <3>1
    <3>3. f[k] = Times(f[k - 1], Step(l[k], ds))
      BY <1>1, <1>3, <3>1 DEF Composes
    <3>4. g[k] = Times(g[k - 1], Step(m[k], ds))
      BY <1>2, <1>4, <3>1 DEF Composes
    <3>5. m[k] = l[k]
      BY <1>2, <3>1
    <3> QED BY <2>1, <3>2, <3>3, <3>4, <3>5
  <2> QED BY <2>2, <2>3
<1>6. f[n] = g[n]
  BY <1>2, <1>5
<1>7. g[n + 1] = Times(g[n], Step(e, ds))
  <2>1. n + 1 \in 1..Len(m) /\ (n + 1) - 1 = n
    BY <1>2
  <2> QED BY <1>2, <1>4, <2>1 DEF Composes
<1> QED BY <1>1, <1>2, <1>3, <1>4, <1>6, <1>7

LEMMA ComposedType ==
    ASSUME NEW ds \in Seq(Placed), NEW l \in Chains(Len(ds))
    PROVE  Composed(l, ds) \in Rearranged
<1>1. PICK n \in Nat : n = Len(l) /\ DOMAIN l = 1..n
  BY DEF Chains
<1>2. PICK g : Composes(g, l, ds) /\ Composed(l, ds) = g[n]
  BY <1>1, FoldComposes DEF Chains
<1> DEFINE T == {k \in 0..n : g[k] \notin Rearranged}
<1>3. ASSUME T # {} PROVE FALSE
  <2>1. PICK k \in T : \A j \in T : ~(j < k)
    <3> T \in SUBSET Nat
      OBVIOUS
    <3> HIDE DEF T
    <3> QED BY <1>3, HasLeast
  <2>2. CASE k = 0
    BY <1>2, <2>1, <2>2, TimesIs DEF Composes
  <2>3. CASE k # 0
    <3>1. k \in 1..n /\ k - 1 \in 0..n /\ k - 1 < k
      BY <2>3
    <3>2. g[k - 1] \in Rearranged
      BY <2>1, <3>1
    <3>3. g[k] = Times(g[k - 1], Step(l[k], ds))
      BY <1>1, <1>2, <3>1 DEF Composes
    <3>4. Step(l[k], ds) \in Rearranged
      <4>1. l[k] \in Entries(Len(ds))
        BY <1>1, <3>1 DEF Chains
      <4> QED BY <4>1, StepIs
    <3> QED BY <2>1, <3>2, <3>3, <3>4, TimesIs
  <2> QED BY <2>2, <2>3
<1>4. n \in 0..n
  OBVIOUS
<1> QED BY <1>2, <1>3, <1>4

(* Joining an entry on multiplies by its transform, whichever way it goes. *)
Merged(l, e) == [datum |-> e.datum, power |-> e.power + Last(l).power]

Meets(l, e) == l # <<>> /\ Last(l).datum = e.datum /\ Fits(Last(l).power, e.power)

LEMMA JoinedOnIs ==
    ASSUME NEW n \in Nat, NEW l \in Chains(n), NEW e \in Entries(n)
    PROVE  /\ ~Meets(l, e) => JoinedOn(l, e) = Append(l, e)
           /\ Meets(l, e) /\ Last(l).power + e.power = 0 => JoinedOn(l, e) = Front(l)
           /\ Meets(l, e) /\ Last(l).power + e.power # 0 =>
                Merged(l, e) \in Entries(n) /\ JoinedOn(l, e) = Append(Front(l), Merged(l, e))
           /\ JoinedOn(l, e) \in Chains(n)
<1>1. CASE ~Meets(l, e)
  <2>1. JoinedOn(l, e) = Append(l, e)
    BY <1>1 DEF JoinedOn, Meets
  <2>2. Append(l, e) \in Chains(n)
    BY AppendIs DEF Chains
  <2> QED BY <1>1, <2>1, <2>2
<1>2. CASE Meets(l, e)
  <2>1. /\ l # <<>> /\ Last(l).datum = e.datum /\ Last(l).power + e.power \in Powers
        /\ Front(l) \in Chains(n) /\ Last(l) \in Entries(n)
    BY <1>2, FrontIs DEF Meets, Fits, Chains
  <2>2. CASE Last(l).power + e.power = 0
    <3>1. JoinedOn(l, e) = Front(l)
      BY <1>2, <2>2 DEF JoinedOn, Meets
    <3> QED BY <1>2, <2>1, <2>2, <3>1
  <2>3. CASE Last(l).power + e.power # 0
    <3>1. JoinedOn(l, e) = Append(Front(l), [e EXCEPT !.power = e.power + Last(l).power])
      BY <1>2, <2>3 DEF JoinedOn, Meets
    <3>2. [e EXCEPT !.power = e.power + Last(l).power] = Merged(l, e)
      BY DEF Merged, Entries
    <3>3. e.power \in Int /\ Last(l).power \in Int /\ e.datum \in 1..n
      BY <2>1, PowersAre DEF Entries
    <3>4. e.power + Last(l).power = Last(l).power + e.power
      BY <3>3
    <3>5. Merged(l, e) \in Entries(n)
      BY <2>1, <2>3, <3>3, <3>4 DEF Merged, Entries
    <3>6. Append(Front(l), Merged(l, e)) \in Chains(n)
      BY <2>1, <3>5, AppendIs DEF Chains
    <3> QED BY <1>2, <2>3, <3>1, <3>2, <3>5, <3>6
  <2> QED BY <2>2, <2>3
<1> QED BY <1>1, <1>2

LEMMA JoinedComposes ==
    ASSUME NEW ds \in Seq(Placed), NEW l \in Chains(Len(ds)), NEW e \in Entries(Len(ds))
    PROVE  Composed(JoinedOn(l, e), ds) = Times(Composed(l, ds), Step(e, ds))
<1>1. PICK n \in Nat : n = Len(ds)
  OBVIOUS
<1>2. l \in Chains(n) /\ e \in Entries(n)
  BY <1>1
<1>3. CASE ~Meets(l, e)
  <2>1. JoinedOn(l, e) = Append(l, e)
    BY <1>2, <1>3, JoinedOnIs
  <2> QED BY <1>2, <2>1, ComposedAppends DEF Chains
<1>4. CASE Meets(l, e)
  <2>1. PICK f, a : f = Front(l) /\ a = Last(l)
    OBVIOUS
  <2>2. /\ f \in Chains(n) /\ a \in Entries(n) /\ l = Append(f, a)
        /\ a.datum = e.datum
    BY <1>2, <1>4, <2>1, FrontIs DEF Meets, Chains
  <2>3. Composed(l, ds) = Times(Composed(f, ds), Step(a, ds))
    BY <2>2, ComposedAppends DEF Chains
  <2>4. PICK t, u : t = ds[e.datum] /\ u = Opposite(ds[e.datum])
    OBVIOUS
  <2>5. PICK p, q : p = a.power /\ q = e.power
    OBVIOUS
  <2>6. /\ Undoes(t, u) /\ Step(a, ds) = Power(t, u, p) /\ Step(e, ds) = Power(t, u, q)
        /\ Step(a, ds) \in Rearranged /\ Step(e, ds) \in Rearranged
    <3>1. /\ Undoes(ds[a.datum], Opposite(ds[a.datum])) /\ Step(a, ds) \in Rearranged
          /\ Step(a, ds) = Power(ds[a.datum], Opposite(ds[a.datum]), a.power)
      BY <1>1, <2>2, StepIs
    <3>2. Step(e, ds) = Power(ds[e.datum], Opposite(ds[e.datum]), e.power)
          /\ Step(e, ds) \in Rearranged
      BY <1>1, <1>2, StepIs
    <3> QED BY <2>2, <2>4, <2>5, <3>1, <3>2
  <2>7. p \in Int /\ q \in Int
    BY <1>2, <2>2, <2>5, PowersAre DEF Entries
  <2>8. Composed(f, ds) \in Rearranged
    BY <1>1, <2>2, ComposedType
  <2>9. Times(Composed(l, ds), Step(e, ds)) = Times(Composed(f, ds), Power(t, u, p + q))
    <3>1. Times(Power(t, u, p), Power(t, u, q)) = Power(t, u, p + q)
      BY <2>6, <2>7, PowersAdd
    <3>2. Times(Times(Composed(f, ds), Step(a, ds)), Step(e, ds))
            = Times(Composed(f, ds), Times(Step(a, ds), Step(e, ds)))
      BY <2>6, <2>8, TimesAssociates
    <3> QED BY <2>3, <2>6, <3>1, <3>2
  <2>10. CASE p + q = 0
    <3>1. JoinedOn(l, e) = f
      BY <1>2, <1>4, <2>1, <2>5, <2>10, JoinedOnIs
    <3>2. Power(t, u, p + q) = IDENTITY
      BY <2>10, RaisedHalves DEF Power
    <3> QED BY <2>8, <2>9, <3>1, <3>2, TimesIs
  <2>11. CASE p + q # 0
    <3>1. PICK m : m = Merged(l, e)
      OBVIOUS
    <3>2. m \in Entries(n) /\ JoinedOn(l, e) = Append(f, m)
      BY <1>2, <1>4, <2>1, <2>5, <2>11, <3>1, JoinedOnIs
    <3>3. m.datum = e.datum /\ m.power = p + q
      <4>1. m.datum = e.datum /\ m.power = q + p
        BY <2>1, <2>5, <3>1 DEF Merged
      <4> QED BY <2>7, <4>1
    <3>4. Composed(Append(f, m), ds) = Times(Composed(f, ds), Step(m, ds))
      BY <2>2, <3>2, ComposedAppends DEF Chains
    <3>5. Step(m, ds) = Power(ds[m.datum], Opposite(ds[m.datum]), m.power)
      BY <1>1, <3>2, StepIs
    <3> QED BY <2>4, <2>9, <3>2, <3>3, <3>4, <3>5
  <2> QED BY <2>10, <2>11
<1> QED BY <1>3, <1>4

(* Joining two chains end to end composes their transforms, whatever       *)
(* merges, cancels or does not fit on the way.                             *)
LEMMA ThenComposes ==
    ASSUME NEW ds \in Seq(Placed), NEW outer \in Chains(Len(ds)), NEW inner \in Chains(Len(ds))
    PROVE  /\ Then(outer, inner) \in Chains(Len(ds))
           /\ Composed(Then(outer, inner), ds) = Times(Composed(outer, ds), Composed(inner, ds))
<1>1. PICK n \in Nat : n = Len(inner) /\ DOMAIN inner = 1..n
  BY DEF Chains
<1>2. PICK d \in Nat : d = Len(ds)
  OBVIOUS
<1>3. PICK f : Joins(f, outer, inner) /\ FoldLeft(JoinedOn, outer, inner) = f[n]
  BY <1>1, FoldJoins DEF Chains
<1>4. PICK g : Composes(g, inner, ds) /\ Composed(inner, ds) = g[n]
  BY <1>1, FoldComposes DEF Chains
<1>5. PICK t : t = Composed(outer, ds) /\ t \in Rearranged
  BY ComposedType
<1> DEFINE Good(k) == /\ f[k] \in Chains(d) /\ g[k] \in Rearranged
                      /\ Composed(f[k], ds) = Times(t, g[k])
           T == {k \in 0..n : ~Good(k)}
<1>6. ASSUME T # {} PROVE FALSE
  <2>1. PICK k \in T : \A j \in T : ~(j < k)
    <3> T \in SUBSET Nat
      OBVIOUS
    <3> HIDE DEF T
    <3> QED BY <1>6, HasLeast
  <2>2. CASE k = 0
    <3>1. f[0] = outer /\ g[0] = IDENTITY
      BY <1>3, <1>4 DEF Joins, Composes
    <3>2. Good(0)
      BY <1>2, <1>5, <3>1, TimesIs
    <3> QED BY <2>1, <2>2, <3>2
  <2>3. CASE k # 0
    <3>1. k \in 1..n /\ k - 1 \in 0..n /\ k - 1 < k
      BY <2>3
    <3>2. Good(k - 1)
      BY <2>1, <3>1
    <3>3. PICK e : e = inner[k] /\ e \in Entries(d)
      BY <1>1, <1>2, <3>1 DEF Chains
    <3>4. f[k] = JoinedOn(f[k - 1], e) /\ g[k] = Times(g[k - 1], Step(e, ds))
      BY <1>1, <1>3, <1>4, <3>1, <3>3 DEF Joins, Composes
    <3>5. PICK b, s : b = f[k - 1] /\ s = g[k - 1]
      OBVIOUS
    <3>6. b \in Chains(d) /\ s \in Rearranged /\ Composed(b, ds) = Times(t, s)
      BY <3>2, <3>5
    <3>7. JoinedOn(b, e) \in Chains(d)
      BY <3>3, <3>6, JoinedOnIs
    <3>8. Composed(JoinedOn(b, e), ds) = Times(Composed(b, ds), Step(e, ds))
      BY <1>2, <3>3, <3>6, JoinedComposes
    <3>9. Step(e, ds) \in Rearranged
      BY <1>2, <3>3, StepIs
    <3>10. Times(s, Step(e, ds)) \in Rearranged
      BY <3>6, <3>9, TimesIs
    <3>11. Times(Times(t, s), Step(e, ds)) = Times(t, Times(s, Step(e, ds)))
      BY <1>5, <3>6, <3>9, TimesAssociates
    <3>12. Good(k)
      BY <3>4, <3>5, <3>6, <3>7, <3>8, <3>10, <3>11
    <3> QED BY <2>1, <3>12
  <2> QED BY <2>2, <2>3
<1>7. Good(n)
  BY <1>6
<1>8. CASE outer = Identity
  <2>1. Then(outer, inner) = inner
    BY <1>8 DEF Then
  <2>2. t = IDENTITY
    BY <1>5, <1>8, NoneComposed DEF Identity
  <2>3. Composed(inner, ds) \in Rearranged
    BY ComposedType
  <2> QED BY <1>5, <2>1, <2>2, <2>3, TimesIs
<1>9. CASE outer # Identity
  <2>1. Then(outer, inner) = f[n]
    BY <1>3, <1>9 DEF Then
  <2> QED BY <1>2, <1>4, <1>5, <1>7, <2>1
<1> QED BY <1>8, <1>9

-----------------------------------------------------------------------------
(* Inverses, and a placement taken back.                                   *)

(* The entry that undoes another, where its power has an opposite.         *)
Negative(e) == [e EXCEPT !.power = Negated(@)]

LEMMA NegativeIs ==
    ASSUME NEW n \in Nat, NEW e \in Entries(n), e.power # LowestPower
    PROVE  /\ Negative(e) \in Entries(n) /\ Negative(e).datum = e.datum
           /\ Negative(e).power = -e.power
           /\ e.power + Negative(e).power = 0 /\ Negative(e).power + e.power = 0
<1>1. e.power \in Powers \ {0} /\ e.datum \in 1..n /\ e.power \in Int
  BY PowersAre DEF Entries
<1>2. Negative(e) = [datum |-> e.datum, power |-> -e.power]
  BY DEF Negative, Negated, Entries
<1>3. -e.power \in Powers \ {0}
  <2>1. PICK p \in Int : p = e.power
    BY <1>1
  <2>2. p \in (-MaxPower - 1)..MaxPower /\ p # 0 /\ p # -MaxPower - 1
    BY <1>1, <2>1 DEF Powers, LowestPower
  <2>3. -p \in (-MaxPower - 1)..MaxPower /\ -p # 0
    BY <2>2, LocationsAssumption
  <2> QED BY <2>1, <2>3 DEF Powers, LowestPower
<1>4. Negative(e) \in Entries(n)
  BY <1>1, <1>2, <1>3 DEF Entries
<1>5. e.power + (-e.power) = 0 /\ -e.power + e.power = 0
  BY <1>1
<1> QED BY <1>2, <1>4, <1>5

LEMMA InvertedIs ==
    ASSUME NEW n \in Nat, NEW l \in Chains(n), HasInverse(l)
    PROVE  /\ Inverted(l) \in Chains(n) /\ Len(Inverted(l)) = Len(l)
           /\ \A i \in 1..Len(l) : Inverted(l)[i] = Negative(l[Len(l) + 1 - i])
<1>1. PICK m \in Nat : m = Len(l) /\ DOMAIN l = 1..m
  BY DEF Chains
<1>2. Inverted(l) = [i \in 1..m |-> Negative(l[m + 1 - i])]
  BY <1>1 DEF Inverted, Negative
<1>3. ASSUME NEW i \in 1..m PROVE Negative(l[m + 1 - i]) \in Entries(n)
  <2>1. m + 1 - i \in 1..m
    OBVIOUS
  <2>2. l[m + 1 - i] \in Entries(n) /\ l[m + 1 - i].power # LowestPower
    BY <1>1, <2>1 DEF Chains, HasInverse
  <2> QED BY <2>2, NegativeIs
<1>4. Inverted(l) \in Chains(n) /\ Len(Inverted(l)) = m
  BY <1>2, <1>3, IsASeq DEF Chains
<1> QED BY <1>1, <1>2, <1>4

(* A placement and its inverse cancel exactly.                             *)
LEMMA InverseCancels ==
    ASSUME NEW n \in Nat, NEW l \in Chains(n), HasInverse(l)
    PROVE  Then(l, Inverted(l)) = Identity
<1>1. PICK m \in Nat : m = Len(l) /\ DOMAIN l = 1..m
  BY DEF Chains
<1>2. PICK inv : inv = Inverted(l)
  OBVIOUS
<1>3. inv \in Chains(n) /\ Len(inv) = m /\ \A i \in 1..m : inv[i] = Negative(l[m + 1 - i])
  BY <1>1, <1>2, InvertedIs
<1>4. CASE l = <<>>
  <2>1. Then(l, inv) = inv /\ m = 0
    BY <1>1, <1>4 DEF Then, Identity
  <2>2. inv = <<>>
    BY <1>3, <2>1, EmptySeq DEF Chains
  <2> QED BY <1>2, <2>1, <2>2 DEF Identity
<1>5. CASE l # <<>>
  <2>1. PICK f : Joins(f, l, inv) /\ FoldLeft(JoinedOn, l, inv) = f[m]
    BY <1>3, FoldJoins DEF Chains
  <2> DEFINE Left(s, k) == /\ s \in Chains(n) /\ Len(s) = m - k
                           /\ \A i \in 1..(m - k) : s[i] = l[i]
             T == {k \in 0..m : ~Left(f[k], k)}
  <2>2. ASSUME T # {} PROVE FALSE
    <3>1. PICK k \in T : \A j \in T : ~(j < k)
      <4> T \in SUBSET Nat
        OBVIOUS
      <4> HIDE DEF T
      <4> QED BY <2>2, HasLeast
    <3>2. CASE k = 0
      <4>1. f[0] = l
        BY <2>1 DEF Joins
      <4>2. Left(f[0], 0)
        BY <1>1, <4>1
      <4> QED BY <3>1, <3>2, <4>2
    <3>3. CASE k # 0
      <4>1. k \in 1..m /\ k - 1 \in 0..m /\ k - 1 < k
        BY <3>3
      <4>2. PICK s : s = f[k - 1]
        OBVIOUS
      <4>3. Left(s, k - 1)
        BY <3>1, <4>1, <4>2
      <4>4. PICK j : j = m + 1 - k /\ j \in 1..m /\ j = m - (k - 1) /\ j - 1 = m - k
        BY <4>1
      <4>5. s \in Chains(n) /\ Len(s) = j /\ \A i \in 1..j : s[i] = l[i]
        BY <4>3, <4>4
      <4>6. s # <<>> /\ Last(s) = l[j]
        BY <4>4, <4>5 DEF Last
      <4>7. PICK e : e = l[j] /\ e \in Entries(n) /\ e.power # LowestPower
        BY <1>1, <4>4 DEF Chains, HasInverse
      <4>8. inv[k] = Negative(e)
        BY <1>3, <4>1, <4>4, <4>7
      <4>9. /\ Negative(e) \in Entries(n) /\ Negative(e).datum = e.datum
            /\ e.power + Negative(e).power = 0
        BY <4>7, NegativeIs
      <4>10. Meets(s, Negative(e))
        <5>1. 0 \in Powers
          BY LocationsAssumption DEF Powers, LowestPower
        <5> QED BY <4>6, <4>7, <4>9, <5>1 DEF Meets, Fits
      <4>11. f[k] = JoinedOn(s, Negative(e))
        BY <1>3, <2>1, <4>1, <4>2, <4>8 DEF Joins
      <4>12. JoinedOn(s, Negative(e)) = Front(s)
        BY <4>5, <4>6, <4>7, <4>9, <4>10, JoinedOnIs
      <4>13. /\ Front(s) \in Chains(n) /\ Len(Front(s)) = j - 1
             /\ \A i \in 1..(j - 1) : Front(s)[i] = s[i]
        BY <4>5, <4>6, FrontIs DEF Chains
      <4>14. \A i \in 1..(j - 1) : i \in 1..j
        BY <4>4
      <4>15. Left(Front(s), k)
        BY <4>4, <4>5, <4>13, <4>14
      <4> QED BY <3>1, <4>11, <4>12, <4>15
    <3> QED BY <3>2, <3>3
  <2>3. Left(f[m], m)
    BY <2>2
  <2>4. f[m] = <<>>
    <3>1. f[m] \in Chains(n) /\ Len(f[m]) = 0
      BY <2>3
    <3> QED BY <3>1, EmptySeq DEF Chains
  <2>5. Then(l, inv) = f[m]
    BY <1>5, <2>1 DEF Then, Identity
  <2> QED BY <1>2, <2>4, <2>5 DEF Identity
<1> QED BY <1>4, <1>5

(* Joining on nothing, and one entry.                                      *)
LEMMA ThenOfFew ==
    ASSUME NEW n \in Nat, NEW l \in Chains(n)
    PROVE  /\ Then(l, <<>>) = l
           /\ \A e \in Entries(n) : Then(l, <<e>>) = JoinedOn(l, e)
<1>1. Then(l, <<>>) = l
  <2>1. <<>> \in Seq({}) /\ Len(<<>>) = 0
    OBVIOUS
  <2>2. PICK f : Joins(f, l, <<>>) /\ FoldLeft(JoinedOn, l, <<>>) = f[Len(<<>>)]
    BY <2>1, FoldJoins
  <2>3. FoldLeft(JoinedOn, l, <<>>) = l
    BY <2>1, <2>2 DEF Joins
  <2> QED BY <2>3 DEF Then, Identity
<1>2. ASSUME NEW e \in Entries(n) PROVE Then(l, <<e>>) = JoinedOn(l, e)
  <2>1. CASE l = <<>>
    <3>1. JoinedOn(l, e) = Append(l, e)
      BY <2>1, JoinedOnIs DEF Meets
    <3> QED BY <2>1, <3>1 DEF Then, Identity
  <2>2. CASE l # <<>>
    <3>4. <<e>> \in Seq(Entries(n)) /\ Len(<<e>>) = 1 /\ <<e>>[1] = e
      OBVIOUS
    <3>1. PICK one : one = <<e>> /\ one \in Seq(Entries(n)) /\ Len(one) = 1 /\ one[1] = e
      BY <3>4, Zenon
    <3>2. PICK f : Joins(f, l, one) /\ FoldLeft(JoinedOn, l, one) = f[1]
      BY <3>1, FoldJoins
    <3>3. f[1] = JoinedOn(l, e)
      <4>1. 1 \in 1..Len(one) /\ 1 - 1 = 0
        BY <3>1
      <4>2. f[1] = JoinedOn(f[1 - 1], one[1]) /\ f[0] = l
        BY <3>2, <4>1 DEF Joins
      <4> QED BY <3>1, <4>1, <4>2
    <3> QED BY <2>2, <3>1, <3>2, <3>3 DEF Then, Identity
  <2> QED BY <2>1, <2>2
<1> QED BY <1>1, <1>2

(* An entry joined on a settled chain and taken back leaves the chain.     *)
LEMMA JoinedAndTakenBack ==
    ASSUME NEW n \in Nat, NEW l \in Chains(n), Settled(l),
           NEW e \in Entries(n), e.power # LowestPower
    PROVE  JoinedOn(JoinedOn(l, e), Negative(e)) = l
<1>1. PICK v : v = Negative(e)
  OBVIOUS
<1>2. PICK p, q \in Int : p = e.power /\ q = v.power
  <2>1. Negative(e) \in Entries(n)
    BY NegativeIs
  <2> QED BY <1>1, <2>1, PowersAre DEF Entries
<1>3. v \in Entries(n) /\ v.datum = e.datum /\ p + q = 0 /\ q + p = 0 /\ q = -p
  BY <1>1, <1>2, NegativeIs
<1>4. 0 \in Powers
  BY LocationsAssumption DEF Powers, LowestPower
<1>5. CASE ~Meets(l, e)
  <2>1. PICK m : m = Append(l, e)
    OBVIOUS
  <2>2. m \in Chains(n) /\ m # <<>> /\ Front(m) = l /\ Last(m) = e
    BY <2>1, AppendIs DEF Chains
  <2>3. JoinedOn(l, e) = m
    BY <1>5, <2>1, JoinedOnIs
  <2>4. Meets(m, v) /\ Last(m).power + v.power = 0
    BY <1>2, <1>3, <1>4, <2>2 DEF Meets, Fits
  <2>5. JoinedOn(m, v) = Front(m)
    BY <1>3, <2>2, <2>4, JoinedOnIs
  <2> QED BY <1>1, <2>2, <2>3, <2>5
<1>6. CASE Meets(l, e)
  <2>1. PICK f, a : f = Front(l) /\ a = Last(l)
    OBVIOUS
  <2>2. /\ f \in Chains(n) /\ a \in Entries(n) /\ l = Append(f, a) /\ l # <<>>
        /\ a.datum = e.datum /\ a.power + e.power \in Powers
        /\ Len(f) = Len(l) - 1 /\ \A i \in 1..(Len(l) - 1) : f[i] = l[i]
    BY <1>6, <2>1, FrontIs DEF Meets, Fits, Chains
  <2>3. PICK r \in Int : r = a.power /\ r \in Powers /\ r # 0
    BY <2>2, PowersAre DEF Entries
  <2>4. CASE r + p = 0
    <3>1. JoinedOn(l, e) = f
      BY <1>2, <1>6, <2>1, <2>3, <2>4, JoinedOnIs
    <3>2. v = a
      <4>1. v = [datum |-> e.datum, power |-> q] /\ a = [datum |-> e.datum, power |-> r]
        BY <1>2, <1>3, <2>2, <2>3 DEF Entries
      <4>2. r = q
        BY <1>3, <2>4
      <4> QED BY <4>1, <4>2
    <3>3. ~Meets(f, v)
      <4>1. ASSUME Meets(f, v) PROVE FALSE
        <5>1. f # <<>> /\ Last(f).datum = v.datum /\ Fits(Last(f).power, v.power)
          BY <4>1 DEF Meets
        <5>2. PICK k \in Nat : k = Len(f) /\ k # 0
          BY <2>2, <5>1, EmptySeq DEF Chains
        <5>3. k \in 1..(Len(l) - 1) /\ k + 1 = Len(l)
          BY <2>2, <5>2 DEF Chains
        <5>4. Last(f) = l[k] /\ a = l[k + 1]
          BY <2>1, <2>2, <5>2, <5>3 DEF Last
        <5>5. ~(l[k].datum = l[k + 1].datum /\ Fits(l[k].power, l[k + 1].power))
          BY <5>3 DEF Settled
        <5> QED BY <3>2, <5>1, <5>4, <5>5
      <4> QED BY <4>1
    <3>4. JoinedOn(f, v) = Append(f, v)
      BY <1>3, <2>2, <3>3, JoinedOnIs
    <3> QED BY <1>1, <2>2, <3>1, <3>2, <3>4
  <2>5. CASE r + p # 0
    <3>1. PICK m : m = Merged(l, e)
      OBVIOUS
    <3>2. m \in Entries(n) /\ JoinedOn(l, e) = Append(f, m)
      BY <1>2, <1>6, <2>1, <2>3, <2>5, <3>1, JoinedOnIs
    <3>3. m.datum = e.datum /\ m.power = p + r
      BY <1>2, <2>1, <2>3, <3>1 DEF Merged
    <3>4. PICK b : b = Append(f, m)
      OBVIOUS
    <3>5. b \in Chains(n) /\ b # <<>> /\ Front(b) = f /\ Last(b) = m
      BY <2>2, <3>2, <3>4, AppendIs DEF Chains
    <3>6. (p + r) + q = r
      BY <1>3
    <3>7. Meets(b, v) /\ Last(b).power + v.power # 0
      <4>1. Last(b).datum = v.datum /\ Last(b).power + v.power = r
        BY <1>2, <1>3, <3>3, <3>5, <3>6
      <4> QED BY <2>3, <3>5, <4>1 DEF Meets, Fits
    <3>8. JoinedOn(b, v) = Append(f, Merged(b, v))
      BY <1>3, <3>5, <3>7, JoinedOnIs
    <3>9. Merged(b, v) = a
      <4>1. Merged(b, v) = [datum |-> e.datum, power |-> q + (p + r)]
        BY <1>2, <1>3, <3>3, <3>5 DEF Merged
      <4>2. a = [datum |-> e.datum, power |-> r]
        BY <2>2, <2>3 DEF Entries
      <4>3. q + (p + r) = r
        BY <1>3
      <4> QED BY <4>1, <4>2, <4>3
    <3> QED BY <1>1, <2>2, <3>2, <3>4, <3>8, <3>9
  <2> QED BY <2>4, <2>5
<1> QED BY <1>5, <1>6

(* What is above a part, told by the occurrence and the part.              *)
LEMMA AboveIsTold ==
    ASSUME NEW ds \in Seq(Placed), NEW above \in Chains(Len(ds)), NEW own \in Chains(Len(ds)),
           HasInverse(own)
    PROVE  /\ Composed(Then(Then(above, own), Inverted(own)), ds) = Composed(above, ds)
           /\ Settled(above) /\ Len(own) <= 1 => Then(Then(above, own), Inverted(own)) = above
<1>1. PICK n \in Nat : n = Len(ds)
  OBVIOUS
<1>2. PICK inv : inv = Inverted(own) /\ inv \in Chains(n) /\ Then(own, inv) = Identity
  BY <1>1, InvertedIs, InverseCancels
<1>3. PICK at : at = Then(above, own)
  OBVIOUS
<1>4. Composed(Then(at, inv), ds) = Composed(above, ds)
  <2>1. PICK a, o, v : /\ a = Composed(above, ds) /\ o = Composed(own, ds)
                       /\ v = Composed(inv, ds)
    OBVIOUS
  <2>2. a \in Rearranged /\ o \in Rearranged /\ v \in Rearranged
    BY <1>1, <1>2, <2>1, ComposedType
  <2>3. at \in Chains(n) /\ Composed(at, ds) = Times(a, o)
    BY <1>1, <1>3, <2>1, ThenComposes
  <2>4. Composed(Then(at, inv), ds) = Times(Times(a, o), v)
    BY <1>1, <1>2, <2>1, <2>3, ThenComposes
  <2>5. Times(o, v) = IDENTITY
    <3>1. Composed(Then(own, inv), ds) = Times(o, v)
      BY <1>1, <1>2, <2>1, ThenComposes
    <3> QED BY <1>2, <3>1, NoneComposed DEF Identity
  <2>6. Times(Times(a, o), v) = Times(a, Times(o, v))
    BY <2>2, TimesAssociates
  <2> QED BY <2>1, <2>2, <2>4, <2>5, <2>6, TimesIs
<1>5. ASSUME Settled(above), Len(own) <= 1 PROVE Then(at, inv) = above
  <2>1. CASE Len(own) = 0
    <3>1. own = <<>>
      BY <2>1, EmptySeq DEF Chains
    <3>2. inv = <<>>
      <4>1. Len(inv) = 0
        BY <1>1, <1>2, <2>1, InvertedIs
      <4> QED BY <1>2, <4>1, EmptySeq DEF Chains
    <3> QED BY <1>1, <1>3, <3>1, <3>2, ThenOfFew
  <2>2. CASE Len(own) # 0
    <3>9. own \in Seq(Entries(n)) /\ Len(own) \in Nat /\ DOMAIN own = 1..Len(own)
      BY <1>1 DEF Chains
    <3>1. Len(own) = 1
      BY <1>5, <2>2, <3>9
    <3>10. 1 \in DOMAIN own
      BY <3>1, <3>9
    <3>2. PICK e : e = own[1] /\ e \in Entries(n) /\ e.power # LowestPower
      <4>1. own[1] \in Entries(n)
        BY <3>9, <3>10, ElementOfSeq
      <4> QED BY <3>10, <4>1 DEF HasInverse
    <3>3. own = <<e>>
      BY <3>1, <3>2 DEF Chains
    <3>4. inv = <<Negative(e)>>
      <4>1. Len(inv) = 1 /\ inv[1] = Negative(e)
        <5>1. Len(inv) = 1 /\ \A i \in 1..1 : inv[i] = Negative(own[1 + 1 - i])
          BY <1>1, <1>2, <3>1, InvertedIs
        <5>2. 1 \in 1..1 /\ 1 + 1 - 1 = 1
          OBVIOUS
        <5> QED BY <3>2, <5>1, <5>2
      <4> QED BY <1>2, <4>1 DEF Chains
    <3>5. Negative(e) \in Entries(n)
      BY <3>2, NegativeIs
    <3>6. at = JoinedOn(above, e)
      BY <1>1, <1>3, <3>2, <3>3, ThenOfFew
    <3>7. JoinedOn(above, e) \in Chains(n)
      BY <1>1, <3>2, JoinedOnIs
    <3>8. Then(at, inv) = JoinedOn(JoinedOn(above, e), Negative(e))
      BY <3>4, <3>5, <3>6, <3>7, ThenOfFew
    <3> QED BY <1>1, <1>5, <3>2, <3>8, JoinedAndTakenBack
  <2> QED BY <2>1, <2>2
<1> QED BY <1>2, <1>3, <1>4, <1>5

-----------------------------------------------------------------------------
(* Sequences put end to end.                                               *)

(* Sequences put end to end, as a function of how many are.                *)
Concats(f, n, ss) ==
    f = [i \in 1..n |-> IF i = 1 THEN ss[i] ELSE f[i - 1] \o ss[i]]

LEMMA ConcatsExist ==
    ASSUME NEW ss, NEW n \in Nat
    PROVE  \E f : Concats(f, n, ss)
<1> DEFINE T == {k \in Nat : ~ \E f : Concats(f, k, ss)}
<1> SUFFICES ASSUME T # {} PROVE FALSE
  OBVIOUS
<1>1. PICK k \in T : \A j \in T : ~(j < k)
  <2> T \in SUBSET Nat
    OBVIOUS
  <2> HIDE DEF T
  <2> QED BY HasLeast
<1>2. k # 0
  <2>1. Concats([i \in 1..0 |-> <<>>], 0, ss)
    BY DEF Concats
  <2> QED BY <1>1, <2>1
<1>3. PICK f : Concats(f, k - 1, ss)
  BY <1>1, <1>2
<1> DEFINE g == [i \in 1..k |-> IF i = k THEN IF k = 1 THEN ss[k] ELSE f[k - 1] \o ss[k]
                                ELSE f[i]]
<1>4. ASSUME NEW i \in 1..k
      PROVE  g[i] = IF i = 1 THEN ss[i] ELSE g[i - 1] \o ss[i]
  <2>1. i # k => f[i] = IF i = 1 THEN ss[i] ELSE f[i - 1] \o ss[i]
    <3>1. i # k => i \in 1..(k - 1)
      BY <1>1, <1>2
    <3> QED BY <1>3, <3>1 DEF Concats
  <2>2. i # 1 => i - 1 \in 1..k /\ i - 1 # k
    BY <1>1, <1>2
  <2>3. i # 1 => g[i - 1] = f[i - 1]
    BY <2>2
  <2> QED BY <2>1, <2>3
<1>5. Concats(g, k, ss)
  BY <1>4 DEF Concats
<1> QED BY <1>1, <1>5

(* No two of a sequence of occurrences have one way down.                  *)
Apart(s) == \A i, j \in 1..Len(s) : s[i].path = s[j].path => i = j

Elements(s) == {s[i] : i \in 1..Len(s)}

LEMMA ConcatApart ==
    ASSUME NEW S, NEW s \in Seq(S), NEW t \in Seq(S)
    PROVE  /\ s \o t \in Seq(S)
           /\ Elements(s \o t) = Elements(s) \cup Elements(t)
           /\ Apart(s) /\ Apart(t)
                /\ (\A x \in Elements(s), y \in Elements(t) : x.path # y.path) => Apart(s \o t)
<1>1. PICK m, n \in Nat : m = Len(s) /\ n = Len(t)
  OBVIOUS
<1>2. PICK u : u = s \o t
  OBVIOUS
<1>3. /\ u \in Seq(S) /\ Len(u) = m + n
      /\ \A i \in 1..(m + n) : u[i] = IF i <= m THEN s[i] ELSE t[i - m]
  BY <1>1, <1>2, ConcatProperties
<1>4. ASSUME NEW i \in 1..(m + n)
      PROVE  \/ i \in 1..m /\ u[i] = s[i] /\ s[i] \in Elements(s)
             \/ i - m \in 1..n /\ u[i] = t[i - m] /\ t[i - m] \in Elements(t)
  <2>1. CASE i <= m
    <3>1. i \in 1..m /\ u[i] = s[i]
      BY <1>3, <2>1
    <3> QED BY <1>1, <3>1 DEF Elements
  <2>2. CASE ~(i <= m)
    <3>1. i - m \in 1..n /\ u[i] = t[i - m]
      BY <1>3, <2>2
    <3> QED BY <1>1, <3>1 DEF Elements
  <2> QED BY <2>1, <2>2
<1>5. ASSUME NEW i \in 1..m PROVE s[i] \in Elements(u)
  <2>1. i \in 1..(m + n) /\ i <= m
    OBVIOUS
  <2>2. u[i] = s[i]
    BY <1>3, <2>1
  <2> QED BY <1>3, <2>1, <2>2 DEF Elements
<1>6. ASSUME NEW i \in 1..n PROVE t[i] \in Elements(u)
  <2>1. m + i \in 1..(m + n) /\ ~(m + i <= m) /\ (m + i) - m = i
    OBVIOUS
  <2>2. u[m + i] = t[i]
    BY <1>3, <2>1
  <2> QED BY <1>3, <2>1, <2>2 DEF Elements
<1>7. Elements(u) = Elements(s) \cup Elements(t)
  <2>1. Elements(u) \subseteq Elements(s) \cup Elements(t)
    <3> SUFFICES ASSUME NEW x \in Elements(u) PROVE x \in Elements(s) \cup Elements(t)
      OBVIOUS
    <3>1. PICK i \in 1..(m + n) : x = u[i]
      BY <1>3 DEF Elements
    <3> QED BY <1>4, <3>1
  <2>2. Elements(s) \subseteq Elements(u)
    BY <1>1, <1>5 DEF Elements
  <2>3. Elements(t) \subseteq Elements(u)
    BY <1>1, <1>6 DEF Elements
  <2> QED BY <2>1, <2>2, <2>3
<1>8. ASSUME Apart(s), Apart(t), \A x \in Elements(s), y \in Elements(t) : x.path # y.path
      PROVE  Apart(u)
  <2> SUFFICES ASSUME NEW i \in 1..(m + n), NEW j \in 1..(m + n), u[i].path = u[j].path
               PROVE  i = j
    BY <1>3 DEF Apart
  <2>1. CASE i \in 1..m /\ u[i] = s[i] /\ s[i] \in Elements(s)
    <3>1. CASE j \in 1..m /\ u[j] = s[j] /\ s[j] \in Elements(s)
      BY <1>1, <1>8, <2>1, <3>1 DEF Apart
    <3>2. CASE j - m \in 1..n /\ u[j] = t[j - m] /\ t[j - m] \in Elements(t)
      BY <1>8, <2>1, <3>2
    <3> QED BY <1>4, <3>1, <3>2
  <2>2. CASE i - m \in 1..n /\ u[i] = t[i - m] /\ t[i - m] \in Elements(t)
    <3>1. CASE j \in 1..m /\ u[j] = s[j] /\ s[j] \in Elements(s)
      BY <1>8, <2>2, <3>1
    <3>2. CASE j - m \in 1..n /\ u[j] = t[j - m] /\ t[j - m] \in Elements(t)
      <4>1. i - m = j - m
        BY <1>1, <1>8, <2>2, <3>2 DEF Apart
      <4> QED BY <4>1
    <3> QED BY <1>4, <3>1, <3>2
  <2> QED BY <1>4, <2>1, <2>2
<1> QED BY <1>2, <1>3, <1>7, <1>8

(* Flattening keeps the elements of every sequence, and keeps them apart   *)
(* where no two sequences share a way down.                                *)
LEMMA FlattenKeeps ==
    ASSUME NEW S, NEW ss \in Seq(Seq(S))
    PROVE  /\ FlattenSeq(ss) \in Seq(S)
           /\ Elements(FlattenSeq(ss)) = UNION {Elements(ss[k]) : k \in 1..Len(ss)}
           /\ (/\ \A k \in 1..Len(ss) : Apart(ss[k])
               /\ \A k, m \in 1..Len(ss) : k # m =>
                    \A x \in Elements(ss[k]), y \in Elements(ss[m]) : x.path # y.path)
                => Apart(FlattenSeq(ss))
<1>1. PICK n \in Nat : n = Len(ss)
  OBVIOUS
<1>2. CASE n = 0
  <2>1. FlattenSeq(ss) = <<>>
    BY <1>1, <1>2, EmptySeq DEF FlattenSeq
  <2>2. <<>> \in Seq(S) /\ Elements(<<>>) = {} /\ Apart(<<>>)
    BY DEF Elements, Apart
  <2>3. UNION {Elements(ss[k]) : k \in 1..Len(ss)} = {}
    <3>1. 1..Len(ss) = {}
      BY <1>1, <1>2
    <3> QED BY <3>1
  <2> QED BY <2>1, <2>2, <2>3
<1>3. CASE n # 0
  <2>1. PICK f : Concats(f, n, ss) /\ FlattenSeq(ss) = f[n]
    <3>1. FlattenSeq(ss) = (CHOOSE f : Concats(f, Len(ss), ss))[Len(ss)]
      <4>1. Len(ss) # 0
        BY <1>1, <1>3
      <4> QED BY Zenon, <4>1 DEF FlattenSeq, Concats
    <3>2. \E f : Concats(f, n, ss)
      BY ConcatsExist
    <3> QED BY <1>1, <3>1, <3>2
  <2>2. \A i \in 1..n : f[i] = IF i = 1 THEN ss[i] ELSE f[i - 1] \o ss[i]
    BY <2>1 DEF Concats
  <2> DEFINE Sep == /\ \A k \in 1..n : Apart(ss[k])
                    /\ \A k, m \in 1..n : k # m =>
                         \A x \in Elements(ss[k]), y \in Elements(ss[m]) : x.path # y.path
             Good(k) == /\ f[k] \in Seq(S)
                        /\ Elements(f[k]) = UNION {Elements(ss[m]) : m \in 1..k}
                        /\ Sep => Apart(f[k])
             T == {k \in 1..n : ~Good(k)}
  <2>3. ASSUME T # {} PROVE FALSE
    <3>1. PICK k \in T : \A j \in T : ~(j < k)
      <4> T \in SUBSET Nat
        OBVIOUS
      <4> HIDE DEF T
      <4> QED BY <2>3, HasLeast
    <3>2. k \in 1..n /\ ss[k] \in Seq(S)
      BY <1>1
    <3>3. CASE k = 1
      <4>1. f[k] = ss[k]
        BY <2>2, <3>2, <3>3
      <4>2. UNION {Elements(ss[m]) : m \in 1..k} = Elements(ss[k])
        <5>1. 1..k = {k}
          BY <3>3
        <5> HIDE DEF T
        <5> QED BY <5>1
      <4>3. Sep => Apart(ss[k])
        BY <3>2
      <4>4. Good(k)
        <5> HIDE DEF T, Sep
        <5> QED BY <3>2, <4>1, <4>2, <4>3
      <4> QED BY <3>1, <4>4
    <3>4. CASE k # 1
      <4>1. k - 1 \in 1..n /\ k - 1 < k
        BY <3>2, <3>4
      <4>2. Good(k - 1)
        BY <3>1, <4>1
      <4>3. PICK a, b : a = f[k - 1] /\ b = ss[k]
        OBVIOUS
      <4>4. f[k] = a \o b
        BY <2>2, <3>2, <3>4, <4>3
      <4>5. /\ a \in Seq(S) /\ b \in Seq(S) /\ (Sep => Apart(a))
            /\ Elements(a) = UNION {Elements(ss[m]) : m \in 1..(k - 1)}
        <5> HIDE DEF T, Sep
        <5> QED BY <3>2, <4>2, <4>3
      <4>6. /\ a \o b \in Seq(S) /\ Elements(a \o b) = Elements(a) \cup Elements(b)
            /\ Apart(a) /\ Apart(b)
                 /\ (\A x \in Elements(a), y \in Elements(b) : x.path # y.path) => Apart(a \o b)
        <5>1. a \in Seq(S) /\ b \in Seq(S)
          BY <4>5
        <5> HIDE DEF T, Good, Sep
        <5> QED BY <5>1, ConcatApart
      <4>7. Elements(a \o b) = UNION {Elements(ss[m]) : m \in 1..k}
        <5>1. 1..k = (1..(k - 1)) \cup {k}
          BY <3>2
        <5> HIDE DEF T, Good, Sep
        <5> QED BY <4>3, <4>5, <4>6, <5>1
      <4>8. Sep => Apart(a \o b)
        <5> SUFFICES ASSUME Sep PROVE Apart(a \o b)
          OBVIOUS
        <5>1. Apart(b)
          BY <3>2, <4>3
        <5>2. ASSUME NEW x \in Elements(a), NEW y \in Elements(b) PROVE x.path # y.path
          <6>1. PICK m \in 1..(k - 1) : x \in Elements(ss[m])
            BY <4>5
          <6>2. m \in 1..n /\ m # k
            BY <3>2, <6>1
          <6> QED BY <3>2, <4>3, <6>1, <6>2
        <5> HIDE DEF T, Good, Sep
        <5> QED BY <4>5, <4>6, <5>1, <5>2
      <4>9. Good(k)
        <5> HIDE DEF T, Sep
        <5> QED BY <4>4, <4>6, <4>7, <4>8
      <4> QED BY <3>1, <4>9
    <3> QED BY <3>3, <3>4
  <2>4. Good(n)
    <3>1. n \in 1..n
      BY <1>3
    <3> HIDE DEF Good
    <3> QED BY <2>3, <3>1
  <2> QED BY <1>1, <2>1, <2>4
<1> QED BY <1>2, <1>3

-----------------------------------------------------------------------------
(* Ways down, and how far a product reaches.                               *)

(* How far down a product reaches: every instance reaches less far.        *)
Rank(id) == Cardinality(Contained(products, id))

LEMMA RankFalls ==
    ASSUME TypeOK, StandsAlone(products), NEW id \in DOMAIN products
    PROVE  /\ Rank(id) \in 1..Len(products)
           /\ \A child \in Places(products, id) :
                child \in DOMAIN products /\ Rank(child) < Rank(id)
<1>1. PICK n \in Nat : n = Len(products) /\ DOMAIN products = 1..n
  BY DEF TypeOK, AnyTable
<1>2. \A p \in DOMAIN products : Places(products, p) \subseteq DOMAIN products
  BY DEF StandsAlone
<1>3. IsFiniteSet(1..n) /\ Cardinality(1..n) = n
  <2>1. IsFiniteSet(1..n) /\ Cardinality(1..n) = IF 1 > n THEN 0 ELSE n - 1 + 1
    BY FS_Interval
  <2> QED BY <2>1
<1>4. ASSUME NEW p \in DOMAIN products
      PROVE  /\ IsFiniteSet(Contained(products, p)) /\ p \in Contained(products, p)
             /\ Contained(products, p) \subseteq 1..n /\ Closed(products, Contained(products, p))
             /\ \A S \in SUBSET DOMAIN products :
                  p \in S /\ Closed(products, S) => Contained(products, p) \subseteq S
             /\ Rank(p) \in Nat /\ Rank(p) <= n
  <2>1. /\ p \in Contained(products, p)
        /\ Contained(products, p) \subseteq 1..n /\ Closed(products, Contained(products, p))
        /\ \A S \in SUBSET DOMAIN products :
             p \in S /\ Closed(products, S) => Contained(products, p) \subseteq S
    BY <1>1, <1>2, ContainedIsLeast
  <2>2. PICK C : C = Contained(products, p)
    OBVIOUS
  <2>3. C \in SUBSET (1..n)
    BY <2>1, <2>2
  <2>4. IsFiniteSet(C) /\ Cardinality(C) <= Cardinality(1..n)
    BY <1>3, <2>3, FS_Subset
  <2>5. Cardinality(C) \in Nat
    BY <2>4, FS_CardinalityType
  <2> QED BY <1>3, <2>1, <2>2, <2>4, <2>5 DEF Rank
<1>5. Rank(id) # 0
  <2>1. IsFiniteSet(Contained(products, id)) /\ Contained(products, id) # {}
    BY <1>4
  <2> QED BY <2>1, FS_EmptySet DEF Rank
<1>6. ASSUME NEW child \in Places(products, id)
      PROVE  child \in DOMAIN products /\ Rank(child) < Rank(id)
  <2>1. child \in DOMAIN products /\ id \notin Contained(products, child)
    BY DEF StandsAlone
  <2>2. PICK C, D : C = Contained(products, child) /\ D = Contained(products, id)
    OBVIOUS
  <2>3. child \in D
    BY <1>4, <2>2 DEF Closed
  <2>4. D \in SUBSET DOMAIN products /\ Closed(products, D)
    BY <1>1, <1>4, <2>2
  <2>5. C \subseteq D
    BY <1>4, <2>1, <2>2, <2>3, <2>4
  <2>6. IsFiniteSet(D) /\ C \in SUBSET D /\ C # D
    BY <1>4, <2>1, <2>2, <2>5
  <2>7. Cardinality(C) <= Cardinality(D) /\ Cardinality(D) # Cardinality(C)
    BY <2>6, FS_Subset
  <2>8. Rank(child) <= Rank(id) /\ Rank(id) # Rank(child)
    BY <2>2, <2>7 DEF Rank
  <2>9. Rank(child) \in Nat /\ Rank(id) \in Nat
    BY <1>4, <2>1
  <2> QED BY <2>1, <2>8, <2>9
<1>7. Rank(id) \in 1..n
  <2>1. Rank(id) \in Nat /\ Rank(id) <= n
    BY <1>4
  <2> QED BY <1>5, <2>1
<1> QED BY <1>1, <1>6, <1>7

(* A way down, as a function of the instances taken so far.                *)
Onward(at, k) ==
    IF k \in DOMAIN Children(products, at) THEN Children(products, at)[k].product ELSE 0

Ways(f, n, id, path) ==
    f = [i \in 0..n |-> IF i = 0 THEN id ELSE Onward(f[i - 1], path[i])]

LEMMA WaysExist ==
    ASSUME NEW id, NEW path, NEW n \in Nat
    PROVE  \E f : Ways(f, n, id, path)
<1> DEFINE T == {k \in Nat : ~ \E f : Ways(f, k, id, path)}
<1> SUFFICES ASSUME T # {} PROVE FALSE
  OBVIOUS
<1>1. PICK k \in T : \A j \in T : ~(j < k)
  <2> T \in SUBSET Nat
    OBVIOUS
  <2> HIDE DEF T
  <2> QED BY HasLeast
<1>2. k # 0
  <2>1. Ways([i \in 0..0 |-> id], 0, id, path)
    BY DEF Ways
  <2> QED BY <1>1, <2>1
<1>3. PICK f : Ways(f, k - 1, id, path)
  BY <1>1, <1>2
<1> DEFINE g == [i \in 0..k |-> IF i = k THEN Onward(f[k - 1], path[k]) ELSE f[i]]
<1>4. ASSUME NEW i \in 0..k
      PROVE  g[i] = IF i = 0 THEN id ELSE Onward(g[i - 1], path[i])
  <2>1. CASE i = k
    <3>1. g[i] = Onward(f[k - 1], path[k]) /\ g[i - 1] = f[k - 1]
      BY <1>1, <1>2, <2>1
    <3> QED BY <1>2, <2>1, <3>1
  <2>2. CASE i # k
    <3>1. i \in 0..(k - 1) /\ g[i] = f[i] /\ (i # 0 => g[i - 1] = f[i - 1])
      BY <1>1, <2>2
    <3>2. f[i] = IF i = 0 THEN id ELSE Onward(f[i - 1], path[i])
      BY <1>3, <3>1 DEF Ways
    <3> QED BY <3>1, <3>2
  <2> QED BY <2>1, <2>2
<1>5. Ways(g, k, id, path)
  <2>1. g = [i \in 0..k |-> g[i]]
    OBVIOUS
  <2> HIDE DEF g
  <2> QED BY <1>4, <2>1 DEF Ways
<1> QED BY <1>1, <1>5

Leads(w, id, path) ==
    w[0] = id /\ \A i \in 1..Len(path) : w[i] = Onward(w[i - 1], path[i])

LEMMA WayDownIs ==
    ASSUME NEW id, NEW path, Len(path) \in Nat
    PROVE  Leads(WayDown(id, path), id, path)
<1>1. WayDown(id, path) = CHOOSE f : Ways(f, Len(path), id, path)
  BY Zenon DEF WayDown, Ways, Onward
<1>2. PICK n \in Nat : n = Len(path)
  OBVIOUS
<1>3. PICK f : f = WayDown(id, path) /\ Ways(f, n, id, path)
  <2>1. \E f : Ways(f, n, id, path)
    BY WaysExist
  <2> QED BY <1>1, <1>2, <2>1
<1>4. f[0] = id /\ \A i \in 1..n : f[i] = Onward(f[i - 1], path[i])
  BY <1>3 DEF Ways
<1> QED BY <1>2, <1>3, <1>4 DEF Leads

(* What is above along a way, as a function of the instances taken so far. *)
Over(w, path, i) == Composed(Children(products, w[i - 1])[path[i]].at, datums)

Aboves(f, n, w, path) ==
    f = [i \in 0..n |-> IF i = 0 THEN IDENTITY ELSE Times(f[i - 1], Over(w, path, i))]

LEMMA AbovesExist ==
    ASSUME NEW w, NEW path, NEW n \in Nat
    PROVE  \E f : Aboves(f, n, w, path)
<1> DEFINE T == {k \in Nat : ~ \E f : Aboves(f, k, w, path)}
<1> SUFFICES ASSUME T # {} PROVE FALSE
  OBVIOUS
<1>1. PICK k \in T : \A j \in T : ~(j < k)
  <2> T \in SUBSET Nat
    OBVIOUS
  <2> HIDE DEF T
  <2> QED BY HasLeast
<1>2. k # 0
  <2>1. Aboves([i \in 0..0 |-> IDENTITY], 0, w, path)
    BY DEF Aboves
  <2> QED BY <1>1, <2>1
<1>3. PICK f : Aboves(f, k - 1, w, path)
  BY <1>1, <1>2
<1> DEFINE g == [i \in 0..k |-> IF i = k THEN Times(f[k - 1], Over(w, path, k)) ELSE f[i]]
<1>4. ASSUME NEW i \in 0..k
      PROVE  g[i] = IF i = 0 THEN IDENTITY ELSE Times(g[i - 1], Over(w, path, i))
  <2>1. CASE i = k
    <3>1. g[i] = Times(f[k - 1], Over(w, path, k)) /\ g[i - 1] = f[k - 1]
      BY <1>1, <1>2, <2>1
    <3> QED BY <1>2, <2>1, <3>1
  <2>2. CASE i # k
    <3>1. i \in 0..(k - 1) /\ g[i] = f[i] /\ (i # 0 => g[i - 1] = f[i - 1])
      BY <1>1, <2>2
    <3>2. f[i] = IF i = 0 THEN IDENTITY ELSE Times(f[i - 1], Over(w, path, i))
      BY <1>3, <3>1 DEF Aboves
    <3> QED BY <3>1, <3>2
  <2> QED BY <2>1, <2>2
<1>5. Aboves(g, k, w, path)
  <2>1. g = [i \in 0..k |-> g[i]]
    OBVIOUS
  <2> HIDE DEF g
  <2> QED BY <1>4, <2>1 DEF Aboves
<1> QED BY <1>1, <1>5

Covers(a, w, path) ==
    a[0] = IDENTITY /\ \A i \in 1..Len(path) : a[i] = Times(a[i - 1], Over(w, path, i))

LEMMA StandsAboveIs ==
    ASSUME NEW id, NEW path, Len(path) \in Nat
    PROVE  Covers(StandsAbove(id, path), WayDown(id, path), path)
<1>1. PICK n, w : n = Len(path) /\ w = WayDown(id, path)
  OBVIOUS
<1>2. StandsAbove(id, path) = CHOOSE f : Aboves(f, Len(path), WayDown(id, path), path)
  BY Zenon DEF StandsAbove, Aboves, Over
<1>3. PICK f : f = StandsAbove(id, path) /\ Aboves(f, n, w, path)
  <2>1. \E f : Aboves(f, n, w, path)
    BY <1>1, AbovesExist
  <2> QED BY <1>1, <1>2, <2>1
<1>4. /\ f[0] = IDENTITY
      /\ \A i \in 1..n : f[i] = Times(f[i - 1], Over(w, path, i))
  BY <1>1, <1>3 DEF Aboves
<1> QED BY <1>1, <1>3, <1>4 DEF Covers

(* A path that goes on from another comes by the same products, under the  *)
(* same transforms.                                                        *)
Extends(p, path) == Len(path) <= Len(p) /\ \A i \in 1..Len(path) : p[i] = path[i]

LEMMA SameSoFar ==
    ASSUME NEW id, NEW p \in Seq(Nat), NEW path \in Seq(Nat), Extends(p, path)
    PROVE  \A i \in 0..Len(path) : /\ WayDown(id, p)[i] = WayDown(id, path)[i]
                                   /\ StandsAbove(id, p)[i] = StandsAbove(id, path)[i]
<1>1. PICK n, m \in Nat : n = Len(path) /\ m = Len(p) /\ n <= m
  BY DEF Extends
<1>2. PICK v, w, a, b : /\ v = WayDown(id, p) /\ w = WayDown(id, path)
                        /\ a = StandsAbove(id, p) /\ b = StandsAbove(id, path)
  OBVIOUS
<1>3. /\ v[0] = id /\ \A i \in 1..m : v[i] = Onward(v[i - 1], p[i])
      /\ w[0] = id /\ \A i \in 1..n : w[i] = Onward(w[i - 1], path[i])
  <2>1. Leads(v, id, p) /\ Leads(w, id, path)
    BY <1>1, <1>2, WayDownIs
  <2> QED BY <1>1, <2>1 DEF Leads
<1>4. /\ a[0] = IDENTITY /\ \A i \in 1..m : a[i] = Times(a[i - 1], Over(v, p, i))
      /\ b[0] = IDENTITY /\ \A i \in 1..n : b[i] = Times(b[i - 1], Over(w, path, i))
  <2>1. Covers(a, v, p) /\ Covers(b, w, path)
    BY <1>1, <1>2, StandsAboveIs
  <2> QED BY <1>1, <2>1 DEF Covers
<1>5. \A i \in 1..n : p[i] = path[i]
  BY <1>1 DEF Extends
<1> DEFINE T == {i \in 0..n : ~(v[i] = w[i] /\ a[i] = b[i])}
<1>6. ASSUME T # {} PROVE FALSE
  <2>1. PICK k \in T : \A j \in T : ~(j < k)
    <3> T \in SUBSET Nat
      OBVIOUS
    <3> HIDE DEF T
    <3> QED BY <1>6, HasLeast
  <2>2. k # 0
    BY <1>3, <1>4, <2>1
  <2>3. k \in 1..n /\ k \in 1..m /\ k - 1 \in 0..n /\ k - 1 < k
    BY <1>1, <2>2
  <2>4. v[k - 1] = w[k - 1] /\ a[k - 1] = b[k - 1] /\ p[k] = path[k]
    BY <1>5, <2>1, <2>3
  <2>5. v[k] = w[k]
    BY <1>3, <2>3, <2>4
  <2>6. Over(v, p, k) = Over(w, path, k)
    BY <2>4 DEF Over
  <2>7. a[k] = b[k]
    BY <1>4, <2>3, <2>4, <2>6
  <2> QED BY <2>1, <2>5, <2>7
<1> QED BY <1>1, <1>2, <1>6

(* A way that ends in the document never misses an instance.               *)
LEMMA NeverMisses ==
    ASSUME TypeOK, NEW id \in DOMAIN products, NEW p \in Seq(Nat),
           WayDown(id, p)[Len(p)] \in DOMAIN products
    PROVE  \A i \in 1..Len(p) : p[i] \in DOMAIN Children(products, WayDown(id, p)[i - 1])
<1>1. PICK n \in Nat : n = Len(p)
  OBVIOUS
<1>2. PICK w : w = WayDown(id, p)
  OBVIOUS
<1>3. w[0] = id /\ \A i \in 1..n : w[i] = Onward(w[i - 1], p[i])
  BY <1>1, <1>2, WayDownIs DEF Leads
<1>4. 0 \notin DOMAIN products
  BY DEF TypeOK, AnyTable
<1> SUFFICES ASSUME NEW i \in 1..n, p[i] \notin DOMAIN Children(products, w[i - 1])
             PROVE  FALSE
  BY <1>1, <1>2
<1>5. w[i] = 0
  BY <1>3 DEF Onward
<1> DEFINE T == {k \in i..n : w[k] # 0}
<1>6. ASSUME T # {} PROVE FALSE
  <2>1. PICK k \in T : \A j \in T : ~(j < k)
    <3> T \in SUBSET Nat
      OBVIOUS
    <3> HIDE DEF T
    <3> QED BY <1>6, HasLeast
  <2>2. k \in 1..n /\ k - 1 \in i..n /\ k - 1 < k
    BY <1>5, <2>1
  <2>3. w[k - 1] = 0
    BY <2>1, <2>2
  <2>4. Children(products, 0) = <<>>
    BY <1>4 DEF Children, InDocument
  <2>5. w[k] = 0
    BY <1>3, <2>2, <2>3, <2>4 DEF Onward
  <2> QED BY <2>1, <2>5
<1>7. w[n] = 0
  <2>1. n \in i..n
    OBVIOUS
  <2> QED BY <1>6, <2>1
<1> QED BY <1>1, <1>2, <1>4, <1>7

-----------------------------------------------------------------------------
(* Flattening, round by round.                                             *)
LEMMA ThenIsALocation ==
    ASSUME NEW outer \in AnyLocation, NEW inner \in AnyLocation
    PROVE  Then(outer, inner) \in AnyLocation
<1> DEFINE E == [datum : Nat, power : Powers]
<1>1. AnyLocation = Seq(E)
  BY DEF AnyLocation
<1> HIDE DEF E
<1>2. ASSUME NEW l \in Seq(E), NEW e \in E PROVE JoinedOn(l, e) \in Seq(E)
  <2>1. CASE ~Meets(l, e)
    <3>1. JoinedOn(l, e) = Append(l, e)
      BY <2>1 DEF JoinedOn, Meets
    <3> QED BY <3>1, AppendIs
  <2>2. CASE Meets(l, e)
    <3>1. /\ l # <<>> /\ Last(l).power + e.power \in Powers
          /\ Front(l) \in Seq(E) /\ Last(l) \in E
      BY <2>2, FrontIs DEF Meets, Fits
    <3>2. e.power + Last(l).power = Last(l).power + e.power
      <4>1. e.power \in Powers /\ Last(l).power \in Powers
        BY <3>1 DEF E
      <4>2. e.power \in Int /\ Last(l).power \in Int
        BY <4>1, PowersAre
      <4>3. \A p, q \in Int : p + q = q + p
        OBVIOUS
      <4> QED BY <4>2, <4>3
    <3>3. [e EXCEPT !.power = e.power + Last(l).power] \in E
      BY <3>1, <3>2 DEF E
    <3>4. Append(Front(l), [e EXCEPT !.power = e.power + Last(l).power]) \in Seq(E)
      BY <3>1, <3>3, AppendIs
    <3> QED BY <2>2, <3>1, <3>4 DEF JoinedOn, Meets
  <2> QED BY <2>1, <2>2
<1>3. PICK n \in Nat : n = Len(inner) /\ DOMAIN inner = 1..n
  BY <1>1
<1>4. PICK f : Joins(f, outer, inner) /\ FoldLeft(JoinedOn, outer, inner) = f[n]
  BY <1>1, <1>3, FoldJoins
<1> DEFINE T == {k \in 0..n : f[k] \notin Seq(E)}
<1>5. ASSUME T # {} PROVE FALSE
  <2>1. PICK k \in T : \A j \in T : ~(j < k)
    <3> T \in SUBSET Nat
      OBVIOUS
    <3> HIDE DEF T
    <3> QED BY <1>5, HasLeast
  <2>2. CASE k = 0
    BY <1>1, <1>4, <2>1, <2>2 DEF Joins
  <2>3. CASE k # 0
    <3>1. k \in 1..n /\ k - 1 \in 0..n /\ k - 1 < k
      BY <2>3
    <3>2. f[k - 1] \in Seq(E) /\ inner[k] \in E
      BY <1>1, <1>3, <2>1, <3>1
    <3>3. f[k] = JoinedOn(f[k - 1], inner[k])
      BY <1>3, <1>4, <3>1 DEF Joins
    <3> QED BY <1>2, <2>1, <3>2, <3>3
  <2> QED BY <2>2, <2>3
<1>6. f[n] \in Seq(E)
  BY <1>3, <1>5
<1> QED BY <1>1, <1>4, <1>6 DEF Then

(* The products of a table, and what an assembly places.                   *)
LEMMA ProductIs ==
    ASSUME TypeOK, NEW id \in DOMAIN products
    PROVE  /\ id \in Nat
           /\ IsPart(products[id]) =>
                /\ products[id].shape.node \in Nodes /\ products[id].shape.at \in AnyLocation
                /\ Children(products, id) = <<>>
           /\ ~IsPart(products[id]) => Children(products, id) = products[id].children
           /\ Children(products, id) \in Seq(AnyInstance)
<1>1. id \in Nat /\ products[id] \in AnyPart \cup AnyAssembly
  BY DEF TypeOK, AnyTable
<1>2. CASE IsPart(products[id])
  <2>1. products[id] \in AnyPart
    BY <1>1, <1>2 DEF IsPart, AnyAssembly
  <2>2. Children(products, id) = <<>>
    BY <1>2 DEF Children
  <2>3. <<>> \in Seq(AnyInstance)
    OBVIOUS
  <2> QED BY <1>1, <1>2, <2>1, <2>2, <2>3 DEF AnyPart
<1>3. CASE ~IsPart(products[id])
  <2>1. products[id] \in AnyAssembly
    BY <1>1, <1>3 DEF IsPart, AnyPart
  <2>2. Children(products, id) = products[id].children
    BY <1>3 DEF Children, InDocument
  <2> QED BY <1>1, <1>3, <2>1, <2>2 DEF AnyAssembly
<1> QED BY <1>2, <1>3

LEMMA ChildIs ==
    ASSUME TypeOK, StandsAlone(products), NEW id, NEW i \in DOMAIN Children(products, id)
    PROVE  /\ id \in DOMAIN products /\ ~IsPart(products[id]) /\ i \in Nat
           /\ Children(products, id)[i].at \in AnyLocation
           /\ Children(products, id)[i].product \in DOMAIN products
           /\ Rank(Children(products, id)[i].product) \in Nat
           /\ Rank(Children(products, id)[i].product) < Rank(id)
<1>1. id \in DOMAIN products /\ ~IsPart(products[id])
  BY DEF Children, InDocument
<1>2. Children(products, id) \in Seq(AnyInstance)
  BY <1>1, ProductIs
<1>3. i \in Nat /\ Children(products, id)[i] \in AnyInstance
  BY <1>2
<1>4. Children(products, id)[i].product \in Places(products, id)
  BY DEF Places
<1>5. Children(products, id)[i].at \in AnyLocation
  BY <1>3 DEF AnyInstance
<1>6. PICK c : c = Children(products, id)[i].product
  OBVIOUS
<1>7. c \in DOMAIN products /\ Rank(c) < Rank(id)
  BY <1>1, <1>4, <1>6, RankFalls
<1>8. Rank(c) \in Nat
  BY <1>7, RankFalls DEF TypeOK, AnyTable
<1> QED BY <1>1, <1>3, <1>5, <1>6, <1>7, <1>8

LEMMA BelowIsAVisit ==
    ASSUME TypeOK, StandsAlone(products), NEW v \in Visits,
           NEW i \in DOMAIN Children(products, v.id)
    PROVE  /\ Below(v, i) \in Visits
           /\ Below(v, i).id = Children(products, v.id)[i].product
           /\ Below(v, i).above = Then(v.above, Children(products, v.id)[i].at)
           /\ Below(v, i).path = Append(v.path, i)
<1>1. PICK c, l : c = Children(products, v.id)[i].product /\ l = Children(products, v.id)[i].at
  OBVIOUS
<1>2. c \in DOMAIN products /\ l \in AnyLocation /\ i \in Nat
  BY <1>1, ChildIs
<1>3. c \in Nat
  BY <1>2, ProductIs
<1>4. v.above \in AnyLocation /\ v.path \in Seq(Nat)
  BY DEF Visits
<1>5. Then(v.above, l) \in AnyLocation
  BY <1>2, <1>4, ThenIsALocation
<1>6. Append(v.path, i) \in Seq(Nat)
  BY <1>2, <1>4, AppendIs
<1>7. Below(v, i) = [id |-> c, above |-> Then(v.above, l), path |-> Append(v.path, i)]
  BY <1>1 DEF Below, Visit
<1> QED BY <1>1, <1>3, <1>5, <1>6, <1>7 DEF Visits

(* Flattening is well founded: what it comes to for products that reach no *)
(* further down than n is settled after n rounds.                          *)
Round(F, v) ==
    IF ~InDocument(products, v.id) THEN <<>>
    ELSE IF IsPart(products[v.id]) THEN <<Occurrence(v)>>
    ELSE FlattenSeq([i \in DOMAIN Children(products, v.id) |-> F[Below(v, i)]])

SettledTo(F, n) ==
    /\ F = [v \in Visits |-> F[v]]
    /\ \A v \in Visits :
        (v.id \in DOMAIN products => Rank(v.id) <= n) => F[v] = Round(F, v)

LEMMA RoundsSettle ==
    ASSUME TypeOK, StandsAlone(products), NEW n \in Nat
    PROVE  \E F : SettledTo(F, n)
<1> DEFINE T == {k \in Nat : ~ \E F : SettledTo(F, k)}
<1> SUFFICES ASSUME T # {} PROVE FALSE
  OBVIOUS
<1>1. PICK k \in T : \A j \in T : ~(j < k)
  <2> T \in SUBSET Nat
    OBVIOUS
  <2> HIDE DEF T
  <2> QED BY HasLeast
<1>2. k # 0
  <2> DEFINE F == [v \in Visits |-> <<>>]
  <2>1. ASSUME NEW v \in Visits, v.id \in DOMAIN products => Rank(v.id) <= 0
        PROVE  F[v] = Round(F, v)
    <3>1. v.id \notin DOMAIN products
      <4>1. v.id \in DOMAIN products => Rank(v.id) \in 1..Len(products)
        BY RankFalls
      <4> QED BY <2>1, <4>1
    <3> QED BY <3>1 DEF Round, InDocument
  <2>2. F = [v \in Visits |-> F[v]]
    OBVIOUS
  <2> HIDE DEF F
  <2>3. SettledTo(F, 0)
    BY <2>1, <2>2 DEF SettledTo
  <2> QED BY <1>1, <2>3
<1>3. PICK m \in Nat : k = m + 1
  <2>1. k - 1 \in Nat /\ k = (k - 1) + 1
    BY <1>1, <1>2
  <2> QED BY <2>1
<1>4. PICK F : SettledTo(F, m)
  BY <1>1, <1>3
<1> DEFINE G == [v \in Visits |-> Round(F, v)]
<1>5. \A v \in Visits : G[v] = Round(F, v)
  OBVIOUS
<1>6. G = [v \in Visits |-> G[v]]
  OBVIOUS
<1> HIDE DEF G
<1>7. ASSUME NEW v \in Visits, v.id \in DOMAIN products => Rank(v.id) <= k
      PROVE  G[v] = Round(G, v)
  <2>1. ASSUME NEW i \in DOMAIN Children(products, v.id) PROVE F[Below(v, i)] = G[Below(v, i)]
    <3>1. PICK b : b = Below(v, i) /\ b \in Visits /\ b.id = Children(products, v.id)[i].product
      BY BelowIsAVisit
    <3>2. v.id \in DOMAIN products /\ b.id \in DOMAIN products
          /\ Rank(b.id) \in Nat /\ Rank(b.id) < Rank(v.id)
      BY <3>1, ChildIs
    <3>3. Rank(v.id) \in Nat
      BY <3>2, RankFalls DEF TypeOK, AnyTable
    <3>4. Rank(b.id) <= m
      BY <1>3, <1>7, <3>2, <3>3
    <3>5. F[b] = Round(F, b)
      BY <1>4, <3>1, <3>4 DEF SettledTo
    <3> QED BY <1>5, <3>1, <3>5
  <2>2. [i \in DOMAIN Children(products, v.id) |-> F[Below(v, i)]]
            = [i \in DOMAIN Children(products, v.id) |-> G[Below(v, i)]]
    BY <2>1
  <2>3. Round(F, v) = Round(G, v)
    BY <2>2, Zenon DEF Round
  <2> QED BY <1>5, <2>3
<1>8. SettledTo(G, k)
  BY <1>6, <1>7 DEF SettledTo
<1> QED BY <1>1, <1>8

LEMMA FlattenedIs ==
    ASSUME TypeOK, StandsAlone(products)
    PROVE  \A v \in Visits : Flattened[v] = Round(Flattened, v)
<1> DEFINE Is(F) == F = [v \in Visits |-> Round(F, v)]
<1>1. Flattened = CHOOSE F : Is(F)
  BY Zenon DEF Flattened, Round
<1>2. PICK n \in Nat : n = Len(products)
  BY DEF TypeOK, AnyTable
<1>3. PICK F : SettledTo(F, n)
  BY RoundsSettle
<1>4. ASSUME NEW v \in Visits PROVE F[v] = Round(F, v)
  <2>1. v.id \in DOMAIN products => Rank(v.id) \in 1..n
    BY <1>2, RankFalls
  <2>2. v.id \in DOMAIN products => Rank(v.id) <= n
    BY <2>1
  <2> QED BY <1>3, <2>2 DEF SettledTo
<1>5. Is(F)
  <2>1. F = [v \in Visits |-> F[v]]
    BY <1>3 DEF SettledTo
  <2> QED BY <1>4, <2>1
<1>6. Is(Flattened)
  <2> HIDE DEF Is
  <2> QED BY <1>1, <1>5
<1> QED BY <1>6

-----------------------------------------------------------------------------
(* What a visit has to come to.                                            *)

(* Parts stand at one datum at most, and every placement is a chain of the *)
(* n datums there are.                                                     *)
PlacedIn(ps, n) ==
    \A id \in DOMAIN ps :
        IF IsPart(ps[id]) THEN ps[id].shape.at \in Chains(n) /\ Len(ps[id].shape.at) <= 1
        ELSE \A i \in DOMAIN ps[id].children : ps[id].children[i].at \in Chains(n)

(* The last product of a way one instance longer, and what is above it.    *)
LEMMA OneFurther ==
    ASSUME NEW id, NEW path \in Seq(Nat), NEW i \in Nat
    PROVE  /\ WayDown(id, Append(path, i))[Len(path) + 1] = Onward(WayDown(id, path)[Len(path)], i)
           /\ StandsAbove(id, Append(path, i))[Len(path) + 1]
                = Times(StandsAbove(id, path)[Len(path)],
                        Composed(Children(products, WayDown(id, path)[Len(path)])[i].at, datums))
<1>1. PICK p, n : p = Append(path, i) /\ n = Len(path)
  OBVIOUS
<1>2. /\ p \in Seq(Nat) /\ n \in Nat /\ Len(p) = n + 1 /\ p[n + 1] = i
      /\ \A k \in 1..n : p[k] = path[k]
  BY <1>1, AppendIs
<1>3. Extends(p, path)
  BY <1>1, <1>2 DEF Extends
<1>4. \A k \in 0..n : /\ WayDown(id, p)[k] = WayDown(id, path)[k]
                      /\ StandsAbove(id, p)[k] = StandsAbove(id, path)[k]
  <2>1. n = Len(path) /\ p \in Seq(Nat)
    BY <1>1, <1>2
  <2> QED BY <1>3, <2>1, SameSoFar
<1>5. PICK v, a : v = WayDown(id, p) /\ a = StandsAbove(id, p)
  OBVIOUS
<1>6. Leads(v, id, p) /\ Covers(a, v, p)
  BY <1>2, <1>5, WayDownIs, StandsAboveIs
<1>7. n + 1 \in 1..(n + 1) /\ (n + 1) - 1 = n /\ n \in 0..n
  BY <1>2
<1>8. v[n + 1] = Onward(v[n], i) /\ a[n + 1] = Times(a[n], Over(v, p, n + 1))
  BY <1>2, <1>6, <1>7 DEF Leads, Covers
<1>9. Over(v, p, n + 1) = Composed(Children(products, v[n])[i].at, datums)
  BY <1>2, <1>7 DEF Over
<1> QED BY <1>1, <1>4, <1>5, <1>7, <1>8, <1>9

LEMMA PathsAre ==
    ASSUME TypeOK, NEW id
    PROVE  /\ Taken \subseteq Nat
           /\ \A p \in PathsFrom(id) :
                /\ p \in Seq(Taken) /\ p \in Seq(Nat)
                /\ WayDown(id, p)[Len(p)] \in DOMAIN products
                /\ IsPart(products[WayDown(id, p)[Len(p)]])
           /\ \A p \in Seq(Taken) :
                /\ Len(p) <= Len(products)
                /\ WayDown(id, p)[Len(p)] \in DOMAIN products
                /\ IsPart(products[WayDown(id, p)[Len(p)]])
                => p \in PathsFrom(id)
<1>1. Taken \subseteq Nat
  <2> SUFFICES ASSUME NEW p \in DOMAIN products, NEW k \in DOMAIN Children(products, p)
               PROVE  k \in Nat
    BY DEF Taken
  <2>1. Children(products, p) \in Seq(AnyInstance)
    BY ProductIs
  <2> QED BY <2>1
<1>2. ASSUME NEW p \in PathsFrom(id)
      PROVE  /\ p \in Seq(Taken) /\ p \in Seq(Nat)
             /\ WayDown(id, p)[Len(p)] \in DOMAIN products
             /\ IsPart(products[WayDown(id, p)[Len(p)]])
  <2>1. /\ p \in UNION {[1..n -> Taken] : n \in 0..Len(products)}
        /\ WayDown(id, p)[Len(p)] \in DOMAIN products
        /\ IsPart(products[WayDown(id, p)[Len(p)]])
    BY DEF PathsFrom, InDocument
  <2>2. PICK n \in 0..Len(products) : p \in [1..n -> Taken]
    BY <2>1
  <2>3. p \in Seq(Taken)
    BY <2>2
  <2>4. p \in Seq(Nat)
    <3>1. PICK T : T = Taken
      OBVIOUS
    <3>2. T \subseteq Nat /\ n \in Nat /\ p \in [1..n -> T]
      BY <1>1, <2>2, <3>1
    <3>3. p \in [1..n -> Nat]
      BY <3>2
    <3> QED BY <3>2, <3>3
  <2> QED BY <2>1, <2>3, <2>4
<1>3. ASSUME NEW p \in Seq(Taken), Len(p) <= Len(products),
             WayDown(id, p)[Len(p)] \in DOMAIN products,
             IsPart(products[WayDown(id, p)[Len(p)]])
      PROVE  p \in PathsFrom(id)
  <2>1. Len(products) \in Nat /\ Len(p) \in 0..Len(products) /\ p \in [1..Len(p) -> Taken]
    BY <1>3 DEF TypeOK, AnyTable
  <2>2. p \in UNION {[1..n -> Taken] : n \in 0..Len(products)}
    BY <2>1
  <2> QED BY <1>3, <2>2 DEF PathsFrom, InDocument
<1> QED BY <1>1, <1>2, <1>3

-----------------------------------------------------------------------------
(* A visit that is on a way down from r, with what is above it composed.   *)
Reaches(r, v) ==
    /\ v \in Visits /\ v.id \in DOMAIN products
    /\ v.above \in Chains(Len(datums)) /\ v.path \in Seq(Taken)
    /\ WayDown(r, v.path)[Len(v.path)] = v.id
    /\ Composed(v.above, datums) = StandsAbove(r, v.path)[Len(v.path)]
    /\ Len(v.path) + Rank(v.id) <= Rank(r)

(* An occurrence of a part on a way down from r, standing where that way   *)
(* puts it.                                                                *)
Right(r, o) ==
    /\ o.path \in PathsFrom(r)
    /\ o.part = WayDown(r, o.path)[Len(o.path)]
    /\ o.above \in Chains(Len(datums))
    /\ o.at = Then(o.above, products[o.part].shape.at)
    /\ Composed(o.at, datums) = StandsAt(r, o.path)

AnyOccurrence ==
    [part : Nat, node : Nodes, at : AnyLocation, above : AnyLocation, path : Seq(Nat)]

(* What a visit has to come to: the parts on the ways that go on from it,  *)
(* one occurrence for each.                                                *)
Finds(r, v, s) ==
    /\ s \in Seq(AnyOccurrence)
    /\ \A o \in Elements(s) : Right(r, o) /\ Extends(o.path, v.path)
    /\ \A p \in PathsFrom(r) : Extends(p, v.path) => \E o \in Elements(s) : o.path = p
    /\ Apart(s)

LEMMA RightAt ==
    ASSUME TypeOK, PlacedIn(products, Len(datums)), NEW r, NEW v, Reaches(r, v),
           IsPart(products[v.id]), v.path \in PathsFrom(r)
    PROVE  Occurrence(v) \in AnyOccurrence /\ Right(r, Occurrence(v))
<1>1. PICK o, at : o = Occurrence(v) /\ at = products[v.id].shape.at
  OBVIOUS
<1>2. o = [part |-> v.id, node |-> products[v.id].shape.node, at |-> Then(v.above, at),
           above |-> v.above, path |-> v.path]
  BY <1>1 DEF Occurrence
<1>3. /\ v.id \in DOMAIN products /\ v.above \in Chains(Len(datums))
      /\ v.id \in Nat /\ v.above \in AnyLocation /\ v.path \in Seq(Nat)
      /\ WayDown(r, v.path)[Len(v.path)] = v.id
      /\ Composed(v.above, datums) = StandsAbove(r, v.path)[Len(v.path)]
  BY DEF Reaches, Visits
<1>4. at \in Chains(Len(datums)) /\ at \in AnyLocation /\ products[v.id].shape.node \in Nodes
  BY <1>1, <1>3, ProductIs DEF PlacedIn
<1>5. datums \in Seq(Placed)
  BY DEF TypeOK
<1>6. Composed(Then(v.above, at), datums) = Times(Composed(v.above, datums), Composed(at, datums))
  BY <1>3, <1>4, <1>5, ThenComposes
<1>7. Then(v.above, at) \in AnyLocation
  BY <1>3, <1>4, ThenIsALocation
<1>8. StandsAt(r, v.path) = Times(Composed(v.above, datums), Composed(at, datums))
  BY <1>1, <1>3 DEF StandsAt
<1>9. o \in AnyOccurrence
  BY <1>2, <1>3, <1>4, <1>7 DEF AnyOccurrence
<1>10. /\ o.path = v.path /\ o.part = v.id /\ o.above = v.above /\ o.at = Then(v.above, at)
  BY <1>2
<1>11. Right(r, o)
  BY <1>1, <1>3, <1>6, <1>8, <1>10 DEF Right
<1> QED BY <1>1, <1>9, <1>11

(* A part comes to itself: no way goes on from it.                         *)
LEMMA PartFinds ==
    ASSUME TypeOK, StandsAlone(products), PlacedIn(products, Len(datums)),
           NEW r \in DOMAIN products, NEW v, Reaches(r, v), IsPart(products[v.id])
    PROVE  Finds(r, v, <<Occurrence(v)>>)
<1>1. /\ v.id \in DOMAIN products /\ v.path \in Seq(Taken) /\ v.path \in Seq(Nat)
      /\ WayDown(r, v.path)[Len(v.path)] = v.id
      /\ Len(v.path) + Rank(v.id) <= Rank(r)
  BY DEF Reaches, Visits
<1>2. v.path \in PathsFrom(r)
  <2>1. Rank(v.id) \in 1..Len(products) /\ Rank(r) \in 1..Len(products)
    BY <1>1, RankFalls
  <2>2. Len(v.path) \in Nat /\ Len(products) \in Nat
    BY <1>1 DEF TypeOK, AnyTable
  <2>3. Len(v.path) <= Len(products)
    BY <1>1, <2>1, <2>2
  <2> QED BY <1>1, <2>3, PathsAre
<1>3. PICK o : o = Occurrence(v)
  OBVIOUS
<1>4. o \in AnyOccurrence /\ Right(r, o) /\ o.path = v.path
  BY <1>2, <1>3, RightAt DEF Occurrence
<1>5. PICK s : s = <<o>> /\ s \in Seq(AnyOccurrence) /\ Len(s) = 1 /\ s[1] = o
  <2>1. <<o>> \in Seq(AnyOccurrence) /\ Len(<<o>>) = 1 /\ <<o>>[1] = o
    BY <1>4
  <2> QED BY <2>1
<1>6. Elements(s) = {o}
  <2>1. 1..Len(s) = {1}
    BY <1>5
  <2> QED BY <1>5, <2>1 DEF Elements
<1>7. Apart(s)
  BY <1>5 DEF Apart
<1>8. Extends(o.path, v.path)
  <2>1. Len(v.path) \in Nat
    BY <1>1
  <2> QED BY <1>4, <2>1 DEF Extends
<1>9. ASSUME NEW p \in PathsFrom(r), Extends(p, v.path) PROVE p = v.path
  <2>1. PICK m, n \in Nat : m = Len(p) /\ n = Len(v.path) /\ n <= m /\ p \in Seq(Nat)
    <3>1. p \in Seq(Nat)
      BY PathsAre
    <3>2. Len(p) \in Nat /\ Len(v.path) \in Nat
      BY <1>1, <3>1
    <3> QED BY <1>9, <3>1, <3>2 DEF Extends
  <2>2. \A i \in 1..n : p[i] = v.path[i]
    BY <1>9, <2>1 DEF Extends
  <2>3. m = n
    <3> SUFFICES ASSUME m # n PROVE FALSE
      OBVIOUS
    <3>1. n + 1 \in 1..m /\ (n + 1) - 1 = n /\ n \in 0..n
      BY <2>1
    <3>2. WayDown(r, p)[n] = v.id
      BY <1>1, <1>9, <2>1, <3>1, SameSoFar
    <3>3. WayDown(r, p)[Len(p)] \in DOMAIN products
      BY PathsAre
    <3>4. p[n + 1] \in DOMAIN Children(products, WayDown(r, p)[(n + 1) - 1])
      BY <2>1, <3>1, <3>3, NeverMisses
    <3>5. Children(products, v.id) = <<>>
      BY <1>1, ProductIs
    <3> QED BY <3>1, <3>2, <3>4, <3>5
  <2> QED
    <3>1. PICK q : q = v.path /\ q \in Seq(Nat)
      BY <1>1
    <3>2. Len(p) = Len(q) /\ \A i \in 1..Len(p) : p[i] = q[i]
      BY <2>1, <2>2, <2>3, <3>1
    <3>3. p = q
      BY <2>1, <3>1, <3>2, SameSeq
    <3> QED BY <3>1, <3>3
<1> QED BY <1>3, <1>4, <1>5, <1>6, <1>7, <1>8, <1>9 DEF Finds

(* What an assembly places is on a way one longer.                         *)
LEMMA BelowReaches ==
    ASSUME TypeOK, StandsAlone(products), PlacedIn(products, Len(datums)),
           NEW r \in DOMAIN products, NEW v, Reaches(r, v),
           NEW i \in DOMAIN Children(products, v.id)
    PROVE  Reaches(r, Below(v, i)) /\ i \in Taken /\ i \in Nat
<1>1. PICK b, c, l : /\ b = Below(v, i) /\ c = Children(products, v.id)[i].product
                     /\ l = Children(products, v.id)[i].at
  OBVIOUS
<1>2. /\ v \in Visits /\ v.id \in DOMAIN products
      /\ v.above \in Chains(Len(datums)) /\ v.path \in Seq(Taken) /\ v.path \in Seq(Nat)
      /\ WayDown(r, v.path)[Len(v.path)] = v.id
      /\ Composed(v.above, datums) = StandsAbove(r, v.path)[Len(v.path)]
      /\ Len(v.path) + Rank(v.id) <= Rank(r)
  BY DEF Reaches, Visits
<1>3. /\ b \in Visits /\ b.id = c /\ b.above = Then(v.above, l) /\ b.path = Append(v.path, i)
  BY <1>1, <1>2, BelowIsAVisit
<1>4. /\ ~IsPart(products[v.id]) /\ i \in Nat /\ c \in DOMAIN products
      /\ Rank(c) \in Nat /\ Rank(c) < Rank(v.id)
  BY <1>1, ChildIs
<1>5. l \in Chains(Len(datums))
  <2>1. Children(products, v.id) = products[v.id].children
    BY <1>2, <1>4, ProductIs
  <2> QED BY <1>1, <1>2, <1>4, <2>1 DEF PlacedIn
<1>6. i \in Taken
  BY <1>2 DEF Taken
<1>7. b.path \in Seq(Taken) /\ Len(b.path) = Len(v.path) + 1
  BY <1>2, <1>3, <1>6, AppendIs
<1>8. /\ b.above \in Chains(Len(datums))
      /\ Composed(b.above, datums) = Times(Composed(v.above, datums), Composed(l, datums))
  <2>1. datums \in Seq(Placed)
    BY DEF TypeOK
  <2> QED BY <1>2, <1>3, <1>5, <2>1, ThenComposes
<1>9. WayDown(r, b.path)[Len(b.path)] = c
  BY <1>1, <1>2, <1>3, <1>4, <1>7, OneFurther DEF Onward
<1>10. Composed(b.above, datums) = StandsAbove(r, b.path)[Len(b.path)]
  BY <1>1, <1>2, <1>3, <1>4, <1>7, <1>8, OneFurther
<1>11. Len(b.path) + Rank(b.id) <= Rank(r)
  <2>1. Rank(v.id) \in 1..Len(products) /\ Rank(r) \in 1..Len(products)
    BY <1>2, RankFalls
  <2>2. Len(v.path) \in Nat /\ Len(products) \in Nat
    BY <1>2 DEF TypeOK, AnyTable
  <2> QED BY <1>2, <1>3, <1>4, <1>7, <2>1, <2>2
<1>12. Reaches(r, b)
  BY <1>3, <1>4, <1>7, <1>8, <1>9, <1>10, <1>11 DEF Reaches
<1> QED BY <1>1, <1>4, <1>6, <1>12

LEMMA ExtendsFurther ==
    ASSUME NEW p \in Seq(Nat), NEW path \in Seq(Nat), NEW k \in Nat
    PROVE  /\ Extends(p, Append(path, k)) => Extends(p, path) /\ p[Len(path) + 1] = k
           /\ Extends(p, path) /\ Len(path) < Len(p) /\ p[Len(path) + 1] = k
                => Extends(p, Append(path, k))
<1>1. PICK q, n, m : q = Append(path, k) /\ n = Len(path) /\ m = Len(p)
  OBVIOUS
<1>2. /\ n \in Nat /\ m \in Nat /\ Len(q) = n + 1 /\ q[n + 1] = k
      /\ \A i \in 1..n : q[i] = path[i]
  BY <1>1, AppendIs
<1>3. ASSUME Extends(p, q) PROVE Extends(p, path) /\ p[n + 1] = k
  <2>1. n + 1 <= m /\ \A i \in 1..(n + 1) : p[i] = q[i]
    BY <1>1, <1>2, <1>3 DEF Extends
  <2>2. n <= m /\ n + 1 \in 1..(n + 1) /\ \A i \in 1..n : i \in 1..(n + 1)
    BY <1>2, <2>1
  <2>3. p[n + 1] = k /\ \A i \in 1..n : p[i] = path[i]
    BY <1>2, <2>1, <2>2
  <2> QED BY <1>1, <2>2, <2>3 DEF Extends
<1>4. ASSUME Extends(p, path), n < m, p[n + 1] = k PROVE Extends(p, q)
  <2>1. \A i \in 1..n : p[i] = path[i]
    BY <1>1, <1>4 DEF Extends
  <2>2. n + 1 <= m
    BY <1>2, <1>4
  <2>3. ASSUME NEW i \in 1..(n + 1) PROVE p[i] = q[i]
    <3>1. i = n + 1 \/ i \in 1..n
      BY <1>2
    <3> QED BY <1>2, <1>4, <2>1, <3>1
  <2> QED BY <1>1, <1>2, <2>2, <2>3 DEF Extends
<1> QED BY <1>1, <1>3, <1>4

(* An assembly comes to what its instances come to, one after another.     *)
LEMMA AssemblyFinds ==
    ASSUME TypeOK, StandsAlone(products), PlacedIn(products, Len(datums)),
           NEW r \in DOMAIN products, NEW v, Reaches(r, v), ~IsPart(products[v.id]), NEW F,
           \A i \in DOMAIN Children(products, v.id) : Finds(r, Below(v, i), F[Below(v, i)])
    PROVE  Finds(r, v, FlattenSeq([i \in DOMAIN Children(products, v.id) |-> F[Below(v, i)]]))
<1>1. /\ v \in Visits /\ v.id \in DOMAIN products /\ v.path \in Seq(Nat)
      /\ WayDown(r, v.path)[Len(v.path)] = v.id
  BY DEF Reaches, Visits
<1>2. PICK kids, m, n, path : /\ kids = Children(products, v.id) /\ m = Len(kids)
                              /\ path = v.path /\ n = Len(path)
  OBVIOUS
<1>3. m \in Nat /\ DOMAIN kids = 1..m /\ n \in Nat /\ path \in Seq(Nat)
  <2>1. kids \in Seq(AnyInstance)
    BY <1>1, <1>2, ProductIs
  <2> QED BY <1>1, <1>2, <2>1
<1>4. PICK ss : ss = [i \in DOMAIN Children(products, v.id) |-> F[Below(v, i)]]
  OBVIOUS
<1>5. ASSUME NEW k \in 1..m
      PROVE  /\ ss[k] \in Seq(AnyOccurrence) /\ Apart(ss[k])
             /\ \A o \in Elements(ss[k]) : Right(r, o) /\ Extends(o.path, Append(path, k))
             /\ \A p \in PathsFrom(r) :
                  Extends(p, Append(path, k)) => \E o \in Elements(ss[k]) : o.path = p
  <2>1. k \in DOMAIN Children(products, v.id)
    BY <1>2, <1>3
  <2>2. PICK b : b = Below(v, k)
    OBVIOUS
  <2>3. Finds(r, b, F[b]) /\ ss[k] = F[b]
    BY <1>4, <2>1, <2>2
  <2>4. b.path = Append(path, k)
    BY <1>1, <1>2, <2>1, <2>2, BelowIsAVisit
  <2> QED BY <2>3, <2>4 DEF Finds
<1>6. ss \in Seq(Seq(AnyOccurrence)) /\ Len(ss) = m
  <2>1. ss \in [1..m -> Seq(AnyOccurrence)]
    BY <1>2, <1>3, <1>4, <1>5
  <2>2. \A S : ss \in [1..m -> S] => ss \in Seq(S) /\ Len(ss) = m
    BY <1>3
  <2> QED BY <2>1, <2>2
<1>7. ASSUME NEW k \in 1..m, NEW o \in Elements(ss[k])
      PROVE  Right(r, o) /\ Extends(o.path, path) /\ o.path[n + 1] = k
  <2>1. Right(r, o) /\ Extends(o.path, Append(path, k))
    BY <1>5
  <2>2. PICK p : p = o.path /\ p \in Seq(Nat)
    BY <2>1, PathsAre DEF Right
  <2>3. k \in Nat
    BY <1>3
  <2> QED BY <1>2, <1>3, <2>1, <2>2, <2>3, ExtendsFurther
<1>8. ASSUME NEW p \in PathsFrom(r), Extends(p, path)
      PROVE  \E k \in 1..m : \E o \in Elements(ss[k]) : o.path = p
  <2>1. /\ p \in Seq(Nat) /\ WayDown(r, p)[Len(p)] \in DOMAIN products
        /\ IsPart(products[WayDown(r, p)[Len(p)]])
    BY PathsAre
  <2>2. n \in 0..n
    BY <1>3
  <2>3. WayDown(r, p)[n] = v.id
    BY <1>1, <1>2, <1>3, <1>8, <2>1, <2>2, SameSoFar
  <2>4. n <= Len(p) /\ Len(p) \in Nat
    BY <1>2, <1>8, <2>1 DEF Extends
  <2>5. n < Len(p)
    <3>1. Len(p) # n
      BY <2>1, <2>3
    <3> QED BY <1>3, <2>4, <3>1
  <2>6. n + 1 \in 1..Len(p) /\ (n + 1) - 1 = n
    BY <1>3, <2>4, <2>5
  <2>7. p[n + 1] \in DOMAIN Children(products, WayDown(r, p)[(n + 1) - 1])
    BY <2>1, <2>6, NeverMisses
  <2>8. PICK k \in 1..m : p[n + 1] = k
    BY <1>2, <1>3, <2>3, <2>6, <2>7
  <2>9. Extends(p, Append(path, k))
    <3>1. k \in Nat
      BY <1>3
    <3> QED BY <1>2, <1>3, <1>8, <2>1, <2>5, <2>8, <3>1, ExtendsFurther
  <2> QED BY <1>5, <2>9
<1>9. PICK s : s = FlattenSeq(ss)
  OBVIOUS
<1>10. /\ s \in Seq(AnyOccurrence)
       /\ Elements(s) = UNION {Elements(ss[k]) : k \in 1..m}
       /\ (/\ \A k \in 1..m : Apart(ss[k])
           /\ \A k, j \in 1..m : k # j =>
                \A x \in Elements(ss[k]), y \in Elements(ss[j]) : x.path # y.path)
            => Apart(s)
  BY <1>6, <1>9, FlattenKeeps
<1>11. Apart(s)
  <2>1. ASSUME NEW k \in 1..m, NEW j \in 1..m, k # j,
               NEW x \in Elements(ss[k]), NEW y \in Elements(ss[j])
        PROVE  x.path # y.path
    <3>1. x.path[n + 1] = k /\ y.path[n + 1] = j
      BY <1>7
    <3> QED BY <2>1, <3>1
  <2> QED BY <1>5, <1>10, <2>1
<1>12. \A o \in Elements(s) : Right(r, o) /\ Extends(o.path, path)
  BY <1>7, <1>10
<1>13. \A p \in PathsFrom(r) : Extends(p, path) => \E o \in Elements(s) : o.path = p
  BY <1>8, <1>10
<1> QED BY <1>2, <1>4, <1>9, <1>10, <1>11, <1>12, <1>13 DEF Finds

(* Every visit on a way down comes to what it has to.                      *)
LEMMA EveryVisitFinds ==
    ASSUME TypeOK, StandsAlone(products), PlacedIn(products, Len(datums)),
           NEW r \in DOMAIN products
    PROVE  \A v : Reaches(r, v) => Finds(r, v, Flattened[v])
<1> DEFINE T == {k \in Nat : \E v : Reaches(r, v) /\ Rank(v.id) = k /\ ~Finds(r, v, Flattened[v])}
<1>1. ASSUME T # {} PROVE FALSE
  <2>1. PICK k \in T : \A j \in T : ~(j < k)
    <3> T \in SUBSET Nat
      OBVIOUS
    <3> HIDE DEF T
    <3> QED BY <1>1, HasLeast
  <2>2. PICK v : Reaches(r, v) /\ Rank(v.id) = k /\ ~Finds(r, v, Flattened[v])
    BY <2>1
  <2>3. v \in Visits /\ v.id \in DOMAIN products
    BY <2>2 DEF Reaches
  <2>4. Flattened[v] = Round(Flattened, v)
    BY <2>3, FlattenedIs
  <2>5. CASE IsPart(products[v.id])
    <3>1. Flattened[v] = <<Occurrence(v)>>
      BY <2>3, <2>4, <2>5 DEF Round, InDocument
    <3>2. Finds(r, v, <<Occurrence(v)>>)
      BY <2>2, <2>5, PartFinds
    <3> QED BY <2>2, <3>1, <3>2
  <2>6. CASE ~IsPart(products[v.id])
    <3>1. ASSUME NEW i \in DOMAIN Children(products, v.id)
          PROVE  Finds(r, Below(v, i), Flattened[Below(v, i)])
      <4>1. PICK b : b = Below(v, i) /\ b.id = Children(products, v.id)[i].product
        BY <2>3, BelowIsAVisit
      <4>2. Reaches(r, b)
        BY <2>2, <4>1, BelowReaches
      <4>3. Rank(b.id) \in Nat /\ Rank(b.id) < k
        BY <2>2, <4>1, ChildIs
      <4>4. Rank(b.id) \notin T
        BY <2>1, <4>3
      <4> QED BY <4>1, <4>2, <4>3, <4>4
    <3>2. Flattened[v]
            = FlattenSeq([i \in DOMAIN Children(products, v.id) |-> Flattened[Below(v, i)]])
      BY <2>3, <2>4, <2>6, Zenon DEF Round, InDocument
    <3>3. PICK F : F = Flattened
      OBVIOUS
    <3>4. \A i \in DOMAIN Children(products, v.id) : Finds(r, Below(v, i), F[Below(v, i)])
      BY <3>1, <3>3
    <3>5. Finds(r, v, FlattenSeq([i \in DOMAIN Children(products, v.id) |-> F[Below(v, i)]]))
      <4> HIDE DEF T
      <4> QED BY <2>2, <2>6, <3>4, AssemblyFinds
    <3> QED BY <2>2, <3>2, <3>3, <3>5
  <2> QED BY <2>5, <2>6
<1> SUFFICES ASSUME NEW v, Reaches(r, v), ~Finds(r, v, Flattened[v]) PROVE FALSE
  OBVIOUS
<1>2. Rank(v.id) \in Nat
  <2>1. v.id \in DOMAIN products
    BY DEF Reaches
  <2>2. Rank(v.id) \in 1..Len(products)
    BY <2>1, RankFalls
  <2> QED BY <2>2
<1>3. Rank(v.id) \in T
  BY <1>2
<1> QED BY <1>1, <1>3

-----------------------------------------------------------------------------
LEMMA OccurrencesFound ==
    ASSUME TypeOK, StandsAlone(products), PlacedIn(products, Len(datums)),
           NEW id \in DOMAIN products
    PROVE  /\ OccurrencesOf(id) \in Seq(AnyOccurrence)
           /\ \A o \in Elements(OccurrencesOf(id)) : Right(id, o)
           /\ \A p \in PathsFrom(id) : \E o \in Elements(OccurrencesOf(id)) : o.path = p
           /\ Apart(OccurrencesOf(id))
<1>1. PICK v : v = [id |-> id, above |-> Identity, path |-> <<>>]
  OBVIOUS
<1>2. v.id = id /\ v.above = <<>> /\ v.path = <<>>
  BY <1>1 DEF Identity
<1>3. id \in Nat /\ Rank(id) \in 1..Len(products)
  BY ProductIs, RankFalls
<1>4. /\ Len(<<>>) = 0 /\ <<>> \in Seq(Taken) /\ <<>> \in Seq(Nat) /\ <<>> \in Chains(Len(datums))
      /\ <<>> \in AnyLocation
  BY DEF Chains, AnyLocation
<1>5. Reaches(id, v)
  <2>1. v \in Visits
    BY <1>1, <1>3, <1>4 DEF Visits, Identity
  <2>2. WayDown(id, <<>>)[0] = id /\ StandsAbove(id, <<>>)[0] = IDENTITY
    <3>1. PICK q : q = <<>> /\ Len(q) \in Nat
      BY <1>4
    <3>2. Leads(WayDown(id, q), id, q) /\ Covers(StandsAbove(id, q), WayDown(id, q), q)
      BY <3>1, WayDownIs, StandsAboveIs
    <3> QED BY <3>1, <3>2 DEF Leads, Covers
  <2>3. Composed(<<>>, datums) = IDENTITY
    BY NoneComposed
  <2>4. 0 + Rank(id) <= Rank(id)
    BY <1>3 DEF TypeOK, AnyTable
  <2> QED BY <1>2, <1>4, <2>1, <2>2, <2>3, <2>4 DEF Reaches
<1>6. Finds(id, v, Flattened[v])
  BY <1>5, EveryVisitFinds
<1>7. OccurrencesOf(id) = Flattened[v]
  BY <1>1 DEF OccurrencesOf, Visit
<1>8. \A p : Extends(p, v.path) <=> 0 <= Len(p)
  BY <1>2, <1>4 DEF Extends
<1>9. \A p \in PathsFrom(id) : Extends(p, v.path)
  <2> SUFFICES ASSUME NEW p \in PathsFrom(id) PROVE 0 <= Len(p)
    BY <1>8
  <2>1. p \in Seq(Nat)
    BY PathsAre
  <2> QED BY <2>1
<1> QED BY <1>6, <1>7, <1>9 DEF Finds

(* As many occurrences as ways down.                                       *)
LEMMA AsManyAsWays ==
    ASSUME NEW S, NEW s \in Seq(S), NEW P, Apart(s), \A i \in 1..Len(s) : s[i].path \in P,
           \A p \in P : \E i \in 1..Len(s) : s[i].path = p
    PROVE  Len(s) = Cardinality(P) /\ {s[i].path : i \in DOMAIN s} = P
<1>1. PICK n \in Nat : n = Len(s) /\ DOMAIN s = 1..n
  OBVIOUS
<1> DEFINE f == [i \in 1..n |-> s[i].path]
<1>2. f \in Bijection(1..n, P)
  <2>1. f \in [1..n -> P]
    BY <1>1
  <2>2. \A i, j \in 1..n : f[i] = f[j] => i = j
    BY <1>1 DEF Apart
  <2>3. \A p \in P : \E i \in 1..n : f[i] = p
    BY <1>1
  <2> HIDE DEF f
  <2> QED BY <2>1, <2>2, <2>3 DEF Bijection, Injection, Surjection, IsInjective
<1>3. IsFiniteSet(1..n) /\ Cardinality(1..n) = n
  <2>1. IsFiniteSet(1..n) /\ Cardinality(1..n) = IF 1 > n THEN 0 ELSE n - 1 + 1
    BY FS_Interval
  <2> QED BY <2>1
<1>4. ExistsBijection(1..n, P)
  <2> HIDE DEF f
  <2> QED BY <1>2 DEF ExistsBijection
<1>5. Cardinality(1..n) = Cardinality(P)
  BY <1>3, <1>4, FS_Bijection
<1>6. {s[i].path : i \in DOMAIN s} = P
  BY <1>1
<1> QED BY <1>1, <1>3, <1>5, <1>6

LEMMA PathsFound ==
    ASSUME TypeOK, StandsAlone(products), PlacedIn(products, Len(datums))
    PROVE  OccurrencesArePaths
<1> SUFFICES ASSUME NEW id \in DOMAIN products
             PROVE  LET found == OccurrencesOf(id)
                    IN  /\ Len(found) = Cardinality(PathsFrom(id))
                        /\ {found[i].path : i \in DOMAIN found} = PathsFrom(id)
                        /\ \A i \in DOMAIN found :
                            /\ found[i].part = WayDown(id, found[i].path)[Len(found[i].path)]
                            /\ Composed(found[i].at, datums) = StandsAt(id, found[i].path)
  BY Zenon DEF OccurrencesArePaths
<1>1. PICK s : s = OccurrencesOf(id)
  OBVIOUS
<1>2. /\ s \in Seq(AnyOccurrence) /\ Apart(s)
      /\ \A o \in Elements(s) : Right(id, o)
      /\ \A p \in PathsFrom(id) : \E o \in Elements(s) : o.path = p
  BY <1>1, OccurrencesFound
<1>3. DOMAIN s = 1..Len(s)
  BY <1>2
<1>4. ASSUME NEW i \in 1..Len(s)
      PROVE  /\ s[i].path \in PathsFrom(id)
             /\ s[i].part = WayDown(id, s[i].path)[Len(s[i].path)]
             /\ Composed(s[i].at, datums) = StandsAt(id, s[i].path)
  <2>1. s[i] \in Elements(s)
    BY DEF Elements
  <2>2. Right(id, s[i])
    BY <1>2, <2>1
  <2> QED BY <2>2 DEF Right
<1>5. \A p \in PathsFrom(id) : \E i \in 1..Len(s) : s[i].path = p
  BY <1>2 DEF Elements
<1>6. Len(s) = Cardinality(PathsFrom(id)) /\ {s[i].path : i \in DOMAIN s} = PathsFrom(id)
  BY <1>2, <1>4, <1>5, AsManyAsWays
<1> QED BY <1>1, <1>3, <1>4, <1>6

LEMMA EmptyIsAChain == ASSUME NEW n PROVE Identity \in Chains(n) /\ Len(Identity) <= 1
  BY DEF Identity, Chains

LEMMA OneIsAChain ==
    ASSUME NEW n \in Nat, NEW d \in 1..n, NEW p \in Powers \ {0}
    PROVE  <<[datum |-> d, power |-> p]>> \in Chains(n) /\ Len(<<[datum |-> d, power |-> p]>>) <= 1
<1>1. [datum |-> d, power |-> p] \in Entries(n)
  BY DEF Entries
<1> QED BY <1>1 DEF Chains

LEMMA FilesAreChains ==
    ASSUME TypeOK, NEW at \in FileLocations
    PROVE  at \in Chains(Len(datums)) /\ Len(at) <= 1
<1>1. CASE at = Identity
  BY <1>1, EmptyIsAChain
<1>2. CASE \E d \in DOMAIN datums, p \in FilePowers : at = <<[datum |-> d, power |-> p]>>
  <2>1. PICK d \in DOMAIN datums, p \in FilePowers : at = <<[datum |-> d, power |-> p]>>
    BY <1>2
  <2>2. Len(datums) \in Nat /\ d \in 1..Len(datums) /\ p \in Powers \ {0}
    BY StructureAssumption DEF TypeOK
  <2> QED BY <2>1, <2>2, OneIsAChain
<1> QED BY <1>1, <1>2 DEF FileLocations

LEMMA AboveTold ==
    ASSUME TypeOK, StandsAlone(products), PlacedIn(products, Len(datums))
    PROVE  PlacementAboveIsTold
<1> SUFFICES ASSUME NEW id \in DOMAIN products, NEW i \in DOMAIN OccurrencesOf(id)
             PROVE  LET found == OccurrencesOf(id)
                        own == products[found[i].part].shape.at
                        told == Then(found[i].at, Inverted(own))
                    IN  /\ HasInverse(own) =>
                            /\ Composed(told, datums) = Composed(found[i].above, datums)
                            /\ Settled(found[i].above) => told = found[i].above
                            /\ \A within \in FileLocations :
                                Composed(Then(told, Then(own, within)), datums)
                                    = Composed(Then(found[i].at, within), datums)
                        /\ HasInverse(found[i].at) =>
                                Then(found[i].at, Inverted(found[i].at)) = Identity
  BY Zenon DEF PlacementAboveIsTold
<1>1. PICK s, o : s = OccurrencesOf(id) /\ o = s[i]
  OBVIOUS
<1>2. s \in Seq(AnyOccurrence) /\ \A x \in Elements(s) : Right(id, x)
  BY <1>1, OccurrencesFound
<1>3. Right(id, o)
  <2>1. DOMAIN s = 1..Len(s)
    BY <1>2
  <2>2. o \in Elements(s)
    BY <1>1, <2>1 DEF Elements
  <2> QED BY <1>2, <2>2
<1>4. PICK own : own = products[o.part].shape.at
  OBVIOUS
<1>5. o.part \in DOMAIN products /\ IsPart(products[o.part])
  BY <1>3, PathsAre DEF Right
<1>6. own \in Chains(Len(datums)) /\ Len(own) <= 1
  BY <1>4, <1>5 DEF PlacedIn
<1>7. o.above \in Chains(Len(datums)) /\ o.at = Then(o.above, own)
  BY <1>3, <1>4 DEF Right
<1>8. datums \in Seq(Placed) /\ Len(datums) \in Nat
  BY DEF TypeOK
<1>9. ASSUME HasInverse(own)
      PROVE  /\ Composed(Then(o.at, Inverted(own)), datums) = Composed(o.above, datums)
             /\ Settled(o.above) => Then(o.at, Inverted(own)) = o.above
  BY <1>6, <1>7, <1>8, <1>9, AboveIsTold
<1>10. ASSUME HasInverse(o.at) PROVE Then(o.at, Inverted(o.at)) = Identity
  <2>1. o.at \in Chains(Len(datums))
    BY <1>6, <1>7, <1>8, ThenComposes
  <2> QED BY <1>8, <1>10, <2>1, InverseCancels
<1>11. ASSUME HasInverse(own), NEW within \in FileLocations
       PROVE  Composed(Then(Then(o.at, Inverted(own)), Then(own, within)), datums)
                = Composed(Then(o.at, within), datums)
  <2>1. within \in Chains(Len(datums))
    BY FilesAreChains
  <2>2. PICK a, b, c, told : /\ a = Composed(o.above, datums) /\ b = Composed(own, datums)
                             /\ c = Composed(within, datums) /\ told = Then(o.at, Inverted(own))
    OBVIOUS
  <2>3. a \in Rearranged /\ b \in Rearranged /\ c \in Rearranged
    BY <1>6, <1>7, <1>8, <2>1, <2>2, ComposedType
  <2>4. o.at \in Chains(Len(datums)) /\ Composed(o.at, datums) = Times(a, b)
    BY <1>6, <1>7, <1>8, <2>2, ThenComposes
  <2>5. told \in Chains(Len(datums)) /\ Composed(told, datums) = a
    <3>1. Inverted(own) \in Chains(Len(datums))
      BY <1>6, <1>8, <1>11, InvertedIs
    <3>2. told \in Chains(Len(datums))
      BY <1>8, <2>2, <2>4, <3>1, ThenComposes
    <3> QED BY <1>9, <1>11, <2>2, <3>2
  <2>6. Then(own, within) \in Chains(Len(datums))
        /\ Composed(Then(own, within), datums) = Times(b, c)
    BY <1>6, <1>8, <2>1, <2>2, ThenComposes
  <2>7. Composed(Then(told, Then(own, within)), datums) = Times(a, Times(b, c))
    BY <1>8, <2>5, <2>6, ThenComposes
  <2>8. Composed(Then(o.at, within), datums) = Times(Times(a, b), c)
    BY <1>8, <2>1, <2>2, <2>4, ThenComposes
  <2>9. Times(a, Times(b, c)) = Times(Times(a, b), c)
    BY <2>3, TimesAssociates
  <2> QED BY <2>2, <2>7, <2>8, <2>9
<1> QED BY <1>1, <1>4, <1>9, <1>10, <1>11

-----------------------------------------------------------------------------
(* Every placement of every state names datums there are.                  *)
PlacementsStand ==
    PlacedIn(products, Len(datums)) /\ \A i \in DOMAIN history : PlacedIn(history[i], Len(datums))

(* More datums leave the placements there are.                             *)
LEMMA PlacedGrows ==
    ASSUME NEW ps, NEW m \in Nat, NEW n \in Nat, m <= n, PlacedIn(ps, m)
    PROVE  PlacedIn(ps, n)
<1>1. Chains(m) \subseteq Chains(n)
  <2>1. Entries(m) \subseteq Entries(n)
    BY DEF Entries
  <2> QED BY <2>1 DEF Chains
<1> QED BY <1>1 DEF PlacedIn

LEMMA PushPlaced ==
    ASSUME NEW ps \in AnyTable, NEW n, PlacedIn(ps, n), NEW product,
           IF IsPart(product) THEN product.shape.at \in Chains(n) /\ Len(product.shape.at) <= 1
           ELSE \A i \in DOMAIN product.children : product.children[i].at \in Chains(n)
    PROVE  PlacedIn(Append(ps, product), n)
<1>1. PICK qs : qs = Append(ps, product)
  OBVIOUS
<1>2. \A id \in DOMAIN qs : (id \in DOMAIN ps /\ qs[id] = ps[id]) \/ qs[id] = product
  BY <1>1 DEF AnyTable
<1>3. PlacedIn(qs, n)
  <2> SUFFICES ASSUME NEW id \in DOMAIN qs
               PROVE  IF IsPart(qs[id])
                      THEN qs[id].shape.at \in Chains(n) /\ Len(qs[id].shape.at) <= 1
                      ELSE \A i \in DOMAIN qs[id].children : qs[id].children[i].at \in Chains(n)
    BY DEF PlacedIn
  <2>1. CASE id \in DOMAIN ps /\ qs[id] = ps[id]
    BY <2>1 DEF PlacedIn
  <2>2. CASE qs[id] = product
    BY <2>2
  <2> QED BY <1>2, <2>1, <2>2
<1> QED BY <1>1, <1>3

LEMMA PartPlaced ==
    ASSUME NEW ps \in AnyTable, NEW n, PlacedIn(ps, n), NEW node, NEW at \in Chains(n), Len(at) <= 1
    PROVE  PlacedIn(Append(ps, Part(node, at)), n)
<1>1. Part(node, at).kind = "part" /\ Part(node, at).shape.at = at
  BY DEF Part
<1> QED BY <1>1, PushPlaced DEF IsPart

LEMMA EmptyPlaced ==
    ASSUME NEW ps \in AnyTable, NEW n, PlacedIn(ps, n)
    PROVE  PlacedIn(Append(ps, EmptyAssembly), n)
<1>1. EmptyAssembly.kind # "part" /\ EmptyAssembly.children = <<>>
  BY DEF EmptyAssembly
<1> QED BY <1>1, PushPlaced DEF IsPart

LEMMA InstancePlaced ==
    ASSUME TypeOK, NEW n, PlacedIn(products, n), NEW a, TakesInstances(a),
           NEW p \in ProductIds, NEW at \in Chains(n)
    PROVE  PlacedIn(WithInstance(a, Instance(p, at)), n)
<1> DEFINE more == [products[a] EXCEPT !.children = Append(@, Instance(p, at))]
           qs == WithInstance(a, Instance(p, at))
<1>1. /\ a \in DOMAIN products /\ ~IsPart(products[a])
      /\ products[a] \in AnyPart \cup AnyAssembly
  BY DEF TakesInstances, InDocument, TypeOK, AnyTable
<1>2. products[a] \in AnyAssembly
  BY <1>1 DEF IsPart, AnyPart
<1>3. products[a].children \in Seq(AnyInstance) /\ more.kind = "assembly"
  BY <1>2 DEF AnyAssembly
<1>4. more.children = Append(products[a].children, Instance(p, at))
  BY <1>2 DEF AnyAssembly
<1>5. qs = [products EXCEPT ![a] = more]
  BY DEF WithInstance
<1> HIDE DEF more, qs
<1>6. \A i \in DOMAIN more.children :
        \/ i \in DOMAIN products[a].children /\ more.children[i] = products[a].children[i]
        \/ more.children[i] = Instance(p, at)
  BY <1>3, <1>4
<1>7. Instance(p, at).at = at
  BY DEF Instance
<1>8. \A i \in DOMAIN more.children : more.children[i].at \in Chains(n)
  BY <1>1, <1>6, <1>7 DEF PlacedIn
<1>9. /\ DOMAIN qs = DOMAIN products /\ qs[a] = more
      /\ \A id \in DOMAIN products \ {a} : qs[id] = products[id]
  BY <1>1, <1>5
<1>10. ~IsPart(more)
  BY <1>3 DEF IsPart
<1>11. PlacedIn(qs, n)
  <2> SUFFICES ASSUME NEW id \in DOMAIN products
               PROVE  IF IsPart(qs[id])
                      THEN qs[id].shape.at \in Chains(n) /\ Len(qs[id].shape.at) <= 1
                      ELSE \A i \in DOMAIN qs[id].children : qs[id].children[i].at \in Chains(n)
    BY <1>9 DEF PlacedIn
  <2>1. CASE id = a
    BY <1>8, <1>9, <1>10, <2>1
  <2>2. CASE id # a
    <3>1. qs[id] = products[id]
      BY <1>9, <2>2
    <3> QED BY <3>1 DEF PlacedIn
  <2> QED BY <2>1, <2>2
<1> QED BY <1>11 DEF qs

LEMMA AddInstancePlaces ==
    ASSUME TypeOK, PlacementsStand, NEW a \in ProductIds, NEW p \in ProductIds, AddInstance(a, p)
    PROVE  PlacementsStand'
<1>1. PICK t \in Placed \cup {IDENTITY} :
        /\ datums' = IF t = IDENTITY THEN datums ELSE Append(datums, t)
        /\ products' =
            IF TakesInstances(a)
            THEN WithInstance(a,
                    Instance(p, IF t = IDENTITY THEN Identity ELSE Of(Len(datums'))))
            ELSE products
  BY DEF AddInstance
<1>2. PICK m, n \in Nat : /\ m = Len(datums) /\ n = Len(datums') /\ m <= n
                          /\ (t # IDENTITY => n \in 1..n)
  <2>1. datums \in Seq(Placed)
    BY DEF TypeOK
  <2>2. Len(datums') = Len(datums) \/ (Len(datums') = Len(datums) + 1)
    BY <1>1, <2>1
  <2>3. t # IDENTITY => Len(datums') = Len(datums) + 1
    BY <1>1, <2>1
  <2> QED BY <2>1, <2>2, <2>3
<1>3. PlacedIn(products, n) /\ \A i \in DOMAIN history : PlacedIn(history[i], n)
  BY <1>2, PlacedGrows DEF PlacementsStand
<1>4. PICK at : /\ at = (IF t = IDENTITY THEN Identity ELSE Of(n)) /\ at \in Chains(n)
  <2>1. CASE t = IDENTITY
    BY <2>1, EmptyIsAChain
  <2>2. CASE t # IDENTITY
    <3>1. 1 \in Powers \ {0} /\ n \in 1..n
      BY <1>2, <2>2, PowersHoldOne
    <3>2. <<[datum |-> n, power |-> 1]>> \in Chains(n)
      BY <3>1, OneIsAChain
    <3> QED BY <2>2, <3>2 DEF Of
  <2> QED BY <2>1, <2>2
<1>5. products' = IF TakesInstances(a) THEN WithInstance(a, Instance(p, at)) ELSE products
  BY <1>1, <1>2, <1>4
<1>6. PlacedIn(products', n)
  BY <1>3, <1>4, <1>5, InstancePlaced
<1>7. history' = history
  BY DEF AddInstance, undoing
<1> QED BY <1>2, <1>3, <1>6, <1>7 DEF PlacementsStand

LEMMA ReplacePlaces ==
    ASSUME TypeOK, PlacementsStand, NEW p \in ProductIds, NEW node \in Nodes,
           NEW at \in FileLocations, ReplacePartShape(p, node, at)
    PROVE  PlacedIn(products', Len(datums))
<1> DEFINE other == [products[p] EXCEPT !.shape = [node |-> node, at |-> at]]
<1>1. p \in DOMAIN products /\ products[p] \in AnyPart \cup AnyAssembly
  BY DEF ReplacePartShape, InDocument, TypeOK, AnyTable
<1>2. products[p] \in AnyPart
  BY <1>1 DEF ReplacePartShape, IsPart, AnyAssembly
<1>3. other.kind = "part" /\ other.shape.at = at
  BY <1>2 DEF AnyPart
<1>4. products' = [products EXCEPT ![p] = other]
  BY DEF ReplacePartShape
<1> HIDE DEF other
<1>5. at \in Chains(Len(datums)) /\ Len(at) <= 1
  BY FilesAreChains
<1>6. PICK qs : qs = products'
  OBVIOUS
<1>7. /\ DOMAIN qs = DOMAIN products /\ qs[p] = other
      /\ \A id \in DOMAIN products \ {p} : qs[id] = products[id]
  BY <1>1, <1>4, <1>6
<1>8. PlacedIn(products, Len(datums))
  BY DEF PlacementsStand
<1>9. PlacedIn(qs, Len(datums))
  <2> SUFFICES ASSUME NEW id \in DOMAIN products
               PROVE  IF IsPart(qs[id])
                      THEN qs[id].shape.at \in Chains(Len(datums)) /\ Len(qs[id].shape.at) <= 1
                      ELSE \A i \in DOMAIN qs[id].children :
                                qs[id].children[i].at \in Chains(Len(datums))
    BY <1>7 DEF PlacedIn
  <2>1. CASE id = p
    BY <1>3, <1>5, <1>7, <2>1 DEF IsPart
  <2>2. CASE id # p
    <3>1. qs[id] = products[id]
      BY <1>7, <2>2
    <3> QED BY <1>8, <3>1 DEF PlacedIn
  <2> QED BY <2>1, <2>2
<1> QED BY <1>6, <1>9

LEMMA KeptPlaces ==
    ASSUME NEW h \in Seq(AnyTable), NEW ahead \in 0..Len(h), NEW n \in Nat \ {0}, NEW m,
           \A i \in DOMAIN h : PlacedIn(h[i], m)
    PROVE  \A i \in DOMAIN KeptTo(h, ahead, n) : PlacedIn(KeptTo(h, ahead, n)[i], m)
<1> DEFINE kept == KeptTo(h, ahead, n)
<1>1. /\ kept \in Seq(AnyTable) /\ Len(kept) <= Len(h)
      /\ \A i \in 1..Len(kept) : kept[i] = h[i + (Len(h) - Len(kept))]
  BY KeptIsATail
<1> HIDE DEF kept
<1>2. ASSUME NEW i \in DOMAIN kept PROVE PlacedIn(kept[i], m)
  <2>1. i \in 1..Len(kept) /\ i + (Len(h) - Len(kept)) \in 1..Len(h)
    BY <1>1
  <2> QED BY <2>1, <1>1
<1> QED BY <1>2 DEF kept

LEMMA CheckpointPlaces ==
    ASSUME TypeOK, PlacementsStand, Checkpoint
    PROVE  PlacementsStand'
<1> DEFINE behind == SubSeq(history, 1, Len(history) - undone)
           more == Append(behind, products)
<1>1. /\ behind \in Seq(AnyTable)
      /\ \A i \in DOMAIN behind : i \in DOMAIN history /\ behind[i] = history[i]
  BY SubSeqProperties DEF TypeOK
<1> HIDE DEF behind
<1>2. /\ more \in Seq(AnyTable) /\ 0 \in 0..Len(more)
      /\ \A i \in DOMAIN more : more[i] = products \/ (i \in DOMAIN behind /\ more[i] = behind[i])
  BY <1>1 DEF TypeOK
<1> HIDE DEF more
<1>3. \A i \in DOMAIN more : PlacedIn(more[i], Len(datums))
  BY <1>1, <1>2 DEF PlacementsStand
<1>4. history' = KeptTo(more, 0, undo_limit) /\ products' = products /\ datums' = datums
  BY DEF Checkpoint, structure, more, behind
<1>5. undo_limit \in Nat \ {0}
  BY DEF TypeOK
<1>6. \A i \in DOMAIN KeptTo(more, 0, undo_limit) :
        PlacedIn(KeptTo(more, 0, undo_limit)[i], Len(datums))
  BY <1>2, <1>3, <1>5, KeptPlaces
<1> QED BY <1>4, <1>6 DEF PlacementsStand

LEMMA SwapPlaces ==
    ASSUME TypeOK, PlacementsStand, NEW i \in 1..Len(history), Swap(i)
    PROVE  PlacementsStand'
  BY DEF PlacementsStand, Swap, TypeOK

LEMMA NextPlaces == TypeOK /\ PlacementsStand /\ [Next]_vars => PlacementsStand'
<1> SUFFICES ASSUME TypeOK, PlacementsStand, [Next]_vars PROVE PlacementsStand'
  OBVIOUS
<1>0. /\ PlacedIn(products, Len(datums)) /\ products \in AnyTable
      /\ \A i \in DOMAIN history : PlacedIn(history[i], Len(datums))
  BY DEF PlacementsStand, TypeOK
<1>1. CASE AddPart
  <2>1. PICK node \in Nodes, at \in FileLocations : Push(Part(node, at))
    BY <1>1 DEF AddPart
  <2>2. PlacedIn(products', Len(datums)) /\ history' = history /\ datums' = datums
    BY <2>1, <1>0, FilesAreChains, PartPlaced DEF Push, undoing
  <2> QED BY <1>0, <2>2 DEF PlacementsStand
<1>2. CASE AddAssembly
  <2>1. PlacedIn(products', Len(datums)) /\ history' = history /\ datums' = datums
    BY <1>2, <1>0, EmptyPlaced DEF AddAssembly, Push, undoing
  <2> QED BY <1>0, <2>1 DEF PlacementsStand
<1>3. CASE Checkpoint
  BY <1>3, CheckpointPlaces
<1>4. CASE Undo
  <2>1. Len(history) - undone \in 1..Len(history)
    BY <1>4 DEF Undo, TypeOK
  <2> QED BY <1>4, <2>1, SwapPlaces DEF Undo
<1>5. CASE Redo
  <2>1. Len(history) - undone + 1 \in 1..Len(history)
    BY <1>5 DEF Redo, TypeOK
  <2> QED BY <1>5, <2>1, SwapPlaces DEF Redo
<1>6. ASSUME NEW a \in ProductIds, NEW p \in ProductIds, AddInstance(a, p)
      PROVE  PlacementsStand'
  BY <1>6, AddInstancePlaces
<1>7. ASSUME NEW a \in ProductIds, NEW p \in ProductIds, AddInstanceAt(a, p)
      PROVE  PlacementsStand'
  <2>1. PICK at \in FileLocations : products' = WithInstance(a, Instance(p, at))
    BY <1>7 DEF AddInstanceAt
  <2>2. at \in Chains(Len(datums)) /\ TakesInstances(a)
    BY <1>7, FilesAreChains DEF AddInstanceAt
  <2>3. PlacedIn(products', Len(datums)) /\ history' = history /\ datums' = datums
    BY <1>0, <1>7, <2>1, <2>2, InstancePlaced DEF AddInstanceAt, undoing
  <2> QED BY <1>0, <2>3 DEF PlacementsStand
<1>8. ASSUME NEW p \in ProductIds, NEW node \in Nodes, NEW at \in FileLocations,
             ReplacePartShape(p, node, at)
      PROVE  PlacementsStand'
  <2>1. PlacedIn(products', Len(datums)) /\ history' = history /\ datums' = datums
    BY <1>8, ReplacePlaces DEF ReplacePartShape, undoing
  <2> QED BY <1>0, <2>1 DEF PlacementsStand
<1>9. ASSUME NEW n \in Limits, SetUndoLimit(n) PROVE PlacementsStand'
  <2>1. undo_limit' \in Nat \ {0}
    BY <1>9, StructureAssumption DEF SetUndoLimit
  <2>2. /\ history' = KeptTo(history, undone, undo_limit') /\ products' = products
        /\ datums' = datums /\ history \in Seq(AnyTable) /\ undone \in 0..Len(history)
    BY <1>9 DEF SetUndoLimit, structure, TypeOK
  <2>3. \A i \in DOMAIN history' : PlacedIn(history'[i], Len(datums))
    BY <1>0, <2>1, <2>2, KeptPlaces
  <2> QED BY <1>0, <2>2, <2>3 DEF PlacementsStand
<1>10. CASE UNCHANGED vars
  BY <1>10 DEF vars, structure, undoing, PlacementsStand
<1> QED BY <1>1, <1>2, <1>3, <1>4, <1>5, <1>6, <1>7, <1>8, <1>9, <1>10 DEF Next, Operation

LEMMA InitPlaces == Init => PlacementsStand
  BY DEF Init, PlacementsStand, PlacedIn

(* However placements were joined, merged, cancelled or kept over undone   *)
(* states, each names datums the model has, with powers that are not zero, *)
(* and a part stands at one datum at most.                                 *)
THEOREM PlacementsNameDatums == Spec => []PlacementsStand
<1>1. TypeOK /\ PlacementsStand /\ [Next]_vars => PlacementsStand'
  BY NextPlaces
<1> QED BY <1>1, InitPlaces, TypeCorrect, PTL DEF Spec

(* occurrences_of gives one occurrence for every way down to a part, and   *)
(* it stands where the placements along that way put it, for any table of  *)
(* products, depth, and width of the powers: merging entries, dropping     *)
(* those that cancel and leaving apart those that do not fit never moves   *)
(* anything.                                                               *)
THEOREM FlatteningFindsEveryWay == Spec => []OccurrencesArePaths
<1>1. TypeOK /\ EveryStateStandsAlone /\ PlacementsStand => OccurrencesArePaths
  BY PathsFound DEF EveryStateStandsAlone, PlacementsStand
<1> QED BY <1>1, TypeCorrect, StatesStandAlone, PlacementsNameDatums, PTL

(* What occurrences_of says of the placement above a part: the occurrence's*)
(* own followed by the inverse of the part's is the same transform, and    *)
(* the same chain where the chain above was settled; a sub-shape moved by  *)
(* it stands where it does in the occurrence; and a placement with an      *)
(* inverse cancels against it exactly.                                     *)
THEOREM AboveCanBeTold == Spec => []PlacementAboveIsTold
<1>1. TypeOK /\ EveryStateStandsAlone /\ PlacementsStand => PlacementAboveIsTold
  BY AboveTold DEF EveryStateStandsAlone, PlacementsStand
<1> QED BY <1>1, TypeCorrect, StatesStandAlone, PlacementsNameDatums, PTL
=============================================================================
