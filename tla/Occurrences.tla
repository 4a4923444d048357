---------------------------- MODULE Occurrences ----------------------------
(***************************************************************************)
(* Flattening an assembly (occurrences_of, ogeom-doc/src/structure.rs):    *)
(* every part below a product with the placements above it composed, one   *)
(* occurrence for every way down to it.                                    *)
(***************************************************************************)
EXTENDS ProductStructure

(* What flatten is called with: a product, the placements above it, and    *)
(* the way down to it as the instances taken.                              *)
Visits == [id : Nat, above : AnyLocation, path : Seq(Nat)]

Visit(id, above, path) == [id |-> id, above |-> above, path |-> path]

Below(visit, i) ==
    LET instance == Children(products, visit.id)[i]
    IN  Visit(instance.product, Then(visit.above, instance.at), Append(visit.path, i))

(* An occurrence: the part, its shape moved by the placements above it,    *)
(* those placements, and the way down.                                     *)
Occurrence(visit) ==
    LET shape == products[visit.id].shape
    IN  [part |-> visit.id, node |-> shape.node, at |-> Then(visit.above, shape.at),
         above |-> visit.above, path |-> visit.path]

Flattened[visit \in Visits] ==
    IF ~InDocument(products, visit.id) THEN <<>>
    ELSE IF IsPart(products[visit.id]) THEN <<Occurrence(visit)>>
    ELSE FlattenSeq([i \in DOMAIN Children(products, visit.id) |-> Flattened[Below(visit, i)]])

OccurrencesOf(id) == Flattened[Visit(id, Identity, <<>>)]

-----------------------------------------------------------------------------
(* The ways down from a product: the instances taken, one level at a time, *)
(* and the product each comes to, 0 where there is no such instance.       *)
WayDown(id, path) ==
    LET at[i \in 0..Len(path)] ==
            IF i = 0 THEN id
            ELSE IF path[i] \in DOMAIN Children(products, at[i - 1])
                 THEN Children(products, at[i - 1])[path[i]].product ELSE 0
    IN  at

Taken == UNION {DOMAIN Children(products, id) : id \in DOMAIN products}

PathsFrom(id) ==
    {path \in UNION {[1..n -> Taken] : n \in 0..Len(products)} :
        LET end == WayDown(id, path)[Len(path)]
        IN  InDocument(products, end) /\ IsPart(products[end])}

(* What is above each product on the way: the transforms of the instances  *)
(* taken, the outermost first.                                             *)
StandsAbove(id, path) ==
    LET way == WayDown(id, path)
        above[i \in 0..Len(path)] ==
            IF i = 0 THEN IDENTITY
            ELSE Times(above[i - 1],
                       Composed(Children(products, way[i - 1])[path[i]].at, datums))
    IN  above

StandsAt(id, path) ==
    Times(StandsAbove(id, path)[Len(path)],
          Composed(products[WayDown(id, path)[Len(path)]].shape.at, datums))

(* Flattening gives one occurrence for every way down to a part, standing  *)
(* where the placements along that way put it one after another, however   *)
(* joining their chains merged, cancelled or could not add powers.         *)
OccurrencesArePaths ==
    \A id \in DOMAIN products :
        LET found == OccurrencesOf(id)
        IN  /\ Len(found) = Cardinality(PathsFrom(id))
            /\ {found[i].path : i \in DOMAIN found} = PathsFrom(id)
            /\ \A i \in DOMAIN found :
                /\ found[i].part = WayDown(id, found[i].path)[Len(found[i].path)]
                /\ Composed(found[i].at, datums) = StandsAt(id, found[i].path)

(* No two neighbours of a chain name a datum and have powers that add up.  *)
Settled(l) ==
    \A i \in 1..(Len(l) - 1) :
        l[i].datum = l[i + 1].datum => ~Fits(l[i].power, l[i + 1].power)

(* What occurrences_of says of its answer: the placement above a part is   *)
(* the occurrence's own followed by the inverse of the part's.  It is the  *)
(* same transform, and the same chain where what is above was settled; a   *)
(* sub-shape, placed within the part's node, stands in an occurrence where *)
(* moving it by that puts it; and an occurrence's placement and its        *)
(* inverse cancel exactly.  A chain with the lowest power has no inverse   *)
(* to be told by.                                                          *)
PlacementAboveIsTold ==
    \A id \in DOMAIN products :
        LET found == OccurrencesOf(id)
        IN  \A i \in DOMAIN found :
                LET own == products[found[i].part].shape.at
                    told == Then(found[i].at, Inverted(own))
                IN  /\ HasInverse(own) =>
                        /\ Composed(told, datums) = Composed(found[i].above, datums)
                        /\ Settled(found[i].above) => told = found[i].above
                        /\ \A within \in FileLocations :
                            Composed(Then(told, Then(own, within)), datums)
                                = Composed(Then(found[i].at, within), datums)
                    /\ HasInverse(found[i].at) =>
                            Then(found[i].at, Inverted(found[i].at)) = Identity
=============================================================================
