-------------------------- MODULE ProductStructure --------------------------
(***************************************************************************)
(* The product structure of a document (Document, ogeom-doc/src/           *)
(* structure.rs): parts carrying a shape and assemblies carrying           *)
(* instances, each a product and a placement; and the states an undo can   *)
(* return to.  A product is named by its place in the table, and a caller  *)
(* may hold one from a state that was undone since.                        *)
(*                                                                         *)
(* A state is the table of products.  The attributes restored along with   *)
(* it, which no operation here reads, are left out.  The model underneath, *)
(* whose datums the placements name, is never undone.                      *)
(***************************************************************************)
EXTENDS Locations, FiniteSets

CONSTANTS
    Nodes,          \* what a part's shape can be
    Placed,         \* the transforms instances are placed at, but identity
    FilePowers,     \* the powers in placements read from a file
    DEFAULT_UNDO_LIMIT,
    Limits,         \* the limits a caller sets
    MaxProducts,    \* bound: how many products
    MaxInstances,   \* bound: how many instances, in all
    MaxDatums,      \* bound: how many datums
    MaxPlaced,      \* bound: how many instances where there are datums
    MaxMarked,      \* bound: how many products where states are kept
    MaxKept         \* bound: how many states are kept

ASSUME StructureAssumption ==
    /\ Placed \subseteq Transforms \ {IDENTITY}
    /\ FilePowers \subseteq Powers \ {0}
    /\ {DEFAULT_UNDO_LIMIT, MaxProducts, MaxInstances, MaxDatums, MaxPlaced,
        MaxMarked, MaxKept} \subseteq Nat
    /\ DEFAULT_UNDO_LIMIT # 0 /\ Limits \subseteq Nat

VARIABLES
    products,       \* the products, in the order added
    datums,         \* the datums of the model
    history,        \* the states kept, oldest first
    undone,         \* how many of its tail are ahead of the caller
    undo_limit      \* how many are kept behind

structure == <<products, datums>>
undoing == <<history, undone, undo_limit>>
vars == <<structure, undoing>>

-----------------------------------------------------------------------------
ProductIds == 1..MaxProducts
InDocument(ps, id) == id \in DOMAIN ps
IsPart(product) == product.kind = "part"

Children(ps, id) ==
    IF InDocument(ps, id) /\ ~IsPart(ps[id]) THEN ps[id].children ELSE <<>>

Places(ps, id) == {Children(ps, id)[i].product : i \in DOMAIN Children(ps, id)}

(* contains_product: what the tree under a product reaches, itself first:  *)
(* everything in all the sets of products that hold it and are closed.     *)
Closed(ps, S) == \A p \in S : Places(ps, p) \subseteq S

Contained(ps, id) ==
    {p \in DOMAIN ps \cup {id} :
        \A S \in SUBSET (DOMAIN ps \cup {id}) : id \in S /\ Closed(ps, S) => p \in S}

contains_product(haystack, needle) == needle \in Contained(products, haystack)

(* What a file, or a caller holding datums, may place something at.        *)
FileLocations ==
    {Identity} \cup {<<[datum |-> d, power |-> p]>> : d \in DOMAIN datums, p \in FilePowers}

InstancesOf(ps) == UNION {{id} \X (DOMAIN Children(ps, id)) : id \in DOMAIN ps}

Instance(product, at) == [product |-> product, at |-> at]

Part(node, at) == [kind |-> "part", shape |-> [node |-> node, at |-> at]]
EmptyAssembly == [kind |-> "assembly", children |-> <<>>]

AnyLocation == Seq([datum : Nat, power : Powers])
AnyInstance == [product : ProductIds, at : AnyLocation]
AnyPart == [kind : {"part"}, shape : [node : Nodes, at : AnyLocation]]
AnyAssembly == [kind : {"assembly"}, children : Seq(AnyInstance)]
AnyTable == Seq(AnyPart \cup AnyAssembly)

TypeOK ==
    /\ products \in AnyTable
    /\ datums \in Seq(Placed)
    /\ history \in Seq(AnyTable)
    /\ undone \in 0..Len(history)
    /\ undo_limit \in Nat \ {0}

-----------------------------------------------------------------------------
Init ==
    /\ products = <<>> /\ datums = <<>>
    /\ history = <<>> /\ undone = 0 /\ undo_limit = DEFAULT_UNDO_LIMIT

Push(product) ==
    /\ products' = Append(products, product)
    /\ UNCHANGED <<datums, undoing>>

AddPart == \E node \in Nodes, at \in FileLocations : Push(Part(node, at))

AddAssembly == Push(EmptyAssembly)

(* Mutant of Placeable: the trees are looked into the wrong way round.     *)
PlaceableUpsideDown(assembly, product) ==
    InDocument(products, product) /\ ~contains_product(assembly, product)

(* What is refused before anything is done.                                *)
Placeable(assembly, product) ==
    InDocument(products, product) /\ ~contains_product(product, assembly)

TakesInstances(assembly) == InDocument(products, assembly) /\ ~IsPart(products[assembly])

WithInstance(assembly, instance) ==
    [products EXCEPT ![assembly].children = Append(@, instance)]

(* The placement becomes a datum before the assembly is looked up: where   *)
(* that refuses, the datum stays.                                          *)
AddInstance(assembly, product) ==
    /\ Placeable(assembly, product)
    /\ \E t \in Placed \cup {IDENTITY} :
        /\ datums' = IF t = IDENTITY THEN datums ELSE Append(datums, t)
        /\ products' =
            IF TakesInstances(assembly)
            THEN WithInstance(assembly,
                    Instance(product, IF t = IDENTITY THEN Identity ELSE Of(Len(datums'))))
            ELSE products
    /\ UNCHANGED undoing

AddInstanceAt(assembly, product) ==
    /\ TakesInstances(assembly) /\ Placeable(assembly, product)
    /\ \E at \in FileLocations : products' = WithInstance(assembly, Instance(product, at))
    /\ UNCHANGED <<datums, undoing>>

ReplacePartShape(product, node, at) ==
    /\ InDocument(products, product) /\ IsPart(products[product])
    /\ products' = [products EXCEPT ![product].shape = [node |-> node, at |-> at]]
    /\ UNCHANGED <<datums, undoing>>

-----------------------------------------------------------------------------
(* Mutant of KeptTo: the newest of the states behind go.                   *)
KeptOldest(h, ahead, n) ==
    IF Len(h) - ahead > n
    THEN SubSeq(h, 1, n) \o SubSeq(h, Len(h) - ahead + 1, Len(h)) ELSE h

(* keep_to_limit: the oldest of the states behind the caller go.           *)
KeptTo(h, ahead, n) ==
    IF Len(h) - ahead > n THEN SubSeq(h, Len(h) - ahead - n + 1, Len(h)) ELSE h

Checkpoint ==
    /\ history' = KeptTo(Append(SubSeq(history, 1, Len(history) - undone), products),
                         0, undo_limit)
    /\ undone' = 0
    /\ UNCHANGED <<structure, undo_limit>>

SetUndoLimit(n) ==
    /\ undo_limit' = IF n = 0 THEN 1 ELSE n
    /\ history' = KeptTo(history, undone, undo_limit')
    /\ UNCHANGED <<structure, undone>>

(* The state left is kept in the place of the one gone back to.            *)
Swap(i) ==
    /\ products' = history[i]
    /\ history' = [history EXCEPT ![i] = products]
    /\ UNCHANGED <<datums, undo_limit>>

Undo ==
    /\ Len(history) > undone
    /\ Swap(Len(history) - undone)
    /\ undone' = undone + 1

Redo ==
    /\ undone > 0
    /\ Swap(Len(history) - undone + 1)
    /\ undone' = undone - 1

(* Undoing never looks at a placement, so the documents whose states are   *)
(* kept are kept small, and those with placements keep none.               *)
WithinBounds ==
    LET instances == Cardinality(InstancesOf(products))
    IN  /\ Len(products) <= MaxProducts /\ Len(datums) <= MaxDatums
        /\ instances <= MaxInstances /\ Len(history) <= MaxKept
        /\ datums # <<>> => instances <= MaxPlaced
        /\ history # <<>> => datums = <<>> /\ Len(products) <= MaxMarked

Operation ==
    \/ AddPart \/ AddAssembly \/ Checkpoint \/ Undo \/ Redo
    \/ \E a, p \in ProductIds : AddInstance(a, p) \/ AddInstanceAt(a, p)
    \/ \E p \in ProductIds, node \in Nodes, at \in FileLocations :
        ReplacePartShape(p, node, at)
    \/ \E n \in Limits : SetUndoLimit(n)

Next == Operation /\ WithinBounds'

Spec == Init /\ [][Next]_vars

-----------------------------------------------------------------------------
(* A table that can be walked from anywhere: what its instances place is   *)
(* in it and nothing is placed below itself.                               *)
StandsAlone(ps) ==
    \A id \in DOMAIN ps :
        /\ Places(ps, id) \subseteq DOMAIN ps
        /\ \A child \in Places(ps, id) : id \notin Contained(ps, child)

(* The present state and every one that undo or redo may bring back can be *)
(* walked, whatever ids callers kept over the states they were taken from: *)
(* flattening an assembly ends, and roots finds every product it marks.    *)
EveryStateStandsAlone ==
    StandsAlone(products) /\ \A i \in DOMAIN history : StandsAlone(history[i])

(* Undo and redo move along a line of states and change none of them.      *)
Behind == SubSeq(history, 1, Len(history) - undone)
Ahead == SubSeq(history, Len(history) - undone + 1, Len(history))

TimelineOf == INSTANCE Timeline
    WITH past <- Behind, present <- products, future <- Ahead, limit <- undo_limit,
         States <- AnyTable, Limits <- Nat \ {0}

ImplementsTimeline == TimelineOf!Spec
=============================================================================
