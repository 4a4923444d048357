--------------------------- MODULE ModelDocument ---------------------------
(***************************************************************************)
(* A model as a document: what it drops (`retain_reachable`), what it      *)
(* writes and reads back (`write`, `read`, `compacted`), and what it takes *)
(* in from another document (`read_into`, `absorb`).  ogeom-topo/model.rs  *)
(* and ogeom-io/native.rs.                                                 *)
(*                                                                         *)
(* Three kinds of node tell apart what the code treats apart: a vertex     *)
(* holds its own data, an edge names geometry in another store and has an  *)
(* identity, a compound has neither and takes children of any kind.        *)
(* Slots, geometry handles and identities count up from 1; datums are      *)
(* never dropped and travel like geometry, and are left out.               *)
(***************************************************************************)
EXTENDS Integers, FiniteSets, Functions

CONSTANTS
    Points,         \* the data of a vertex
    Geometry,       \* what a curve may be
    MaxSlots,       \* bound: slots a run hands out
    MaxCurves,      \* bound: curves a run adds
    MaxIssued,      \* bound: identities a run issues
    MaxNamed,       \* bound: shapes a call names at once
    Damages         \* what may be wrong with a file read in

ASSUME BoundsAssumption == MaxSlots \in Nat /\ MaxCurves \in Nat /\ MaxIssued \in Nat /\ MaxNamed \in Nat
ASSUME DamagesAssumption == Damages \subseteq {"none", "child", "root"}

Slots == 1..MaxSlots
Ids == 1..MaxIssued
Kinds == {"vertex", "edge", "compound"}

VARIABLES
    nodes,          \* what each live slot holds
    slots,          \* slots handed out
    curves,         \* the geometry each live curve handle names
    curve_slots,    \* curve handles handed out
    sources,        \* what each identity with an entry was derived from
    issued,         \* identities issued
    identity,       \* the identity of each node that has one
    litter          \* what reads that failed left behind, which no caller holds

geometry == <<curves, curve_slots>>
provenance == <<sources, issued>>
vars == <<nodes, slots, geometry, provenance, identity, litter>>

None == 0   \* the curve, or the data, of a node that has none

Node == [kind : Kinds, value : Points \cup {None}, curve : Nat, children : SUBSET (Nat \ {0})]

TypeOK ==
    /\ slots \in 0..MaxSlots
    /\ DOMAIN nodes \subseteq 1..slots
    /\ nodes \in [DOMAIN nodes -> Node]
    /\ curve_slots \in 0..MaxCurves
    /\ DOMAIN curves \subseteq 1..curve_slots
    /\ curves \in [DOMAIN curves -> Geometry]
    /\ issued \in 0..MaxIssued
    /\ DOMAIN sources \subseteq 1..issued
    /\ sources \in [DOMAIN sources -> SUBSET Ids]
    /\ DOMAIN identity \subseteq DOMAIN nodes
    /\ identity \in [DOMAIN identity -> Ids]
    /\ litter \subseteq DOMAIN nodes

Init ==
    /\ nodes = <<>>
    /\ slots = 0
    /\ curves = <<>>
    /\ curve_slots = 0
    /\ sources = <<>>
    /\ issued = 0
    /\ identity = <<>>
    /\ litter = {}

-----------------------------------------------------------------------------
(* Walks over a graph: what `from` reaches along `next`, a function from   *)
(* each vertex of the graph to the set of the next ones.                   *)
Closures(from, next) ==
    {S \in SUBSET DOMAIN next : from \subseteq S /\ \A x \in S : next[x] \subseteq S}

Reach(from, next) ==
    CHOOSE S \in Closures(from, next) : \A T \in Closures(from, next) : S \subseteq T

Children(ns) == [i \in DOMAIN ns |-> ns[i].children \cap DOMAIN ns]
Parents(src) == [a \in DOMAIN src |-> src[a] \cap DOMAIN src]

Below(roots) == Reach(roots, Children(nodes))
CurvesOf(S) == {nodes[i].curve : i \in S} \ {None}
IdentitiesOf(S) == {identity[i] : i \in S \cap DOMAIN identity}
OwnEntries(ids) == ids \cap DOMAIN sources
Ancestry(ids) == Reach(ids \cap DOMAIN sources, Parents(sources))

(* What callers can name: what they built or took in and what they find    *)
(* below it, as far as it still resolves.                                  *)
Usable == DOMAIN nodes \ litter

Extended(f, x, y) == [z \in DOMAIN f \cup {x} |-> IF z = x THEN y ELSE f[z]]

-----------------------------------------------------------------------------
(* Builders.                                                               *)
FirstEmptySlot ==
    CHOOSE i \in 1..(slots + 1) :
        i \notin DOMAIN nodes /\ \A j \in 1..(i - 1) : j \in DOMAIN nodes

NextSlot == slots + 1

EntriesKept == Cardinality(DOMAIN sources) + 1

NextId == issued + 1

Insert(node) ==
    /\ NextSlot \in Slots
    /\ nodes' = Extended(nodes, NextSlot, node)
    /\ slots' = slots + 1
    /\ litter' = litter

Record(from, i) ==
    /\ issued < MaxIssued
    /\ sources' = Extended(sources, NextId, from)
    /\ issued' = NextId
    /\ identity' = Extended(identity, i, NextId)

AddCurve(g) ==
    /\ curve_slots < MaxCurves
    /\ curves' = Extended(curves, curve_slots + 1, g)
    /\ curve_slots' = curve_slots + 1
    /\ UNCHANGED <<nodes, slots, provenance, identity, litter>>

AddVertex(p) ==
    /\ Insert([kind |-> "vertex", value |-> p, curve |-> None, children |-> {}])
    /\ UNCHANGED <<geometry, provenance, identity>>

AddEdge(c, ends) ==
    /\ Cardinality(ends) <= 2
    /\ \A i \in ends : nodes[i].kind = "vertex"
    /\ Insert([kind |-> "edge", value |-> None, curve |-> c, children |-> ends])
    /\ Record({}, NextSlot)
    /\ UNCHANGED geometry

AddCompound(shapes) ==
    /\ Insert([kind |-> "compound", value |-> None, curve |-> None, children |-> shapes])
    /\ UNCHANGED <<geometry, provenance, identity>>

SetDerived(i, from) ==
    /\ Record(IdentitiesOf(from), i)
    /\ UNCHANGED <<nodes, slots, geometry, litter>>

(* Drop what the roots do not reach.                                       *)
RetainReachable(roots) ==
    LET kept == Below(roots)
    IN  /\ nodes' = Restrict(nodes, kept)
        /\ curves' = Restrict(curves, DOMAIN curves \cap CurvesOf(kept))
        /\ sources' = Restrict(sources, Ancestry(IdentitiesOf(kept)))
        /\ identity' = Restrict(identity, kept \cap DOMAIN identity)
        /\ litter' = litter \cap kept
        /\ UNCHANGED <<slots, curve_slots, issued>>

-----------------------------------------------------------------------------
(* Writing.  A file holds what its roots reach, or, with none, the whole   *)
(* model; its records are numbered 1, 2, 3, ... in the model's order and   *)
(* its entities keep their identities.                                     *)
Rank(S, x) == Cardinality({y \in S : y < x}) + 1
At(S, k) == CHOOSE x \in S : Rank(S, x) = k
Ranks(S) == 1..Cardinality(S)

Chosen(roots) == IF roots = {} THEN DOMAIN nodes ELSE Below(roots)
ChosenCurves(roots) == IF roots = {} THEN DOMAIN curves ELSE CurvesOf(Below(roots))
ChosenIds(roots) ==
    IF roots = {} THEN DOMAIN sources ELSE Ancestry(IdentitiesOf(Below(roots)))

Gapless == DOMAIN nodes = 1..Cardinality(DOMAIN nodes)
           /\ DOMAIN curves = 1..Cardinality(DOMAIN curves)

(* A gapless model without roots is written as it stands; anything else is *)
(* a subset, which every handle written must lie in.                       *)
Writes(roots) ==
    \/ roots = {} /\ Gapless
    \/ /\ \A i \in Chosen(roots) : nodes[i].children \subseteq Chosen(roots)
       /\ CurvesOf(Chosen(roots)) \subseteq DOMAIN curves

CurvesOnly(node, S, C) ==
    [node EXCEPT !.curve = IF @ = None THEN None ELSE Rank(C, @)]

Respelled(node, S, C) ==
    [node EXCEPT !.children = {Rank(S, c) : c \in @},
                 !.curve = IF @ = None THEN None ELSE Rank(C, @)]

Written(roots) ==
    LET S == Chosen(roots)
        C == ChosenCurves(roots)
    IN  [nodes |-> [k \in Ranks(S) |-> Respelled(nodes[At(S, k)], S, C)],
         curves |-> [k \in Ranks(C) |-> curves[At(C, k)]],
         entries |-> Restrict(sources, ChosenIds(roots)),
         identity |-> [k \in {j \in Ranks(S) : At(S, j) \in DOMAIN identity}
                            |-> identity[At(S, k)]],
         roots |-> {Rank(S, r) : r \in roots}]

-----------------------------------------------------------------------------
(* Reading.  A file that skips an identity leaves its place to a bare      *)
(* primitive, forgotten again once the file has been taken in.             *)
(* The length of the table read: its entries, and a place for every        *)
(* identity skipped before the last of them.                               *)
LastId(file) == Cardinality({a \in Ids : \E b \in DOMAIN file.entries : a <= b})

Gaps(file) == (1..LastId(file)) \ DOMAIN file.entries

Table(file) ==
    [a \in 1..LastId(file) |-> IF a \in Gaps(file) THEN {} ELSE file.entries[a]]

Recordable(file) ==
    /\ \A a \in DOMAIN file.entries :
          file.entries[a] \cap Gaps(file) = {} /\ \A s \in file.entries[a] : s < a
    /\ \A i \in DOMAIN file.identity : file.identity[i] \notin Gaps(file)

Restorable(file) ==
    /\ \A i \in DOMAIN file.nodes :
          LET node == file.nodes[i]
          IN  /\ node.children \subseteq DOMAIN file.nodes
              /\ node.kind = "edge" =>
                    \A c \in node.children : file.nodes[c].kind = "vertex"
              /\ node.curve \in DOMAIN file.curves \cup {None}
    /\ DOMAIN file.identity \subseteq DOMAIN file.nodes
    /\ \A i \in DOMAIN file.identity : file.identity[i] <= LastId(file)

RootsThere(file) == file.roots \subseteq DOMAIN file.nodes

Reads(file) == Recordable(file) /\ Restorable(file) /\ RootsThere(file)

(* What is read is appended: every handle moves past what the model holds. *)
Beyond(f, last, g) ==
    [x \in DOMAIN f \cup {last + k : k \in DOMAIN g} |->
        IF x \in DOMAIN f THEN f[x] ELSE g[x - last]]

CurvesPastNodes(node) ==
    [node EXCEPT !.children = {slots + c : c \in @},
                 !.curve = IF @ = None THEN None ELSE slots + @]

Shifted(node) ==
    [node EXCEPT !.children = {slots + c : c \in @},
                 !.curve = IF @ = None THEN None ELSE curve_slots + @]

IdOffset == issued

ShiftedSources(from) == {IdOffset + s : s \in from}

Recorded(file) ==
    Beyond(sources, IdOffset,
           [a \in 1..LastId(file) |-> ShiftedSources(Table(file)[a])])

(* Everything is appended before it is checked; identities are committed   *)
(* once the nodes and their handles have been, the roots bound after that, *)
(* and the gaps forgotten last.                                            *)
ReadInto(file) ==
    LET taken == Restorable(file) /\ RootsThere(file)
    IN  /\ Recordable(file)
        /\ slots + Cardinality(DOMAIN file.nodes) <= MaxSlots
        /\ curve_slots + Cardinality(DOMAIN file.curves) <= MaxCurves
        /\ issued + LastId(file) <= MaxIssued
        /\ nodes' = Beyond(nodes, slots, [k \in DOMAIN file.nodes |-> Shifted(file.nodes[k])])
        /\ slots' = slots + Cardinality(DOMAIN file.nodes)
        /\ curves' = Beyond(curves, curve_slots, file.curves)
        /\ curve_slots' = curve_slots + Cardinality(DOMAIN file.curves)
        /\ issued' = issued + LastId(file)
        /\ sources' = IF taken
                      THEN Restrict(Recorded(file),
                                    DOMAIN Recorded(file) \ {IdOffset + a : a \in Gaps(file)})
                      ELSE Recorded(file)
        /\ identity' = IF Restorable(file)
                       THEN Beyond(identity, slots,
                                   [i \in DOMAIN file.identity |-> IdOffset + file.identity[i]])
                       ELSE identity
        /\ litter' = IF taken THEN litter ELSE litter \cup {slots + i : i \in DOMAIN file.nodes}

(* A file as it was written, or naming a child or a root it does not hold. *)
Damaged(file, damage) ==
    LET missing == Cardinality(DOMAIN file.nodes) + 1
    IN  CASE damage = "none" -> {file}
          [] damage = "root" -> {[file EXCEPT !.roots = {missing}]}
          [] damage = "child" ->
                {[file EXCEPT !.nodes[i].children = @ \cup {missing}] :
                    i \in {j \in DOMAIN file.nodes : file.nodes[j].kind # "vertex"}}

(* compacted: what the roots reach, written and read into a fresh model.   *)
Compact(roots) ==
    LET file == Written(roots)
    IN  /\ Writes(roots) /\ Reads(file)
        /\ nodes' = file.nodes
        /\ slots' = Cardinality(DOMAIN file.nodes)
        /\ curves' = file.curves
        /\ curve_slots' = Cardinality(DOMAIN file.curves)
        /\ sources' = file.entries
        /\ issued' = LastId(file)
        /\ identity' = file.identity
        /\ litter' = {}

-----------------------------------------------------------------------------
Named == {S \in SUBSET Usable : Cardinality(S) <= MaxNamed}

Next ==
    \/ \E g \in Geometry : AddCurve(g)
    \/ \E p \in Points : AddVertex(p)
    \/ \E c \in DOMAIN curves \cup {None}, ends \in Named : AddEdge(c, ends)
    \/ \E shapes \in Named : AddCompound(shapes)
    \/ \E i \in Usable, from \in Named : SetDerived(i, from)
    \/ \E roots \in Named : RetainReachable(roots)
    \/ \E root \in Usable, damage \in Damages :
          Writes({root}) /\ \E file \in Damaged(Written({root}), damage) : ReadInto(file)
    \/ \E roots \in Named \ {{}} : Compact(roots)

Spec == Init /\ [][Next]_vars

-----------------------------------------------------------------------------
(* What a shape is, down to its vertices and its geometry, whatever the    *)
(* handles that spell it.                                                  *)
Meanings(ns, cs) ==
    LET meaning[i \in DOMAIN ns] ==
            [kind |-> ns[i].kind,
             value |-> ns[i].value,
             curve |-> IF ns[i].curve \in DOMAIN cs THEN cs[ns[i].curve] ELSE None,
             parts |-> {meaning[c] : c \in ns[i].children \cap DOMAIN ns}]
    IN  meaning

(* What a lineage query on a node sees: the entries of its identity's      *)
(* ancestry, each identity moved by `offset`.                              *)
LineageOf(i, ids, src, offset) ==
    LET ancestors == IF i \in DOMAIN ids
                     THEN Reach({ids[i]} \cap DOMAIN src, Parents(src))
                     ELSE {}
    IN  {<<offset + a, {offset + s : s \in src[a]}>> : a \in ancestors}

(* Every identity a node carries has an entry, and so has everything it    *)
(* derives from, however often the model was trimmed, written, read and    *)
(* extended (retain_reachable, forget_provenance): a lineage query never   *)
(* runs into an identity that answers nothing.                             *)
LineageComplete ==
    /\ \A i \in DOMAIN identity : identity[i] \in DOMAIN sources
    /\ \A a \in DOMAIN sources : sources[a] \subseteq DOMAIN sources

(* An entity derives only from entities issued before it, whatever offsets *)
(* documents were taken in at: the derivation graph has no cycle.          *)
DerivedFromEarlier == \A a \in DOMAIN sources : \A s \in sources[a] : s < a

(* The nodes chosen are in the file, by rank, as they are in the model.    *)
ReadsBack(chosen, file) ==
    LET here == Meanings(nodes, curves)
        there == Meanings(file.nodes, file.curves)
    IN  /\ Reads(file)
        /\ \A i \in chosen :
              LET k == Rank(chosen, i)
              IN  /\ there[k] = here[i]
                  /\ LineageOf(k, file.identity, file.entries, 0)
                        = LineageOf(i, identity, sources, 0)

(* A shape written as a root reads back as what it was, with the same      *)
(* identities and lineage below it, after any drops and failed reads.      *)
RootsReadBack ==
    \A r \in Usable : Writes({r}) /\ ReadsBack(Below({r}), Written({r}))

(* The whole model, written without roots as write_document does, reads    *)
(* back as the same model, or is refused by the writer.                    *)
WholeReadsBack == Writes({}) => ReadsBack(DOMAIN nodes, Written({}))

(* A handle means the same for as long as it resolves, and one that stops  *)
(* resolving never resolves again: no later node takes its slot, whatever  *)
(* is dropped, built or taken in meanwhile.  A compaction hands out new    *)
(* handles and is the exception.                                           *)
HandlesKeepTheirMeaning ==
    [][slots' >= slots =>
        \A i \in (1..slots) \ litter :
            /\ i \notin DOMAIN nodes => i \notin DOMAIN nodes'
            /\ i \in DOMAIN nodes \cap DOMAIN nodes' =>
                  Meanings(nodes', curves')[i] = Meanings(nodes, curves)[i]]_vars

(* Trimming a model keeps every root with all it means and its lineage.    *)
RetainKeepsRoots ==
    [][\A roots \in Named : slots' = slots /\ RetainReachable(roots) =>
        \A r \in roots :
            /\ r \in DOMAIN nodes'
            /\ Meanings(nodes', curves')[r] = Meanings(nodes, curves)[r]
            /\ LineageOf(r, identity', sources', 0) = LineageOf(r, identity, sources, 0)]_vars

(* A shape taken in from a file is what it was in the file, its identities *)
(* moved past every identity this model has issued, and the lineage of     *)
(* what was here before is untouched.                                      *)
TakenInAsWritten ==
    [][\A r \in Usable : slots' > slots /\ ReadInto(Written({r})) =>
        LET at == slots + Rank(Below({r}), r)
        IN  /\ Meanings(nodes', curves')[at] = Meanings(nodes, curves)[r]
            /\ LineageOf(at, identity', sources', 0) = LineageOf(r, identity, sources, issued)
            /\ \A i \in DOMAIN nodes :
                  LineageOf(i, identity', sources', 0) = LineageOf(i, identity, sources, 0)]_vars

(* In a compacted model the identities left out stay issued and resolve to *)
(* nothing (the comment on compacted): no later entity takes one.          *)
LeftOutStayIssued ==
    [][\A roots \in Named : Compact(roots) => issued' >= issued]_vars
=============================================================================
