----------------------------- MODULE ModelKept -----------------------------
(***************************************************************************)
(* What a model keeps beside its topology (ogeom-topo/src/model.rs and     *)
(* kept.rs): the box of each face, what readers found of a whole shape,    *)
(* and the marks of nodes that several shapes hold.  Boxes and reads are   *)
(* filled by readers that share the model, and forgotten by the exclusive  *)
(* operations that change what they were found from.  An editor has the    *)
(* nodes others hold copied before it edits.                               *)
(*                                                                         *)
(* Shells over faces over edges over vertices: a wire holds edges as a     *)
(* face does, and what is above a face keeps no box and is not linked to.  *)
(* The geometry is told by how often it was rewritten in place; placements *)
(* and identities are left out.                                            *)
(***************************************************************************)
EXTENDS Integers, Sequences, FiniteSets

CONSTANTS
    Readers,    \* threads that read the model at once
    SHAPES,     \* how many shapes keep their reads
    MaxSlots,   \* bound: nodes a run adds
    MaxChanges  \* bound: edits of a node, and rewrites of the geometry

ASSUME KeptAssumption == SHAPES \in Nat \ {0} /\ MaxSlots \in Nat /\ MaxChanges \in Nat

Kinds == {"vertex", "edge", "face", "shell"}

VARIABLES
    nodes,          \* what each live slot holds, and what is kept beside it
    slots,          \* slots handed out
    any_held,       \* whether some node is marked held
    boxes,          \* the face boxes: in each place none, or one
    box_revision,   \* the surface rewrites the boxes were found against
    box_any,        \* whether a box was kept since all were last forgotten
    revision,       \* rewrites of a surface
    edits,          \* rewrites of a surface or a pcurve
    reads,          \* what is kept of whole shapes, the oldest first
    shapes,         \* the shapes callers hold
    since,          \* the slots handed out when an operation began
    readers,        \* what each reader is in the middle of
    clone           \* none, or a clone being made

kept_boxes == <<boxes, box_revision, box_any>>
geometry == <<revision, edits>>
sharing == <<readers, clone>>
vars == <<nodes, slots, any_held, kept_boxes, geometry, reads, shapes, since, sharing>>

NoOperation == -1
Idle == [doing |-> "nothing", of |-> 0, below |-> {}]

Node == [kind : Kinds, data : Nat, tolerance : Nat,
         children : SUBSET (1..MaxSlots), held_by : SUBSET (1..MaxSlots),
         held : BOOLEAN, box : 0..MaxSlots]

-----------------------------------------------------------------------------
(* The graph.  A shell is three steps above a vertex.                      *)
Children(S) == UNION {nodes[i].children : i \in S}
WithChildren(S) == S \cup Children(S)
Below(S) == WithChildren(WithChildren(WithChildren(S)))

Holders(S) == {h \in DOMAIN nodes : \E i \in S : h \in nodes[i].held_by}
Above(S) == S \cup Holders(S) \cup Holders(Holders(S))

Linkable(node) == node.kind \in {"edge", "face"}

Faces == {i \in DOMAIN nodes : nodes[i].kind = "face"}

(* What a shape is: its data and that of everything below it.              *)
Meanings(ns) ==
    LET meaning[i \in DOMAIN ns] ==
            [kind |-> ns[i].kind, data |-> ns[i].data,
             parts |-> {meaning[c] : c \in ns[i].children}]
    IN  meaning

Tolerances(ns) ==
    LET tolerances[i \in DOMAIN ns] ==
            [own |-> ns[i].tolerance, parts |-> {tolerances[c] : c \in ns[i].children}]
    IN  tolerances

(* What a reader finds now: of a face its box, which does not depend on    *)
(* tolerances or on pcurves; of a shape anything below it.                 *)
Box(i) == [face |-> Meanings(nodes)[i], revision |-> revision]
Read(i) == [shape |-> Meanings(nodes)[i], tolerances |-> Tolerances(nodes)[i], edits |-> edits]

TypeOK ==
    /\ slots \in 0..MaxSlots
    /\ DOMAIN nodes \subseteq 1..slots
    /\ \A i \in DOMAIN nodes :
          /\ nodes[i] \in Node
          /\ nodes[i].children \subseteq DOMAIN nodes
          /\ nodes[i].box \in IF nodes[i].kind = "face" THEN DOMAIN boxes ELSE {0}
    /\ \A i, j \in Faces : nodes[i].box = nodes[j].box => i = j
    /\ Len(boxes) = Cardinality(Faces)
    /\ \A k \in DOMAIN boxes : Cardinality(boxes[k]) <= 1
    /\ any_held = (\E i \in DOMAIN nodes : nodes[i].held)
    /\ box_revision <= revision /\ revision <= edits
    /\ Len(reads) <= SHAPES
    /\ shapes \subseteq DOMAIN nodes
    /\ since \in {NoOperation} \cup 0..slots
    /\ \A r \in Readers : readers[r].doing \in {"nothing", "store", "init", "walk", "keep"}

Init ==
    /\ nodes = <<>>
    /\ slots = 0
    /\ any_held = FALSE
    /\ boxes = <<>>
    /\ box_revision = 0
    /\ box_any = FALSE
    /\ revision = 0
    /\ edits = 0
    /\ reads = <<>>
    /\ shapes = {}
    /\ since = NoOperation
    /\ readers = [r \in Readers |-> Idle]
    /\ clone = {}

(* An exclusive operation runs while nobody reads the model.               *)
Alone == clone = {} /\ \A r \in Readers : readers[r] = Idle

-----------------------------------------------------------------------------
(* Forgetting.                                                             *)
Stale == box_revision # revision

(* sync_face_boxes: every box, once a surface was rewritten.               *)
SyncedBoxes == IF Stale /\ box_any THEN [k \in DOMAIN boxes |-> {}] ELSE boxes
SyncedAny == box_any /\ ~Stale

Sync ==
    /\ box_revision' = revision
    /\ box_any' = SyncedAny

BoxesOf(S) == {nodes[i].box : i \in S \cap Faces}

Forgotten(S) == [k \in DOMAIN boxes |-> IF k \in BoxesOf(S) THEN {} ELSE SyncedBoxes[k]]

(* The numbers of a set in order, and what stands at some of the places of *)
(* a sequence.                                                             *)
Rank(S, x) == Cardinality({y \in S : y < x}) + 1
At(S, k) == CHOOSE x \in S : Rank(S, x) = k
Those(s, places) == [k \in 1..Cardinality(places) |-> s[At(places, k)]]

(* The reads left once the nodes S have been handed out for changing.      *)
ReadsWithout(S) == Those(reads, {k \in DOMAIN reads : reads[k].below \cap S = {}})

-----------------------------------------------------------------------------
(* An operation adds nodes over what it made itself and what lies below    *)
(* the shapes it is given, and ends with a result.                         *)
Made == {i \in DOMAIN nodes : i > since}
OfKind(kind) == {i \in Made \cup Below(shapes) : nodes[i].kind = kind}

Begin ==
    /\ Alone
    /\ since = NoOperation
    /\ since' = slots
    /\ UNCHANGED <<nodes, slots, any_held, kept_boxes, geometry, reads, shapes, sharing>>

(* insert_node, with link_children: the children of edges and faces know   *)
(* what holds them.                                                        *)
Insert(kind, children) ==
    LET made == slots + 1
        place == IF kind = "face" THEN Len(boxes) + 1 ELSE 0
    IN  /\ Alone
        /\ since # NoOperation
        /\ slots < MaxSlots
        /\ slots' = made
        /\ nodes' = [i \in DOMAIN nodes \cup {made} |->
              IF i = made
              THEN [kind |-> kind, data |-> 0, tolerance |-> 0, children |-> children,
                    held_by |-> {}, held |-> FALSE, box |-> place]
              ELSE [nodes[i] EXCEPT !.held_by =
                       @ \cup {j \in {made} : kind # "shell" /\ i \in children}]]
        /\ boxes' = IF kind = "face" THEN Append(SyncedBoxes, {}) ELSE SyncedBoxes
        /\ Sync
        /\ UNCHANGED <<any_held, geometry, reads, shapes, since, sharing>>

AddVertex == Insert("vertex", {})
AddEdge(ends) == Cardinality(ends) <= 2 /\ Insert("edge", ends)
AddFace(edges) == edges # {} /\ Insert("face", edges)
AddShell(faces) == faces # {} /\ Insert("shell", faces)

(* note_held: down from the result through what the operation made, to     *)
(* each older node first met.                                              *)
Met(S) == S \cup Children(S \cap Made)
NotedHeld(result) == Met(Met(Met({result}))) \ Made

End(result) ==
    /\ Alone
    /\ since # NoOperation
    /\ nodes' = [i \in DOMAIN nodes |->
                    [nodes[i] EXCEPT !.held = @ \/ i \in NotedHeld(result)]]
    /\ any_held' = (any_held \/ NotedHeld(result) # {})
    /\ shapes' = shapes \cup {result}
    /\ since' = NoOperation
    /\ UNCHANGED <<slots, kept_boxes, geometry, reads, sharing>>

-----------------------------------------------------------------------------
(* Changes in place.                                                       *)
NodeMut(i) ==
    /\ Alone
    /\ nodes[i].data < MaxChanges
    /\ nodes' = [nodes EXCEPT ![i].data = @ + 1]
    /\ boxes' = Forgotten(Above({i}))
    /\ Sync
    /\ reads' = ReadsWithout({i})
    /\ UNCHANGED <<slots, any_held, geometry, shapes, since, sharing>>

(* widen: a node already as wide is left as it stands; boxes hold no       *)
(* tolerance and stay.                                                     *)
Widen(i, to) ==
    LET grown == {j \in Below({i}) : nodes[j].kind # "shell" /\ nodes[j].tolerance < to}
    IN  /\ Alone
        /\ nodes' = [j \in DOMAIN nodes |->
                        IF j \in grown THEN [nodes[j] EXCEPT !.tolerance = to] ELSE nodes[j]]
        /\ boxes' = SyncedBoxes
        /\ Sync
        /\ reads' = ReadsWithout(grown)
        /\ UNCHANGED <<slots, any_held, geometry, shapes, since, sharing>>

(* undo_widened, of an attempt that grew S: every node is handed out for   *)
(* changing, and boxes are not looked at.                                  *)
UndoWidened(S) ==
    /\ Alone
    /\ S # {}
    /\ nodes' = [j \in DOMAIN nodes |->
                    IF j \in S THEN [nodes[j] EXCEPT !.tolerance = 0] ELSE nodes[j]]
    /\ reads' = ReadsWithout(S)
    /\ UNCHANGED <<slots, any_held, kept_boxes, geometry, shapes, since, sharing>>

RewriteSurface ==
    /\ Alone
    /\ edits < MaxChanges
    /\ revision' = revision + 1
    /\ edits' = edits + 1
    /\ UNCHANGED <<nodes, slots, any_held, kept_boxes, reads, shapes, since, sharing>>

RewritePcurve ==
    /\ Alone
    /\ edits < MaxChanges
    /\ edits' = edits + 1
    /\ UNCHANGED <<nodes, slots, any_held, kept_boxes, revision, reads, shapes, since, sharing>>

-----------------------------------------------------------------------------
(* Copying what others hold.                                               *)
MarkedOnly(roots) == {i \in Below(roots) : nodes[i].held}

(* The nodes held below some roots: marked, or below a marked one.         *)
Held(roots) == Below({i \in Below(roots) : nodes[i].held})

CopyOf(copied, i) == IF i \in copied THEN slots + Rank(copied, i) ELSE i
Copies(copied, S) == {CopyOf(copied, i) : i \in S}
Original(copied, k) == At(copied, k - slots)

(* The place of the box of a face's copy, after those there are.           *)
PlaceOf(faces, i) == IF i \in faces THEN Len(boxes) + Rank(faces, i) ELSE 0

DataAsMade(i) == 0

CopiedData(i) == nodes[i].data

OnlyCopies(made, repointed) == made

(* The nodes that are linked to their children: a node repointed is linked *)
(* to the copies it now holds.                                             *)
Relinked(made, repointed) == made \cup repointed

(* Those of some nodes that know they hold c.                              *)
Parents(ns, S, c) == {p \in S : Linkable(ns[p]) /\ c \in ns[p].children}

(* copy_below, with the nodes to be pointed at the copies and those to be  *)
(* noted as held.  A copy of a face keeps its box.                         *)
CopyBelow(copied, repointed, noted) ==
    LET made == Copies(copied, copied)
        faces == copied \cap Faces
        copy(i) == [nodes[i] EXCEPT !.children = Copies(copied, @), !.data = CopiedData(i),
                       !.held_by = {}, !.held = FALSE, !.box = PlaceOf(faces, i)]
        after == [i \in DOMAIN nodes \cup made |->
            IF i \in made
            THEN copy(Original(copied, i))
            ELSE [nodes[i] EXCEPT !.held = @ \/ i \in noted,
                                  !.children = IF i \in repointed THEN Copies(copied, @) ELSE @]]
    IN  /\ slots + Cardinality(copied) <= MaxSlots
        /\ slots' = slots + Cardinality(copied)
        /\ nodes' = [i \in DOMAIN after |->
              [after[i] EXCEPT !.held_by = @ \cup Parents(after, Relinked(made, repointed), i)]]
        /\ boxes' = SyncedBoxes \o [k \in 1..Cardinality(faces) |-> SyncedBoxes[nodes[At(faces, k)].box]]
        /\ box_revision' = revision
        /\ box_any' = (SyncedAny \/ \E i \in faces : SyncedBoxes[nodes[i].box] # {})
        /\ reads' = ReadsWithout(repointed)

(* unshare: the nodes others hold are copied, and what the root holds      *)
(* alone is pointed at the copies.                                         *)
Unshare(root) ==
    LET copied == Held({root})
        repointed == {i \in Below({root}) \ copied : nodes[i].children \cap copied # {}}
    IN  /\ Alone
        /\ since = NoOperation
        /\ any_held /\ ~nodes[root].held
        /\ copied # {}
        /\ CopyBelow(copied, repointed, {})
        /\ UNCHANGED <<any_held, geometry, shapes, since, sharing>>

(* unshare_each, with which an operation begins that edits what it is      *)
(* given: what is on the way down to a held node is copied as well, the    *)
(* roots included, and what the copies share with the originals is noted.  *)
(* The operation goes on with the copies, as with nodes it made.           *)
OnTheWay(roots) == {i \in Below(roots) : Below({i}) \cap Held(roots) # {}}
SharedBy(copied) == Children(copied) \ copied

UnshareEach(roots) ==
    LET copied == OnTheWay(roots)
    IN  /\ Alone
        /\ since = NoOperation
        /\ any_held
        /\ copied # {}
        /\ CopyBelow(copied, {}, SharedBy(copied))
        /\ since' = slots
        /\ UNCHANGED <<any_held, geometry, shapes, sharing>>

-----------------------------------------------------------------------------
(* absorb, of the document of a shape: its nodes are appended as the file  *)
(* has them, marked by nobody, their faces with no box.  A child may come  *)
(* after its parent, so links are made once all are there.                 *)
ReadInto(root) ==
    LET taken == Below({root})
        made == Copies(taken, taken)
        faces == taken \cap Faces
        links(i) == Copies(taken, Parents(nodes, taken, i))
        read(i) == [nodes[i] EXCEPT !.children = Copies(taken, @), !.held = FALSE,
                       !.held_by = links(i), !.box = PlaceOf(faces, i)]
    IN  /\ Alone
        /\ since = NoOperation
        /\ slots + Cardinality(taken) <= MaxSlots
        /\ slots' = slots + Cardinality(taken)
        /\ nodes' = [k \in DOMAIN nodes \cup made |->
                        IF k \in made THEN read(Original(taken, k)) ELSE nodes[k]]
        /\ boxes' = SyncedBoxes \o [k \in 1..Cardinality(faces) |-> {}]
        /\ Sync
        /\ shapes' = shapes \cup {CopyOf(taken, root)}
        /\ UNCHANGED <<any_held, geometry, reads, since, sharing>>

-----------------------------------------------------------------------------
(* Readers, who share the model.                                           *)
Asks(r, doing, i) ==
    /\ since = NoOperation
    /\ readers[r] = Idle
    /\ readers' = [readers EXCEPT ![r] = [doing |-> doing, of |-> i, below |-> {}]]

Goes(r, from, to) ==
    /\ readers[r].doing = from
    /\ readers' = [readers EXCEPT ![r].doing = to]

Ends(r, from) ==
    /\ readers[r].doing = from
    /\ readers' = [readers EXCEPT ![r] = Idle]

(* kept_face_box where no box is kept: the box is found, and the flag that *)
(* one is kept stored before the box is.                                   *)
AskBox(r, i) ==
    /\ ~Stale
    /\ boxes[nodes[i].box] = {}
    /\ Asks(r, "store", i)
    /\ UNCHANGED <<nodes, slots, any_held, kept_boxes, geometry, reads, shapes, since, clone>>

StoreAny(r) ==
    /\ Goes(r, "store", "init")
    /\ box_any' = TRUE
    /\ UNCHANGED <<nodes, slots, any_held, boxes, box_revision, geometry, reads, shapes, since, clone>>

InitBox(r) ==
    /\ Ends(r, "init")
    /\ LET i == readers[r].of
       IN  boxes' = [boxes EXCEPT ![nodes[i].box] = IF @ = {} THEN {Box(i)} ELSE @]
    /\ UNCHANGED <<nodes, slots, any_held, box_revision, box_any, geometry, reads, shapes, since, clone>>

(* kept_read where no read is kept: the shape is read, then the nodes      *)
(* below it gathered, then both kept, each under the lock for itself.      *)
Current == Those(reads, {k \in DOMAIN reads : reads[k].edits = edits})
KeptFor(i, kept) == {k \in DOMAIN kept : kept[k].shape = i}

AskRead(r, i) ==
    /\ KeptFor(i, Current) = {}
    /\ Asks(r, "walk", i)
    /\ UNCHANGED <<nodes, slots, any_held, kept_boxes, geometry, reads, shapes, since, clone>>

(* The walk down from a shape stops at a node in a set kept already, and   *)
(* takes the first such set whole.                                         *)
Containing(x) == {k \in DOMAIN Current : x \in Current[k].below}
Uncovered(S) == {x \in S : Containing(x) = {}}
FirstOf(x) == CHOOSE k \in Containing(x) : \A j \in Containing(x) : k <= j
Steps(S) == S \cup Children(Uncovered(S))
Walked(i) == Steps(Steps(nodes[i].children))

WalkedOnly(i) == {i} \cup Walked(i)

BelowKept(i) ==
    {i} \cup Walked(i) \cup UNION {Current[FirstOf(x)].below : x \in Walked(i) \ Uncovered(Walked(i))}

Walk(r) ==
    LET i == readers[r].of
    IN  /\ readers[r].doing = "walk"
        /\ readers' = [readers EXCEPT ![r].doing = "keep",
              ![r].below = IF KeptFor(i, Current) # {}
                           THEN Current[CHOOSE k \in KeptFor(i, Current) : TRUE].below
                           ELSE BelowKept(i)]
        /\ UNCHANGED <<nodes, slots, any_held, kept_boxes, geometry, reads, shapes, since, clone>>

(* The read takes the place of the one kept for the shape meanwhile, or of *)
(* the oldest shape where as many keep reads as may.                       *)
Kept(i, below) ==
    LET entry == [shape |-> i, below |-> below, edits |-> edits, found |-> Read(i)]
        there == KeptFor(i, Current)
    IN  IF there # {}
        THEN LET k == CHOOSE k \in there : TRUE IN [Current EXCEPT ![k].found = Read(i)]
        ELSE Append(IF Len(Current) >= SHAPES THEN Tail(Current) ELSE Current, entry)

KeepRead(r) ==
    /\ Ends(r, "keep")
    /\ reads' = Kept(readers[r].of, readers[r].below)
    /\ UNCHANGED <<nodes, slots, any_held, kept_boxes, geometry, shapes, since, clone>>

(* A clone takes the reads and the boxes, then the flag; the program goes  *)
(* on with the clone, and leaves the readers to the original.              *)
CloneBoxes ==
    /\ since = NoOperation
    /\ clone = {}
    /\ clone' = {[reads |-> reads, boxes |-> boxes]}
    /\ UNCHANGED <<nodes, slots, any_held, kept_boxes, geometry, reads, shapes, since, readers>>

CloneRest ==
    \E cloned \in clone :
        /\ reads' = cloned.reads
        /\ boxes' = cloned.boxes
        /\ readers' = [r \in Readers |-> Idle]
        /\ clone' = {}
        /\ UNCHANGED <<nodes, slots, any_held, box_revision, box_any, geometry, shapes, since>>

-----------------------------------------------------------------------------
(* retain_reachable: faces keep their boxes in fresh places, in order.     *)
Place(face, faces) == Rank(faces, face)

RetainReachable(roots) ==
    LET kept == Below(roots)
        faces == kept \cap Faces
    IN  /\ Alone
        /\ since = NoOperation
        /\ nodes' = [i \in kept |->
              [nodes[i] EXCEPT !.held_by = @ \cap kept,
                               !.box = IF @ = 0 THEN 0 ELSE Place(i, faces)]]
        /\ boxes' = [k \in 1..Cardinality(faces) |-> boxes[nodes[At(faces, k)].box]]
        /\ any_held' = (\E i \in kept : nodes[i].held)
        /\ reads' = Those(reads, {k \in DOMAIN reads : reads[k].shape \in kept})
        /\ shapes' = shapes \cap kept
        /\ UNCHANGED <<slots, box_revision, box_any, geometry, since, sharing>>

-----------------------------------------------------------------------------
Next ==
    \/ Begin
    \/ AddVertex
    \/ \E ends \in SUBSET OfKind("vertex") : AddEdge(ends)
    \/ \E edges \in SUBSET OfKind("edge") : AddFace(edges)
    \/ \E faces \in SUBSET OfKind("face") : AddShell(faces)
    \/ \E result \in Made \cup Below(shapes) : End(result)
    \/ \E i \in DOMAIN nodes : NodeMut(i) \/ \E to \in 1..MaxChanges : Widen(i, to)
    \/ \E S \in SUBSET {i \in DOMAIN nodes : nodes[i].tolerance > 0} : UndoWidened(S)
    \/ RewriteSurface
    \/ RewritePcurve
    \/ \E root \in shapes : Unshare(root) \/ ReadInto(root)
    \/ \E roots \in SUBSET shapes : UnshareEach(roots)
    \/ \E r \in Readers, i \in Below(shapes) : (i \in Faces /\ AskBox(r, i)) \/ AskRead(r, i)
    \/ \E r \in Readers : StoreAny(r) \/ InitBox(r) \/ Walk(r) \/ KeepRead(r)
    \/ CloneBoxes
    \/ CloneRest
    \/ \E roots \in SUBSET shapes : RetainReachable(roots)

Spec == Init /\ [][Next]_vars

-----------------------------------------------------------------------------
(* A box kept for a face is the one a reader would find now, after any     *)
(* edits below the face, rewrites of surfaces, copies, drops and clones    *)
(* taken while boxes are being kept (face_box_slot, forget_boxes_above).   *)
KeptBoxesAreFresh ==
    ~Stale => \A i \in Faces : boxes[nodes[i].box] \subseteq {Box(i)}

(* A read kept for a shape is what reading it now would find, whatever was *)
(* edited, widened, copied and dropped, and however the sets of nodes it   *)
(* is forgotten by were put together (find, indices_below_kept).           *)
KeptReadsAreFresh ==
    \A k \in DOMAIN reads :
        reads[k].edits = edits => reads[k].found = Read(reads[k].shape)

(* Once a shape has been unshared no other shape callers hold has a node   *)
(* below it: an edit in place changes that shape alone.                    *)
UnsharedIsAlone ==
    [][\A root \in shapes : Unshare(root) =>
        \A other \in shapes \ {root} : (Below({root}))' \cap (Below({other}))' = {}]_vars

(* Adding, marking, copying, dropping and cloning change no shape a caller *)
(* still holds: only an edit of a node does.                               *)
OnlyEditsChangeShapes ==
    [][(\A i \in DOMAIN nodes \cap DOMAIN nodes' : nodes'[i].data = nodes[i].data) =>
        \A i \in shapes \cap shapes' : Meanings(nodes')[i] = Meanings(nodes)[i]]_vars
=============================================================================
