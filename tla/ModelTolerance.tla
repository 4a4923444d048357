--------------------------- MODULE ModelTolerance ---------------------------
(***************************************************************************)
(* The tolerances of a model's nodes (Model, ogeom-topo/src/model.rs):     *)
(* builders that keep every boundary at least as loose as what it bounds,  *)
(* widening, edits in place, and attempts that note what they widen and    *)
(* put it back when they fail.                                             *)
(*                                                                         *)
(* Vertices, edges, wires and faces are modelled; what is above a face     *)
(* carries no tolerance.  A tolerance is a number, the least one being     *)
(* Tolerance::MIN; a wire carries none.                                    *)
(*                                                                         *)
(* Operations hold their marks as a stack: each ends the attempts it began *)
(* before it returns, and when one is undone no shape of a node made in it *)
(* is kept by the operation that undoes it.                                *)
(***************************************************************************)
EXTENDS WidenJournal, FiniteSets

CONSTANTS
    MIN,            \* the least tolerance
    MaxOf,          \* bound: how many nodes of each kind are added
    MaxAttempts     \* bound: how deep attempts nest

ASSUME ToleranceAssumption ==
    /\ MIN \in Nat \ {0}
    /\ MaxTol \in Nat
    /\ MaxLog \in Nat
    /\ MaxAttempts \in Nat

Kinds == {"Vertex", "Edge", "Wire", "Face"}
Tolerances == MIN..MaxTol
NoTolerance == 0

VARIABLES
    nodes,      \* the nodes, children before what holds them
    attempts,   \* the attempts under way: where each was marked, and how
                \* many nodes there were
    dead        \* nodes made in an attempt that was undone

vars == <<nodes, tol, open, log, attempts, dead>>

Init ==
    /\ nodes = <<>>
    /\ tol = <<>>
    /\ open = FALSE
    /\ log = <<>>
    /\ attempts = <<>>
    /\ dead = {}

-----------------------------------------------------------------------------
Ids == DOMAIN nodes
Live == Ids \ dead
OfKind(kind) == {n \in Live : nodes[n].kind = kind}

Holds(S) == UNION {nodes[n].children : n \in S}

OnlyThemselves(S) == S

(* The nodes S and every node below them: a face is the highest and three  *)
(* steps above a vertex.                                                   *)
Below(S) == S \cup Holds(S) \cup Holds(Holds(S)) \cup Holds(Holds(Holds(S)))

(* The nodes at or below S that widening to a tolerance changes: those     *)
(* with a tolerance, and a tighter one.                                    *)
Grown(S, to) == {n \in Below(S) : tol[n] # NoTolerance /\ tol[n] < to}

Widened(grown, to) == [n \in Ids |-> IF n \in grown THEN to ELSE tol[n]]

Noting(changed) == [n \in changed |-> tol[n]]

RoomToNote == open => Len(log) < MaxLog

(* Make S and all below it at least as loose as `to`: Model::widen.        *)
WidenBelow(S, to) ==
    /\ RoomToNote
    /\ tol' = Widened(Grown(S, to), to)
    /\ log' = WithNoted(Noting(Grown(S, to)))

(* Add a node over some children, once what bounds it is as loose as it.   *)
Add(kind, children, own, bounding) ==
    LET widened == Widened(Grown(bounding, own), own)
    IN  /\ RoomToNote
        /\ Cardinality({n \in Ids : nodes[n].kind = kind}) < MaxOf[kind]
        /\ nodes' = Append(nodes, [kind |-> kind, children |-> children])
        /\ tol' = Append(widened, own)
        /\ log' = WithNoted(Noting(Grown(bounding, own)))
        /\ UNCHANGED <<open, attempts, dead>>

AddVertex(own) == Add("Vertex", {}, own, {})

(* Its ends are widened to the edge's tolerance; a closed edge has one     *)
(* vertex at both.                                                         *)
AddEdge(own, ends) ==
    /\ \A a, b, c \in ends : a = b \/ b = c \/ a = c
    /\ Add("Edge", ends, own, ends)

AddWire(edges) ==
    /\ edges # {}
    /\ Add("Wire", edges, NoTolerance, {})

(* No edge is tighter than MIN, so a face at MIN widens none.              *)
AddFace(own, wires) ==
    Add("Face", wires, own, IF own > MIN THEN Holds(wires) ELSE {})

Widen(n, to) ==
    /\ WidenBelow({n}, to)
    /\ UNCHANGED <<nodes, open, attempts, dead>>

(* node_mut hands a node out to be edited, noting its tolerance whatever   *)
(* the edit; an edit that loosens the node widens what is below it too.    *)
NodeMut(n, to) ==
    /\ tol[n] # NoTolerance
    /\ tol[n] <= to
    /\ RoomToNote
    /\ tol' = Widened(Grown({n}, to), to)
    /\ log' = WithNoted(Noting({n} \cup Grown({n}, to)))
    /\ UNCHANGED <<nodes, open, attempts, dead>>

-----------------------------------------------------------------------------
Last == attempts[Len(attempts)]
WithoutLast == SubSeq(attempts, 1, Len(attempts) - 1)

(* An attempt begins: note_widened.                                        *)
Begin ==
    /\ Len(attempts) < MaxAttempts
    /\ NoteWidened
    /\ attempts' = Append(attempts, [mark |-> Mark, made |-> Len(nodes)])
    /\ UNCHANGED <<nodes, dead>>

(* It succeeded: keep_widened.                                             *)
Keep ==
    /\ attempts # <<>>
    /\ KeepWidened(Last.mark)
    /\ attempts' = WithoutLast
    /\ UNCHANGED <<nodes, dead>>

(* It failed: undo_widened, and what it made is let go.                    *)
Undo ==
    /\ attempts # <<>>
    /\ UndoWidened(Last.mark)
    /\ attempts' = WithoutLast
    /\ dead' = dead \cup (Last.made + 1)..Len(nodes)
    /\ UNCHANGED nodes

Next ==
    \/ \E own \in Tolerances : AddVertex(own)
    \/ \E own \in Tolerances, ends \in SUBSET OfKind("Vertex") : AddEdge(own, ends)
    \/ \E edges \in SUBSET OfKind("Edge") : AddWire(edges)
    \/ \E own \in Tolerances, wires \in SUBSET OfKind("Wire") : AddFace(own, wires)
    \/ \E n \in Live, to \in Tolerances : Widen(n, to)
    \/ \E n \in Live, to \in Tolerances : NodeMut(n, to)
    \/ Begin \/ Keep \/ Undo

Spec == Init /\ [][Next]_vars

-----------------------------------------------------------------------------
Node == [kind : Kinds, children : SUBSET Nat]
Noted == UNION {[S -> Tolerances] : S \in SUBSET Ids}
Attempt == [mark : [from : 0..Len(log), opened : BOOLEAN], made : 0..Len(nodes)]

TypeOK ==
    /\ nodes \in Seq(Node)
    /\ tol \in [Ids -> Tolerances \cup {NoTolerance}]
    /\ \A n \in Ids : tol[n] = NoTolerance <=> nodes[n].kind = "Wire"
    /\ open \in BOOLEAN
    /\ log \in Seq(Noted)
    /\ ~open => log = <<>>
    /\ attempts \in Seq(Attempt)
    /\ dead \in SUBSET Ids

(* A boundary is at least as loose as what it bounds, in every shape a     *)
(* caller can hold: an edge's vertices as the edge, a face's edges as the  *)
(* face, across the wires that hold them (check_tolerances).  It must hold *)
(* through widening of shared nodes and through attempts that are undone.  *)
Contained ==
    /\ \A e \in OfKind("Edge") : \A v \in nodes[e].children : tol[e] <= tol[v]
    /\ \A f \in OfKind("Face") : \A e \in Holds(nodes[f].children) : tol[f] <= tol[e]

(* The journal is open exactly while an attempt is under way, and only the *)
(* outermost closes it.                                                    *)
OpenWhileAttempting ==
    /\ open <=> attempts # <<>>
    /\ \A k \in DOMAIN attempts : attempts[k].mark.opened <=> k = 1

(* The journal is a stack of saved tolerances: putting back what was noted *)
(* since an attempt's mark gives the nodes it began with the tolerances    *)
(* they had then, whatever was widened since and whichever attempts within *)
(* it were kept or undone.                                                 *)
SavedBy(attempt) ==
    [n \in 1..attempt.made |-> PutBack(attempt.mark.from)[n]]

Tentative == INSTANCE TentativeTolerances
    WITH saved <- [k \in DOMAIN attempts |-> SavedBy(attempts[k])]

ImplementsTentative == Tentative!Spec
=============================================================================
