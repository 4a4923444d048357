----------------------------- MODULE Tessellate -----------------------------
(***************************************************************************)
(* Storing a tessellation on the model (tessellate, ogeom-mesh/src/        *)
(* attach.rs), composed with the meshing of its faces: the faces are       *)
(* meshed, then every edge is given the polyline of the chords they agreed *)
(* on, then every face its mesh and each of its edges the path it walks    *)
(* through that mesh.  The model is written edge by edge and face by face, *)
(* and a cancelled watch or a face that would not draw stops between two.  *)
(*                                                                         *)
(* The shape has been unshared: no other shape holds its faces and edges.  *)
(* A face it holds twice is meshed and stored once for each place, and     *)
(* every mesh goes on the one node: the last one stays.                    *)
(***************************************************************************)
EXTENDS FaceMeshes

CONSTANT Model      \* the shape as the model holds it: a content per face

ASSUME ModelAssumption == Model \in Builds

VARIABLES
    storing,    \* what is being stored, "none" between tessellations
    left,       \* the edges, then the faces, not stored yet
    line,       \* the polyline of each edge: the chord it was drawn to
    mesh,       \* the mesh on each face's node, under the id it was added with
    path,       \* the ids of the meshes each edge walks
    whole       \* history: the last tessellation was stored to its end

stored == <<storing, left, line, mesh, path, whole>>
vars == <<meshing, stored>>

(* A mesh is added with an id of its own for every face of every call.     *)
Ids == Faces \X (1..MaxCalls)

Nodes == {NodeOf[f] : f \in Faces}

StoredTypeOK ==
    /\ TypeOK
    /\ storing \in {"none", "meshing", "edges", "faces"}
    /\ left \subseteq IF storing = "edges" THEN Edges ELSE Faces
    /\ line \in [Edges -> Lines]
    /\ path \in [Edges -> SUBSET Ids]

StoredInit ==
    /\ Init
    /\ storing = "none" /\ left = {} /\ whole = TRUE
    /\ line = [e \in Edges |-> NoLine]
    /\ mesh = [n \in Nodes |-> NoMesh]
    /\ path = [e \in Edges |-> {}]

-----------------------------------------------------------------------------
(* What the edges of each face of the model's shape carry.                 *)
Carried ==
    [f \in Faces |->
        IF \E e \in EdgeSet(f) : path[e] # {} THEN Unread
        ELSE [i \in DOMAIN EdgesOf[f] |-> line[EdgesOf[f][i]]]]

(* face_meshes for a caller that keeps the meshes itself, and a cache: of  *)
(* a shape built anew, or of the model's own.                              *)
MeshFaces ==
    /\ storing = "none"
    /\ \E d \in Deflections :
        \/ \E b \in Builds : Call(b, d, TRUE, Bare)
        \/ Call(Model, d, TRUE, Carried)
    /\ UNCHANGED stored

(* tessellate: the faces of the model's own shape, without a cache.        *)
StartTessellating ==
    /\ storing = "none"
    /\ \E d \in Deflections : Call(Model, d, FALSE, Carried)
    /\ storing' = "meshing"
    /\ UNCHANGED <<left, line, mesh, path, whole>>

MeshingStep == Step /\ UNCHANGED stored

StartStoring ==
    /\ storing = "meshing" /\ stage \in {"done", "refused"}
    /\ IF stage = "done"
       THEN storing' = "edges" /\ left' = Edges /\ whole' = FALSE
       ELSE storing' = "none" /\ UNCHANGED <<left, whole>>
    /\ UNCHANGED <<meshing, line, mesh, path>>

(* Mutants of StoreLine: the line is drawn to the caller's chord; the      *)
(* paths through earlier meshes stay.                                      *)
LineAtCallersChord(e) ==
    /\ storing = "edges" /\ e \in left /\ \A g \in left : e <= g
    /\ left' = left \ {e}
    /\ line' = [line EXCEPT ![e] = [deflection |-> deflection, at |-> 0]]
    /\ path' = [path EXCEPT ![e] = {}]
    /\ UNCHANGED <<meshing, storing, mesh, whole>>

PathsStay(e) ==
    /\ storing = "edges" /\ e \in left /\ \A g \in left : e <= g
    /\ left' = left \ {e}
    /\ line' = [line EXCEPT ![e] = [deflection |-> deflection, at |-> finer[e]]]
    /\ UNCHANGED <<meshing, storing, mesh, path, whole>>

(* store_polyline, edge by edge: it replaces the edge's polyline and the   *)
(* paths that came with it.                                                *)
StoreLine(e) ==
    /\ storing = "edges" /\ e \in left /\ \A g \in left : e <= g
    /\ left' = left \ {e}
    /\ line' = [line EXCEPT ![e] = [deflection |-> deflection, at |-> finer[e]]]
    /\ path' = [path EXCEPT ![e] = {}]
    /\ UNCHANGED <<meshing, storing, mesh, whole>>

(* The edges' polylines are all stored: the faces follow, in their order.  *)
EdgesStored ==
    /\ storing = "edges" /\ left = {}
    /\ storing' = "faces" /\ left' = Faces
    /\ UNCHANGED <<meshing, line, mesh, path, whole>>

(* Whether the points of an edge's polyline are corners of a mesh.         *)
Walks(m, f, e) ==
    \E i \in DOMAIN EdgesOf[f] :
        /\ EdgesOf[f][i] = e
        /\ line[e] = [deflection |-> m.drawn.deflection, at |-> m.drawn.at[i]]

(* The next face is given its mesh, over any its node has, and its edges   *)
(* their paths through it, beside any they have.                           *)
StoreFace(f) ==
    /\ storing = "faces" /\ f \in left /\ \A g \in left : f <= g
    /\ computed[f] # Failed
    /\ left' = left \ {f}
    /\ mesh' = [mesh EXCEPT ![NodeOf[f]] = [id |-> <<f, calls>>, mesh |-> computed[f]]]
    /\ path' = [e \in Edges |->
            IF e \in EdgeSet(f) /\ Walks(computed[f], f, e)
            THEN path[e] \cup {<<f, calls>>} ELSE path[e]]
    /\ UNCHANGED <<meshing, storing, line, whole>>

FacesStored ==
    /\ storing = "faces" /\ left = {}
    /\ storing' = "none"
    /\ whole' = TRUE
    /\ UNCHANGED <<meshing, left, line, mesh, path>>

(* A face that did not draw, or a watch cancelled: what is stored stays.   *)
Stop ==
    /\ storing \in {"edges", "faces"} /\ left # {}
    /\ storing' = "none" /\ left' = {}
    /\ UNCHANGED <<meshing, line, mesh, path, whole>>

StoredNext ==
    \/ MeshFaces \/ StartTessellating \/ MeshingStep \/ StartStoring
    \/ \E e \in Edges : StoreLine(e)
    \/ \E f \in Faces : StoreFace(f)
    \/ EdgesStored \/ FacesStored \/ Stop

StoredSpec == StoredInit /\ [][StoredNext]_vars

-----------------------------------------------------------------------------
IsStored(n) == "mesh" \in DOMAIN mesh[n]

BoundaryAgrees(f) ==
    LET m == mesh[NodeOf[f]].mesh
    IN  \A i \in DOMAIN EdgesOf[f] :
            line[EdgesOf[f][i]] = [deflection |-> m.drawn.deflection, at |-> m.drawn.at[i]]

(* The stored form: the polyline of an edge runs through the points of     *)
(* every mesh stored on the faces it bounds.                               *)
StoredBoundariesAgree ==
    storing = "none" => \A f \in {g \in Faces : IsStored(NodeOf[g])} : BoundaryAgrees(f)

(* A tessellation stored to its end, whose faces came to agree, leaves no  *)
(* gap between the polylines and the meshes, whatever earlier ones left.   *)
WholeTessellationHasNoGaps ==
    (storing = "none" /\ whole) =>
        \A f \in {g \in Faces : IsStored(NodeOf[g])} :
            calls = mesh[NodeOf[f]].id[2] /\ changed = {} => BoundaryAgrees(f)

(* A path an edge keeps is one through a mesh added by the tessellation    *)
(* its face's mesh is from, and fits the edge's own polyline: however a    *)
(* tessellation stopped, none is left into a mesh an earlier one added.    *)
(* The mesh it names is the one its face carries, or one replaced since by *)
(* a later place of the same face: a face that has one place has no path   *)
(* into a mesh that was replaced.                                          *)
PathsWalkTheirMesh ==
    \A e \in Edges : \A p \in path[e] :
        LET n == NodeOf[p[1]]
        IN  /\ IsStored(n)
            /\ NodeOf[mesh[n].id[1]] = n /\ p[1] <= mesh[n].id[1]
            /\ mesh[n].id[2] = p[2]
            /\ Walks(mesh[n].mesh, p[1], e)
=============================================================================
