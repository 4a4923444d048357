-------------------------- MODULE MCModelTolerance --------------------------
(* Faces over shared edges without attempts, and attempts three deep over   *)
(* an edge alone.  A tolerance is looser than another that is looser than   *)
(* MIN.                                                                     *)
EXTENDS ModelTolerance

FacesOverEdges ==
    [kind \in Kinds |-> IF kind \in {"Vertex", "Edge"} THEN 2 ELSE 1]
EdgeAlone == [kind \in Kinds |-> IF kind \in {"Wire", "Face"} THEN 0 ELSE 1]

WithinBounds ==
    \/ attempts = <<>> /\ dead = {}
    \/ \A kind \in Kinds : Cardinality({n \in Ids : nodes[n].kind = kind}) <= EdgeAlone[kind]
=============================================================================
