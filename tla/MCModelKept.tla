----------------------------- MODULE MCModelKept -----------------------------
(***************************************************************************)
(* Model-checking ModelKept.  Builders make an edge over a vertex, or two   *)
(* edges, and faces and shells, MaxMade nodes in all; the slots past them  *)
(* are left to copies.  What is changed is an edge or a vertex, and what   *)
(* is read a face or a shell.                                              *)
(***************************************************************************)
EXTENDS ModelKept, SequencesExt

CONSTANTS
    MaxMade,    \* bound: nodes that builders add
    MaxShapes   \* bound: shapes callers hold

OfKinds(kinds) == {i \in DOMAIN nodes : nodes[i].kind \in kinds}
Widened == {i \in DOMAIN nodes : nodes[i].tolerance > 0}
Edited == {i \in DOMAIN nodes : nodes[i].data > 0}
Changes == FoldFunction(LAMBDA n, c : n.data + c, edits, nodes) + (IF Widened = {} THEN 0 ELSE 1)

Built(kinds) == OfKinds(kinds) \cap 1..MaxMade

(* Boxes and reads share no state of their own: a run keeps either, and a  *)
(* clone is made where boxes are.  Two edges, and MaxShapes shapes, are    *)
(* for what copies share, where neither is kept.                           *)
KeepingBoxes == (\E k \in DOMAIN boxes : boxes[k] # {}) \/ box_any \/ clone # {}
KeepingReads == reads # <<>> \/ \E r \in Readers : readers[r].doing \in {"walk", "keep"}

(* An operation makes what is lower first, and what it makes is changed    *)
(* when it has ended: additions and changes of other nodes commute.        *)
Height(i) == IF nodes[i].kind = "vertex" THEN 0 ELSE IF nodes[i].kind = "edge" THEN 1
             ELSE IF nodes[i].kind = "face" THEN 2 ELSE 3
LowerFirst == since # NoOperation => \A i, j \in Made : i < j => Height(i) <= Height(j)

ChangedBetween ==
    since # NoOperation =>
        /\ \/ slots' = slots \/ slots' <= MaxMade
           \/ slots' = MaxSlots /\ nodes'[MaxSlots].kind = "shell"
        /\ edits' = edits
        /\ \A i \in DOMAIN nodes : /\ nodes'[i].data = nodes[i].data
                                   /\ nodes'[i].tolerance = nodes[i].tolerance

Small ==
    /\ LowerFirst
    /\ since # NoOperation /\ since >= MaxMade => slots > since
    /\ since = NoOperation /\ slots <= MaxMade => DOMAIN nodes = Below(shapes)
    /\ \A r \in Readers : readers[r].of \notin OfKinds({"vertex", "edge"})
    /\ ~(KeepingBoxes /\ KeepingReads)
    /\ Changes <= MaxChanges
    /\ Widened \cup Edited \subseteq OfKinds({"vertex", "edge"})
    /\ Cardinality(Built({"vertex"})) <= 1
    /\ Cardinality(Built({"vertex", "edge"})) <= 2
    /\ Cardinality(Built({"edge"})) = 2 => Built({"shell"}) = {}
    /\ shapes \subseteq OfKinds({"face", "shell"})
    /\ Cardinality(shapes) <= MaxShapes
    /\ KeepingBoxes \/ KeepingReads =>
          Cardinality(shapes) < MaxShapes /\ Built({"vertex"}) # {}

Symmetry == Permutations(Readers)
=============================================================================
